------------------------ MODULE CompetitionRuns_proofs ------------------------
(***************************************************************************)
(* For any number of requests and any times: what a request submits comes  *)
(* from its own run, or from one with the same workspace name; each is     *)
(* answered as RequestAnswers promises, and no task is left open.          *)
(***************************************************************************)
EXTENDS CompetitionRuns, TLAPS

\* A request that has its workspace, under the name of its competition and
\* of the second it bootstrapped in.
Settled(r) ==
    /\ pc[r] \notin {"unsent", "extracting", "starting"}
    /\ workspace[r] \in Workspaces
    /\ workspace[r] = <<IF competition[r] = None THEN "competition" ELSE competition[r],
                        began[r]>>

Typed ==
    /\ pc \in [Requests -> PCs]
    /\ competition \in [Requests -> Competitions \cup {None}]
    /\ began \in [Requests -> 0..MaxClock \cup {None}]
    /\ workspace \in [Requests -> Workspaces \cup {None}]
    /\ submission \in [Workspaces -> Requests \cup {None}]
    /\ artifact \in [Requests -> Requests \cup {None}]
    /\ clock \in 0..MaxClock

InGraph == \A r \in Requests : pc[r] \in {"visiting", "submitting"} => Settled(r)

\* A submission lies in the workspace of its writer.
Written ==
    \A w \in Workspaces : submission[w] \in Requests =>
        Settled(submission[w]) /\ workspace[submission[w]] = w

Submitted ==
    \A r \in Requests : artifact[r] \in Requests =>
        /\ Settled(r)
        /\ Settled(artifact[r])
        /\ workspace[artifact[r]] = workspace[r]

Inv == Typed /\ InGraph /\ Written /\ Submitted

-----------------------------------------------------------------------------
LEMMA InvInit == Init => Inv
  BY RunsAssumption
  DEF Init, Inv, Typed, InGraph, Written, Submitted, PCs

\* A step that moves one request on, past its bootstrap or not, and leaves
\* the runs, the disk and the artifacts alone.
LEMMA Moved ==
  ASSUME Inv, NEW r \in Requests, NEW label \in PCs, Goto(r, label),
         UNCHANGED <<runs, submission, artifact, clock>>,
         label \in {"extracting", "starting"} => pc[r] \in {"unsent", "extracting"},
         label \in {"visiting", "submitting"} => pc[r] \in {"visiting", "submitting"},
         label # "unsent"
  PROVE  Inv'
<1> USE DEF Inv, Goto, runs
<1>1. Typed'
  BY DEF Typed
<1>2. \A q \in Requests : Settled(q) => Settled(q)'
  BY DEF Settled, Typed, PCs
<1>3. InGraph'
  BY <1>2 DEF InGraph, Typed
<1>4. Written'
  BY <1>2 DEF Written, Typed
<1>5. Submitted'
  BY <1>2 DEF Submitted, Typed
<1> QED
  BY <1>1, <1>3, <1>4, <1>5

LEMMA InvStep == Inv /\ [Next]_vars => Inv'
<1> SUFFICES ASSUME Inv, [Next]_vars PROVE Inv'
  OBVIOUS
<1>1. ASSUME NEW r \in Requests, NEW t \in Tasks, ReceiveTar(r, t) PROVE Inv'
  BY <1>1, Moved DEF ReceiveTar, disk, PCs
<1>2. ASSUME NEW r \in Requests, NEW t \in Tasks, ReceiveText(r, t) PROVE Inv'
  BY <1>2, Moved DEF ReceiveText, disk, PCs
<1>3. ASSUME NEW r \in Requests,
             \/ ExtractFails(r) \/ AgentRaises(r) \/ GraphReturns(r) \/ GraphRaises(r)
             \/ NothingToSubmit(r) \/ Complete(r) \/ Fail(r)
      PROVE  Inv'
  BY <1>3, Moved
  DEF ExtractFails, AgentRaises, GraphReturns, GraphRaises, NothingToSubmit, Complete, Fail,
      disk, PCs
<1>4. ASSUME NEW r \in Requests, Extract(r) PROVE Inv'
  <2> USE <1>4 DEF Inv, Extract, Goto, disk
  <2>1. Typed'
    BY DEF Typed, PCs
  <2>2. \A q \in Requests : Settled(q) => Settled(q)'
    BY DEF Settled, Typed, PCs
  <2>3. InGraph'
    BY <2>2 DEF InGraph, Typed
  <2>4. Written'
    BY <2>2 DEF Written, Typed
  <2>5. Submitted'
    BY <2>2 DEF Submitted, Typed
  <2> QED
    BY <2>1, <2>3, <2>4, <2>5
<1>5. ASSUME NEW r \in Requests, Bootstrap(r) PROVE Inv'
  <2> USE <1>5 DEF Inv, Bootstrap, Goto
  <2>0. Name(competition[r]) \in Workspaces
    BY DEF Name, Workspaces, Typed
  <2>1. Typed'
    BY <2>0 DEF Typed, PCs
  <2>2. \A q \in Requests : Settled(q) => Settled(q)' /\ workspace'[q] = workspace[q]
    BY DEF Settled, Typed, PCs
  <2>3. Settled(r)'
    BY <2>0 DEF Settled, Name, Typed
  <2>4. InGraph'
    BY <2>2, <2>3 DEF InGraph, Typed
  <2>5. Written'
    BY <2>2 DEF Written, Typed
  <2>6. Submitted'
    BY <2>2 DEF Submitted, Typed
  <2> QED
    BY <2>1, <2>4, <2>5, <2>6
<1>6. ASSUME NEW r \in Requests, VisitWrites(r) PROVE Inv'
  <2> USE <1>6 DEF Inv, VisitWrites, runs
  <2>1. Typed'
    BY DEF Typed
  <2>2. \A q \in Requests : Settled(q)' <=> Settled(q)
    BY DEF Settled
  <2>3. InGraph'
    BY <2>2 DEF InGraph
  <2>4. Settled(r)
    BY DEF InGraph
  <2>5. Written'
    BY <2>2, <2>4 DEF Written, Typed
  <2>6. Submitted'
    BY <2>2 DEF Submitted
  <2> QED
    BY <2>1, <2>3, <2>5, <2>6
<1>7. ASSUME NEW r \in Requests, VisitCut(r) PROVE Inv'
  BY <1>7 DEF VisitCut, Inv, Typed, InGraph, Written, Submitted, Settled, disk
<1>8. ASSUME NEW r \in Requests, Submit(r) PROVE Inv'
  <2> DEFINE w == workspace[r]
             writer == IF submission[w] = None THEN r ELSE submission[w]
  <2> USE <1>8 DEF Inv, Submit, Goto, runs
  <2>1. Settled(r) /\ w \in Workspaces
    BY DEF InGraph, Settled
  <2>2. writer \in Requests /\ Settled(writer) /\ workspace[writer] = w
    BY <2>1 DEF Written, Typed
  <2>3. Typed'
    BY <2>2 DEF Typed, PCs
  <2>4. \A q \in Requests : Settled(q) => Settled(q)'
    BY DEF Settled, Typed
  <2>5. InGraph'
    BY <2>4 DEF InGraph, Typed
  <2>6. Written'
    BY <2>1, <2>2, <2>4 DEF Written, Typed
  <2>7. Submitted'
    BY <2>1, <2>2, <2>4 DEF Submitted, Typed
  <2> QED
    BY <2>3, <2>5, <2>6, <2>7
<1>9. CASE Tick
  <2> USE <1>9 DEF Tick, Inv, runs, disk
  <2>1. Typed'
    BY RunsAssumption DEF Typed
  <2>2. InGraph' /\ Written' /\ Submitted'
    BY DEF InGraph, Written, Submitted, Settled
  <2> QED
    BY <2>1, <2>2
<1>10. CASE UNCHANGED vars
  BY <1>10 DEF vars, Inv, Typed, InGraph, Written, Submitted, Settled, runs, disk
<1> QED
  BY <1>1, <1>2, <1>3, <1>4, <1>5, <1>6, <1>7, <1>8, <1>9, <1>10
  DEF Next, Receive, Progress, Visit, Quiet

-----------------------------------------------------------------------------
(* One answer per request *)

Events == {"working", "artifact"} \cup Terminal

\* No event of s is a terminal status, respectively only its last one is.
Open(s) == \A i \in 1..Len(s) : s[i] \notin Terminal
Closed(s) == Len(s) > 0 /\ \A i \in 1..Len(s) : s[i] \in Terminal <=> i = Len(s)

\* A request sends no terminal status before Agent.run leaves, and has sent
\* exactly one when execute is over.
Answering ==
    /\ pc \in [Requests -> PCs]
    /\ sent \in [Requests -> Seq(Events)]
    /\ \A r \in Requests :
          /\ pc[r] \notin {"returned", "over"} => Open(sent[r])
          /\ pc[r] = "returned" => Open(sent[r]) \/ Closed(sent[r])
          /\ pc[r] = "over" => Closed(sent[r])

LEMMA OpenConcat ==
  ASSUME NEW s \in Seq(Events), NEW t \in Seq(Events), Open(s), Open(t)
  PROVE  s \o t \in Seq(Events) /\ Open(s \o t)
  BY DEF Open

LEMMA CloseConcat ==
  ASSUME NEW s \in Seq(Events), NEW e \in Terminal, Open(s)
  PROVE  s \o <<e>> \in Seq(Events) /\ Closed(s \o <<e>>)
  BY DEF Open, Closed, Events

\* What a step of one request sends decides where it may go.
LEMMA SentStep ==
  ASSUME Answering, NEW r \in Requests, NEW label \in PCs, NEW evs \in Seq(Events),
         Goto(r, label), sent' = [sent EXCEPT ![r] = @ \o evs],
         \/ label \notin {"returned", "over"} /\ Open(sent[r] \o evs)
         \/ label = "returned" /\ (Open(sent[r] \o evs) \/ Closed(sent[r] \o evs))
         \/ label = "over" /\ Closed(sent[r] \o evs)
  PROVE  Answering'
  BY DEF Answering, Goto, Open, Closed

LEMMA AnsweringInit == Init => Answering
  BY DEF Init, Answering, PCs, Open

LEMMA AnsweringStep == Answering /\ [Next]_vars => Answering'
<1> SUFFICES ASSUME Answering, [Next]_vars PROVE Answering'
  OBVIOUS
<1>1. /\ <<"working">> \in Seq(Events) /\ Open(<<"working">>)
      /\ <<"working", "working">> \in Seq(Events) /\ Open(<<"working", "working">>)
      /\ <<"working", "working", "artifact">> \in Seq(Events)
      /\ Open(<<"working", "working", "artifact">>)
  BY DEF Events, Open, Terminal
<1>2. <<"failed">> \in Seq(Events) /\ <<"completed">> \in Seq(Events) /\ <<>> \in Seq(Events)
  BY DEF Events, Terminal
<1>3. ASSUME NEW r \in Requests, NEW t \in Tasks, ReceiveTar(r, t) \/ ReceiveText(r, t)
      PROVE  Answering'
  <2>1. Open(sent[r] \o <<"working", "working">>)
    BY <1>1, <1>3, OpenConcat DEF Answering, ReceiveTar, ReceiveText
  <2> QED
    BY <1>1, <1>3, <2>1, SentStep DEF ReceiveTar, ReceiveText, SendsTo, PCs
<1>4. ASSUME NEW r \in Requests, ExtractFails(r) \/ GraphRaises(r) \/ NothingToSubmit(r)
      PROVE  Answering'
  <2>1. Closed(sent[r] \o <<"failed">>)
    BY <1>4, CloseConcat
    DEF Answering, ExtractFails, GraphRaises, NothingToSubmit, Terminal
  <2> QED
    BY <1>2, <1>4, <2>1, SentStep
    DEF ExtractFails, GraphRaises, NothingToSubmit, Sends, SendsTo, PCs
<1>5. ASSUME NEW r \in Requests, Extract(r) PROVE Answering'
  <2>1. Open(sent[r] \o <<"working">>)
    BY <1>1, <1>5, OpenConcat DEF Answering, Extract
  <2> QED
    BY <1>1, <1>5, <2>1, SentStep DEF Extract, Sends, SendsTo, PCs
<1>6. ASSUME NEW r \in Requests, AgentRaises(r) \/ Bootstrap(r) \/ GraphReturns(r)
      PROVE  Answering'
  BY <1>6 DEF AgentRaises, Bootstrap, GraphReturns, Goto, tasks, Answering, PCs
<1>7. ASSUME NEW r \in Requests, VisitWrites(r) \/ VisitCut(r) PROVE Answering'
  BY <1>7 DEF VisitWrites, VisitCut, tasks, Answering
<1>8. ASSUME NEW r \in Requests, Submit(r) PROVE Answering'
  <2>1. Open(sent[r] \o <<"working", "working", "artifact">>)
    BY <1>1, <1>8, OpenConcat DEF Answering, Submit
  <2> QED
    BY <1>1, <1>8, <2>1, SentStep DEF Submit, Sends, SendsTo, PCs
<1>9. ASSUME NEW r \in Requests, Complete(r) PROVE Answering'
  <2>1. CASE TerminalReached(r)
    <3>1. Closed(sent[r]) /\ sent[r] \o <<>> = sent[r]
      BY <1>9, <2>1 DEF Complete, Answering, TerminalReached, Open
    <3> QED
      BY <1>2, <1>9, <2>1, <3>1, SentStep DEF Complete, Sends, SendsTo, PCs
  <2>2. CASE ~TerminalReached(r)
    <3>1. Open(sent[r])
      BY <2>2 DEF TerminalReached, Open
    <3>2. Closed(sent[r] \o <<"completed">>)
      BY <3>1, CloseConcat DEF Answering, Terminal
    <3> QED
      BY <1>2, <1>9, <2>2, <3>2, SentStep DEF Complete, Sends, SendsTo, PCs
  <2> QED
    BY <2>1, <2>2
<1>10. ASSUME NEW r \in Requests, Fail(r) PROVE Answering'
  <2>1. Closed(sent[r] \o <<"failed">>)
    BY <1>10, CloseConcat DEF Answering, Fail, Terminal
  <2> QED
    BY <1>2, <1>10, <2>1, SentStep DEF Fail, Sends, SendsTo, PCs
<1>11. CASE Tick \/ UNCHANGED vars
  BY <1>11 DEF Tick, vars, tasks, Answering
<1> QED
  BY <1>3, <1>4, <1>5, <1>6, <1>7, <1>8, <1>9, <1>10, <1>11
  DEF Next, Receive, Progress, Visit, Quiet

-----------------------------------------------------------------------------
\* For any number of requests: what a request submits was written by its own
\* run, or by one that bootstrapped the same competition in the same second.
THEOREM SubmitsItsOwn == Spec => []SubmissionOfOwnRun
<1>1. Inv => SubmissionOfOwnRun
  BY RunsAssumption
  DEF Inv, Submitted, Settled, Typed, SubmissionOfOwnRun
<1> QED
  BY <1>1, InvInit, InvStep, PTL DEF Spec

\* A request sends one terminal status, as its last event, and has sent it
\* when execute is over.
THEOREM AnswersOnce == Spec => []AnsweredOnce
<1>1. Answering => AnsweredOnce
  <2> SUFFICES ASSUME Answering, NEW r \in Requests
               PROVE  LET ends == {i \in 1..Len(sent[r]) : sent[r][i] \in Terminal}
                      IN  /\ ends \subseteq {Len(sent[r])}
                          /\ pc[r] = "over" => ends # {}
    BY DEF AnsweredOnce
  <2>1. sent[r] \in Seq(Events) /\ Len(sent[r]) \in Nat
    BY DEF Answering
  <2>2. Open(sent[r]) \/ Closed(sent[r])
    BY DEF Answering
  <2>3. pc[r] = "over" => Closed(sent[r])
    BY DEF Answering
  <2> QED
    BY <2>1, <2>2, <2>3 DEF Open, Closed
<1> QED
  BY <1>1, AnsweringInit, AnsweringStep, PTL DEF Spec

-----------------------------------------------------------------------------
(* Tasks, and what a request has submitted *)

\* The tasks' part of the types; a request that was sent has its task.
TypedTasks ==
    /\ task \in [Requests -> Tasks \cup {None}]
    /\ status \in [Tasks -> {"none", "working"} \cup Terminal]
    /\ \A r \in Requests : pc[r] # "unsent" => task[r] \in Tasks

\* A task that is working has a request on it that is not over, and has not
\* answered either.
WorkedOn ==
    \A t \in Tasks : status[t] = "working" =>
        \E r \in Requests :
            /\ task[r] = t
            /\ pc[r] \notin {"unsent", "over"}
            /\ ~TerminalReached(r)

TasksInv == Answering /\ TypedTasks /\ WorkedOn

\* The status of the task after events are sent: the last one that is no artifact.
LEMMA StatusSent ==
  ASSUME NEW r, NEW t, NEW evs \in Seq(Events), SendsTo(r, t, evs),
         NEW n \in 1..Len(evs), evs[n] # "artifact",
         \A j \in 1..Len(evs) : j > n => evs[j] = "artifact"
  PROVE  status' = [status EXCEPT ![t] = evs[n]]
<1> DEFINE statuses == {i \in 1..Len(evs) : evs[i] # "artifact"}
<1>1. n \in statuses /\ \A j \in statuses : j <= n
  OBVIOUS
<1>2. (CHOOSE i \in statuses : \A j \in statuses : j <= i) = n
  BY <1>1
<1>3. statuses # {}
  BY <1>1
<1> QED
  BY <1>2, <1>3 DEF SendsTo

LEMMA OneSent ==
  ASSUME NEW r, NEW t, NEW s \in {"working", "failed", "completed"}, SendsTo(r, t, <<s>>)
  PROVE  status' = [status EXCEPT ![t] = s]
<1>1. ASSUME NEW evs \in Seq(Events), Len(evs) = 1, evs[1] = s, SendsTo(r, t, evs)
      PROVE  status' = [status EXCEPT ![t] = s]
  <2>1. 1 \in 1..Len(evs) /\ \A j \in 1..Len(evs) : j > 1 => evs[j] = "artifact"
    BY <1>1
  <2>2. evs[1] # "artifact"
    BY <1>1
  <2>3. status' = [status EXCEPT ![t] = evs[1]]
    BY <1>1, <2>1, <2>2, StatusSent
  <2> QED
    BY <1>1, <2>3
<1>2. <<s>> \in Seq(Events) /\ Len(<<s>>) = 1 /\ <<s>>[1] = s
  BY DEF Events, Terminal
<1> QED
  BY <1>1, <1>2

LEMMA WorkingSent ==
  ASSUME NEW r, NEW t,
         NEW evs \in {<<"working", "working">>, <<"working", "working", "artifact">>},
         SendsTo(r, t, evs)
  PROVE  status' = [status EXCEPT ![t] = "working"]
<1>1. evs \in Seq(Events)
  <2>1. CASE evs = <<"working", "working">>
    BY <2>1 DEF Events
  <2>2. CASE evs = <<"working", "working", "artifact">>
    BY <2>2 DEF Events
  <2> QED
    BY <2>1, <2>2
<1>2. 2 \in 1..Len(evs) /\ evs[2] = "working"
  OBVIOUS
<1>3. \A j \in 1..Len(evs) : j > 2 => evs[j] = "artifact"
  <2>1. CASE evs = <<"working", "working">>
    BY <2>1
  <2>2. CASE evs = <<"working", "working", "artifact">>
    BY <2>2
  <2> QED
    BY <2>1, <2>2
<1>4. status' = [status EXCEPT ![t] = evs[2]]
  BY <1>1, <1>2, <1>3, StatusSent
<1> QED
  BY <1>2, <1>4

LEMMA NothingSent ==
  ASSUME TypedTasks, NEW r, NEW t, SendsTo(r, t, <<>>)
  PROVE  status' = status
<1>1. {i \in 1..Len(<<>>) : <<>>[i] # "artifact"} = {}
  OBVIOUS
<1> QED
  BY <1>1 DEF SendsTo, TypedTasks

\* A step of one request that leaves its task working under its own hands, gives
\* it a terminal status, or changes no status while it does not withdraw.
LEMMA WorkedOnStep ==
  ASSUME TasksInv, NEW r \in Requests, NEW t \in Tasks, NEW label \in PCs \ {"unsent"},
         Goto(r, label),
         task' = [task EXCEPT ![r] = t],
         pc[r] = "unsent" \/ task[r] = t,
         \A q \in Requests : q # r => sent'[q] = sent[q],
         \/ /\ status' = [status EXCEPT ![t] = "working"]
            /\ label # "over" /\ ~TerminalReached(r)'
         \/ \E s \in Terminal : status' = [status EXCEPT ![t] = s]
         \/ /\ status' = status
            /\ TerminalReached(r) \/ (label # "over" /\ sent'[r] = sent[r])
  PROVE  TypedTasks' /\ WorkedOn'
<1> USE DEF TasksInv, TypedTasks, Goto
<1>1. TypedTasks'
  BY DEF Terminal, Answering
<1>2. ASSUME NEW u \in Tasks, status'[u] = "working", u # t
      PROVE  \E q \in Requests : task'[q] = u /\ pc'[q] \notin {"unsent", "over"}
                                 /\ ~TerminalReached(q)'
  <2>1. status[u] = "working"
    BY <1>2
  <2>2. PICK q \in Requests : /\ task[q] = u /\ pc[q] \notin {"unsent", "over"}
                              /\ ~TerminalReached(q)
    BY <2>1 DEF WorkedOn
  <2>3. q # r
    BY <1>2, <2>2
  <2>4. task'[q] = u /\ pc'[q] = pc[q] /\ sent'[q] = sent[q]
    BY <2>2, <2>3 DEF Answering
  <2> QED
    BY <2>2, <2>4 DEF TerminalReached
<1>3. ASSUME status'[t] = "working"
      PROVE  \E q \in Requests : task'[q] = t /\ pc'[q] \notin {"unsent", "over"}
                                 /\ ~TerminalReached(q)'
  <2>1. CASE label # "over" /\ ~TerminalReached(r)'
    <3>1. task'[r] = t /\ pc'[r] = label
      BY DEF Answering
    <3> QED
      BY <2>1, <3>1
  <2>2. CASE status' = status /\ TerminalReached(r)
    <3>1. PICK q \in Requests : /\ task[q] = t /\ pc[q] \notin {"unsent", "over"}
                                /\ ~TerminalReached(q)
      BY <1>3, <2>2 DEF WorkedOn
    <3>2. q # r
      BY <2>2, <3>1
    <3>3. task'[q] = t /\ pc'[q] = pc[q] /\ sent'[q] = sent[q]
      BY <3>1, <3>2 DEF Answering
    <3> QED
      BY <3>1, <3>3 DEF TerminalReached
  <2>3. CASE status' = status /\ ~TerminalReached(r) /\ label # "over" /\ sent'[r] = sent[r]
    <3>1. task'[r] = t /\ pc'[r] = label /\ ~TerminalReached(r)'
      BY <2>3 DEF Answering, TerminalReached
    <3> QED
      BY <2>3, <3>1
  <2>4. CASE \E s \in Terminal : status' = [status EXCEPT ![t] = s]
    BY <1>3, <2>4 DEF Terminal
  <2> QED
    BY <2>1, <2>2, <2>3, <2>4
<1> QED
  BY <1>1, <1>2, <1>3 DEF WorkedOn

LEMMA TasksStep == TasksInv /\ Answering' /\ [Next]_vars => TasksInv'
<1> SUFFICES ASSUME TasksInv, Answering', [Next]_vars PROVE TypedTasks' /\ WorkedOn'
  BY DEF TasksInv
<1>0. /\ <<"working">> \in Seq(Events) /\ <<"working", "working">> \in Seq(Events)
      /\ <<"working", "working", "artifact">> \in Seq(Events)
      /\ <<"failed">> \in Seq(Events) /\ <<"completed">> \in Seq(Events)
      /\ Open(<<"working">>) /\ Open(<<"working", "working">>)
      /\ Open(<<"working", "working", "artifact">>)
  BY DEF Events, Open, Terminal
<1>1. ASSUME NEW r \in Requests, NEW t \in Tasks, ReceiveTar(r, t) \/ ReceiveText(r, t)
      PROVE  TypedTasks' /\ WorkedOn'
  <2> PICK label \in {"extracting", "returned"} : Goto(r, label)
    BY <1>1 DEF ReceiveTar, ReceiveText
  <2>1. /\ pc[r] = "unsent" /\ task' = [task EXCEPT ![r] = t]
        /\ SendsTo(r, t, <<"working", "working">>)
    BY <1>1 DEF ReceiveTar, ReceiveText
  <2>2. status' = [status EXCEPT ![t] = "working"]
    BY <2>1, WorkingSent
  <2>3. Open(sent[r] \o <<"working", "working">>) /\ sent[r] \in Seq(Events)
    <3>1. Open(sent[r]) /\ sent[r] \in Seq(Events)
      BY <2>1 DEF TasksInv, Answering
    <3> QED
      BY <1>0, <3>1, OpenConcat
  <2>4. /\ ~TerminalReached(r)'
        /\ \A q \in Requests : q # r => sent'[q] = sent[q]
    BY <2>1, <2>3 DEF SendsTo, TasksInv, Answering, Open, TerminalReached
  <2> QED
    BY <2>1, <2>2, <2>4, WorkedOnStep DEF PCs
<1>2. ASSUME NEW r \in Requests,
             ExtractFails(r) \/ GraphRaises(r) \/ NothingToSubmit(r) \/ Fail(r)
      PROVE  TypedTasks' /\ WorkedOn'
  <2> PICK label \in {"returned", "over"} : Goto(r, label)
    BY <1>2 DEF ExtractFails, GraphRaises, NothingToSubmit, Fail
  <2>1. pc[r] # "unsent" /\ SendsTo(r, task[r], <<"failed">>) /\ task' = task
    BY <1>2 DEF ExtractFails, GraphRaises, NothingToSubmit, Fail, Sends
  <2>2. task[r] \in Tasks /\ task' = [task EXCEPT ![r] = task[r]]
    BY <2>1 DEF TasksInv, TypedTasks
  <2>3. status' = [status EXCEPT ![task[r]] = "failed"]
    BY <2>1, OneSent
  <2>4. \A q \in Requests : q # r => sent'[q] = sent[q]
    BY <2>1 DEF SendsTo, TasksInv, Answering
  <2> QED
    BY <2>2, <2>3, <2>4, WorkedOnStep DEF PCs, Terminal
<1>3. ASSUME NEW r \in Requests, Extract(r) \/ Submit(r)
      PROVE  TypedTasks' /\ WorkedOn'
  <2> PICK label \in {"starting", "returned"} : Goto(r, label)
    BY <1>3 DEF Extract, Submit
  <2>1. PICK evs \in {<<"working">>, <<"working", "working", "artifact">>} :
           pc[r] \notin {"unsent", "returned", "over"}
           /\ SendsTo(r, task[r], evs) /\ task' = task
    BY <1>3 DEF Extract, Submit, Sends
  <2>2. task[r] \in Tasks /\ task' = [task EXCEPT ![r] = task[r]]
    BY <2>1 DEF TasksInv, TypedTasks
  <2>3. status' = [status EXCEPT ![task[r]] = "working"]
    BY <2>1, OneSent, WorkingSent
  <2>4. evs \in Seq(Events) /\ Open(evs)
    BY <1>0
  <2>5. Open(sent[r] \o evs) /\ sent[r] \in Seq(Events)
    BY <2>1, <2>4, OpenConcat DEF TasksInv, Answering
  <2>6. /\ ~TerminalReached(r)'
        /\ \A q \in Requests : q # r => sent'[q] = sent[q]
    BY <2>1, <2>5 DEF SendsTo, TasksInv, Answering, Open, TerminalReached
  <2> QED
    BY <2>2, <2>3, <2>6, WorkedOnStep DEF PCs
<1>4. ASSUME NEW r \in Requests, AgentRaises(r) \/ Bootstrap(r) \/ GraphReturns(r)
      PROVE  TypedTasks' /\ WorkedOn'
  <2> PICK label \in {"raised", "visiting", "submitting"} : Goto(r, label)
    BY <1>4 DEF AgentRaises, Bootstrap, GraphReturns
  <2>1. pc[r] # "unsent" /\ task' = task /\ status' = status /\ sent' = sent
    BY <1>4 DEF AgentRaises, Bootstrap, GraphReturns, tasks
  <2>2. task[r] \in Tasks /\ task' = [task EXCEPT ![r] = task[r]]
    BY <2>1 DEF TasksInv, TypedTasks
  <2> QED
    BY <2>1, <2>2, WorkedOnStep DEF PCs
<1>5. ASSUME NEW r \in Requests, Complete(r) PROVE TypedTasks' /\ WorkedOn'
  <2>1. /\ pc[r] # "unsent" /\ Goto(r, "over") /\ task' = task
        /\ SendsTo(r, task[r], IF TerminalReached(r) THEN <<>> ELSE <<"completed">>)
    BY <1>5 DEF Complete, Sends
  <2>2. task[r] \in Tasks /\ task' = [task EXCEPT ![r] = task[r]]
    BY <2>1 DEF TasksInv, TypedTasks
  <2>3. \A q \in Requests : q # r => sent'[q] = sent[q]
    BY <2>1 DEF SendsTo, TasksInv, Answering
  <2>4. CASE TerminalReached(r)
    <3>1. status' = status
      BY <2>1, <2>4, NothingSent DEF TasksInv
    <3> QED
      BY <2>1, <2>2, <2>3, <2>4, <3>1, WorkedOnStep DEF PCs
  <2>5. CASE ~TerminalReached(r)
    <3>1. status' = [status EXCEPT ![task[r]] = "completed"]
      BY <2>1, <2>5, OneSent
    <3> QED
      BY <2>1, <2>2, <2>3, <3>1, WorkedOnStep DEF PCs, Terminal
  <2> QED
    BY <2>4, <2>5
<1>6. CASE \/ \E r \in Requests : VisitWrites(r) \/ VisitCut(r)
           \/ Tick \/ UNCHANGED vars
  <2>1. pc' = pc /\ task' = task /\ status' = status /\ sent' = sent
    BY <1>6 DEF VisitWrites, VisitCut, Tick, vars, tasks
  <2> QED
    BY <2>1 DEF TasksInv, TypedTasks, WorkedOn, TerminalReached
<1> QED
  BY <1>1, <1>2, <1>3, <1>4, <1>5, <1>6 DEF Next, Receive, Progress, Visit, Quiet

LEMMA TasksInvariance == Spec => []TasksInv
<1>1. Init => TypedTasks /\ WorkedOn
  BY DEF Init, TypedTasks, WorkedOn
<1>2. Init => TasksInv
  BY <1>1, AnsweringInit DEF TasksInv
<1>3. TasksInv /\ [Next]_vars => TasksInv'
  BY AnsweringStep, TasksStep DEF TasksInv
<1> QED
  BY <1>2, <1>3, PTL DEF Spec

\* However many requests share a task and in whatever order they end, a client
\* that sees its task open waits for a request that works on it.
THEOREM OpenMeansWorkedOn == Spec => []OpenTasksAreWorkedOn
<1>1. TasksInv => OpenTasksAreWorkedOn
  BY DEF TasksInv, WorkedOn, OpenTasksAreWorkedOn
<1> QED
  BY <1>1, TasksInvariance, PTL

-----------------------------------------------------------------------------
(* Completed means submitted *)

LastSent(r) == sent[r][Len(sent[r])]

\* What a request has submitted, by where it is: nothing until Submit; from there
\* to the end either its submission is sent and no failure, or a failure and
\* no submission.
Delivered(r) ==
    /\ pc[r] \in {"unsent", "extracting", "starting"} => workspace[r] = None
    /\ pc[r] \notin {"returned", "over"} => artifact[r] = None
    /\ pc[r] = "returned" /\ workspace[r] # None =>
          IF artifact[r] # None THEN Open(sent[r])
          ELSE Closed(sent[r]) /\ LastSent(r) = "failed"
    /\ pc[r] = "over" /\ workspace[r] # None =>
          (LastSent(r) = "completed" <=> artifact[r] # None)

Deliveries == \A r \in Requests : Delivered(r)

LEMMA LastOfConcat ==
  ASSUME Answering, NEW r \in Requests, NEW e \in Events,
         sent' = [sent EXCEPT ![r] = @ \o <<e>>]
  PROVE  LastSent(r)' = e
<1>1. sent'[r] = sent[r] \o <<e>> /\ sent[r] \in Seq(Events) /\ <<e>> \in Seq(Events)
  BY DEF Answering
<1>2. Len(sent'[r]) = Len(sent[r]) + 1 /\ sent'[r][Len(sent[r]) + 1] = e
  BY <1>1
<1> QED
  BY <1>2 DEF LastSent

\* A step of r concerns r alone.
LEMMA DeliveredOthers ==
  ASSUME Deliveries, NEW r \in Requests, Delivered(r)',
         \A q \in Requests \ {r} :
            /\ pc'[q] = pc[q] /\ workspace'[q] = workspace[q]
            /\ artifact'[q] = artifact[q] /\ sent'[q] = sent[q]
  PROVE  Deliveries'
  BY DEF Deliveries, Delivered, LastSent

LEMMA DeliveriesStep ==
  Inv /\ Answering /\ Answering' /\ Deliveries /\ [Next]_vars => Deliveries'
<1> SUFFICES ASSUME Inv, Answering, Answering', Deliveries, [Next]_vars PROVE Deliveries'
  OBVIOUS
<1> USE DEF Inv, Typed, Goto, runs, disk
<1>1. "failed" \in Events /\ "completed" \in Events /\ <<>> \in Seq(Events)
  BY DEF Events, Terminal
<1>2. ASSUME NEW r \in Requests, NEW t \in Tasks, ReceiveTar(r, t) \/ ReceiveText(r, t)
      PROVE  Deliveries'
  <2> USE <1>2 DEF ReceiveTar, ReceiveText
  <2>1. Delivered(r)'
    BY DEF Deliveries, Delivered
  <2> QED
    BY <2>1, DeliveredOthers DEF SendsTo, Answering
<1>3. ASSUME NEW r \in Requests,
             ExtractFails(r) \/ GraphRaises(r) \/ NothingToSubmit(r) \/ Fail(r)
      PROVE  Deliveries'
  <2>1. /\ sent' = [sent EXCEPT ![r] = @ \o <<"failed">>]
        /\ workspace' = workspace /\ artifact' = artifact
        /\ pc[r] \notin {"returned", "over"}
        /\ \/ pc' = [pc EXCEPT ![r] = "returned"]
           \/ pc' = [pc EXCEPT ![r] = "over"]
    BY <1>3 DEF ExtractFails, GraphRaises, NothingToSubmit, Fail, Sends, SendsTo
  <2>2. LastSent(r)' = "failed"
    BY <1>1, <2>1, LastOfConcat
  <2>3. Closed(sent'[r])
    <3>1. Open(sent[r]) /\ sent[r] \in Seq(Events)
      BY <2>1 DEF Answering
    <3> QED
      BY <2>1, <3>1, CloseConcat DEF Answering, Terminal
  <2>4. Delivered(r)'
    BY <2>1, <2>2, <2>3 DEF Deliveries, Delivered
  <2> QED
    BY <2>1, <2>4, DeliveredOthers DEF Answering
<1>4. ASSUME NEW r \in Requests,
             Extract(r) \/ AgentRaises(r) \/ Bootstrap(r) \/ GraphReturns(r)
      PROVE  Deliveries'
  <2>1. /\ artifact' = artifact
        /\ \A q \in Requests \ {r} : sent'[q] = sent[q] /\ workspace'[q] = workspace[q]
                                     /\ pc'[q] = pc[q]
        /\ pc[r] \notin {"returned", "over"} /\ pc'[r] \notin {"unsent", "returned", "over"}
        /\ pc'[r] \in {"extracting", "starting"} =>
              workspace'[r] = workspace[r] /\ pc[r] = "extracting"
    BY <1>4 DEF Extract, AgentRaises, Bootstrap, GraphReturns, Sends, SendsTo, tasks, Answering
  <2>2. Delivered(r)'
    BY <2>1 DEF Deliveries, Delivered
  <2> QED
    BY <2>1, <2>2, DeliveredOthers
<1>5. ASSUME NEW r \in Requests, Submit(r) PROVE Deliveries'
  <2> USE <1>5 DEF Submit
  <2>1. workspace[r] \in Workspaces
    BY DEF InGraph, Settled
  <2>2. artifact'[r] # None
    BY <2>1, RunsAssumption
  <2>3. Open(sent'[r])
    <3>1. Open(sent[r]) /\ sent[r] \in Seq(Events)
      BY DEF Answering
    <3>2. /\ <<"working", "working", "artifact">> \in Seq(Events)
          /\ Open(<<"working", "working", "artifact">>)
      BY DEF Events, Open, Terminal
    <3> QED
      BY <3>1, <3>2, OpenConcat DEF Sends, SendsTo, Answering
  <2>4. Delivered(r)'
    BY <2>2, <2>3 DEF Delivered
  <2> QED
    BY <2>4, DeliveredOthers DEF Sends, SendsTo, Answering
<1>6. ASSUME NEW r \in Requests, Complete(r) PROVE Deliveries'
  <2>1. /\ pc[r] = "returned" /\ pc' = [pc EXCEPT ![r] = "over"]
        /\ workspace' = workspace /\ artifact' = artifact
        /\ sent' = [sent EXCEPT ![r] =
              @ \o (IF TerminalReached(r) THEN <<>> ELSE <<"completed">>)]
    BY <1>6 DEF Complete, Sends, SendsTo
  <2>2. CASE TerminalReached(r)
    <3>1. ~Open(sent[r])
      BY <2>2 DEF TerminalReached, Open
    <3>2. sent'[r] = sent[r]
      BY <2>1, <2>2 DEF Answering
    <3>3. Delivered(r)'
      BY <2>1, <3>1, <3>2 DEF Deliveries, Delivered, LastSent
    <3> QED
      BY <2>1, <3>3, DeliveredOthers DEF Answering
  <2>3. CASE ~TerminalReached(r)
    <3>1. ~Closed(sent[r])
      <4>1. sent[r] \in Seq(Events) /\ \A i \in 1..Len(sent[r]) : sent[r][i] \notin Terminal
        BY <2>3 DEF TerminalReached, Answering
      <4> QED
        BY <4>1 DEF Closed
    <3>2. LastSent(r)' = "completed"
      BY <1>1, <2>1, <2>3, LastOfConcat
    <3>3. Delivered(r)'
      BY <2>1, <3>1, <3>2 DEF Deliveries, Delivered
    <3> QED
      BY <2>1, <3>3, DeliveredOthers DEF Answering
  <2> QED
    BY <2>2, <2>3
<1>7. CASE \/ \E r \in Requests : VisitWrites(r) \/ VisitCut(r)
           \/ Tick \/ UNCHANGED vars
  <2>1. pc' = pc /\ workspace' = workspace /\ artifact' = artifact /\ sent' = sent
    BY <1>7 DEF VisitWrites, VisitCut, Tick, vars, tasks
  <2> QED
    BY <2>1 DEF Deliveries, Delivered, LastSent
<1> QED
  BY <1>2, <1>3, <1>4, <1>5, <1>6, <1>7 DEF Next, Receive, Progress, Visit, Quiet

LEMMA DeliveriesInvariance == Spec => [](Inv /\ Answering /\ Deliveries)
<1>1. Init => Deliveries
  BY DEF Init, Deliveries, Delivered
<1> QED
  BY <1>1, InvInit, InvStep, AnsweringInit, AnsweringStep, DeliveriesStep, PTL DEF Spec

\* A competition's request is completed exactly if a submission was sent for it,
\* whichever way its graph and its Agent.run ended.
THEOREM CompletedSubmitted == Spec => []CompletedMeansSubmitted
<1>1. Answering /\ Deliveries => CompletedMeansSubmitted
  <2> SUFFICES ASSUME Answering, Deliveries, NEW r \in Requests,
                      workspace[r] # None, TerminalReached(r)
               PROVE  LastSent(r) = "completed" <=> artifact[r] # None
    BY DEF CompletedMeansSubmitted, LastSent
  <2>1. ~Open(sent[r])
    BY DEF TerminalReached, Open
  <2>2. pc[r] \in {"returned", "over"}
    BY <2>1 DEF Answering
  <2> QED
    BY <2>1, <2>2 DEF Deliveries, Delivered
<1> QED
  BY <1>1, DeliveriesInvariance, PTL

-----------------------------------------------------------------------------
(* Types *)

\* What the invariants above leave out of TypeOK.
TypedRest ==
    /\ samples \subseteq Workspaces
    /\ cut \subseteq Requests
    /\ start \in 0..MaxClock \cup {None}

LEMMA RestStep == Typed /\ TypedRest /\ [Next]_vars => TypedRest'
<1> SUFFICES ASSUME Typed, TypedRest, [Next]_vars PROVE TypedRest'
  OBVIOUS
<1> USE DEF TypedRest, runs, disk
<1>1. ASSUME NEW r \in Requests, Bootstrap(r) PROVE TypedRest'
  <2>1. Name(competition[r]) \in Workspaces
    BY DEF Name, Workspaces, Typed
  <2> QED
    BY <1>1, <2>1 DEF Bootstrap, Typed
<1>2. ASSUME NEW r \in Requests, VisitCut(r) PROVE TypedRest'
  BY <1>2 DEF VisitCut
<1>3. CASE UNCHANGED <<samples, cut, start>>
  BY <1>3
<1> QED
  BY <1>1, <1>2, <1>3
  DEF Next, Receive, Progress, Visit, Quiet, vars, ReceiveTar, ReceiveText, ExtractFails, Extract,
      AgentRaises, VisitWrites, GraphReturns, GraphRaises, Submit, NothingToSubmit,
      Complete, Fail, Tick

\* Type correctness, the workspaces' names and the events of each request included.
THEOREM TypeCorrect == Spec => []TypeOK
<1>1. Init => TypedRest
  BY DEF Init, TypedRest
<1>2. Inv /\ TasksInv /\ TypedRest => TypeOK
  BY DEF Inv, Typed, TasksInv, TypedTasks, Answering, Events, TypedRest, TypeOK
<1>3. Inv => Typed
  BY DEF Inv
<1> QED
  BY <1>1, <1>2, <1>3, InvInit, InvStep, RestStep, TasksInvariance, PTL DEF Spec

-----------------------------------------------------------------------------
(* The refinement of RequestAnswers *)

\* The variables of the promise.
answers == [r \in Requests |-> Answer(r)]
solving == {r \in Requests : workspace[r] # None}
delivered == {r \in Requests : artifact[r] # None}

\* A request has events as soon as execute has begun.
Heard ==
    \A r \in Requests : sent[r] = <<>> <=> pc[r] = "unsent"

LEMMA HeardStep == Answering /\ Heard /\ [Next]_vars => Heard'
<1> SUFFICES ASSUME Answering, Heard, [Next]_vars PROVE Heard'
  OBVIOUS
<1>1. \A s \in Seq(Events) : /\ s \o <<"failed">> # <<>> /\ s \o <<"completed">> # <<>>
                             /\ s \o <<"working">> # <<>> /\ s \o <<"working", "working">> # <<>>
                             /\ s \o <<"working", "working", "artifact">> # <<>>
                             /\ s \o <<>> = s
  BY DEF Events, Terminal
<1> USE DEF Heard, Answering, Goto
<1>2. ASSUME NEW r \in Requests, NEW t \in Tasks, ReceiveTar(r, t) \/ ReceiveText(r, t)
      PROVE  Heard'
  BY <1>1, <1>2 DEF ReceiveTar, ReceiveText, SendsTo
<1>3. ASSUME NEW r \in Requests, ExtractFails(r) \/ GraphRaises(r) \/ NothingToSubmit(r) \/ Fail(r)
      PROVE  Heard'
  BY <1>1, <1>3 DEF ExtractFails, GraphRaises, NothingToSubmit, Fail, Sends, SendsTo
<1>4. ASSUME NEW r \in Requests, Extract(r) \/ Submit(r)
      PROVE  Heard'
  BY <1>1, <1>4 DEF Extract, Submit, Sends, SendsTo
<1>5. ASSUME NEW r \in Requests, AgentRaises(r) \/ Bootstrap(r) \/ GraphReturns(r)
      PROVE  Heard'
  BY <1>5 DEF AgentRaises, Bootstrap, GraphReturns, tasks
<1>6. ASSUME NEW r \in Requests, Complete(r) PROVE Heard'
  <2>1. CASE TerminalReached(r)
    BY <1>1, <1>6, <2>1 DEF Complete, Sends, SendsTo
  <2>2. CASE ~TerminalReached(r)
    BY <1>1, <1>6, <2>2 DEF Complete, Sends, SendsTo
  <2> QED
    BY <2>1, <2>2
<1>7. CASE \/ \E r \in Requests : VisitWrites(r) \/ VisitCut(r)
           \/ Tick \/ UNCHANGED vars
  BY <1>7 DEF VisitWrites, VisitCut, Tick, vars, tasks
<1> QED
  BY <1>2, <1>3, <1>4, <1>5, <1>6, <1>7 DEF Next, Receive, Progress, Visit, Quiet

\* The answer that a client reads off a sequence of events.
AnswerTo(s) ==
  CASE s = <<>> -> "none"
    [] \E i \in 1..Len(s) : s[i] \in Terminal -> s[Len(s)]
    [] OTHER -> "open"

LEMMA AnswerOfEvents ==
  ASSUME NEW s \in Seq(Events)
  PROVE  /\ s = <<>> => AnswerTo(s) = "none"
         /\ Open(s) /\ s # <<>> => AnswerTo(s) = "open"
         /\ Closed(s) => AnswerTo(s) = s[Len(s)]
<1> DEFINE ended == \E i \in 1..Len(s) : s[i] \in Terminal
<1>1. ASSUME s = <<>> PROVE AnswerTo(s) = "none"
  <2>1. ~ended
    BY <1>1
  <2> QED
    BY <1>1, <2>1 DEF AnswerTo
<1>2. ASSUME Open(s), s # <<>> PROVE AnswerTo(s) = "open"
  <2>1. ~ended
    BY <1>2 DEF Open
  <2> QED
    BY <1>2, <2>1 DEF AnswerTo
<1>3. ASSUME Closed(s) PROVE AnswerTo(s) = s[Len(s)]
  <2>1. ended /\ s # <<>>
    BY <1>3 DEF Closed
  <2> QED
    BY <2>1 DEF AnswerTo
<1> QED
  BY <1>1, <1>2, <1>3

LEMMA AnswerIsRead ==
  ASSUME NEW r \in Requests
  PROVE  Answer(r) = AnswerTo(sent[r]) /\ Answer(r)' = AnswerTo(sent'[r])
  BY DEF Answer, AnswerTo, TerminalReached

\* Events before the answer leave it open.
LEMMA OpenStep ==
  ASSUME Answering, NEW r \in Requests, Open(sent[r]),
         NEW evs \in Seq(Events), Open(evs), evs # <<>>,
         sent' = [sent EXCEPT ![r] = @ \o evs]
  PROVE  sent'[r] # <<>> /\ Open(sent'[r])
<1>1. PICK s \in Seq(Events) : s = sent[r]
  BY DEF Answering
<1>2. sent'[r] = s \o evs
  BY <1>1 DEF Answering
<1>3. s \o evs # <<>>
  OBVIOUS
<1>4. Open(s \o evs)
  BY <1>1, OpenConcat
<1> QED
  BY <1>2, <1>3, <1>4

\* A step of r changes the answer, the run and the delivery of r alone.
Alone(r) ==
  \A q \in Requests \ {r} :
     sent'[q] = sent[q] /\ workspace'[q] = workspace[q] /\ artifact'[q] = artifact[q]

LEMMA PromiseOfOne ==
  ASSUME NEW r \in Requests, Alone(r)
  PROVE  /\ answers' = [answers EXCEPT ![r] = Answer(r)']
         /\ workspace'[r] # None => solving' = solving \cup {r}
         /\ workspace'[r] = workspace[r] => solving' = solving
         /\ artifact'[r] # None => delivered' = delivered \cup {r}
         /\ artifact'[r] = artifact[r] => delivered' = delivered
<1>1. \A q \in Requests \ {r} : Answer(q)' = Answer(q)
  BY DEF Alone, Answer, TerminalReached
<1>2. answers' = [answers EXCEPT ![r] = Answer(r)']
  BY <1>1 DEF answers
<1> QED
  BY <1>2 DEF Alone, solving, delivered

\* What a step of r may do to its answer, its run and its delivery.
OneStep(r) ==
  \/ /\ Answer(r)' = Answer(r) /\ workspace'[r] = workspace[r] /\ artifact'[r] = artifact[r]
  \/ /\ Answer(r) = "none" /\ Answer(r)' = "open"
     /\ workspace'[r] = workspace[r] /\ artifact'[r] = artifact[r]
  \/ /\ Answer(r) = "open" /\ Answer(r)' = "open"
     /\ workspace[r] = None /\ workspace'[r] # None /\ artifact'[r] = artifact[r]
  \/ /\ Answer(r) = "open" /\ Answer(r)' = "open"
     /\ workspace[r] # None /\ workspace'[r] = workspace[r]
     /\ artifact[r] = None /\ artifact'[r] # None
  \/ /\ Answer(r) = "open" /\ Answer(r)' = "completed"
     /\ workspace'[r] = workspace[r] /\ artifact'[r] = artifact[r]
     /\ workspace[r] # None => artifact[r] # None
  \/ /\ Answer(r) = "open" /\ Answer(r)' = "failed"
     /\ workspace'[r] = workspace[r] /\ artifact'[r] = artifact[r] /\ artifact[r] = None

LEMMA OneStepIsPromised ==
  ASSUME NEW r \in Requests, Alone(r), OneStep(r)
  PROVE  [Promise!Next]_Promise!vars
<1>1. /\ answers' = [answers EXCEPT ![r] = Answer(r)']
      /\ workspace'[r] # None => solving' = solving \cup {r}
      /\ workspace'[r] = workspace[r] => solving' = solving
      /\ artifact'[r] # None => delivered' = delivered \cup {r}
      /\ artifact'[r] = artifact[r] => delivered' = delivered
  BY PromiseOfOne
<1>2. /\ answers[r] = Answer(r)
      /\ r \in solving <=> workspace[r] # None
      /\ r \in delivered <=> artifact[r] # None
      /\ answers = [answers EXCEPT ![r] = Answer(r)]
  BY DEF answers, solving, delivered
<1>3. /\ [Promise!Next]_Promise!vars <=>
            \/ \E q \in Requests : \/ Promise!Receive(q) \/ Promise!Begin(q) \/ Promise!Deliver(q)
                                   \/ Promise!Complete(q) \/ Promise!Fail(q)
            \/ answers' = answers /\ solving' = solving /\ delivered' = delivered
  BY DEF Promise!Next, Promise!vars, answers, solving, delivered
<1>4. /\ Promise!Receive(r) <=>
            /\ answers[r] = "none" /\ answers' = [answers EXCEPT ![r] = "open"]
            /\ solving' = solving /\ delivered' = delivered
      /\ Promise!Begin(r) <=>
            /\ answers[r] = "open" /\ r \notin solving
            /\ solving' = solving \cup {r} /\ answers' = answers /\ delivered' = delivered
      /\ Promise!Deliver(r) <=>
            /\ answers[r] = "open" /\ r \in solving \ delivered
            /\ delivered' = delivered \cup {r} /\ answers' = answers /\ solving' = solving
      /\ Promise!Complete(r) <=>
            /\ answers[r] = "open" /\ (r \in solving => r \in delivered)
            /\ answers' = [answers EXCEPT ![r] = "completed"]
            /\ solving' = solving /\ delivered' = delivered
      /\ Promise!Fail(r) <=>
            /\ answers[r] = "open" /\ r \notin delivered
            /\ answers' = [answers EXCEPT ![r] = "failed"]
            /\ solving' = solving /\ delivered' = delivered
  BY DEF Promise!Receive, Promise!Begin, Promise!Deliver, Promise!Complete, Promise!Fail,
         answers, solving, delivered
<1> QED
  BY <1>1, <1>2, <1>3, <1>4 DEF OneStep

\* Where a request is tells what its client has heard.
LEMMA AnswerByPlace ==
  ASSUME Answering, Heard, NEW r \in Requests
  PROVE  /\ pc[r] = "unsent" => Answer(r) = "none"
         /\ pc[r] \notin {"unsent", "returned", "over"} => Answer(r) = "open"
         /\ pc[r] = "returned" /\ ~Open(sent[r]) => Answer(r) = LastSent(r) /\ Closed(sent[r])
         /\ pc[r] = "returned" /\ Open(sent[r]) => Answer(r) = "open"
<1>1. sent[r] \in Seq(Events) /\ Answer(r) = AnswerTo(sent[r])
  BY AnswerIsRead DEF Answering
<1>2. /\ sent[r] = <<>> => Answer(r) = "none"
      /\ Open(sent[r]) /\ sent[r] # <<>> => Answer(r) = "open"
      /\ Closed(sent[r]) => Answer(r) = LastSent(r)
  BY <1>1, AnswerOfEvents DEF LastSent
<1> QED
  BY <1>2 DEF Answering, Heard

LEMMA PromiseStep ==
  ASSUME Inv, Answering, Answering', Deliveries, Heard, Heard', [Next]_vars
  PROVE  [Promise!Next]_Promise!vars
<1> USE DEF Inv, Typed, Goto, runs, disk
<1>1. ASSUME NEW r \in Requests
      PROVE  /\ pc[r] = "unsent" => Answer(r) = "none"
             /\ pc[r] \notin {"unsent", "returned", "over"} => Answer(r) = "open"
             /\ pc[r] = "returned" /\ ~Open(sent[r]) => Answer(r) = LastSent(r) /\ Closed(sent[r])
             /\ pc[r] = "returned" /\ Open(sent[r]) => Answer(r) = "open"
  BY AnswerByPlace
<1>2. ASSUME NEW r \in Requests
      PROVE  /\ sent'[r] # <<>> /\ Open(sent'[r]) => Answer(r)' = "open"
             /\ Closed(sent'[r]) => Answer(r)' = LastSent(r)'
             /\ pc'[r] \notin {"unsent", "returned", "over"} => Answer(r)' = "open"
  <2>1. /\ sent'[r] # <<>> /\ Open(sent'[r]) => Answer(r)' = "open"
        /\ Closed(sent'[r]) => Answer(r)' = LastSent(r)'
    <3>1. sent'[r] \in Seq(Events) /\ Answer(r)' = AnswerTo(sent'[r])
      BY AnswerIsRead DEF Answering
    <3> QED
      BY <3>1, AnswerOfEvents DEF LastSent
  <2>2. pc'[r] \notin {"unsent", "returned", "over"} => sent'[r] # <<>> /\ Open(sent'[r])
    BY DEF Answering, Heard
  <2> QED
    BY <2>1, <2>2
<1>3. ASSUME NEW r \in Requests, NEW t \in Tasks, ReceiveTar(r, t) \/ ReceiveText(r, t)
      PROVE  [Promise!Next]_Promise!vars
  <2> USE <1>3 DEF ReceiveTar, ReceiveText, SendsTo
  <2>1. Alone(r)
    BY DEF Alone, Answering
  <2>2. Answer(r) = "none"
    BY <1>1
  <2>3. sent'[r] # <<>> /\ Open(sent'[r])
    <3>1. Open(sent[r]) /\ sent' = [sent EXCEPT ![r] = @ \o <<"working", "working">>]
      BY DEF Answering
    <3>2. /\ <<"working", "working">> \in Seq(Events) /\ Open(<<"working", "working">>)
          /\ <<"working", "working">> # <<>>
      BY DEF Events, Open, Terminal
    <3> QED
      BY <3>1, <3>2, OpenStep
  <2>4. OneStep(r)
    BY <1>2, <2>2, <2>3 DEF OneStep
  <2> QED
    BY <2>1, <2>4, OneStepIsPromised
<1>4. ASSUME NEW r \in Requests,
             ExtractFails(r) \/ GraphRaises(r) \/ NothingToSubmit(r) \/ Fail(r)
      PROVE  [Promise!Next]_Promise!vars
  <2>1. /\ sent' = [sent EXCEPT ![r] = @ \o <<"failed">>]
        /\ workspace' = workspace /\ artifact' = artifact
        /\ pc[r] \notin {"unsent", "returned", "over"}
    BY <1>4 DEF ExtractFails, GraphRaises, NothingToSubmit, Fail, Sends, SendsTo
  <2>2. Alone(r)
    BY <2>1 DEF Alone, Answering
  <2>3. LastSent(r)' = "failed"
    <3>1. "failed" \in Events
      BY DEF Events, Terminal
    <3> QED
      BY <2>1, <3>1, LastOfConcat
  <2>4. Closed(sent'[r])
    <3>1. Open(sent[r]) /\ sent[r] \in Seq(Events)
      BY <2>1 DEF Answering
    <3> QED
      BY <2>1, <3>1, CloseConcat DEF Answering, Terminal
  <2>5. artifact[r] = None
    BY <2>1 DEF Deliveries, Delivered
  <2>6. OneStep(r)
    BY <1>1, <1>2, <2>1, <2>3, <2>4, <2>5 DEF OneStep
  <2> QED
    BY <2>2, <2>6, OneStepIsPromised
<1>5. ASSUME NEW r \in Requests, Extract(r) \/ AgentRaises(r) \/ GraphReturns(r)
      PROVE  [Promise!Next]_Promise!vars
  <2>1. /\ pc[r] \notin {"unsent", "returned", "over"}
        /\ pc'[r] \notin {"unsent", "returned", "over"}
        /\ workspace' = workspace /\ artifact' = artifact
    BY <1>5 DEF Extract, AgentRaises, GraphReturns
  <2>2. \A q \in Requests \ {r} : sent'[q] = sent[q]
    BY <1>5 DEF Extract, AgentRaises, GraphReturns, Sends, SendsTo, tasks, Answering
  <2>3. OneStep(r) /\ Alone(r)
    BY <1>1, <1>2, <2>1, <2>2 DEF OneStep, Alone
  <2> QED
    BY <2>3, OneStepIsPromised
<1>6. ASSUME NEW r \in Requests, Bootstrap(r) PROVE [Promise!Next]_Promise!vars
  <2> USE <1>6 DEF Bootstrap
  <2>1. Name(competition[r]) \in Workspaces
    BY DEF Name, Workspaces
  <2>2. workspace[r] = None /\ workspace'[r] # None
    <3>1. workspace[r] = None /\ workspace'[r] = Name(competition[r])
      BY DEF Deliveries, Delivered
    <3> QED
      BY <2>1, <3>1, RunsAssumption
  <2>3. /\ Answer(r) = "open" /\ Answer(r)' = "open" /\ artifact' = artifact
    BY <1>1, <1>2
  <2>4. OneStep(r) /\ Alone(r)
    BY <2>2, <2>3 DEF OneStep, Alone, tasks
  <2> QED
    BY <2>4, OneStepIsPromised
<1>7. ASSUME NEW r \in Requests, Submit(r) PROVE [Promise!Next]_Promise!vars
  <2> USE <1>7 DEF Submit
  <2>1. workspace[r] \in Workspaces /\ workspace' = workspace
    BY DEF InGraph, Settled
  <2>2. artifact[r] = None /\ artifact'[r] # None
    BY <2>1, RunsAssumption DEF Deliveries, Delivered
  <2>3. sent'[r] # <<>> /\ Open(sent'[r])
    <3>1. Open(sent[r]) /\ sent' = [sent EXCEPT ![r] = @ \o <<"working", "working", "artifact">>]
      BY DEF Answering, Sends, SendsTo
    <3>2. /\ <<"working", "working", "artifact">> \in Seq(Events)
          /\ Open(<<"working", "working", "artifact">>)
          /\ <<"working", "working", "artifact">> # <<>>
      BY DEF Events, Open, Terminal
    <3> QED
      BY <3>1, <3>2, OpenStep
  <2>4. Alone(r)
    BY DEF Alone, Sends, SendsTo, Answering
  <2>5. OneStep(r)
    <3>1. Answer(r) = "open" /\ Answer(r)' = "open"
      BY <1>1, <1>2, <2>3
    <3>2. workspace[r] # None
      BY <2>1, RunsAssumption
    <3> QED
      BY <2>1, <2>2, <3>1, <3>2 DEF OneStep
  <2> QED
    BY <2>4, <2>5, OneStepIsPromised
<1>8. ASSUME NEW r \in Requests, Complete(r) PROVE [Promise!Next]_Promise!vars
  <2>1. /\ pc[r] = "returned" /\ workspace' = workspace /\ artifact' = artifact
        /\ sent' = [sent EXCEPT ![r] =
              @ \o (IF TerminalReached(r) THEN <<>> ELSE <<"completed">>)]
    BY <1>8 DEF Complete, Sends, SendsTo
  <2>2. Alone(r)
    BY <2>1 DEF Alone, Answering
  <2>3. CASE TerminalReached(r)
    <3>1. sent'[r] = sent[r]
      BY <2>1, <2>3 DEF Answering
    <3>2. Answer(r)' = Answer(r)
      BY <3>1 DEF Answer, TerminalReached
    <3> QED
      BY <2>1, <2>2, <3>2, OneStepIsPromised DEF OneStep
  <2>4. CASE ~TerminalReached(r)
    <3>1. Open(sent[r]) /\ sent[r] \in Seq(Events)
      BY <2>4 DEF TerminalReached, Open, Answering
    <3>2. sent' = [sent EXCEPT ![r] = @ \o <<"completed">>] /\ "completed" \in Events
      BY <2>1, <2>4 DEF Events, Terminal
    <3>3. LastSent(r)' = "completed"
      BY <3>2, LastOfConcat
    <3>4. Closed(sent'[r])
      BY <3>1, <3>2, CloseConcat DEF Answering, Terminal
    <3>5. workspace[r] # None => artifact[r] # None
      <4>1. ~Closed(sent[r])
        BY <3>1 DEF Open, Closed
      <4> QED
        BY <2>1, <4>1 DEF Deliveries, Delivered
    <3>6. Answer(r) = "open" /\ Answer(r)' = "completed"
      BY <1>1, <1>2, <2>1, <3>1, <3>3, <3>4
    <3> QED
      BY <2>1, <2>2, <3>5, <3>6, OneStepIsPromised DEF OneStep
  <2> QED
    BY <2>3, <2>4
<1>9. CASE \/ \E r \in Requests : VisitWrites(r) \/ VisitCut(r)
           \/ Tick \/ UNCHANGED vars
  <2>1. workspace' = workspace /\ artifact' = artifact /\ sent' = sent
    BY <1>9 DEF VisitWrites, VisitCut, Tick, vars, tasks
  <2>2. UNCHANGED Promise!vars
    BY <2>1 DEF Promise!vars, Answer, TerminalReached
  <2> QED
    BY <2>2
<1> QED
  BY <1>3, <1>4, <1>5, <1>6, <1>7, <1>8, <1>9 DEF Next, Receive, Progress, Visit, Quiet

\* The safety half of ImplementsRequestAnswers, for any number of requests and
\* whatever they share: an answer is final, a submission precedes it, comes once
\* and never with a failure, and no graph's end is "completed" without one.
THEOREM KeepsRequestAnswers == Spec => Promise!Safety
<1>1. Init => Promise!Init
  <2> SUFFICES ASSUME Init PROVE Promise!Init
    OBVIOUS
  <2>1. \A r \in Requests : /\ sent[r] = <<>> /\ workspace[r] = None /\ artifact[r] = None
    BY DEF Init
  <2>2. \A r \in Requests : Answer(r) = "none"
    <3>1. <<>> \in Seq(Events)
      OBVIOUS
    <3> QED
      BY <2>1, <3>1, AnswerIsRead, AnswerOfEvents
  <2> QED
    BY <2>1, <2>2 DEF Promise!Init
<1>2. Init => Heard
  BY DEF Init, Heard
<1> QED
  BY <1>1, <1>2, DeliveriesInvariance, HeardStep, PromiseStep, PTL DEF Spec, Promise!Safety

=============================================================================
