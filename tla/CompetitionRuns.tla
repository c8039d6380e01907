--------------------------- MODULE CompetitionRuns ---------------------------
(***************************************************************************)
(* The requests one server handles side by side: Executor.execute of       *)
(* src/executor.py, Agent.run of src/agent.py, and what their graph runs   *)
(* share through src/nodes.py: the workspace root and the start of the     *)
(* wall clock, an environment variable of the process.                     *)
(*                                                                         *)
(* A request is one message, with a competition's tar or without a file.   *)
(* Of a graph run only what it leaves behind matters here: submission.csv  *)
(* in its workspace.  AgentGraph shows that it ends.  Of submission.csv    *)
(* only the request whose run wrote it last is kept.                       *)
(***************************************************************************)
EXTENDS Integers, Sequences

CONSTANTS
    Requests,
    Tasks,         \* A2A tasks
    Competitions,  \* KNOWN_COMPETITION_IDS
    None,          \* no task, no competition, no workspace, no writer
    Timeout,       \* GRAPH_WALL_CLOCK_TIMEOUT; 0 disables the cap
    MaxClock       \* bound on the clock

\* A workspace is named by its competition and the second of its bootstrap.
Workspaces == (Competitions \cup {"competition"}) \X (0..MaxClock)

ASSUME RunsAssumption ==
    /\ None \notin Requests \cup Tasks \cup Competitions \cup Workspaces
    /\ "competition" \notin Competitions
    /\ Timeout \in Nat
    /\ MaxClock \in Nat

VARIABLES
    pc,           \* [Requests -> where execute is]
    task,         \* [Requests -> the task it works on]
    status,       \* [Tasks -> last status the task store has]
    sent,         \* [Requests -> events sent through its TaskUpdater]
    competition,  \* [Requests -> competition detected, None if unknown]
    began,        \* [Requests -> when its graph bootstrapped its workspace]
    workspace,    \* [Requests -> its graph's workspace_dir]
    samples,      \* workspaces whose data/raw has sample_submission.csv
    submission,   \* [Workspaces -> writer of submission.csv, None if none]
    cut,          \* requests whose visits find the wall clock exceeded
    artifact,     \* [Requests -> writer of the submission it has sent]
    clock,        \* in seconds, the resolution of a workspace's name
    start         \* the environment's _MLE_AGENT_GRAPH_START

tasks == <<task, status, sent>>
runs == <<competition, began, workspace, cut>>
disk == <<samples, submission>>
vars == <<pc, tasks, runs, disk, artifact, clock, start>>

Terminal == {"completed", "failed"}
PCs == {"unsent", "extracting", "starting", "visiting", "submitting", "returned",
        "raised", "over"}

Init ==
    /\ pc = [r \in Requests |-> "unsent"]
    /\ task = [r \in Requests |-> None]
    /\ status = [t \in Tasks |-> "none"]
    /\ sent = [r \in Requests |-> <<>>]
    /\ competition = [r \in Requests |-> None]
    /\ began = [r \in Requests |-> None]
    /\ workspace = [r \in Requests |-> None]
    /\ samples = {}
    /\ submission = [w \in Workspaces |-> None]
    /\ cut = {}
    /\ artifact = [r \in Requests |-> None]
    /\ clock = 0
    /\ start = None

-----------------------------------------------------------------------------
(* Helpers *)

Goto(r, label) == pc' = [pc EXCEPT ![r] = label]

\* Events of r on its task t; the task store keeps the last status.
SendsTo(r, t, evs) ==
    LET statuses == {i \in 1..Len(evs) : evs[i] # "artifact"}
    IN  /\ sent' = [sent EXCEPT ![r] = @ \o evs]
        /\ status' = [status EXCEPT ![t] =
              IF statuses = {} THEN @
              ELSE evs[CHOOSE i \in statuses : \A j \in statuses : j <= i]]
Sends(r, evs) == SendsTo(r, task[r], evs) /\ UNCHANGED task

\* Mutant: the default name of an unknown competition forgotten.
NameWithoutDefault(c) == <<c, clock>>

\* Mutant: a workspace named by its competition alone.
NameWithoutTime(c) == <<IF c = None THEN "competition" ELSE c, 0>>

\* The name _bootstrap_workspace makes: the competition and the second.
Name(c) == <<IF c = None THEN "competition" ELSE c, clock>>

\* _wall_clock_exceeded: measured from the first graph run of the process.
Exceeded == Timeout > 0 /\ start # None /\ clock - start > Timeout

-----------------------------------------------------------------------------
\* execute up to the extraction: a new task, or one that is not over.
ReceiveTar(r, t) ==
    /\ pc[r] = "unsent"
    /\ status[t] \notin Terminal
    /\ task' = [task EXCEPT ![r] = t]
    /\ SendsTo(r, t, <<"working", "working">>)
    /\ Goto(r, "extracting")
    /\ UNCHANGED <<runs, disk, artifact, clock, start>>

\* A message without a file is taken for a validation reply.
ReceiveText(r, t) ==
    /\ pc[r] = "unsent"
    /\ status[t] \notin Terminal
    /\ task' = [task EXCEPT ![r] = t]
    /\ SendsTo(r, t, <<"working", "working">>)
    /\ Goto(r, "returned")
    /\ UNCHANGED <<runs, disk, artifact, clock, start>>

\* No bytes in the file part, or no readable tar.
ExtractFails(r) ==
    /\ pc[r] = "extracting"
    /\ Sends(r, <<"failed">>)
    /\ Goto(r, "returned")
    /\ UNCHANGED <<runs, disk, artifact, clock, start>>

\* The competition is detected, or not, and the graph's thread started.
Extract(r) ==
    /\ pc[r] = "extracting"
    /\ \E c \in Competitions \cup {None} : competition' = [competition EXCEPT ![r] = c]
    /\ Sends(r, <<"working">>)
    /\ Goto(r, "starting")
    /\ UNCHANGED <<began, workspace, cut, disk, artifact, clock, start>>

\* Agent.run raises outside the graph: a base64 error, a full disk.
AgentRaises(r) ==
    /\ pc[r] = "extracting" \/ pc[r] = "submitting"
    /\ Goto(r, "raised")
    /\ UNCHANGED <<tasks, runs, disk, artifact, clock, start>>

\* The first visit: the workspace, existing or not, gets the dataset, and the
\* wall clock starts unless it runs already.
Bootstrap(r) ==
    LET w == Name(competition[r])
    IN  /\ pc[r] = "starting"
        /\ workspace' = [workspace EXCEPT ![r] = w]
        /\ began' = [began EXCEPT ![r] = clock]
        /\ samples' \in {samples, samples \cup {w}}
        /\ start' = IF start = None THEN clock ELSE start
        /\ Goto(r, "visiting")
        /\ UNCHANGED <<tasks, competition, cut, submission, artifact, clock>>

\* A tool call of a visit writes submission.csv.
VisitWrites(r) ==
    /\ pc[r] = "visiting"
    /\ r \notin cut
    /\ submission' = [submission EXCEPT ![workspace[r]] = r]
    /\ UNCHANGED <<pc, tasks, runs, samples, artifact, clock, start>>

\* The head of the ReAct loop: this visit and all later ones make no round.
VisitCut(r) ==
    /\ pc[r] = "visiting"
    /\ r \notin cut
    /\ Exceeded
    /\ cut' = cut \cup {r}
    /\ UNCHANGED <<pc, tasks, competition, began, workspace, disk, artifact, clock, start>>

\* app.invoke returns the final state.
GraphReturns(r) ==
    /\ pc[r] = "visiting"
    /\ Goto(r, "submitting")
    /\ UNCHANGED <<tasks, runs, disk, artifact, clock, start>>

\* Mutant: the exception reported, and the workspace looked at all the same.
GraphRaisesGoesOn(r) ==
    /\ pc[r] \in {"starting", "visiting"}
    /\ Sends(r, <<"failed">>)
    /\ Goto(r, IF pc[r] = "visiting" THEN "submitting" ELSE "returned")
    /\ UNCHANGED <<runs, disk, artifact, clock, start>>

\* Caught around app.invoke: no look for a submission.
GraphRaises(r) ==
    /\ pc[r] \in {"starting", "visiting"}
    /\ Sends(r, <<"failed">>)
    /\ Goto(r, "returned")
    /\ UNCHANGED <<runs, disk, artifact, clock, start>>

\* submission.csv of the workspace, or the sample copied there.
Submit(r) ==
    LET w == workspace[r]
        writer == IF submission[w] = None THEN r ELSE submission[w]
    IN  /\ pc[r] = "submitting"
        /\ submission[w] # None \/ w \in samples
        /\ submission' = [submission EXCEPT ![w] = writer]
        /\ artifact' = [artifact EXCEPT ![r] = writer]
        /\ Sends(r, <<"working", "working", "artifact">>)
        /\ Goto(r, "returned")
        /\ UNCHANGED <<runs, samples, clock, start>>

\* Mutant: the return without the failed status before it.
NothingToSubmitSilent(r) ==
    /\ pc[r] = "submitting"
    /\ submission[workspace[r]] = None
    /\ workspace[r] \notin samples
    /\ Goto(r, "returned")
    /\ UNCHANGED <<tasks, runs, disk, artifact, clock, start>>

NothingToSubmit(r) ==
    /\ pc[r] = "submitting"
    /\ submission[workspace[r]] = None
    /\ workspace[r] \notin samples
    /\ Sends(r, <<"failed">>)
    /\ Goto(r, "returned")
    /\ UNCHANGED <<runs, disk, artifact, clock, start>>

TerminalReached(r) == \E i \in 1..Len(sent[r]) : sent[r][i] \in Terminal

\* Mutant: the task completed whatever Agent.run has sent.
CompleteAlways(r) ==
    /\ pc[r] = "returned"
    /\ Sends(r, <<"completed">>)
    /\ Goto(r, "over")
    /\ UNCHANGED <<runs, disk, artifact, clock, start>>

\* execute after Agent.run returned, respectively raised.
Complete(r) ==
    /\ pc[r] = "returned"
    /\ Sends(r, IF TerminalReached(r) THEN <<>> ELSE <<"completed">>)
    /\ Goto(r, "over")
    /\ UNCHANGED <<runs, disk, artifact, clock, start>>

\* Mutant: the exception logged only.
FailSilent(r) ==
    /\ pc[r] = "raised"
    /\ Goto(r, "over")
    /\ UNCHANGED <<tasks, runs, disk, artifact, clock, start>>

Fail(r) ==
    /\ pc[r] = "raised"
    /\ Sends(r, <<"failed">>)
    /\ Goto(r, "over")
    /\ UNCHANGED <<runs, disk, artifact, clock, start>>

Tick ==
    /\ clock < MaxClock
    /\ clock' = clock + 1
    /\ UNCHANGED <<pc, tasks, runs, disk, artifact, start>>

-----------------------------------------------------------------------------
Receive(r) == \E t \in Tasks : ReceiveTar(r, t) \/ ReceiveText(r, t)

Visit(r) == VisitWrites(r) \/ VisitCut(r)

\* What brings a request nearer to its answer.
Progress(r) ==
    \/ ExtractFails(r) \/ Extract(r) \/ AgentRaises(r)
    \/ Bootstrap(r)
    \/ GraphReturns(r) \/ GraphRaises(r)
    \/ Submit(r) \/ NothingToSubmit(r)
    \/ Complete(r) \/ Fail(r)

Quiet == (\A r \in Requests : pc[r] \in {"unsent", "over"}) /\ UNCHANGED vars

Next == (\E r \in Requests : Receive(r) \/ Progress(r) \/ Visit(r)) \/ Tick \/ Quiet

\* The event loop and the threads go on, and graph runs end (AgentGraph).
Spec == Init /\ [][Next]_vars
FairSpec == Spec /\ \A r \in Requests : WF_vars(Progress(r))

-----------------------------------------------------------------------------
(* Properties *)

TypeOK ==
    /\ pc \in [Requests -> PCs]
    /\ task \in [Requests -> Tasks \cup {None}]
    /\ status \in [Tasks -> {"none", "working"} \cup Terminal]
    /\ sent \in [Requests -> Seq({"working", "artifact"} \cup Terminal)]
    /\ competition \in [Requests -> Competitions \cup {None}]
    /\ began \in [Requests -> 0..MaxClock \cup {None}]
    /\ workspace \in [Requests -> Workspaces \cup {None}]
    /\ samples \subseteq Workspaces
    /\ submission \in [Workspaces -> Requests \cup {None}]
    /\ cut \subseteq Requests
    /\ artifact \in [Requests -> Requests \cup {None}]
    /\ clock \in 0..MaxClock
    /\ start \in 0..MaxClock \cup {None}

\* A request is answered once: its last event is its only terminal status,
\* however Agent.run left, so its TaskUpdater never refuses a status.
AnsweredOnce ==
    \A r \in Requests :
        LET ends == {i \in 1..Len(sent[r]) : sent[r][i] \in Terminal}
        IN  /\ ends \subseteq {Len(sent[r])}
            /\ pc[r] = "over" => ends # {}

\* A competition is answered "completed" only with its submission sent before.
CompletedMeansSubmitted ==
    \A r \in Requests : workspace[r] # None /\ TerminalReached(r) =>
        (sent[r][Len(sent[r])] = "completed" <=> artifact[r] # None)

\* What a request submits was written by its own run, unless another run
\* bootstrapped in the same second under the same name.
SubmissionOfOwnRun ==
    \A r, q \in Requests : artifact[r] = q /\ q # r =>
        competition[q] = competition[r] /\ began[q] = began[r]

\* A task that its client sees open is one that some request still works on, also
\* when several requests on it end in any order: the client never waits for
\* nothing.  (The converse fails: ReceiveText completes a task whose graph runs.)
OpenTasksAreWorkedOn ==
    \A t \in Tasks : status[t] = "working" =>
        \E r \in Requests : task[r] = t /\ pc[r] # "over"

\* The answer of a request, as its client knows it from the events sent.
Answer(r) ==
    CASE sent[r] = <<>> -> "none"
      [] TerminalReached(r) -> sent[r][Len(sent[r])]
      [] OTHER -> "open"

\* execute and Agent.run keep the promise of RequestAnswers: whatever fails or is
\* shared with other requests, an answer comes, is never taken back, and a
\* submission comes before it, once, and never with a failure.
Promise == INSTANCE RequestAnswers WITH
    answer <- [r \in Requests |-> Answer(r)],
    solving <- {r \in Requests : workspace[r] # None},
    delivered <- {r \in Requests : artifact[r] # None}

ImplementsRequestAnswers == Promise!Spec

-----------------------------------------------------------------------------
(* What the repository says of the program, and the code does not do *)

\* nodes.py:94: the cap is on "the total graph run" whose visit it cuts.
CutOnlyAfterTimeout == \A r \in cut : clock - began[r] > Timeout

=============================================================================
