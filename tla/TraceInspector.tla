--------------------------- MODULE TraceInspector ---------------------------
(***************************************************************************)
(* src/trace_inspector.py over the traces that the visits of a run write:  *)
(* rounds restart with every visit, a visit that raises is not dumped to   *)
(* its end, and a dump whose write fails is lost or leaves a torn line.    *)
(* The report may be asked for at any moment, while the run goes on.       *)
(*                                                                         *)
(* A line is a snapshot of a round, with the tools that were called in it. *)
(***************************************************************************)
EXTENDS Naturals, Sequences, FiniteSets, SequencesExt

CONSTANTS
    Nodes,     \* Action Nodes
    Answers,   \* sequences of tools that the LLM may call in one round
    None,      \* no visit
    Torn,      \* a line that is not JSON
    MaxVisits, \* bound on the visits of a run
    MaxDumps   \* bound on the dumps of a run

\* The tools that the report speaks of.
Kinds == {"bash_async", "wait_and_tail", "kill_process", "run_bash_with_truncation"}

\* What a line says; its place among the dumps stands for elapsed_min.
Lines == [node : Nodes, tool_round : Nat, visit : Nat, at : Nat, tools : Seq(Kinds)]

ASSUME TraceAssumption ==
    /\ None \notin Nodes
    /\ Torn \notin Lines
    /\ \A answer \in Answers : answer \in Seq(Kinds)
    /\ MaxVisits \in Nat
    /\ MaxDumps \in Nat

VARIABLES
    node,       \* the node being visited, or None
    tool_round, \* of this visit
    visits,     \* the nodes visited so far, in order (history)
    trace,      \* the lines of all_messages.jsonl, Torn if not JSON
    open,       \* the last line has no newline yet
    dumps,      \* the lines that _dump_trace was called for (history)
    made        \* the calls of the rounds that came to their dump (history)

vars == <<node, tool_round, visits, trace, open, dumps, made>>

Init ==
    /\ node = None
    /\ tool_round = 0
    /\ visits = <<>>
    /\ trace = <<>>
    /\ open = FALSE
    /\ dumps = <<>>
    /\ made = <<>>

-----------------------------------------------------------------------------
(* The run *)

\* _dump_trace: append a line, or fail without a word and leave nothing or a
\* part of the line, to which the next one is appended.
Dump(round, tools) ==
    LET line == [node |-> node, tool_round |-> round, visit |-> Len(visits),
                 at |-> Len(dumps) + 1, tools |-> tools]
        onto == IF open THEN Front(trace) ELSE trace
    IN  /\ Len(dumps) < MaxDumps
        /\ dumps' = Append(dumps, line)
        /\ \/ /\ trace' = Append(onto, IF open THEN Torn ELSE line)
              /\ open' = FALSE
           \/ UNCHANGED <<trace, open>>
           \/ /\ trace' = Append(onto, Torn)
              /\ open' = TRUE

Enter(n) ==
    /\ node = None
    /\ Len(visits) < MaxVisits
    /\ node' = n
    /\ tool_round' = 0
    /\ visits' = Append(visits, n)
    /\ UNCHANGED <<trace, open, dumps, made>>

\* A round is dispatched and dumped.
Round(tools) ==
    /\ node # None
    /\ tool_round' = tool_round + 1
    /\ Dump(tool_round + 1, tools)
    /\ made' = made \o [i \in 1..Len(tools) |-> [node |-> node, tool |-> tools[i]]]
    /\ UNCHANGED <<node, visits>>

\* Mutant: the round counted from 0.
EndTurnFromZero ==
    /\ node # None
    /\ node' = None
    /\ Dump(tool_round - 1, <<>>)
    /\ UNCHANGED <<tool_round, visits, made>>

\* Mutant: the dump takes the last three messages.
EndTurnRepeats ==
    /\ node # None
    /\ node' = None
    /\ Dump(tool_round, IF tool_round = 0 THEN <<>> ELSE Last(dumps).tools)
    /\ UNCHANGED <<tool_round, visits, made>>

\* end_turn: the last messages are dumped once more, the calls are not among them.
EndTurn ==
    /\ node # None
    /\ node' = None
    /\ Dump(tool_round, <<>>)
    /\ UNCHANGED <<tool_round, visits, made>>

\* The limit, the wall clock or an exception, which os.makedirs of the dump may
\* be: the visit ends without a dump.
LeaveUndumped ==
    /\ node # None
    /\ node' = None
    /\ UNCHANGED <<tool_round, visits, trace, open, dumps, made>>

Over == node = None /\ Len(visits) = MaxVisits /\ UNCHANGED vars
Full == node # None /\ Len(dumps) = MaxDumps /\ UNCHANGED vars

Next ==
    \/ \E n \in Nodes : Enter(n)
    \/ \E tools \in Answers : Round(tools)
    \/ EndTurn
    \/ LeaveUndumped
    \/ Over
    \/ Full

Spec == Init /\ [][Next]_vars

-----------------------------------------------------------------------------
(* inspect_trace *)

\* The places of the lines that json.loads can read.
Entries == {i \in 1..Len(trace) : trace[i] # Torn}

\* Each tool_use block: the place of its line and its place there.
Uses == UNION {{<<i, k>> : k \in 1..Len(trace[i].tools)} : i \in Entries}

NodeOf(use) == trace[use[1]].node
ToolOf(use) == trace[use[1]].tools[use[2]]

CallCount(tool) == Cardinality({use \in Uses : ToolOf(use) = tool})

Waits == {"wait_and_tail", "kill_process"}

\* Mutant: launches are paired per round instead of per node.
UnpairedInRound ==
    {use \in Uses :
        /\ ToolOf(use) = "bash_async"
        /\ ~\E wait \in Uses :
               /\ NodeOf(wait) = NodeOf(use)
               /\ trace[wait[1]].tool_round = trace[use[1]].tool_round
               /\ ToolOf(wait) \in Waits}

\* unpaired_bash_async: launches of a node that waits for nothing.
Unpaired ==
    {use \in Uses :
        /\ ToolOf(use) = "bash_async"
        /\ ~\E wait \in Uses : NodeOf(wait) = NodeOf(use) /\ ToolOf(wait) \in Waits}

\* Mutant: a later line of the same round does not replace the earlier one.
KeptFirst(exits, line) ==
    IF line = Torn \/ (line.node \in DOMAIN exits
                       /\ exits[line.node].tool_round >= line.tool_round)
      THEN exits
      ELSE [n \in DOMAIN exits \cup {line.node} |-> IF n = line.node THEN line ELSE exits[n]]

\* The exits after one more line: it replaces the one kept for its node if its
\* round is the highest of that node so far.
Kept(exits, line) ==
    IF line = Torn \/ (line.node \in DOMAIN exits
                       /\ exits[line.node].tool_round > line.tool_round)
      THEN exits
      ELSE [n \in DOMAIN exits \cup {line.node} |-> IF n = line.node THEN line ELSE exits[n]]

\* wall_clock_at_node_exit
NodeExits ==
    LET after[i \in 0..Len(trace)] ==
            IF i = 0 THEN [n \in {} |-> 0] ELSE Kept(after[i - 1], trace[i])
    IN  after[Len(trace)]

-----------------------------------------------------------------------------
(* Properties *)

TypeOK ==
    /\ node \in Nodes \cup {None}
    /\ tool_round \in 0..MaxDumps
    /\ \A i \in 1..Len(visits) : visits[i] \in Nodes
    /\ \A i \in 1..Len(trace) : trace[i] = Torn \/ trace[i] \in Lines
    /\ open => trace # <<>> /\ Last(trace) = Torn
    /\ Len(trace) <= Len(dumps)

Lost == Cardinality(Entries) < Len(dumps)

\* Every call of a round that was dumped is counted once although a visit's end dumps its last
\* exchange again; of a trace with losses the counts fall short, never over.
CountsExact ==
    \A tool \in Kinds :
        LET calls == Cardinality({i \in 1..Len(made) : made[i].tool = tool})
        IN  /\ CallCount(tool) <= calls
            /\ ~Lost => CallCount(tool) = calls

\* A node's launches are reported as unpaired exactly if it has waited for nothing
\* and killed nothing, over all of its visits so far, unless lines are lost.
AlarmIsReal ==
    ~Lost =>
        LET called(n) == {call.tool : call \in {c \in ToSet(made) : c.node = n}}
        IN  {NodeOf(use) : use \in Unpaired} =
                {n \in Nodes : "bash_async" \in called(n) /\ called(n) \cap Waits = {}}

\* For a node visited once the exit entry is its last dump; for one visited more
\* often it is the last dump of the highest round that any visit reached, and
\* exists as soon as one of its dumps does.
ExitOfLongestVisit ==
    LET exits == NodeExits
        of(n) == {i \in Entries : trace[i].node = n}
    IN  \A n \in Nodes :
           /\ n \in DOMAIN exits <=> of(n) # {}
           /\ \A i \in of(n) :
                 \/ trace[i].tool_round < exits[n].tool_round
                 \/ trace[i].at <= exits[n].at
           /\ Cardinality({v \in 1..Len(visits) : visits[v] = n}) = 1 =>
                 \A i \in of(n) : trace[i].at <= exits[n].at

=============================================================================
