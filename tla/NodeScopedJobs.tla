--------------------------- MODULE NodeScopedJobs ---------------------------
(***************************************************************************)
(* What the process tools and the node-exit sweep promise together         *)
(* (decisions.md D17): a job runs only while a node of the run that        *)
(* launched it is open.  A job may end at any time, is never restarted,    *)
(* and a node that exits leaves none of its run's jobs running.            *)
(***************************************************************************)

CONSTANTS Runs, Jobs

VARIABLES
    open,      \* runs that are inside an Action Node
    launched,  \* jobs launched so far
    running    \* [Runs -> jobs of the run that still run]

vars == <<open, launched, running>>

Init ==
    /\ open = {}
    /\ launched = {}
    /\ running = [r \in Runs |-> {}]

Enter(r) ==
    /\ r \notin open
    /\ open' = open \cup {r}
    /\ UNCHANGED <<launched, running>>

Launch(r, j) ==
    /\ r \in open
    /\ j \notin launched
    /\ launched' = launched \cup {j}
    /\ running' = [running EXCEPT ![r] = @ \cup {j}]
    /\ UNCHANGED open

\* Jobs end by themselves or by a signal, of their own run or of another.
End ==
    /\ \A r \in Runs : running'[r] \subseteq running[r]
    /\ UNCHANGED <<open, launched>>

Exit(r) ==
    /\ r \in open
    /\ open' = open \ {r}
    /\ running'[r] = {}
    /\ \A q \in Runs : running'[q] \subseteq running[q]
    /\ UNCHANGED launched

Next ==
    \/ \E r \in Runs : Enter(r) \/ Exit(r) \/ \E j \in Jobs : Launch(r, j)
    \/ End

Safety == Init /\ [][Next]_vars
Spec == Safety /\ \A r \in Runs : r \in open ~> r \notin open

=============================================================================
