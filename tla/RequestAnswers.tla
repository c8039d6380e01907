---------------------------- MODULE RequestAnswers ----------------------------
(***************************************************************************)
(* What a server promises the client of a request: one answer, which is    *)
(* final; a submission while the client waits, and once; and of a request  *)
(* whose graph began, "completed" exactly with a submission.               *)
(***************************************************************************)

CONSTANTS Requests

VARIABLES
    answer,    \* [Requests -> "none", "open" or its final answer]
    solving,   \* requests whose graph has begun
    delivered  \* requests whose submission has been sent

vars == <<answer, solving, delivered>>

Init ==
    /\ answer = [r \in Requests |-> "none"]
    /\ solving = {}
    /\ delivered = {}

Receive(r) ==
    /\ answer[r] = "none"
    /\ answer' = [answer EXCEPT ![r] = "open"]
    /\ UNCHANGED <<solving, delivered>>

Begin(r) ==
    /\ answer[r] = "open"
    /\ r \notin solving
    /\ solving' = solving \cup {r}
    /\ UNCHANGED <<answer, delivered>>

Deliver(r) ==
    /\ answer[r] = "open"
    /\ r \in solving \ delivered
    /\ delivered' = delivered \cup {r}
    /\ UNCHANGED <<answer, solving>>

Complete(r) ==
    /\ answer[r] = "open"
    /\ r \in solving => r \in delivered
    /\ answer' = [answer EXCEPT ![r] = "completed"]
    /\ UNCHANGED <<solving, delivered>>

Fail(r) ==
    /\ answer[r] = "open"
    /\ r \notin delivered
    /\ answer' = [answer EXCEPT ![r] = "failed"]
    /\ UNCHANGED <<solving, delivered>>

Next ==
    \E r \in Requests : Receive(r) \/ Begin(r) \/ Deliver(r) \/ Complete(r) \/ Fail(r)

Safety == Init /\ [][Next]_vars
Spec == Safety /\ \A r \in Requests : answer[r] = "open" ~> answer[r] # "open"

=============================================================================
