----------------------------- MODULE TaskAgenda -----------------------------
(***************************************************************************)
(* What the LLM may rely on when it keeps its micro-tasks with             *)
(* dynamic_task_manager: tasks have distinct ids, are taken in the order   *)
(* in which they were added, and stay done once they are done.             *)
(***************************************************************************)
CONSTANT TaskIds

VARIABLES
    known,   \* the ids of the tasks
    done,    \* those that are completed
    before   \* pairs of tasks, the one added earlier first

AgendaInit ==
    /\ known = {}
    /\ done = {}
    /\ before = {}

Add(id) ==
    /\ id \notin known
    /\ known' = known \cup {id}
    /\ before' = before \cup (known \X {id})
    /\ UNCHANGED done

Finish(id) ==
    /\ id \in known
    /\ done' = done \cup {id}
    /\ UNCHANGED <<known, before>>

\* Only a task that no other precedes, done or not.
Take(id) ==
    /\ id \in known
    /\ \A other \in known : <<other, id>> \notin before
    /\ known' = known \ {id}
    /\ done' = done \ {id}
    /\ before' = {pair \in before : pair[1] # id}

AgendaNext == \E id \in TaskIds : Add(id) \/ Finish(id) \/ Take(id)

AgendaSpec == AgendaInit /\ [][AgendaNext]_<<known, done, before>>

=============================================================================
