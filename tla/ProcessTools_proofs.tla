------------------------- MODULE ProcessTools_proofs -------------------------
(***************************************************************************)
(* For any number of runs, jobs, calls and nodes: the types of             *)
(* ProcessTools, what its registry guarantees of the jobs' shells, and the *)
(* safety part of NodeScopedJobs.                                          *)
(***************************************************************************)
EXTENDS ProcessTools, TLAPS

-----------------------------------------------------------------------------
(* The inductive invariant *)

\* Between Popen and registration a job belongs to the run launching it, no
\* other run can reach its entry, and nothing has been dropped for it.
LaunchInv ==
    \A r \in Runs : pc[r] = "launched" =>
        /\ target[r] \in Pids
        /\ leader[target[r]] # "none"
        /\ owner[target[r]] = r
        /\ target[r] \notin registry
        /\ dropped[target[r]] = "no"

\* kill_process waits for a job, never for None.
GraceInv ==
    \A r \in Runs : pc[r] \in {"grace", "blind grace"} => target[r] \in Pids

\* What is registered, leaked or dropped has been launched.
LaunchedInv ==
    /\ \A p \in registry : leader[p] # "none"
    /\ \A r \in Runs : \A p \in leaked[r] : leader[p] # "none"
    /\ \A p \in Pids : dropped[p] # "no" => leader[p] # "none"

\* A running shell is registered or about to be, by a run that is in a node.
RunningInv ==
    \A p \in Pids : leader[p] = "running" =>
        /\ owner[p] \in Runs
        /\ \/ p \in registry
           \/ pc[owner[p]] = "launched" /\ target[owner[p]] = p

\* An entry's owner is in a node.
EntryInv == \A p \in registry : owner[p] \in Runs /\ pc[owner[p]] # "out"

\* A sweep has seen every entry of its own run: the run launches nothing
\* while it sweeps.
SweepInv ==
    \A r \in Runs : pc[r] = "sweeping" =>
        \A p \in registry : owner[p] = r => p \in leaked[r]

IInv ==
    /\ TypeOK
    /\ LaunchInv
    /\ GraceInv
    /\ LaunchedInv
    /\ RunningInv
    /\ EntryInv
    /\ SweepInv
    /\ DroppedShellsHaveEnded
    /\ SweptGroupsAreDead

\* A step leaves a shell as it was or ends it: it does not restart it.
ShellKept(p) ==
    /\ leader'[p] = "running" => leader[p] = "running"
    /\ leader[p] # "none" => leader'[p] # "none"

-----------------------------------------------------------------------------
\* The types hold initially and every step keeps them.
LEMMA TypeInit == Init => TypeOK
  BY ConstantsAssumption DEF Init, TypeOK, LeaderStates, Endings, PCs

LEMMA TypeStep == TypeOK /\ LaunchInv /\ [Next]_vars => TypeOK'
<1> SUFFICES ASSUME TypeOK, LaunchInv, [Next]_vars PROVE TypeOK'
  OBVIOUS
<1> USE ConstantsAssumption DEF TypeOK
<1>1. ASSUME NEW r \in Runs, EnterNode(r) PROVE TypeOK'
  <2>1. nodes' \in [Runs -> 0..MaxNodes]
    BY <1>1 DEF EnterNode, At
  <2>2. calls' \in [Runs -> 0..MaxCalls]
    BY <1>1 DEF EnterNode, At
  <2>3. pc' \in [Runs -> PCs]
    BY <1>1 DEF EnterNode, At, PCs
  <2>4. UNCHANGED <<leader, workers, hardened, owner, registry, dropped, strays, server, target, leaked>>
    BY <1>1 DEF EnterNode, processes
  <2> QED BY <2>1, <2>2, <2>3, <2>4
<1>2. ASSUME NEW r \in Runs, NEW p \in Pids, Launch(r, p) PROVE TypeOK'
  <2>1. leader' \in [Pids -> LeaderStates]
    BY <1>2 DEF Launch, CanCall, At, CalledInto, Reaped, LeaderStates
  <2>2. hardened' \subseteq Pids
    BY <1>2 DEF Launch, CanCall, At, CalledInto, Reaped
  <2>3. owner' \in [Pids -> Runs \cup {None}]
    BY <1>2 DEF Launch, CanCall, At, CalledInto, Reaped
  <2>4. calls' \in [Runs -> 0..MaxCalls]
    BY <1>2 DEF Launch, CanCall, At, CalledInto, Reaped
  <2>5. pc' \in [Runs -> PCs]
    BY <1>2 DEF Launch, CanCall, At, CalledInto, Reaped, PCs
  <2>6. target' \in [Runs -> Pids \cup {None}]
    BY <1>2 DEF Launch, CanCall, At, CalledInto, Reaped
  <2>7. UNCHANGED <<workers, registry, dropped, strays, server, leaked, nodes>>
    BY <1>2 DEF Launch, CalledInto
  <2> QED BY <2>1, <2>2, <2>3, <2>4, <2>5, <2>6, <2>7
<1>3. ASSUME NEW r \in Runs, Register(r) PROVE TypeOK'
  <2>1. registry' \subseteq Pids
    BY <1>3 DEF Register, At, LaunchInv
  <2>2. leader' \in [Pids -> LeaderStates]
    BY <1>3 DEF Register, At, BackToIdle, Reaped, LeaderStates
  <2>3. pc' \in [Runs -> PCs]
    BY <1>3 DEF Register, At, BackToIdle, Reaped, PCs
  <2>4. target' \in [Runs -> Pids \cup {None}]
    BY <1>3 DEF Register, At, BackToIdle, Reaped
  <2>5. UNCHANGED <<workers, hardened, owner, dropped, strays, server, leaked, calls, nodes>>
    BY <1>3 DEF Register, BackToIdle
  <2> QED BY <2>1, <2>2, <2>3, <2>4, <2>5
<1>4. ASSUME NEW r \in Runs, RunBash(r) PROVE TypeOK'
  <2>1. leader' \in [Pids -> LeaderStates]
    BY <1>4 DEF RunBash, CanCall, At, Called, Reaped, LeaderStates
  <2>2. strays' \in [Strays -> {"none", "running", "gone"}]
    BY <1>4 DEF RunBash, CanCall, At, Called, Reaped
  <2>3. calls' \in [Runs -> 0..MaxCalls]
    BY <1>4 DEF RunBash, CanCall, At, Called, Reaped
  <2>4. UNCHANGED <<workers, hardened, owner, registry, dropped, server, pc, target, leaked, nodes>>
    BY <1>4 DEF RunBash, Called
  <2> QED BY <2>1, <2>2, <2>3, <2>4
<1>5. ASSUME NEW r \in Runs, NEW p \in Pids, WaitCapped(r, p) PROVE TypeOK'
  <2>1. leader' \in [Pids -> LeaderStates]
    BY <1>5 DEF WaitCapped, CanCall, At, Called, Reaped, LeaderStates
  <2>2. calls' \in [Runs -> 0..MaxCalls]
    BY <1>5 DEF WaitCapped, CanCall, At, Called, Reaped
  <2>3. UNCHANGED <<workers, hardened, owner, registry, dropped, strays, server, pc, target, leaked, nodes>>
    BY <1>5 DEF WaitCapped, Called
  <2> QED BY <2>1, <2>2, <2>3
<1>6. ASSUME NEW r \in Runs, NEW p \in Pids, WaitEnded(r, p) PROVE TypeOK'
  <2>1. leader' \in [Pids -> LeaderStates]
    BY <1>6 DEF WaitEnded, CanCall, At, Called, Reaped, LeaderStates
  <2>2. registry' \subseteq Pids
    BY <1>6 DEF WaitEnded, CanCall, At, Called, Reaped
  <2>3. dropped' \in [Pids -> Endings]
    BY <1>6 DEF WaitEnded, CanCall, At, Called, Reaped, Endings
  <2>4. calls' \in [Runs -> 0..MaxCalls]
    BY <1>6 DEF WaitEnded, CanCall, At, Called, Reaped
  <2>5. UNCHANGED <<workers, hardened, owner, strays, server, pc, target, leaked, nodes>>
    BY <1>6 DEF WaitEnded, Called
  <2> QED BY <2>1, <2>2, <2>3, <2>4, <2>5
<1>7. ASSUME NEW r \in Runs, NEW p \in Pids, KillStart(r, p) PROVE TypeOK'
  <2>1. leader' \in [Pids -> LeaderStates]
    BY <1>7 DEF KillStart, CanCall, At, CalledInto, TermedLeader, TermedWorkers, LeaderStates
  <2>2. workers' \in [Pids -> SUBSET WorkerKinds]
    BY <1>7 DEF KillStart, CanCall, At, CalledInto, TermedLeader, TermedWorkers, WorkerKinds
  <2>3. calls' \in [Runs -> 0..MaxCalls]
    <3>1. calls[r] < MaxCalls /\ calls' = [calls EXCEPT ![r] = @ + 1]
      BY <1>7 DEF KillStart, CanCall, CalledInto
    <3> QED BY <3>1
  <2>4. pc' \in [Runs -> PCs]
    <3>1. CASE p \in registry
      BY <1>7, <3>1 DEF KillStart, CalledInto, PCs
    <3>2. CASE p \notin registry
      BY <1>7, <3>2 DEF KillStart, CalledInto, PCs
    <3> QED BY <3>1, <3>2
  <2>5. target' \in [Runs -> Pids \cup {None}]
    BY <1>7 DEF KillStart, CanCall, At, CalledInto, TermedLeader, TermedWorkers
  <2>6. UNCHANGED <<hardened, owner, registry, dropped, strays, server, leaked, nodes>>
    BY <1>7 DEF KillStart, CalledInto
  <2> QED BY <2>1, <2>2, <2>3, <2>4, <2>5, <2>6
<1>8. ASSUME NEW r \in Runs, NEW p \in Pids, KillFindsNone(r, p) PROVE TypeOK'
  <2>1. registry' \subseteq Pids
    BY <1>8 DEF KillFindsNone, CanCall, At, Called
  <2>2. dropped' \in [Pids -> Endings]
    BY <1>8 DEF KillFindsNone, CanCall, At, Called, Endings
  <2>3. calls' \in [Runs -> 0..MaxCalls]
    BY <1>8 DEF KillFindsNone, CanCall, At, Called
  <2>4. UNCHANGED <<leader, workers, hardened, owner, strays, server, pc, target, leaked, nodes>>
    BY <1>8 DEF KillFindsNone, Called, processes
  <2> QED BY <2>1, <2>2, <2>3, <2>4
<1>9. ASSUME NEW r \in Runs, KillEscalate(r) PROVE TypeOK'
  <2>1. leader' \in [Pids -> LeaderStates]
    BY <1>9 DEF KillEscalate, KilledLeader, KilledWorkers, LeaderStates
  <2>2. workers' \in [Pids -> SUBSET WorkerKinds]
    BY <1>9 DEF KillEscalate, KilledLeader, KilledWorkers, WorkerKinds
  <2>3. UNCHANGED <<hardened, owner, registry, dropped, strays, server, pc, target, leaked, calls, nodes>>
    BY <1>9 DEF KillEscalate, control
  <2> QED BY <2>1, <2>2, <2>3
<1>10. ASSUME NEW r \in Runs, KillDone(r) PROVE TypeOK'
  <2>1. leader' \in [Pids -> LeaderStates]
    BY <1>10 DEF KillDone, BackToIdle, Reaped, LeaderStates
  <2>2. registry' \subseteq Pids
    BY <1>10 DEF KillDone, BackToIdle, Reaped
  <2>3. dropped' \in [Pids -> Endings]
    BY <1>10 DEF KillDone, BackToIdle, Reaped, Endings
  <2>4. pc' \in [Runs -> PCs]
    BY <1>10 DEF KillDone, BackToIdle, Reaped, PCs
  <2>5. target' \in [Runs -> Pids \cup {None}]
    BY <1>10 DEF KillDone, BackToIdle, Reaped
  <2>6. UNCHANGED <<workers, hardened, owner, strays, server, leaked, calls, nodes>>
    BY <1>10 DEF KillDone, BackToIdle
  <2> QED BY <2>1, <2>2, <2>3, <2>4, <2>5, <2>6
<1>11. ASSUME NEW r \in Runs, NEW s \in Strays, KillStray(r, s) PROVE TypeOK'
  <2>1. server' \in {"up", "termed", "killed"}
    BY <1>11 DEF KillStray, CanCall, At, Called
  <2>2. strays' \in [Strays -> {"none", "running", "gone"}]
    BY <1>11 DEF KillStray, CanCall, At, Called
  <2>3. calls' \in [Runs -> 0..MaxCalls]
    BY <1>11 DEF KillStray, CanCall, At, Called
  <2>4. UNCHANGED <<leader, workers, hardened, owner, registry, dropped, pc, target, leaked, nodes>>
    BY <1>11 DEF KillStray, Called
  <2> QED BY <2>1, <2>2, <2>3, <2>4
<1>12. ASSUME NEW r \in Runs, ExitUnswept(r) PROVE TypeOK'
  <2>1. pc' \in [Runs -> PCs]
    BY <1>12 DEF ExitUnswept, PCs
  <2>2. UNCHANGED <<leader, workers, hardened, owner, registry, dropped, strays, server, target, leaked, calls, nodes>>
    BY <1>12 DEF ExitUnswept, processes
  <2> QED BY <2>1, <2>2
<1>13. ASSUME NEW r \in Runs, SweepTerm(r) PROVE TypeOK'
  <2>1. leaked' \in [Runs -> SUBSET Pids]
    BY <1>13 DEF SweepTerm, TermedLeader, TermedWorkers
  <2>2. leader' \in [Pids -> LeaderStates]
    BY <1>13 DEF SweepTerm, TermedLeader, TermedWorkers, LeaderStates
  <2>3. workers' \in [Pids -> SUBSET WorkerKinds]
    BY <1>13 DEF SweepTerm, TermedLeader, TermedWorkers, WorkerKinds
  <2>4. pc' \in [Runs -> PCs]
    BY <1>13 DEF SweepTerm, TermedLeader, TermedWorkers, PCs
  <2>5. UNCHANGED <<hardened, owner, registry, dropped, strays, server, target, calls, nodes>>
    BY <1>13 DEF SweepTerm
  <2> QED BY <2>1, <2>2, <2>3, <2>4, <2>5
<1>14. ASSUME NEW r \in Runs, SweepKill(r) PROVE TypeOK'
  <2>1. leader' \in [Pids -> LeaderStates]
    BY <1>14 DEF SweepKill, KilledWorkers, LeaderStates
  <2>2. workers' \in [Pids -> SUBSET WorkerKinds]
    BY <1>14 DEF SweepKill, KilledWorkers, WorkerKinds
  <2>3. registry' \subseteq Pids
    BY <1>14 DEF SweepKill, KilledWorkers
  <2>4. dropped' \in [Pids -> Endings]
    BY <1>14 DEF SweepKill, KilledWorkers, Endings
  <2>5. leaked' \in [Runs -> SUBSET Pids]
    BY <1>14 DEF SweepKill, KilledWorkers
  <2>6. pc' \in [Runs -> PCs]
    BY <1>14 DEF SweepKill, KilledWorkers, PCs
  <2>7. UNCHANGED <<hardened, owner, strays, server, target, calls, nodes>>
    BY <1>14 DEF SweepKill
  <2> QED BY <2>1, <2>2, <2>3, <2>4, <2>5, <2>6, <2>7
<1>15. ASSUME NEW p \in Pids, LeaderExits(p) PROVE TypeOK'
  <2>1. leader' \in [Pids -> LeaderStates]
    BY <1>15 DEF LeaderExits, LeaderStates
  <2>2. UNCHANGED <<workers, hardened, owner, registry, dropped, strays, server, pc, target, leaked, calls, nodes>>
    BY <1>15 DEF LeaderExits, control
  <2> QED BY <2>1, <2>2
<1>16. ASSUME NEW p \in Pids, NEW kind \in WorkerKinds, WorkerStarts(p, kind) PROVE TypeOK'
  <2>1. workers' \in [Pids -> SUBSET WorkerKinds]
    BY <1>16 DEF WorkerStarts, WorkerKinds
  <2>2. UNCHANGED <<leader, hardened, owner, registry, dropped, strays, server, pc, target, leaked, calls, nodes>>
    BY <1>16 DEF WorkerStarts, control
  <2> QED BY <2>1, <2>2
<1>17. ASSUME NEW p \in Pids, NEW kind \in WorkerKinds, WorkerExits(p, kind) PROVE TypeOK'
  <2>1. workers' \in [Pids -> SUBSET WorkerKinds]
    BY <1>17 DEF WorkerExits, WorkerKinds
  <2>2. UNCHANGED <<leader, hardened, owner, registry, dropped, strays, server, pc, target, leaked, calls, nodes>>
    BY <1>17 DEF WorkerExits, control
  <2> QED BY <2>1, <2>2
<1>18. ASSUME NEW s \in Strays, StrayExits(s) PROVE TypeOK'
  <2>1. strays' \in [Strays -> {"none", "running", "gone"}]
    BY <1>18 DEF StrayExits
  <2>2. UNCHANGED <<leader, workers, hardened, owner, registry, dropped, server, pc, target, leaked, calls, nodes>>
    BY <1>18 DEF StrayExits, control
  <2> QED BY <2>1, <2>2
<1>19. CASE UNCHANGED vars
  BY <1>19 DEF vars, processes, control
<1> QED
  BY <1>1, <1>2, <1>3, <1>4, <1>5, <1>6, <1>7, <1>8, <1>9, <1>10, <1>11, <1>12, <1>13, <1>14, <1>15, <1>16, <1>17, <1>18, <1>19
  DEF Next, RunStep, ToolCall, Continue, Leave, ProcessStep, Finished

LEMMA InvInit == Init => IInv
  BY TypeInit DEF Init, IInv, LaunchInv, GraceInv, LaunchedInv, RunningInv, EntryInv,
     SweepInv, DroppedShellsHaveEnded, SweptGroupsAreDead

LEMMA InvStep == IInv /\ [Next]_vars => IInv'
<1> SUFFICES ASSUME TypeOK, LaunchInv, GraceInv, LaunchedInv, RunningInv, EntryInv,
                    SweepInv, DroppedShellsHaveEnded, SweptGroupsAreDead, [Next]_vars
             PROVE IInv'
  BY DEF IInv
<1>0. TypeOK'
  BY TypeStep
<1>1. ASSUME NEW r \in Runs, EnterNode(r) PROVE IInv'
  <2>1. LaunchInv'
    BY <1>1 DEF LaunchInv, TypeOK, EnterNode, At, processes
  <2>2. GraceInv'
    BY <1>1 DEF GraceInv, TypeOK, EnterNode, At, processes
  <2>3. RunningInv'
    BY <1>1 DEF RunningInv, TypeOK, EnterNode, At, processes
  <2>4. EntryInv'
    BY <1>1 DEF EntryInv, TypeOK, EnterNode, At, processes
  <2>5. SweepInv'
    BY <1>1 DEF SweepInv, TypeOK, EnterNode, At, processes
  <2>6. UNCHANGED <<leader, workers, registry, dropped, leaked>>
    BY <1>1 DEF EnterNode, processes
  <2>7. LaunchedInv'
    BY <2>6 DEF LaunchedInv
  <2>8. DroppedShellsHaveEnded'
    BY <2>6 DEF DroppedShellsHaveEnded
  <2>9. SweptGroupsAreDead'
    BY <2>6 DEF SweptGroupsAreDead
  <2> QED BY <1>0, <2>1, <2>2, <2>3, <2>4, <2>5, <2>7, <2>8, <2>9 DEF IInv
<1>2. ASSUME NEW r \in Runs, NEW p \in Pids, Launch(r, p) PROVE IInv'
  <2>1. /\ leader[p] = "none" /\ leader'[p] = "running"
         /\ \A q \in Pids \ {p} : ShellKept(q)
    BY <1>2 DEF ShellKept, TypeOK, Launch, Reaped
  <2>2. LaunchInv'
    BY <1>2, <2>1 DEF LaunchInv, TypeOK, LaunchedInv, Launch, ShellKept, CanCall, At, CalledInto
  <2>3. GraceInv'
    BY <1>2 DEF GraceInv, TypeOK, Launch, CanCall, At, CalledInto
  <2>4. LaunchedInv'
    BY <1>2, <2>1 DEF LaunchedInv, TypeOK, Launch, ShellKept, CalledInto
  <2>5. RunningInv'
    BY <1>2, <2>1 DEF RunningInv, TypeOK, LaunchedInv, Launch, ShellKept, CanCall, At, CalledInto
  <2>6. EntryInv'
    BY <1>2 DEF EntryInv, TypeOK, LaunchedInv, Launch, CanCall, At, CalledInto
  <2>7. SweepInv'
    BY <1>2 DEF SweepInv, TypeOK, LaunchedInv, Launch, CanCall, At, CalledInto
  <2>8. DroppedShellsHaveEnded'
    BY <1>2, <2>1 DEF DroppedShellsHaveEnded, TypeOK, LaunchedInv, Launch, ShellKept
  <2>9. SweptGroupsAreDead'
    BY <1>2, <2>1 DEF SweptGroupsAreDead, TypeOK, LaunchedInv, Launch, ShellKept
  <2> QED BY <1>0, <2>2, <2>3, <2>4, <2>5, <2>6, <2>7, <2>8, <2>9 DEF IInv
<1>3. ASSUME NEW r \in Runs, Register(r) PROVE IInv'
  <2>1. \A q \in Pids : ShellKept(q)
    BY <1>3 DEF ShellKept, TypeOK, LaunchInv, At, Register, Reaped
  <2>2. LaunchInv'
    BY <1>3, <2>1 DEF LaunchInv, TypeOK, Register, ShellKept, At, BackToIdle
  <2>3. GraceInv'
    BY <1>3 DEF GraceInv, TypeOK, Register, At, BackToIdle
  <2>4. LaunchedInv'
    BY <1>3, <2>1 DEF LaunchedInv, TypeOK, LaunchInv, Register, ShellKept, BackToIdle, At
  <2>5. RunningInv'
    BY <1>3, <2>1 DEF RunningInv, TypeOK, LaunchInv, Register, ShellKept, At, BackToIdle
  <2>6. EntryInv'
    BY <1>3 DEF EntryInv, TypeOK, LaunchInv, Register, At, BackToIdle
  <2>7. SweepInv'
    BY <1>3 DEF SweepInv, TypeOK, LaunchInv, Register, At, BackToIdle
  <2>8. DroppedShellsHaveEnded'
    BY <1>3, <2>1 DEF DroppedShellsHaveEnded, TypeOK, LaunchInv, Register, ShellKept, At
  <2>9. SweptGroupsAreDead'
    BY <1>3, <2>1 DEF SweptGroupsAreDead, TypeOK, Register, ShellKept, At
  <2> QED BY <1>0, <2>2, <2>3, <2>4, <2>5, <2>6, <2>7, <2>8, <2>9 DEF IInv
<1>4. ASSUME NEW r \in Runs, RunBash(r) PROVE IInv'
  <2>1. \A q \in Pids : ShellKept(q)
    BY <1>4 DEF ShellKept, TypeOK, RunBash, Reaped
  <2>2. LaunchInv'
    BY <1>4, <2>1 DEF LaunchInv, TypeOK, RunBash, ShellKept, CanCall, At, Called
  <2>3. LaunchedInv'
    BY <1>4, <2>1 DEF LaunchedInv, TypeOK, RunBash, ShellKept, Called
  <2>4. RunningInv'
    BY <1>4, <2>1 DEF RunningInv, TypeOK, RunBash, ShellKept, CanCall, At, Called
  <2>5. DroppedShellsHaveEnded'
    BY <1>4, <2>1 DEF DroppedShellsHaveEnded, TypeOK, RunBash, ShellKept
  <2>6. SweptGroupsAreDead'
    BY <1>4, <2>1 DEF SweptGroupsAreDead, TypeOK, RunBash, ShellKept
  <2>7. UNCHANGED <<owner, registry, pc, target, leaked>>
    BY <1>4 DEF RunBash, Called
  <2>8. GraceInv'
    BY <2>7 DEF GraceInv
  <2>9. EntryInv'
    BY <2>7 DEF EntryInv
  <2>10. SweepInv'
    BY <2>7 DEF SweepInv
  <2> QED BY <1>0, <2>2, <2>3, <2>4, <2>5, <2>6, <2>8, <2>9, <2>10 DEF IInv
<1>5. ASSUME NEW r \in Runs, NEW p \in Pids, WaitCapped(r, p) PROVE IInv'
  <2>1. \A q \in Pids : ShellKept(q)
    BY <1>5 DEF ShellKept, TypeOK, WaitCapped, Reaped
  <2>2. LaunchInv'
    BY <1>5, <2>1 DEF LaunchInv, TypeOK, WaitCapped, ShellKept, CanCall, At, Called
  <2>3. LaunchedInv'
    BY <1>5, <2>1 DEF LaunchedInv, TypeOK, WaitCapped, ShellKept, Called
  <2>4. RunningInv'
    BY <1>5, <2>1 DEF RunningInv, TypeOK, WaitCapped, ShellKept, CanCall, At, Called
  <2>5. DroppedShellsHaveEnded'
    BY <1>5, <2>1 DEF DroppedShellsHaveEnded, TypeOK, WaitCapped, ShellKept
  <2>6. SweptGroupsAreDead'
    BY <1>5, <2>1 DEF SweptGroupsAreDead, TypeOK, WaitCapped, ShellKept
  <2>7. UNCHANGED <<owner, registry, pc, target, leaked>>
    BY <1>5 DEF WaitCapped, Called
  <2>8. GraceInv'
    BY <2>7 DEF GraceInv
  <2>9. EntryInv'
    BY <2>7 DEF EntryInv
  <2>10. SweepInv'
    BY <2>7 DEF SweepInv
  <2> QED BY <1>0, <2>2, <2>3, <2>4, <2>5, <2>6, <2>8, <2>9, <2>10 DEF IInv
<1>6. ASSUME NEW r \in Runs, NEW p \in Pids, WaitEnded(r, p) PROVE IInv'
  <2>1. \A q \in Pids : ShellKept(q)
    BY <1>6 DEF ShellKept, TypeOK, WaitEnded, Reaped
  <2>2. LaunchInv'
    BY <1>6, <2>1 DEF LaunchInv, TypeOK, WaitEnded, ShellKept, CanCall, At, Called
  <2>3. LaunchedInv'
    BY <1>6, <2>1 DEF LaunchedInv, TypeOK, WaitEnded, ShellKept, Called
  <2>4. RunningInv'
    BY <1>6, <2>1 DEF RunningInv, TypeOK, WaitEnded, ShellKept, CanCall, At, Called
  <2>5. EntryInv'
    BY <1>6 DEF EntryInv, TypeOK, WaitEnded, CanCall, At, Called
  <2>6. SweepInv'
    BY <1>6 DEF SweepInv, TypeOK, WaitEnded, CanCall, At, Called
  <2>7. DroppedShellsHaveEnded'
    BY <1>6, <2>1 DEF DroppedShellsHaveEnded, TypeOK, WaitEnded, ShellKept
  <2>8. SweptGroupsAreDead'
    BY <1>6, <2>1 DEF SweptGroupsAreDead, TypeOK, DroppedShellsHaveEnded, WaitEnded, ShellKept
  <2>9. UNCHANGED <<pc, target>>
    BY <1>6 DEF WaitEnded, Called
  <2>10. GraceInv'
    BY <2>9 DEF GraceInv
  <2> QED BY <1>0, <2>2, <2>3, <2>4, <2>5, <2>6, <2>7, <2>8, <2>10 DEF IInv
<1>7. ASSUME NEW r \in Runs, NEW p \in Pids, KillStart(r, p) PROVE IInv'
  <2>1. \A q \in Pids : ShellKept(q)
    BY <1>7 DEF ShellKept, TypeOK, KillStart, TermedLeader
  <2>2. LaunchInv'
    BY <1>7, <2>1 DEF LaunchInv, TypeOK, KillStart, ShellKept, CanCall, At, CalledInto
  <2>3. GraceInv'
    BY <1>7 DEF GraceInv, TypeOK, KillStart, CanCall, At, CalledInto
  <2>4. LaunchedInv'
    BY <1>7, <2>1 DEF LaunchedInv, TypeOK, KillStart, ShellKept, CalledInto
  <2>5. RunningInv'
    BY <1>7, <2>1 DEF RunningInv, TypeOK, KillStart, ShellKept, CanCall, At, CalledInto
  <2>6. EntryInv'
    BY <1>7 DEF EntryInv, TypeOK, KillStart, CanCall, At, CalledInto
  <2>7. SweepInv'
    BY <1>7 DEF SweepInv, TypeOK, KillStart, CanCall, At, CalledInto
  <2>8. DroppedShellsHaveEnded'
    BY <1>7, <2>1 DEF DroppedShellsHaveEnded, TypeOK, KillStart, ShellKept
  <2>9. SweptGroupsAreDead'
    BY <1>7, <2>1 DEF SweptGroupsAreDead, TypeOK, KillStart, ShellKept, TermedWorkers
  <2> QED BY <1>0, <2>2, <2>3, <2>4, <2>5, <2>6, <2>7, <2>8, <2>9 DEF IInv
<1>8. ASSUME NEW r \in Runs, NEW p \in Pids, KillFindsNone(r, p) PROVE IInv'
  <2>1. LaunchInv'
    BY <1>8 DEF LaunchInv, TypeOK, KillFindsNone, CanCall, At, Called, processes, GroupExists
  <2>2. LaunchedInv'
    BY <1>8 DEF LaunchedInv, TypeOK, KillFindsNone, Called, processes, GroupExists
  <2>3. RunningInv'
    BY <1>8 DEF RunningInv, TypeOK, KillFindsNone, CanCall, At, Called, processes, GroupExists
  <2>4. EntryInv'
    BY <1>8 DEF EntryInv, TypeOK, KillFindsNone, CanCall, At, Called, processes, GroupExists
  <2>5. SweepInv'
    BY <1>8 DEF SweepInv, TypeOK, KillFindsNone, CanCall, At, Called, processes, GroupExists
  <2>6. DroppedShellsHaveEnded'
    BY <1>8 DEF DroppedShellsHaveEnded, TypeOK, KillFindsNone, processes, GroupExists
  <2>7. SweptGroupsAreDead'
    BY <1>8 DEF SweptGroupsAreDead, TypeOK, DroppedShellsHaveEnded, KillFindsNone, processes, GroupExists
  <2>8. UNCHANGED <<pc, target>>
    BY <1>8 DEF KillFindsNone, Called, processes
  <2>9. GraceInv'
    BY <2>8 DEF GraceInv
  <2> QED BY <1>0, <2>1, <2>2, <2>3, <2>4, <2>5, <2>6, <2>7, <2>9 DEF IInv
<1>9. ASSUME NEW r \in Runs, KillEscalate(r) PROVE IInv'
  <2>1. \A q \in Pids : ShellKept(q)
    BY <1>9 DEF ShellKept, TypeOK, GraceInv, KillEscalate, KilledLeader
  <2>2. LaunchInv'
    BY <1>9, <2>1 DEF LaunchInv, TypeOK, GraceInv, KillEscalate, ShellKept, At, control
  <2>3. LaunchedInv'
    BY <1>9, <2>1 DEF LaunchedInv, TypeOK, GraceInv, KillEscalate, ShellKept, control
  <2>4. RunningInv'
    BY <1>9, <2>1 DEF RunningInv, TypeOK, GraceInv, KillEscalate, ShellKept, At, control
  <2>5. DroppedShellsHaveEnded'
    BY <1>9, <2>1 DEF DroppedShellsHaveEnded, TypeOK, GraceInv, KillEscalate, ShellKept, control
  <2>6. SweptGroupsAreDead'
    BY <1>9, <2>1 DEF SweptGroupsAreDead, TypeOK, GraceInv, KillEscalate, ShellKept, control, KilledWorkers
  <2>7. UNCHANGED <<owner, registry, pc, target, leaked>>
    BY <1>9 DEF KillEscalate, control
  <2>8. GraceInv'
    BY <2>7 DEF GraceInv
  <2>9. EntryInv'
    BY <2>7 DEF EntryInv
  <2>10. SweepInv'
    BY <2>7 DEF SweepInv
  <2> QED BY <1>0, <2>2, <2>3, <2>4, <2>5, <2>6, <2>8, <2>9, <2>10 DEF IInv
<1>10. ASSUME NEW r \in Runs, KillDone(r) PROVE IInv'
  <2>1. \A q \in Pids : ShellKept(q)
    BY <1>10 DEF ShellKept, TypeOK, GraceInv, At, InGrace, KillDone, Reaped
  <2>2. /\ target[r] \in Pids
        /\ leader[target[r]] # "running"
        /\ registry' = registry \ {target[r]}
        /\ \A q \in Pids : q # target[r] \/ q \notin registry => dropped'[q] = dropped[q]
        /\ \A q \in Pids : dropped'[q] \in {dropped[q], "killed"}
        /\ pc' = [pc EXCEPT ![r] = "idle"]
        /\ target' = [target EXCEPT ![r] = None]
        /\ UNCHANGED <<owner, leaked, workers>>
    BY <1>10 DEF TypeOK, GraceInv, KillDone, BackToIdle, At, InGrace
  <2>3. LaunchInv'
    BY <2>2, <2>1 DEF LaunchInv, TypeOK, ShellKept
  <2>4. GraceInv'
    BY <2>2 DEF GraceInv, TypeOK
  <2>5. LaunchedInv'
    BY <2>2, <2>1 DEF LaunchedInv, TypeOK, ShellKept
  <2>6. RunningInv'
    BY <2>2, <2>1 DEF RunningInv, TypeOK, ShellKept
  <2>7. EntryInv'
    BY <2>2 DEF EntryInv, TypeOK
  <2>8. SweepInv'
    BY <2>2 DEF SweepInv, TypeOK
  <2>9. DroppedShellsHaveEnded'
    BY <2>2, <2>1 DEF DroppedShellsHaveEnded, TypeOK, ShellKept
  <2>10. SweptGroupsAreDead'
    BY <2>2, <2>1 DEF SweptGroupsAreDead, TypeOK, DroppedShellsHaveEnded, ShellKept
  <2> QED BY <1>0, <2>3, <2>4, <2>5, <2>6, <2>7, <2>8, <2>9, <2>10 DEF IInv
<1>11. ASSUME NEW r \in Runs, NEW s \in Strays, KillStray(r, s) PROVE IInv'
  <2>1. UNCHANGED <<leader, workers, owner, registry, dropped, pc, target, leaked>>
    BY <1>11 DEF KillStray, Called
  <2>2. LaunchInv'
    BY <2>1 DEF LaunchInv
  <2>3. GraceInv'
    BY <2>1 DEF GraceInv
  <2>4. LaunchedInv'
    BY <2>1 DEF LaunchedInv
  <2>5. RunningInv'
    BY <2>1 DEF RunningInv
  <2>6. EntryInv'
    BY <2>1 DEF EntryInv
  <2>7. SweepInv'
    BY <2>1 DEF SweepInv
  <2>8. DroppedShellsHaveEnded'
    BY <2>1 DEF DroppedShellsHaveEnded
  <2>9. SweptGroupsAreDead'
    BY <2>1 DEF SweptGroupsAreDead
  <2> QED BY <1>0, <2>2, <2>3, <2>4, <2>5, <2>6, <2>7, <2>8, <2>9 DEF IInv
<1>12. ASSUME NEW r \in Runs, ExitUnswept(r) PROVE IInv'
  <2>1. LaunchInv'
    BY <1>12 DEF LaunchInv, TypeOK, ExitUnswept, At, processes
  <2>2. GraceInv'
    BY <1>12 DEF GraceInv, TypeOK, ExitUnswept, At, processes
  <2>3. RunningInv'
    BY <1>12 DEF RunningInv, TypeOK, ExitUnswept, At, processes
  <2>4. EntryInv'
    BY <1>12 DEF EntryInv, TypeOK, ExitUnswept, At, processes
  <2>5. SweepInv'
    BY <1>12 DEF SweepInv, TypeOK, ExitUnswept, At, processes
  <2>6. UNCHANGED <<leader, workers, registry, dropped, leaked>>
    BY <1>12 DEF ExitUnswept, processes
  <2>7. LaunchedInv'
    BY <2>6 DEF LaunchedInv
  <2>8. DroppedShellsHaveEnded'
    BY <2>6 DEF DroppedShellsHaveEnded
  <2>9. SweptGroupsAreDead'
    BY <2>6 DEF SweptGroupsAreDead
  <2> QED BY <1>0, <2>1, <2>2, <2>3, <2>4, <2>5, <2>7, <2>8, <2>9 DEF IInv
<1>13. ASSUME NEW r \in Runs, SweepTerm(r) PROVE IInv'
  <2>1. \A q \in Pids : ShellKept(q)
    BY <1>13 DEF ShellKept, TypeOK, SweepTerm, TermedLeader
  <2>2. LaunchInv'
    BY <1>13, <2>1 DEF LaunchInv, TypeOK, SweepTerm, ShellKept, At
  <2>3. GraceInv'
    BY <1>13 DEF GraceInv, TypeOK, SweepTerm, At
  <2>4. LaunchedInv'
    BY <1>13, <2>1 DEF LaunchedInv, TypeOK, SweepTerm, ShellKept
  <2>5. RunningInv'
    BY <1>13, <2>1 DEF RunningInv, TypeOK, SweepTerm, ShellKept, At
  <2>6. EntryInv'
    BY <1>13 DEF EntryInv, TypeOK, SweepTerm, At
  <2>7. SweepInv'
    BY <1>13 DEF SweepInv, TypeOK, SweepTerm, At
  <2>8. DroppedShellsHaveEnded'
    BY <1>13, <2>1 DEF DroppedShellsHaveEnded, TypeOK, SweepTerm, ShellKept
  <2>9. SweptGroupsAreDead'
    BY <1>13, <2>1 DEF SweptGroupsAreDead, TypeOK, SweepTerm, ShellKept, TermedWorkers
  <2> QED BY <1>0, <2>2, <2>3, <2>4, <2>5, <2>6, <2>7, <2>8, <2>9 DEF IInv
<1>14. ASSUME NEW r \in Runs, SweepKill(r) PROVE IInv'
  <2>1. \A q \in Pids : ShellKept(q)
    BY <1>14 DEF ShellKept, TypeOK, LaunchedInv, SweepKill
  <2>2. LaunchInv'
    BY <1>14, <2>1 DEF LaunchInv, TypeOK, SweepKill, ShellKept, At
  <2>3. GraceInv'
    BY <1>14 DEF GraceInv, TypeOK, SweepKill, At
  <2>4. LaunchedInv'
    BY <1>14, <2>1 DEF LaunchedInv, TypeOK, SweepKill, ShellKept
  <2>5. RunningInv'
    BY <1>14, <2>1 DEF RunningInv, TypeOK, SweepKill, ShellKept, At
  <2>6. EntryInv'
    BY <1>14 DEF EntryInv, TypeOK, SweepInv, SweepKill, At
  <2>7. SweepInv'
    BY <1>14 DEF SweepInv, TypeOK, SweepKill, At
  <2>8. DroppedShellsHaveEnded'
    BY <1>14, <2>1 DEF DroppedShellsHaveEnded, TypeOK, SweepKill, ShellKept
  <2>9. SweptGroupsAreDead'
    BY <1>14, <2>1 DEF SweptGroupsAreDead, TypeOK, DroppedShellsHaveEnded, SweepKill, ShellKept, KilledWorkers
  <2> QED BY <1>0, <2>2, <2>3, <2>4, <2>5, <2>6, <2>7, <2>8, <2>9 DEF IInv
<1>15. ASSUME NEW p \in Pids, LeaderExits(p) PROVE IInv'
  <2>1. \A q \in Pids : ShellKept(q)
    BY <1>15 DEF ShellKept, TypeOK, LeaderExits
  <2>2. LaunchInv'
    BY <1>15, <2>1 DEF LaunchInv, TypeOK, LeaderExits, ShellKept, At, control
  <2>3. LaunchedInv'
    BY <1>15, <2>1 DEF LaunchedInv, TypeOK, LeaderExits, ShellKept, control
  <2>4. RunningInv'
    BY <1>15, <2>1 DEF RunningInv, TypeOK, LeaderExits, ShellKept, At, control
  <2>5. DroppedShellsHaveEnded'
    BY <1>15, <2>1 DEF DroppedShellsHaveEnded, TypeOK, LeaderExits, ShellKept, control
  <2>6. SweptGroupsAreDead'
    BY <1>15, <2>1 DEF SweptGroupsAreDead, TypeOK, LeaderExits, ShellKept, control
  <2>7. UNCHANGED <<owner, registry, pc, target, leaked>>
    BY <1>15 DEF LeaderExits, control
  <2>8. GraceInv'
    BY <2>7 DEF GraceInv
  <2>9. EntryInv'
    BY <2>7 DEF EntryInv
  <2>10. SweepInv'
    BY <2>7 DEF SweepInv
  <2> QED BY <1>0, <2>2, <2>3, <2>4, <2>5, <2>6, <2>8, <2>9, <2>10 DEF IInv
<1>16. ASSUME NEW p \in Pids, NEW kind \in WorkerKinds, WorkerStarts(p, kind) PROVE IInv'
  <2>1. SweptGroupsAreDead'
    BY <1>16 DEF SweptGroupsAreDead, TypeOK, WorkerStarts, control
  <2>2. UNCHANGED <<leader, owner, registry, dropped, pc, target, leaked>>
    BY <1>16 DEF WorkerStarts, control
  <2>3. LaunchInv'
    BY <2>2 DEF LaunchInv
  <2>4. GraceInv'
    BY <2>2 DEF GraceInv
  <2>5. LaunchedInv'
    BY <2>2 DEF LaunchedInv
  <2>6. RunningInv'
    BY <2>2 DEF RunningInv
  <2>7. EntryInv'
    BY <2>2 DEF EntryInv
  <2>8. SweepInv'
    BY <2>2 DEF SweepInv
  <2>9. DroppedShellsHaveEnded'
    BY <2>2 DEF DroppedShellsHaveEnded
  <2> QED BY <1>0, <2>1, <2>3, <2>4, <2>5, <2>6, <2>7, <2>8, <2>9 DEF IInv
<1>17. ASSUME NEW p \in Pids, NEW kind \in WorkerKinds, WorkerExits(p, kind) PROVE IInv'
  <2>1. SweptGroupsAreDead'
    BY <1>17 DEF SweptGroupsAreDead, TypeOK, WorkerExits, control
  <2>2. UNCHANGED <<leader, owner, registry, dropped, pc, target, leaked>>
    BY <1>17 DEF WorkerExits, control
  <2>3. LaunchInv'
    BY <2>2 DEF LaunchInv
  <2>4. GraceInv'
    BY <2>2 DEF GraceInv
  <2>5. LaunchedInv'
    BY <2>2 DEF LaunchedInv
  <2>6. RunningInv'
    BY <2>2 DEF RunningInv
  <2>7. EntryInv'
    BY <2>2 DEF EntryInv
  <2>8. SweepInv'
    BY <2>2 DEF SweepInv
  <2>9. DroppedShellsHaveEnded'
    BY <2>2 DEF DroppedShellsHaveEnded
  <2> QED BY <1>0, <2>1, <2>3, <2>4, <2>5, <2>6, <2>7, <2>8, <2>9 DEF IInv
<1>18. ASSUME NEW s \in Strays, StrayExits(s) PROVE IInv'
  <2>1. UNCHANGED <<leader, workers, owner, registry, dropped, pc, target, leaked>>
    BY <1>18 DEF StrayExits, control
  <2>2. LaunchInv'
    BY <2>1 DEF LaunchInv
  <2>3. GraceInv'
    BY <2>1 DEF GraceInv
  <2>4. LaunchedInv'
    BY <2>1 DEF LaunchedInv
  <2>5. RunningInv'
    BY <2>1 DEF RunningInv
  <2>6. EntryInv'
    BY <2>1 DEF EntryInv
  <2>7. SweepInv'
    BY <2>1 DEF SweepInv
  <2>8. DroppedShellsHaveEnded'
    BY <2>1 DEF DroppedShellsHaveEnded
  <2>9. SweptGroupsAreDead'
    BY <2>1 DEF SweptGroupsAreDead
  <2> QED BY <1>0, <2>2, <2>3, <2>4, <2>5, <2>6, <2>7, <2>8, <2>9 DEF IInv
<1>19. CASE UNCHANGED vars
  <2>1. UNCHANGED <<leader, workers, owner, registry, dropped, pc, target, leaked>>
    BY <1>19 DEF vars, processes, control
  <2>2. LaunchInv'
    BY <2>1 DEF LaunchInv
  <2>3. GraceInv'
    BY <2>1 DEF GraceInv
  <2>4. LaunchedInv'
    BY <2>1 DEF LaunchedInv
  <2>5. RunningInv'
    BY <2>1 DEF RunningInv
  <2>6. EntryInv'
    BY <2>1 DEF EntryInv
  <2>7. SweepInv'
    BY <2>1 DEF SweepInv
  <2>8. DroppedShellsHaveEnded'
    BY <2>1 DEF DroppedShellsHaveEnded
  <2>9. SweptGroupsAreDead'
    BY <2>1 DEF SweptGroupsAreDead
  <2> QED BY <1>0, <2>2, <2>3, <2>4, <2>5, <2>6, <2>7, <2>8, <2>9 DEF IInv
<1> QED
  BY <1>1, <1>2, <1>3, <1>4, <1>5, <1>6, <1>7, <1>8, <1>9, <1>10, <1>11, <1>12, <1>13, <1>14, <1>15, <1>16, <1>17, <1>18, <1>19
  DEF Next, RunStep, ToolCall, Continue, Leave, ProcessStep, Finished

LEMMA Invariance == Spec => []IInv
  BY InvInit, InvStep, PTL DEF Spec

-----------------------------------------------------------------------------
(* Theorems *)

\* Every variable has its type, in every state: the states of the shells, the
\* owners and the registry are what the tools and the sweep make them.
THEOREM TypeCorrect == Spec => []TypeOK
<1>1. IInv => TypeOK
  BY DEF IInv
<1> QED
  BY <1>1, Invariance, PTL

\* wait_and_tail, kill_process and the sweep never drop the entry of a job
\* whose shell still runs, and bash_async loses none on its way to the registry.
THEOREM ShellsAreTracked == Spec => []LiveShellsTracked
<1>1. IInv => LiveShellsTracked
  BY DEF IInv, RunningInv, LiveShellsTracked
<1> QED
  BY <1>1, Invariance, PTL

\* However many runs share the registry: when a node has exited through the
\* sweep, no shell that bash_async launched for its run is left running.
THEOREM NoShellSurvives == Spec => []NoShellSurvivesNodeExit
<1>1. IInv => NoShellSurvivesNodeExit
  <2> SUFFICES ASSUME IInv, NEW r \in Runs, NEW p \in Pids,
                      pc[r] = "out", owner[p] = r, leader[p] = "running"
               PROVE FALSE
    BY DEF NoShellSurvivesNodeExit
  <2>1. p \in registry
    BY DEF IInv, RunningInv
  <2> QED BY <2>1 DEF IInv, EntryInv
<1> QED
  BY <1>1, Invariance, PTL

\* An entry never outlives the node of the run that made it.
THEOREM EntriesAreOfOpenNodes == Spec => []EntriesOfOpenNodesOnly
<1>1. IInv => EntriesOfOpenNodesOnly
  BY DEF IInv, EntryInv, EntriesOfOpenNodesOnly
<1> QED
  BY <1>1, Invariance, PTL

\* A job whose entry was dropped, by an answer of a tool or by a sweep of any
\* run, has a shell that has ended.
THEOREM DroppedJobsHaveEnded == Spec => []DroppedShellsHaveEnded
<1>1. IInv => DroppedShellsHaveEnded
  BY DEF IInv
<1> QED
  BY <1>1, Invariance, PTL

\* A job the sweep disposed of is gone with its whole group.
THEOREM SweptJobsAreGone == Spec => []SweptGroupsAreDead
<1>1. IInv => SweptGroupsAreDead
  BY DEF IInv
<1> QED
  BY <1>1, Invariance, PTL

-----------------------------------------------------------------------------
(* Refinement *)

\* The step launches no job: launched jobs stay the same, running ones may end.
NoLaunch ==
    /\ \A p \in Pids : /\ leader'[p] = "running" => leader[p] = "running"
                       /\ leader'[p] = "none" <=> leader[p] = "none"
    /\ owner' = owner

LEMMA RefinementInit == Init => ScopedJobs!Init
  BY DEF Init, ScopedJobs!Init

LEMMA RefinementStep == IInv /\ IInv' /\ [Next]_vars => [ScopedJobs!Next]_ScopedJobs!vars
<1> DEFINE Open == {r \in Runs : pc[r] # "out"}
           Launched == {p \in Pids : leader[p] # "none"}
           Running == [r \in Runs |-> {p \in Pids : leader[p] = "running" /\ owner[p] = r}]
<1> SUFFICES ASSUME TypeOK, LaunchInv, GraceInv, LaunchedInv, IInv', [Next]_vars
             PROVE ScopedJobs!Next \/ UNCHANGED ScopedJobs!vars
  BY DEF IInv
<1>no. ASSUME NoLaunch
       PROVE Launched' = Launched /\ \A q \in Runs : Running'[q] \subseteq Running[q]
  BY <1>no DEF NoLaunch
<1>end. ASSUME NoLaunch, Open' = Open PROVE ScopedJobs!Next
  BY <1>no, <1>end DEF ScopedJobs!Next, ScopedJobs!End
<1>exit. ASSUME NEW r \in Runs, NoLaunch, pc[r] # "out", pc' = [pc EXCEPT ![r] = "out"]
         PROVE ScopedJobs!Next
  <2>1. NoShellSurvivesNodeExit'
    <3> SUFFICES ASSUME NEW q \in Runs, NEW p \in Pids,
                        pc'[q] = "out", owner'[p] = q, leader'[p] = "running"
                 PROVE FALSE
      BY DEF NoShellSurvivesNodeExit
    <3>1. p \in registry'
      BY DEF IInv, RunningInv
    <3> QED BY <3>1 DEF IInv, EntryInv
  <2>2. Open' = Open \ {r} /\ r \in Open
    BY <1>exit DEF TypeOK
  <2>3. Running'[r] = {}
    BY <1>exit, <2>1 DEF TypeOK, NoShellSurvivesNodeExit
  <2> QED BY <1>exit, <1>no, <2>2, <2>3 DEF ScopedJobs!Next, ScopedJobs!Exit
<1>1. ASSUME NEW r \in Runs, EnterNode(r) PROVE ScopedJobs!Next
  <2>1. Open' = Open \cup {r} /\ r \notin Open /\ UNCHANGED <<Launched, Running>>
    BY <1>1 DEF EnterNode, At, TypeOK, processes
  <2> QED BY <2>1 DEF ScopedJobs!Next, ScopedJobs!Enter
<1>2. ASSUME NEW r \in Runs, NEW p \in Pids, Launch(r, p) PROVE ScopedJobs!Next
  <2>1. r \in Open /\ Open' = Open
    BY <1>2 DEF Launch, CanCall, At, CalledInto, TypeOK
  <2>2. p \notin Launched /\ Launched' = Launched \cup {p}
    BY <1>2 DEF Launch, Reaped, TypeOK
  <2>3. Running' = [Running EXCEPT ![r] = @ \cup {p}]
    <3>1. /\ leader[p] = "none" /\ leader'[p] = "running" /\ owner'[p] = r
          /\ \A q \in Pids \ {p} : owner'[q] = owner[q] /\ (leader'[q] = "running" <=> leader[q] = "running")
      BY <1>2 DEF Launch, Reaped, TypeOK
    <3>2. ASSUME NEW q \in Runs
          PROVE Running'[q] = IF q = r THEN Running[r] \cup {p} ELSE Running[q]
      BY <3>1
    <3> QED BY <3>2
  <2> QED BY <2>1, <2>2, <2>3 DEF ScopedJobs!Next, ScopedJobs!Launch
<1>3. ASSUME NEW r \in Runs, Register(r) PROVE ScopedJobs!Next
  <2>1. NoLaunch
    BY <1>3 DEF NoLaunch, TypeOK, Register, LaunchInv, At, Reaped
  <2>2. pc[r] # "out" /\ pc' = [pc EXCEPT ![r] = "idle"]
    BY <1>3 DEF Register, At, BackToIdle
  <2>3. Open' = Open
    BY <2>2 DEF TypeOK
  <2> QED BY <2>1, <2>3, <1>end
<1>4. ASSUME NEW r \in Runs, RunBash(r) PROVE ScopedJobs!Next
  <2>1. NoLaunch
    BY <1>4 DEF NoLaunch, TypeOK, RunBash, Reaped
  <2>2. Open' = Open
    BY <1>4 DEF RunBash, Called
  <2> QED BY <2>1, <2>2, <1>end
<1>5. ASSUME NEW r \in Runs, NEW p \in Pids, WaitCapped(r, p) PROVE ScopedJobs!Next
  <2>1. NoLaunch
    BY <1>5 DEF NoLaunch, TypeOK, WaitCapped, Reaped
  <2>2. Open' = Open
    BY <1>5 DEF WaitCapped, Called
  <2> QED BY <2>1, <2>2, <1>end
<1>6. ASSUME NEW r \in Runs, NEW p \in Pids, WaitEnded(r, p) PROVE ScopedJobs!Next
  <2>1. NoLaunch
    BY <1>6 DEF NoLaunch, TypeOK, WaitEnded, Reaped
  <2>2. Open' = Open
    BY <1>6 DEF WaitEnded, Called
  <2> QED BY <2>1, <2>2, <1>end
<1>7. ASSUME NEW r \in Runs, NEW p \in Pids, KillStart(r, p) PROVE ScopedJobs!Next
  <2>1. NoLaunch
    BY <1>7 DEF NoLaunch, TypeOK, KillStart, TermedLeader
  <2>2. pc[r] # "out" /\ \E label \in PCs \ {"out"} : pc' = [pc EXCEPT ![r] = label]
    <3>1. CASE p \in registry
      BY <1>7, <3>1 DEF KillStart, CalledInto, CanCall, At, PCs
    <3>2. CASE p \notin registry
      BY <1>7, <3>2 DEF KillStart, CalledInto, CanCall, At, PCs
    <3> QED BY <3>1, <3>2
  <2>3. Open' = Open
    BY <2>2 DEF TypeOK
  <2> QED BY <2>1, <2>3, <1>end
<1>8. ASSUME NEW r \in Runs, NEW p \in Pids, KillFindsNone(r, p) PROVE ScopedJobs!Next
  <2>1. NoLaunch
    BY <1>8 DEF NoLaunch, TypeOK, KillFindsNone, processes
  <2>2. Open' = Open
    BY <1>8 DEF KillFindsNone, Called
  <2> QED BY <2>1, <2>2, <1>end
<1>9. ASSUME NEW r \in Runs, KillEscalate(r) PROVE ScopedJobs!Next
  <2>1. NoLaunch
    BY <1>9 DEF NoLaunch, TypeOK, KillEscalate, GraceInv, KilledLeader
  <2>2. Open' = Open
    BY <1>9 DEF KillEscalate, control
  <2> QED BY <2>1, <2>2, <1>end
<1>10. ASSUME NEW r \in Runs, KillDone(r) PROVE ScopedJobs!Next
  <2>1. NoLaunch
    BY <1>10 DEF NoLaunch, TypeOK, KillDone, GraceInv, At, InGrace, Reaped
  <2>2. pc[r] # "out" /\ pc' = [pc EXCEPT ![r] = "idle"]
    BY <1>10 DEF KillDone, BackToIdle, At, InGrace
  <2>3. Open' = Open
    BY <2>2 DEF TypeOK
  <2> QED BY <2>1, <2>3, <1>end
<1>11. ASSUME NEW r \in Runs, NEW s \in Strays, KillStray(r, s) PROVE ScopedJobs!Next
  <2>1. NoLaunch
    BY <1>11 DEF NoLaunch, TypeOK, KillStray
  <2>2. Open' = Open
    BY <1>11 DEF KillStray, Called
  <2> QED BY <2>1, <2>2, <1>end
<1>12. ASSUME NEW r \in Runs, ExitUnswept(r) PROVE ScopedJobs!Next
  <2>1. NoLaunch
    BY <1>12 DEF NoLaunch, TypeOK, ExitUnswept, processes
  <2> QED BY <1>12, <2>1, <1>exit DEF ExitUnswept, At
<1>13. ASSUME NEW r \in Runs, SweepTerm(r) PROVE ScopedJobs!Next
  <2>1. NoLaunch
    BY <1>13 DEF NoLaunch, TypeOK, SweepTerm, TermedLeader
  <2>2. pc[r] # "out" /\ pc' = [pc EXCEPT ![r] = "sweeping"]
    BY <1>13 DEF SweepTerm, At
  <2>3. Open' = Open
    BY <2>2 DEF TypeOK
  <2> QED BY <2>1, <2>3, <1>end
<1>14. ASSUME NEW r \in Runs, SweepKill(r) PROVE ScopedJobs!Next
  <2>1. NoLaunch
    BY <1>14 DEF NoLaunch, TypeOK, SweepKill, LaunchedInv
  <2> QED BY <1>14, <2>1, <1>exit DEF SweepKill, At
<1>15. ASSUME NEW p \in Pids, LeaderExits(p) PROVE ScopedJobs!Next
  <2>1. NoLaunch
    BY <1>15 DEF NoLaunch, TypeOK, LeaderExits
  <2>2. Open' = Open
    BY <1>15 DEF LeaderExits, control
  <2> QED BY <2>1, <2>2, <1>end
<1>16. ASSUME NEW p \in Pids, NEW kind \in WorkerKinds, WorkerStarts(p, kind) PROVE ScopedJobs!Next
  <2>1. NoLaunch
    BY <1>16 DEF NoLaunch, TypeOK, WorkerStarts
  <2>2. Open' = Open
    BY <1>16 DEF WorkerStarts, control
  <2> QED BY <2>1, <2>2, <1>end
<1>17. ASSUME NEW p \in Pids, NEW kind \in WorkerKinds, WorkerExits(p, kind) PROVE ScopedJobs!Next
  <2>1. NoLaunch
    BY <1>17 DEF NoLaunch, TypeOK, WorkerExits
  <2>2. Open' = Open
    BY <1>17 DEF WorkerExits, control
  <2> QED BY <2>1, <2>2, <1>end
<1>18. ASSUME NEW s \in Strays, StrayExits(s) PROVE ScopedJobs!Next
  <2>1. NoLaunch
    BY <1>18 DEF NoLaunch, TypeOK, StrayExits
  <2>2. Open' = Open
    BY <1>18 DEF StrayExits, control
  <2> QED BY <2>1, <2>2, <1>end
<1>19. CASE UNCHANGED vars
  BY <1>19 DEF vars, processes, control, ScopedJobs!vars
<1> QED
  BY <1>1, <1>2, <1>3, <1>4, <1>5, <1>6, <1>7, <1>8, <1>9, <1>10, <1>11, <1>12, <1>13, <1>14, <1>15, <1>16, <1>17, <1>18, <1>19
  DEF Next, RunStep, ToolCall, Continue, Leave, ProcessStep, Finished

\* The registry, the three tools and the sweep implement NodeScopedJobs: a job
\* launched inside a node runs only while that run is in a node, is launched
\* once and never comes back (the liveness part is model-checked).
THEOREM RefinesScopedJobs == Spec => ScopedJobs!Safety
  BY Invariance, RefinementInit, RefinementStep, PTL DEF Spec, ScopedJobs!Safety

=============================================================================
