---------------------------- MODULE ProcessTools ----------------------------
(***************************************************************************)
(* The background-process tools of src/tools.py (bash_async,               *)
(* wait_and_tail, kill_process, run_bash) and the sweep that nodes.py runs *)
(* when an Action Node exits, over a model of the POSIX processes they     *)
(* manage.                                                                 *)
(*                                                                         *)
(* A run is one graph run: a thread of the server (agent.py starts it with *)
(* asyncio.to_thread) that passes through Action Nodes.  All runs share    *)
(* the module-global registry _ACTIVE_PROCESSES.  A job is a bash_async    *)
(* shell; start_new_session makes its pid the id of its process group, so  *)
(* one name stands for both.  The job's other group members are its        *)
(* workers: a "mild" one dies of SIGTERM, a "stubborn" one ignores it.     *)
(*                                                                         *)
(* A signal takes effect in the step that sends it, and pids are not       *)
(* recycled.                                                               *)
(***************************************************************************)
EXTENDS Naturals, FiniteSets

CONSTANTS
    Runs,      \* graph runs of one server process
    Pids,      \* pids (= process group ids) bash_async jobs can get
    Strays,    \* pids of children a run_bash command can leave behind
    None,      \* no run, no pid
    MaxCalls,  \* tool calls of one node: bounded by its recursion limit
    MaxNodes   \* Action Nodes of one run: bounded by the iteration cap

ASSUME ConstantsAssumption ==
    /\ None \notin Runs
    /\ None \notin Pids
    /\ MaxCalls \in Nat
    /\ MaxNodes \in Nat

VARIABLES
    leader,    \* [Pids -> state of the job's shell, our child]
    workers,   \* [Pids -> kinds of the other living members of its group]
    hardened,  \* the jobs whose shell ignores SIGTERM
    owner,     \* [Pids -> the run whose bash_async launched the job]
    registry,  \* keys of _ACTIVE_PROCESSES
    dropped,   \* [Pids -> what removed the job's entry] (history)
    strays,    \* [Strays -> state of a child left by run_bash]
    server,    \* "up", or the last signal its own process group got
    pc,        \* [Runs -> where the run's thread is]
    target,    \* [Runs -> job a bash_async or kill_process is about]
    leaked,    \* [Runs -> leaked_pids of the sweep in progress]
    calls,     \* [Runs -> tool calls the current node has made]
    nodes      \* [Runs -> Action Nodes entered]

processes == <<leader, workers, hardened, owner, strays, server>>
control == <<pc, target, leaked, calls, nodes>>
vars == <<processes, registry, dropped, control>>

WorkerKinds == {"mild", "stubborn"}
LeaderStates == {"none", "running", "zombie", "gone"}
Endings == {"no", "exited", "dead", "killed", "swept"}
PCs == {"out", "idle", "launched", "grace", "blind grace", "sweeping"}

Init ==
    /\ leader = [p \in Pids |-> "none"]
    /\ workers = [p \in Pids |-> {}]
    /\ hardened = {}
    /\ owner = [p \in Pids |-> None]
    /\ registry = {}
    /\ dropped = [p \in Pids |-> "no"]
    /\ strays = [s \in Strays |-> "none"]
    /\ server = "up"
    /\ pc = [r \in Runs |-> "out"]
    /\ target = [r \in Runs |-> None]
    /\ leaked = [r \in Runs |-> {}]
    /\ calls = [r \in Runs |-> 0]
    /\ nodes = [r \in Runs |-> 0]

-----------------------------------------------------------------------------
(* POSIX processes *)

\* Every subprocess.Popen first runs subprocess._cleanup(), which waits for
\* each ended child whose Popen object was dropped, as bash_async drops its
\* own: any spawn takes the exit status of every ended job.
Reaped(ls) == [p \in Pids |-> IF ls[p] = "zombie" THEN "gone" ELSE ls[p]]

\* A zombie still counts as a member: killpg on such a group succeeds.
GroupExists(p) == leader[p] \in {"running", "zombie"} \/ workers[p] # {}

\* SIGTERM to the groups of S, then SIGKILL to the groups of S.
TermedLeader(S) == [p \in Pids |->
    IF p \in S \ hardened /\ leader[p] = "running" THEN "zombie" ELSE leader[p]]
TermedWorkers(S) == [p \in Pids |->
    IF p \in S THEN workers[p] \ {"mild"} ELSE workers[p]]
KilledLeader(S) == [p \in Pids |->
    IF p \in S /\ leader[p] = "running" THEN "zombie" ELSE leader[p]]
\* Mutant: os.kill of the shell where the code has os.killpg.
KilledWorkersNot(S) == workers

KilledWorkers(S) == [p \in Pids |-> IF p \in S THEN {} ELSE workers[p]]

LeaderExits(p) ==
    /\ leader[p] = "running"
    /\ leader' = [leader EXCEPT ![p] = "zombie"]
    /\ UNCHANGED <<workers, hardened, owner, strays, server, registry, dropped, control>>

WorkerStarts(p, kind) ==
    /\ leader[p] = "running" \/ workers[p] # {}
    /\ kind \notin workers[p]
    /\ workers' = [workers EXCEPT ![p] = @ \cup {kind}]
    /\ UNCHANGED <<leader, hardened, owner, strays, server, registry, dropped, control>>

WorkerExits(p, kind) ==
    /\ kind \in workers[p]
    /\ workers' = [workers EXCEPT ![p] = @ \ {kind}]
    /\ UNCHANGED <<leader, hardened, owner, strays, server, registry, dropped, control>>

StrayExits(s) ==
    /\ strays[s] = "running"
    /\ strays' = [strays EXCEPT ![s] = "gone"]
    /\ UNCHANGED <<leader, workers, hardened, owner, server, registry, dropped, control>>

-----------------------------------------------------------------------------
(* The tools, as the thread of run r calls them *)

\* SIGKILL ends the server; SIGTERM lets the runs' threads finish.
At(r, label) == pc[r] = label /\ server # "killed"

\* Mutant: a node without a limit on its rounds.
CanCallUnlimited(r) == At(r, "idle")

CanCall(r) == At(r, "idle") /\ calls[r] < MaxCalls

\* A tool call that ends within its step, respectively goes on at label.
Called(r) ==
    /\ calls' = [calls EXCEPT ![r] = @ + 1]
    /\ UNCHANGED <<pc, target, leaked, nodes>>
CalledInto(r, label, p) ==
    /\ calls' = [calls EXCEPT ![r] = @ + 1]
    /\ pc' = [pc EXCEPT ![r] = label]
    /\ target' = [target EXCEPT ![r] = p]
    /\ UNCHANGED <<leaked, nodes>>
BackToIdle(r) ==
    /\ pc' = [pc EXCEPT ![r] = "idle"]
    /\ target' = [target EXCEPT ![r] = None]
    /\ UNCHANGED <<leaked, calls, nodes>>

EnterNode(r) ==
    /\ At(r, "out")
    /\ nodes[r] < MaxNodes
    /\ nodes' = [nodes EXCEPT ![r] = @ + 1]
    /\ calls' = [calls EXCEPT ![r] = 0]
    /\ pc' = [pc EXCEPT ![r] = "idle"]
    /\ UNCHANGED <<processes, registry, dropped, target, leaked>>

\* bash_async up to Popen: the job runs, the registry does not know it yet.
Launch(r, p) ==
    /\ CanCall(r)
    /\ leader[p] = "none"
    /\ leader' = [Reaped(leader) EXCEPT ![p] = "running"]
    /\ hardened' \in {hardened, hardened \cup {p}}
    /\ owner' = [owner EXCEPT ![p] = r]
    /\ CalledInto(r, "launched", p)
    /\ UNCHANGED <<workers, strays, server, registry, dropped>>

\* The rest of bash_async; returning drops the Popen, which polls its child.
Register(r) ==
    /\ At(r, "launched")
    /\ registry' = registry \cup {target[r]}
    /\ leader' = [leader EXCEPT ![target[r]] = Reaped(leader)[target[r]]]
    /\ BackToIdle(r)
    /\ UNCHANGED <<workers, hardened, owner, strays, server, dropped>>

\* run_bash and _read_log_tail spawn a child in the server's own group and
\* wait for it; a `cmd &', or a timeout that kills the shell only, leaves
\* descendants of the command behind.
RunBash(r) ==
    /\ CanCall(r)
    /\ leader' = Reaped(leader)
    /\ \E left \in SUBSET {s \in Strays : strays[s] = "none"} :
          strays' = [s \in Strays |-> IF s \in left THEN "running" ELSE strays[s]]
    /\ Called(r)
    /\ UNCHANGED <<workers, hardened, owner, server, registry, dropped>>

\* Mutant: the entry dropped on every return, not on terminal status only.
WaitCappedDrops(r, p) ==
    /\ CanCall(r)
    /\ leader[p] = "running"
    /\ leader' = Reaped(leader)
    /\ registry' = registry \ {p}
    /\ Called(r)
    /\ UNCHANGED <<workers, hardened, owner, strays, server, dropped>>

\* wait_and_tail whose cap passes first: only its `tail' has an effect.
WaitCapped(r, p) ==
    /\ CanCall(r)
    /\ leader[p] = "running"
    /\ leader' = Reaped(leader)
    /\ Called(r)
    /\ UNCHANGED <<workers, hardened, owner, strays, server, registry, dropped>>

\* wait_and_tail that sees the shell ended: "exited" if its own waitpid
\* got the status, "dead" if someone else had.  Drops the entry.
WaitEnded(r, p) ==
    /\ CanCall(r)
    /\ leader[p] \in {"zombie", "gone"}
    /\ leader' = Reaped(leader)
    /\ registry' = registry \ {p}
    /\ dropped' = IF p \in registry
                    THEN [dropped EXCEPT ![p] =
                             IF leader[p] = "zombie" THEN "exited" ELSE "dead"]
                    ELSE dropped
    /\ Called(r)
    /\ UNCHANGED <<workers, hardened, owner, strays, server>>

\* kill_process finds a group to signal: by the entry, else by getpgid.
KillStart(r, p) ==
    /\ CanCall(r)
    /\ IF p \in registry THEN GroupExists(p)
                         ELSE leader[p] \in {"running", "zombie"}
    /\ leader' = TermedLeader({p})
    /\ workers' = TermedWorkers({p})
    /\ CalledInto(r, IF p \in registry THEN "grace" ELSE "blind grace", p)
    /\ UNCHANGED <<hardened, owner, strays, server, registry, dropped>>

\* killpg finds no member of a registered group: ProcessLookupError.
KillFindsNone(r, p) ==
    /\ CanCall(r)
    /\ p \in registry
    /\ ~GroupExists(p)
    /\ registry' = registry \ {p}
    /\ dropped' = [dropped EXCEPT ![p] = "killed"]
    /\ Called(r)
    /\ UNCHANGED processes

InGrace(r) == At(r, "grace") \/ At(r, "blind grace")

\* Mutant: SIGTERM again instead of SIGKILL.
KillEscalateTerm(r) ==
    /\ InGrace(r)
    /\ leader[target[r]] = "running"
    /\ leader' = TermedLeader({target[r]})
    /\ workers' = TermedWorkers({target[r]})
    /\ UNCHANGED <<hardened, owner, strays, server, registry, dropped, control>>

\* The shell outlives the 5 s grace period: SIGKILL to the group.
KillEscalate(r) ==
    /\ InGrace(r)
    /\ leader[target[r]] = "running"
    /\ leader' = KilledLeader({target[r]})
    /\ workers' = KilledWorkers({target[r]})
    /\ UNCHANGED <<hardened, owner, strays, server, registry, dropped, control>>

\* Mutant: kill_process returns at the end of the grace period regardless.
KillDoneEarly(r) ==
    LET p == target[r]
    IN  /\ InGrace(r)
        /\ leader' = IF At(r, "grace") THEN Reaped(leader)
                                       ELSE [leader EXCEPT ![p] = Reaped(leader)[p]]
        /\ registry' = registry \ {p}
        /\ dropped' = IF p \in registry THEN [dropped EXCEPT ![p] = "killed"]
                                        ELSE dropped
        /\ BackToIdle(r)
        /\ UNCHANGED <<workers, hardened, owner, strays, server>>

\* A poll sees the shell ended (and reaps it): no SIGKILL, whatever lives
\* on in the group.  The `tail' at the end runs if there was an entry.
KillDone(r) ==
    LET p == target[r]
    IN  /\ InGrace(r)
        /\ leader[p] # "running"
        /\ leader' = IF At(r, "grace") THEN Reaped(leader)
                                       ELSE [leader EXCEPT ![p] = Reaped(leader)[p]]
        /\ registry' = registry \ {p}
        /\ dropped' = IF p \in registry THEN [dropped EXCEPT ![p] = "killed"]
                                        ELSE dropped
        /\ BackToIdle(r)
        /\ UNCHANGED <<workers, hardened, owner, strays, server>>

\* kill_process on a child left by run_bash: getpgid answers the server's
\* own group.  SIGTERM reaches it all; if s survives, so does SIGKILL.
KillStray(r, s) ==
    /\ CanCall(r)
    /\ strays[s] = "running"
    /\ \E survivors \in SUBSET {q \in Strays : strays[q] = "running"} :
          /\ server' = IF s \in survivors THEN "killed" ELSE "termed"
          /\ strays' = [q \in Strays |->
                IF strays[q] = "running" /\ (q \notin survivors \/ s \in survivors)
                  THEN "gone" ELSE strays[q]]
    /\ Called(r)
    /\ UNCHANGED <<leader, workers, hardened, owner, registry, dropped>>

\* Mutant: an exit path of the node around the sweep.
ExitUnsweptAlways(r) ==
    /\ At(r, "idle")
    /\ pc' = [pc EXCEPT ![r] = "out"]
    /\ UNCHANGED <<processes, registry, dropped, target, leaked, calls, nodes>>

\* The node ends (in whatever way) with nothing registered.
ExitUnswept(r) ==
    /\ At(r, "idle")
    /\ registry = {}
    /\ pc' = [pc EXCEPT ![r] = "out"]
    /\ UNCHANGED <<processes, registry, dropped, target, leaked, calls, nodes>>

\* The first loop of _sweep_active_processes, then its 0.5 s sleep.
SweepTerm(r) ==
    /\ At(r, "idle")
    /\ registry # {}
    /\ leaked' = [leaked EXCEPT ![r] = registry]
    /\ leader' = TermedLeader(registry)
    /\ workers' = TermedWorkers(registry)
    /\ pc' = [pc EXCEPT ![r] = "sweeping"]
    /\ UNCHANGED <<hardened, owner, strays, server, registry, dropped, target, calls, nodes>>

\* Mutant: the second loop kills and reaps but does not drop the entries.
SweepKillKeepsEntries(r) ==
    /\ At(r, "sweeping")
    /\ leader' = [p \in Pids |-> IF p \in leaked[r] THEN "gone" ELSE leader[p]]
    /\ workers' = KilledWorkers(leaked[r])
    /\ leaked' = [leaked EXCEPT ![r] = {}]
    /\ pc' = [pc EXCEPT ![r] = "out"]
    /\ UNCHANGED <<hardened, owner, strays, server, registry, dropped, target, calls, nodes>>

\* Mutant: a sweep of one loop, SIGTERM and drop.
SweepTermOnly(r) ==
    /\ At(r, "sweeping")
    /\ registry' = registry \ leaked[r]
    /\ leaked' = [leaked EXCEPT ![r] = {}]
    /\ pc' = [pc EXCEPT ![r] = "out"]
    /\ UNCHANGED <<processes, dropped, target, calls, nodes>>

\* The second loop.  waitpid(WNOHANG) right after SIGKILL may come too
\* early: late are the shells it leaves as zombies.
SweepKill(r) ==
    /\ At(r, "sweeping")
    /\ \E late \in SUBSET {p \in leaked[r] : leader[p] = "running"} :
          leader' = [p \in Pids |->
             IF p \in leaked[r]
               THEN (IF p \in late THEN "zombie" ELSE "gone")
               ELSE leader[p]]
    /\ workers' = KilledWorkers(leaked[r])
    /\ registry' = registry \ leaked[r]
    /\ dropped' = [p \in Pids |->
          IF p \in leaked[r] \cap registry THEN "swept" ELSE dropped[p]]
    /\ leaked' = [leaked EXCEPT ![r] = {}]
    /\ pc' = [pc EXCEPT ![r] = "out"]
    /\ UNCHANGED <<hardened, owner, strays, server, target, calls, nodes>>

-----------------------------------------------------------------------------
ToolCall(r) ==
    \/ RunBash(r)
    \/ \E p \in Pids : \/ Launch(r, p)
                       \/ WaitCapped(r, p)
                       \/ WaitEnded(r, p)
                       \/ KillStart(r, p)
                       \/ KillFindsNone(r, p)
    \/ \E s \in Strays : KillStray(r, s)

\* Steps of code that has begun and that nothing can keep from going on.
Continue(r) == Register(r) \/ KillEscalate(r) \/ KillDone(r) \/ SweepKill(r)

Leave(r) == ExitUnswept(r) \/ SweepTerm(r)

RunStep(r) == EnterNode(r) \/ ToolCall(r) \/ Continue(r) \/ Leave(r)

ProcessStep ==
    \/ \E p \in Pids : \/ LeaderExits(p)
                       \/ \E kind \in WorkerKinds : WorkerStarts(p, kind)
                                                    \/ WorkerExits(p, kind)
    \/ \E s \in Strays : StrayExits(s)

\* All runs are over, or the server is.
Finished ==
    /\ server = "killed" \/ \A r \in Runs : pc[r] = "out" /\ nodes[r] = MaxNodes
    /\ UNCHANGED vars

Next == (\E r \in Runs : RunStep(r)) \/ ProcessStep \/ Finished

\* A run's thread is always scheduled again; nothing is assumed of the jobs.
Fairness == \A r \in Runs : WF_vars(RunStep(r))

Spec == Init /\ [][Next]_vars
FairSpec == Spec /\ Fairness

-----------------------------------------------------------------------------
TypeOK ==
    /\ leader \in [Pids -> LeaderStates]
    /\ workers \in [Pids -> SUBSET WorkerKinds]
    /\ hardened \subseteq Pids
    /\ owner \in [Pids -> Runs \cup {None}]
    /\ registry \subseteq Pids
    /\ dropped \in [Pids -> Endings]
    /\ strays \in [Strays -> {"none", "running", "gone"}]
    /\ server \in {"up", "termed", "killed"}
    /\ pc \in [Runs -> PCs]
    /\ target \in [Runs -> Pids \cup {None}]
    /\ leaked \in [Runs -> SUBSET Pids]
    /\ calls \in [Runs -> 0..MaxCalls]
    /\ nodes \in [Runs -> 0..MaxNodes]

-----------------------------------------------------------------------------
(* Properties *)

\* A job whose shell runs is always within reach of the next sweep: its entry
\* is dropped neither by a wait whose cap passes, nor by a kill or another
\* run's sweep before the shell is dead, nor lost while bash_async registers.
LiveShellsTracked ==
    \A p \in Pids : leader[p] = "running" =>
        \/ p \in registry
        \/ \E r \in Runs : pc[r] = "launched" /\ target[r] = p

\* When a node has exited, no shell that its run launched with bash_async
\* still runs (decisions.md D17.4, for the processes the registry names).
NoShellSurvivesNodeExit ==
    \A r \in Runs, p \in Pids :
        pc[r] = "out" /\ owner[p] = r => leader[p] # "running"

\* No entry outlives the node that made it, whichever run's sweep or tool call
\* removes it: a later sweep never signals a pid of a node long over.
EntriesOfOpenNodesOnly ==
    \A p \in registry : \E r \in Runs : owner[p] = r /\ pc[r] # "out"

\* A job that the sweep disposed of is gone with its whole process group, for
\* good: SIGKILL goes to the group, and also when its shell died of SIGTERM.
SweptGroupsAreDead ==
    \A p \in Pids : dropped[p] = "swept" => leader[p] # "running" /\ workers[p] = {}

\* An entry is dropped once, and only for a job whose shell has ended: after
\* any answer "exited", "dead" or "Killed" the agent cannot find it running.
DroppedShellsHaveEnded ==
    \A p \in Pids : dropped[p] # "no" => p \notin registry /\ leader[p] # "running"

\* No shell runs for ever, though nothing is assumed of it: a tool call or
\* the exit of its node stops it.
ShellsStop == \A p \in Pids : leader[p] = "running" ~> leader[p] # "running"

\* The tools and the sweep implement the promise of NodeScopedJobs: no shell
\* of a run outlives its node, none comes back, and every node exits: no tool
\* call blocks for ever on a job, whatever that job ignores.
ScopedJobs == INSTANCE NodeScopedJobs WITH
    Jobs <- Pids,
    open <- {r \in Runs : pc[r] # "out"},
    launched <- {p \in Pids : leader[p] # "none"},
    running <- [r \in Runs |-> {p \in Pids : leader[p] = "running" /\ owner[p] = r}]

ImplementsScopedJobs == ScopedJobs!Spec

-----------------------------------------------------------------------------
(* What the repository says of the program, and the code does not do *)

\* decisions.md D17.4: "No background process survives a node exit."
NoProcessSurvivesNodeExit ==
    \A r \in Runs, p \in Pids :
        pc[r] = "out" /\ owner[p] = r => leader[p] # "running" /\ workers[p] = {}

=============================================================================
