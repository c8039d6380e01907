# MLE-Squad: specifications, model checks and proofs

MLE-Squad is an A2A agent that solves machine-learning competitions.  A server
receives a competition as a tar file, runs a LangGraph state graph of LLM
driven nodes on it, and answers with `submission.csv`.  This directory holds
TLA+ specifications of the program's control, the TLC configurations that check
them on small instances and proofs for all instances, checked by TLAPS.

File names below without a directory are those of `src/src/`.

## The system

| component | state | operations | interacts with |
|---|---|---|---|
| server (`server.py`) | none | wires the A2A application | executor |
| executor (`executor.py`) | `agents`: context id -> Agent | `execute`, `cancel` | agent, A2A event queue |
| agent (`agent.py`) | none besides the task's status | `run`: extract the tar, detect the competition, run the graph in a thread, submit | graph, file system, event queue |
| graph (`graph.py`, `state.py`) | `AgentState`, one per run | edges, the Router's conditional edge | nodes |
| Action Nodes (`nodes.py`) | the visit's context, counters | `_run_react_loop`, bootstrap, window, trace, auto-commit | LLM, tools, git, sweep |
| Router (`nodes.py`) | writes phase, tier, handoff, iteration count | `router_brain_node` | LLM |
| tool dispatch (`tool_node.py`) | the micro-task list it is given | `dispatch_tool_calls` | tools |
| background-process tools (`tools.py`) | the module-global `_ACTIVE_PROCESSES` | `bash_async`, `wait_and_tail`, `kill_process`, `run_bash_with_truncation` | POSIX processes |
| sweep (`nodes.py`) | the same registry | `_sweep_active_processes` at every exit of a node | POSIX processes |
| file tools, task queue (`tools.py`) | files; the micro-task list | read, write, edit; push, pop, complete, update, list | file system |
| trace inspector (`trace_inspector.py`) | none | folds a trace into a report | trace file |
| LLM client, prompts, observability, competition ids, messenger | none (messenger: context ids, never used) | one request; text; figures; a table | Anthropic API |

One server process holds one executor; every request is a coroutine, and the
graph of a request runs in a thread (`asyncio.to_thread`, `agent.py:144`).  Two
requests with a tar are two graph runs side by side.  They share the
module-global process registry, the environment variable that holds the wall
clock's start, and the workspace root.  Inside a run everything is sequential:
nodes, LLM calls and tool calls.  The other actors are the processes that
tools start: they fork, end and ignore signals as they like.

What is hard here:

- **processes**: exit, reaping, signals to groups and the sweep race with the
  tool calls and with other runs; an entry dropped too early is a job that
  nobody can stop;
- **abnormal exits**: an exception of the LLM client or of a tool, the wall
  clock and the recursion limit each leave the loop on another path;
- **bookkeeping on lists**: the window, the trace and the context cleansing
  all rely on positions of messages, the micro-task queue on ids;
- **half-done work**: a write that fails, a `git add` that refuses all, a trace
  line that is torn, a dispatch that raises after some of its calls have run;
- **budgets**: rounds, iterations and their last pass.

What makes each part correct:

- processes: a running shell always has an entry, an entry is dropped only for a
  shell that ended, no shell outlives its node, and every tool call returns;
- loop: the LLM sees whole exchanges, a round is missing in the trace only where
  a dump failed, no registered job runs while the auto-commit stages (processes
  that escaped the sweep may), and a visit ends;
- graph: no message is lost or doubled, no node sees the context of another,
  the Router judges the node that ran, and the budget ends the run in the
  Evaluator;
- auto-commit: once `git add` has staged, the code a visit left is committed as
  it was left, and large files that the auto-commit staged are not;
- tools: an edit changes the one place it names, and else line ends only, a range
  of lines is the range asked for, the queue keeps its tasks and their order;
- trace inspector: what it counts and warns of is what the run did;
- requests: each is answered once, a completed competition has its own
  submission, and no task stays open that nobody works on.

The hazards, each at its line with the properties that cover it, are listed in
`PROJECT.json`.

## Modules

| module | models | state and actions |
|---|---|---|
| `ProcessTools` | the process tools, the registry, the sweep, over POSIX processes | see below |
| `NodeScopedJobs` | what a user of the tools may rely on: jobs live in nodes | runs in a node, jobs launched and running |
| `MCProcessTools` | | the symmetry of `ProcessTools` for TLC |
| `ProcessTools_proofs` | | the theorems about `ProcessTools` |
| `ReactLoop` | `_run_react_loop` of one visit, with `assemble_system_prompt` and `call_llm` by their outcomes | `at` is the place in the loop, `messages` the context as kinds |
| `ReactLoop_proofs` | | the theorems about `ReactLoop` |
| `AutoCommit` | `_auto_commit` over the git repository of a workspace | `worktree`, `index`, `head`: each file's content as it is, as staged, as committed |
| `AutoCommit_proofs` | | the theorems about `AutoCommit` |
| `MCAutoCommit` | | a workspace with a file of every kind, for TLC |
| `ToolCalls` | `_dispatch`, `dynamic_task_manager`, the file tools | `tasks` is `micro_tasks`, `file` the file, `answer` the last call |
| `MCToolCalls` | | the search strings and the symmetry for TLC |
| `ToolCalls_proofs` | | the theorems about `ToolCalls` |
| `TaskAgenda` | what the queue promises | ids known, ids done, who comes before whom |
| `TraceInspector` | `inspect_trace` over the traces visits write | `trace` is the file, `made` and `dumps` what happened |
| `TraceInspector_proofs` | | the theorems about `TraceInspector` |
| `MCTraceInspector` | | the rounds and the symmetry for TLC |
| `AgentGraph` | a graph run from the initial state to END | the fields of `AgentState`, `at` the next node |
| `AgentGraph_proofs` | | the theorems about `AgentGraph` |
| `CompetitionRuns` | the requests of one server: `Executor.execute`, `Agent.run`, workspaces, the wall clock's start | `pc` is the place in `execute`, `sent` its events, `submission` the file per workspace |
| `RequestAnswers` | what a client of the server may rely on | a request's answer, whether its graph began, whether a submission came |
| `CompetitionRuns_proofs` | | the theorems about `CompetitionRuns` |
| `NumberInduction` | | induction over numbers, for the proofs about recursive functions |

The modules meet at the visit to an Action Node.  `AgentGraph` takes a visit as
one step that returns or raises: `ReactLoop` shows that it does (`VisitEnds`). 
`ReactLoop` takes the effect of a tool round on the jobs as any effect, and the
sweep as one step that leaves none: `ProcessTools` has the tool calls and the
two halves of the sweep.  `ProcessTools` takes the order of tool calls as any
order and bounds them by `MaxCalls`, as the loop does, and visits by `MaxNodes`,
as the graph does.  `ToolCalls` has the other effects of a tool round, and what
can make one raise (`DispatchRaises` of both modules); `AutoCommit` is the step
of the same name in `ReactLoop`, and its `OrphanWrites` are the processes that
`ProcessTools` shows to survive a sweep; `TraceInspector` reads what `Dispatch`
and `AnswerFinally` of `ReactLoop` dump.  `CompetitionRuns` takes a graph run as
writes of `submission.csv` in its workspace until it returns or raises:
`AgentGraph` shows that it ends (`GraphEnds`).

### ProcessTools

A job is a `bash_async` shell.  `start_new_session` makes its pid the id of its
process group, so one name stands for both.  `leader[p]` is the shell as the
kernel has it: running, a zombie, or gone (reaped).  `workers[p]` is the set of
kinds of other living members of the group: one that dies of SIGTERM and one
that ignores it.  Shells that ignore SIGTERM are in `hardened`.  `registry` is
the key set of `_ACTIVE_PROCESSES`; `dropped` remembers what removed an entry.
`strays` are descendants of `run_bash` commands, members of the server's own
group.

Where a tool waits, the step ends, and other runs and the processes go on:

| code | actions |
|---|---|
| `bash_async` | `Launch` (up to Popen), `Register` |
| `run_bash_with_truncation` | `RunBash` |
| `wait_and_tail` | `WaitCapped` or `WaitEnded`: one step at the poll that decides |
| `kill_process` | `KillStart`, `KillEscalate`, `KillDone`; `KillFindsNone`; `KillStray` |
| `_sweep_active_processes` | `ExitUnswept`, or `SweepTerm` and `SweepKill` around its sleep |

Every `subprocess.Popen` first runs `subprocess._cleanup()`, which reaps ended
children whose Popen object was dropped.  `bash_async` drops its own, so each
spawn of any tool (`tail` included) applies `Reaped`.

Abstractions: a signal takes effect in the step that sends it; pids are not
recycled; a command that is refused before it spawns (interactive, existing log)
changes nothing and is left out, as are the texts of the answers; a process
that leaves its group by itself is not modelled.  The server, once it
got SIGKILL, takes no step.

### ReactLoop

One action per part of the visit: `Enter` (the prompt, which may raise before
the `try`), `Check` (the condition of the `while` and the wall clock), the four
outcomes of `call_llm`, `Dispatch` with its trace dump, `Sweep` (the `finally`),
`AutoCommit`.  Messages are kinds.  The API answers only a context that
`Accepted` holds of: an answer cut inside a tool call (`cut_call`) stays in the
context without its result, so the next call raises.

The trace is the sequence of the pairs of positions that readable lines show.  A
dump (`Dump`) adds a line; or its write fails, which the code swallows, and
leaves nothing or a part of a line (`torn`), which spoils the next line; or its
`os.makedirs` raises, which the code does not catch (`DumpRaises`).  The part of
a line may be an earlier visit's.  `undumped` remembers the dumps that failed.
The tools are taken to leave the trace alone, and the workspace to be a directory
of its own, as it is after the bootstrap: in "." nothing is dumped or committed.

### AutoCommit

A file is its content, one of a few versions.  A visit writes, stages and
commits as it likes (`AgentWrites`, `AgentAdds`, `AgentCommits`), and a git
command that is killed leaves its lock (`LockChanges`).  `Stage` is `git
status`, `git add` and the listing of what is staged; `Filter` one round of the
size filter; `Finish` the commit.  Between them a process that outlived the
sweep may write (`OrphanWrites`).  The wildcard pathspecs match by name alone,
`src/` and `logs/` by `CodeDirs`, whatever lies in them; git accepts the two
directories even if they are empty, so only wildcards are asked for in `AllGlobsMatch` (an agent
that removes `src/` is left out).

### ToolCalls

One queue and one file; the calls of a round follow each other in any order,
beside `CommandWrites` of commands and background jobs. A file is a sequence of
chunks: lines for `read_file`, pieces of text for `edit_file_chunk`, so that
occurrences may overlap. Of two chunks that differ in their line end only, `LF`
and `CRLF`, a tool reads `LF` (`Content`: Python translates `\r\n` and `\r`
where a file is opened as text) and writes what it is given. `edit_file_chunk`
is two steps, up to its second `open` and from there on, since a job may write
in between and the write may fail (`Written`). Every tool may raise
(`DispatchRaises`): an argument that `_dispatch` subscripts is left out, or has
another type than its schema says; the process tools on any arguments: a pid
beyond the integers of the system, a SIGKILL that is not permitted, a log file
that is gone when its size is asked for. `TaskAgenda` is the abstract queue:
`Agenda` maps ids, completed ids and the order of the list to it.

### TraceInspector

Visits follow each other, each with its own rounds.  `Round` is a dispatched
round with its dump, `EndTurn` the dump at the end, `LeaveUndumped` the exits
without one (limit, wall clock, exception, that of the dump's `os.makedirs`
included).  `made` has the calls of the rounds that came to their dump.  `Dump` may fail with nothing or
with a part of a line written.  The operators `Entries`, `Uses`, `CallCount`,
`Unpaired` and `NodeExits` are `inspect_trace`; the invariants compare them
with the history variables in every state, that is, whenever the report is
asked for.  A line that can be read is named by its place in the trace, a
`tool_use` block by the place of its line and its place there, so that equal
lines stay apart.  `NodeExits` takes the lines one by one, as the loop of
`inspect_trace` does: `Kept` is what one more line makes of the exits.

### AgentGraph

`VisitReturns` is the state update of a visit, `RouteTo` the Router's update
with the conditional edge.  `Bootstrap` is the first entry of System_Architect.
What a visit adds to the context is one number, so loss, repetition and order
of messages show.  LangGraph's own limit on steps of a run (1000 in the locked
version 1.1.6) is above 2 * (`MAX_ITERATIONS` + 2) for every budget the
documents mention (15 and 6) and is not modelled.

### CompetitionRuns

A request is one call of `execute`, with a tar or without a file.  `ReceiveTar`
and `ReceiveText` accept it on a new task or on one whose last status is not
terminal.  `Extract`, `Bootstrap`, `GraphReturns`, `Submit` are the steps of
`Agent.run`; `ExtractFails`, `GraphRaises`, `NothingToSubmit` its returns after a
failed status, `AgentRaises` its exceptions; `Complete` and `Fail` what `execute`
does then.  `sent` holds the statuses and the artifact of a request in order.
The task store and the `TaskUpdater` are the A2A library's and modelled from
their use: the store keeps the last status of a task.  `clock` is in seconds,
the resolution of a workspace's name.  A submission is represented by the
request whose run wrote it.  `Answer` reads from a request's events what its
client was told last; with it `Promise` maps a request to `RequestAnswers`: the
graph has begun once the request has a workspace, and the submission is delivered
with the artifact.  Refused messages (no message, a terminal task,
`cancel`) change nothing and are left out.

## Runs

| run | checks | distinct states |
|---|---|---|
| `two_runs` | the safety properties of `ProcessTools`: 2 graph runs, 2 jobs, 1 stray, 2 calls per node, 2 nodes | 2,605,990 (with symmetry) |
| `scoped_jobs` | `ShellsStop` and the refinement of `NodeScopedJobs`, with fairness: 2 runs, 1 job | 29,467 |
| `react_loop` | the properties of `ReactLoop`, with fairness: 4 rounds, a window of 2 exchanges, 2 truncations, the wall clock enabled, any dump failing | 50,416 |
| `agent_graph` | the properties of `AgentGraph`, with fairness: a budget of 3 | 825 |
| `competition_runs` | the properties of `CompetitionRuns` and the refinement of `RequestAnswers`, with fairness: 2 requests, 2 tasks, 1 known competition besides the unknown one, 3 seconds, a timeout of 1 | 331,731 |
| `auto_commit` | the properties of `AutoCommit`: 4 files (matched by a wildcard, in `logs/`, in `logs/` with a quoted name, ignored), 1 wildcard, 1 file rewritten during an auto-commit | 869,842 |
| `tool_calls` | the properties of `ToolCalls` and the refinement of `TaskAgenda`: 2 ids, files of up to 3 chunks out of 3, two of which differ in their line end, 6 search strings, 3 replacements, a read limit of 2 lines | 133,161 (with symmetry) |
| `trace_inspector` | the properties of `TraceInspector`: 2 nodes, 3 visits, 4 dumps, rounds of one and two calls of every kind | 2,036,498 (with symmetry) |

The bounds.  Two jobs are the least with which a sweep or a tool call can
confuse jobs; two nodes the least with which something can outlive one; two
calls are a launch and a wait or kill, and two runs the least that share.  In
`react_loop` four rounds overflow a window of two exchanges by two, with
truncations before, between and after, so the cut falls on every kind of
message.  A budget of three lets the graph visit every kind of node and exceed
the budget from each.  Two requests are the least that share a task, a
workspace or the clock; three seconds let a run begin late enough to be cut by a
clock it did not start.  `auto_commit` has one file of each kind that the code
tells apart; the actions on different files are independent but for the one
lock, the one list and the one wildcard.  In `tool_calls` three chunks are the
least in which a piece of two occurs twice, overlapping, and a file is above, at
and below the limit of two lines; the search strings are found never (they have a
`CRLF`), anywhere (empty), once, twice, or overlapping; the ranges go
from -1 to one beyond the longest file.  In `trace_inspector` three visits of
two nodes contain every pattern of a revisit, and four dumps a torn line
followed by one that is appended to it and by one that is not.

Runs that find a violation, each of a sentence of the repository (the findings
in `PROJECT.json` quote them):

| run | the code does |
|---|---|
| `orphaned_workers` | members of a group survive the node once the shell's entry is dropped |
| `clock_inherited` | a later run is cut by the clock the first run started |
| `nothing_staged` | one wildcard without a match, and the auto-commit commits nothing |
| `file_wiped` | an edit whose write fails leaves an empty or a cut file |

More sentences of the repository differ from the code in ways the models
show without a run of their own:

- the sweep takes every entry of the registry, those of other runs included
  (`SweepTerm`; `decisions.md:323` speaks of "node-scoped process lifetime");
- a job that ended by itself is answered "dead", without its exit code, when
  another tool spawned in between (`Reaped`; `tests/test_tools_async.py:94`
  expects "exited(code=0)");
- an exception skips the auto-commit (`AutoCommit` of `ReactLoop`;
  `decisions.md:136` says it "runs unconditionally");
- an answer cut inside a tool call is asked to continue, which the API refuses
  (`AnswerTruncated`, `Accepted`; `nodes.py:414` says "Truncated — ask the LLM to
  continue");
- truncated answers do not count towards the recursion limit
  (`AnswerTruncated`; `nodes.py:295-297` says the loop ends when it is reached);
- they are never dumped, and a dump that fails is missing (`Dump`; `nodes.py:161`
  calls the file "the complete trace");
- an exceeded budget routes to the Evaluator first (`RouteLastPass`;
  `state.py:40` says "Router routes to END when this exceeds max");
- two runs of one competition in one second share a workspace (`Name`;
  `specs/spec_memory.md:17` says that "the timestamp ensures uniqueness");
- a graph that raises submits nothing, not even the sample (`GraphRaises`;
  `decisions.md:193` promises *some* score);
- data in `src/` or `logs/` that `.gitignore` does not name (`.npy`, `.csv`) is
  staged (`Code`; `nodes.py:465` says "Never stages data files");
- a large file whose name git quotes is committed (`TooLarge`; `decisions.md:337`
  says that the auto-commit "skips files >1MB");
- an edit turns every `\r\n` and `\r` of its file into `\n` (`Content`;
  `tools.py:474` calls it "surgical"), and occurrences that overlap count as one
  (`Count`; the same line says that `search_string` "must match exactly once");
- a call that follows its schema may raise and so end the graph run
  (`DispatchRaises`; `specs/spec_tool.md:7` says that the tools "fail gracefully");
- a `bash_async` is paired by any wait of its node, earlier ones and those of
  other jobs included (`Unpaired`; `trace_inspector.py:44` says "never a
  subsequent wait_and_tail or kill_process");
- a node's exit time is that of its longest visit, not of its last one
  (`NodeExits`; `trace_inspector.py:108` says "the last entry per node").

Every property of a passing run has a mutant: a definition next to the one it
changes (`KillDoneEarly`, `WindowedShort`, ...) that a plausible bug would turn
it into, and under which TLC finds the property violated.

## Fairness

`ProcessTools!FairSpec` assumes that the thread of each run takes steps as long
as it can.  Threads are never paused by the program, each tool call has a bound
(the cap of 180 s, the 5 s grace period, the timeouts), and a node always ends
(`ReactLoop`).  Nothing is assumed of the jobs: they may run and ignore SIGTERM
for ever.  `ReactLoop!FairSpec` assumes that the loop takes steps: the LLM
client and each tool return or raise (the client has timeouts, the tools their
caps).  The number of truncated answers is bounded by `MaxTruncations`, which
the code does not do: `VisitEnds` holds under that assumption only. 
`AgentGraph!FairSpec` assumes that LangGraph runs the next node while there is
one. `CompetitionRuns!FairSpec` assumes that each request makes progress: the
event loop and the threads are scheduled, and a graph run does not write for
ever. `AutoCommit`, `ToolCalls` and `TraceInspector` are checked for safety
only: their steps are those of one thread, and that they come to an end is
`ReactLoop`'s question.

## Proofs

`ProcessTools_proofs` proves, for all finite or infinite sets of runs and jobs
and all bounds: `TypeCorrect`, `ShellsAreTracked`, `NoShellSurvives`,
`EntriesAreOfOpenNodes`, `DroppedJobsHaveEnded`, `SweptJobsAreGone` and
`RefinesScopedJobs`.  They rest on `ConstantsAssumption` only: `None` is no run
and no pid, the bounds are natural numbers.

The argument is one inductive invariant, `IInv`.  `LiveShellsTracked` alone is
not inductive: that an entry is never dropped while its shell runs depends on
where the other runs are.  `IInv` adds what each place of a thread knows.
`LaunchInv`: between Popen and registration the job belongs to that run alone,
has no entry and was never dropped.  `LaunchedInv`: what is registered, in a
sweep's list or dropped was launched, so no new job takes its pid.  `GraceInv`:
a kill waits for a job.  `RunningInv`: a running shell has an entry, or its owner
is in the gap of its launch.  `EntryInv`: an entry's owner is inside a node.
`SweepInv`: a sweeping run's own entries are all in its list, since the run
launches nothing while it sweeps.  With these the exit of a node (`ExitUnswept`,
`SweepKill`) leaves no shell of its run, whichever run took the entries.
The refinement maps `SweepKill` and `ExitUnswept` to the closing of a run,
`Launch` to a launch, and all other steps to the end of some jobs or to a
stutter.

`ReactLoop_proofs` proves, for every recursion limit, window and bound on the
truncated answers (`LoopAssumption`), all the safety properties of `ReactLoop`.
`CallsAreAccounted` needs what each place of the loop knows of the counters
(`Counted`): while an answer is dispatched one call more was made than rounds
and truncations tell.  `SweepPrecedesCommit` needs only that every way out of
the loop passes the sweep (`Swept`).  `RoundsAreTraced` needs what the end of the trace
knows (`Traced`): no dump is of messages to come, or a later round could be dumped
before an earlier one, and a part of a line at the end of the trace is that of the
last dump, or the line it spoils could be of any later round.  `WindowIsAligned` rests on the shape of the context: after the handoff the
sides alternate and each answer fits its call (`Alternating`), at every place
but the dispatch with the exchange complete (`Exchanged`).  The window cuts an
even number of messages after the handoff, and such a cut keeps the shape: a
window that cut an odd number would begin with an answer to a call it dropped. 
`LoopComesToAnEnd` is the part of `VisitEnds` that can be proved, `LoopRunsDown`
(stated beside its proof, no run checks it): each step of the loop, whichever it
is, lowers `StepsLeft`, a natural number made of the rounds and truncated
answers left and of the way from the current place to the end.  What remains for
`VisitEnds` is that the loop takes steps, which is its fairness.

`AgentGraph_proofs` proves, for every `MaxIterations`, all the safety properties
of `AgentGraph`: `TypeCorrect`, `BudgetEnds`, `RouterJudgesLastNode`,
`ContextIsFresh`, `MessagesAreKept` and `GraphComesToAnEnd`.  The last says that
every node and every pass of the Router lowers `NodesLeft` (`GraphRunsDown`,
stated beside its proof: the part of `GraphEnds` without fairness); it is a
natural number because by `BudgetInv` a node that can still run has an iteration
left.  `BudgetEnds` and `RouterJudgesLastNode` need that the phase written by
the Router names the node that runs next (`EdgeOfPhase`) and that once over
budget the only way is the Evaluator and then END; `ContextIsFresh` that visits
and iterations are counted in step (`Fresh`), which also bounds the visits;
`MessagesAreKept` that the batches are numbered by the visits.

`CompetitionRuns_proofs` proves `TypeCorrect`, `SubmitsItsOwn`, `AnswersOnce`,
`OpenMeansWorkedOn`, `CompletedSubmitted` and `KeepsRequestAnswers`, all the
safety properties of `CompetitionRuns`, for any number of requests, tasks and
competitions, any timeout and any clock, from `RunsAssumption`: `None` is none
of the values, workspaces included, and no known competition is called
"competition", the name of an unknown one (true of `competition_ids.py`). For
`SubmitsItsOwn`, every submission lies in the workspace of its writer, whose
name still says what it was made from, because a request's competition and start
do not change after its bootstrap (`Settled`).  For `AnswersOnce`, the events
sent are open (no terminal status) until `Agent.run` leaves, and closed (the
last one is the only one) when `execute` is over (`Answering`). For
`OpenMeansWorkedOn`, `OpenTasksAreWorkedOn` alone is not inductive: of two
requests on a task one may end silently, because it answered before, and the
other may have answered too.  `WorkedOn` asks for a request that has no terminal
status among its events: its own end changes the status of the task, and a later
"working" of another request brings such a request back.

For `CompletedSubmitted`, `Delivered` follows a request by its place: until
`Submit` nothing is delivered, and when `Agent.run` is back either the
submission is sent and no terminal status, or "failed" is sent and no submission.

`KeepsRequestAnswers` is the safety half of the refinement.  `AnswerOfEvents` and
`OpenStep` say what one more event makes of an answer; `AnswerByPlace`, with
`Heard` and `Answering`, what a client has been told at each place of a request.
A step is of one request and leaves the answers of the others alone; what it does
to its own (`OneStep`) is an action of `RequestAnswers` or a stutter
(`OneStepIsPromised`, `PromiseStep`), although the requests meet on tasks,
workspaces and the clock.

`AutoCommit_proofs` proves `TypeCorrect`, `CodeIsCommitted` and `LargeAreSkipped`
for any files, wildcards and contents.  The last two are action
properties of the commit; what they need is what the index holds while the
filter works.  `CodeStaged`: since `git add`, the index has every small code
file as it was left, and nothing is locked, so that no round of the filter can
fail.  `LockedUnstaged`: the auto-commit stages nothing in a locked repository.  `LargeListed`: a large file that was staged is still
to be looked at by the filter, so none is left when the list is empty.

`ToolCalls_proofs` proves all the properties of `ToolCalls` that hold, from
`ToolAssumption`: `TypeCorrect`, `ReadsRange`, `EditsAreSurgical`, `TaskIdsAreUnique` and `Refinement`, that the queue
implements `TaskAgenda`.

- `EditsAreSurgical` is about what the recursion of `Count` computes for texts
  of any length.  The library's induction theorems take an operator as a
  parameter, which the provers cannot instantiate; `InductionOnSet` of
  `NumberInduction` says the same of a set of numbers and follows from the
  well-foundedness of `Nat`.  With it, `RecursionHasSolution` shows that a
  recursion towards greater indices has a solution, so that `Count`'s local function is one (`CountUnfolds`), and
  `CountTallies` goes down from the end of the text: at each index the value is
  zero, one or more as there is no occurrence from there on, one or some that
  overlap the first, or two side by side.  `CountMeans` is the result, and
  `ReplacedText` what `str.replace` does at the first occurrence.  `TypeCorrect`
  needs it, too: without an occurrence the replaced text would be none.
  `EditFacts` is about the text that was read; `ContentAlike` carries it over to
  the file on the disk.
- `ReadsRange` is the arithmetic of a slice with its two ends clipped
  (`LineRangeIsAsked`).
- The refinement maps `Push` to `Add`, `Pop` to `Take`, `Complete` to `Finish`, and all
  other steps to a stutter.  What each does to ids, completed ids and order is a
  lemma on two queues (`Appended`, `Popped`, `Completed`, `Described`); `Popped` and
  `Completed` hold only because ids are unique, so `TaskIdsUnique` is carried
  along.

`TraceInspector_proofs` proves all the properties of `TraceInspector` for traces of
any length, from `TraceAssumption` (no node is called `None`, no line of the trace
is a torn one, the LLM calls known tools).

- `TypeCorrect`: whatever becomes of the writes, the file is a sequence of lines
  and torn lines, not more than were dumped, of which only the last can be open.
  `DumpOutcome` is what the other proofs need of a dump: it adds its line or
  none, and spoils no line that could be read.
- `CallsCounted`: a use in the trace is a pair of places, a call one place in
  `made`, and `Counted` compares how many there are of each tool.  A round adds
  as many calls as its line has uses (`CallsGrow`, `UsesGrow`, by bijections), a
  lost line adds the calls only, and the dump at the end of a turn neither.
- `AlarmsAreReal`: while no line is lost, each node shows the tools that it called
  (`Shown`).  It needs `Counted`, since a line once lost stays lost.
- `ExitsOfLongestVisits`: `ExitsUnfold` shows that the recursion of `NodeExits` has a
  solution, and `ExitsAreHighest`, by induction over the lines, that it keeps the
  last line of its highest round for each node that has one.  That this is the last
  dump of a node visited once rests on `Ordered`: the lines lie in the order of
  their dumps, and within a visit their rounds do not fall.

Model-checked only: liveness (`ShellsStop`, `VisitEnds`, `GraphEnds` and the
liveness halves of `ImplementsScopedJobs` and `ImplementsRequestAnswers`), which
is out of the prover's reach.

## Not modelled

- `server.py`, `observability.py`, `competition_ids.py`: no state; wiring,
  figures for the log, a table.
- `messenger.py` and `universal_tool_node`: never called by the program.
- What the texts of prompts say, the Router's input block, how `llm.py` builds a
  request: nothing but whether they raise bears on the properties.
- The commands of the bootstrap (`uv init`, the symlink to the prompts, the copy
  of the dataset): run once, their results never looked at.
- `_detect_competition_id`: a choice among its results in `CompetitionRuns`.
  (The one known id with upper-case letters is looked for in lower-cased text
  and found by the tar's directory only.)
- `run_bash_used_for_training` of the trace inspector, and its printed report.

The reasons are with the components in `PROJECT.json`.

## Plan

Done: `ProcessTools`, `NodeScopedJobs`, `ReactLoop`, `AgentGraph`,
`CompetitionRuns` with `RequestAnswers`, `AutoCommit`, `ToolCalls` with
`TaskAgenda`, `TraceInspector`, and proofs of all their safety properties.
Left, in this order:

1. A composition of `ReactLoop` with the process tools: a visit's rounds call
   the tools, and the loop implements the visits of `NodeScopedJobs`.
2. Pids that are recycled, in `ProcessTools`.
