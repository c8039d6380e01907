------------------------------ MODULE ReactLoop ------------------------------
(***************************************************************************)
(* _run_react_loop of src/nodes.py: one visit to an Action Node, from the  *)
(* seeded context to the auto-commit, with the sliding window, the trace   *)
(* and the sweep in its `finally'.                                         *)
(*                                                                         *)
(* A message is its kind.  The LLM answers with tool calls, with an answer *)
(* cut at max_tokens or with its final text, or the call raises, as it     *)
(* must on a context that the API does not accept.  A tool round has       *)
(* whatever effect it likes on the node's background jobs (ProcessTools    *)
(* has them, ToolCalls the rest of a round), but leaves the trace alone,   *)
(* to which an earlier visit's dump may have left a part of a line.        *)
(***************************************************************************)
EXTENDS Naturals, Sequences, FiniteSets

CONSTANTS
    RecursionLimit,  \* tool rounds of a visit: 35, or 25 for System_Architect
    MaxPairs,        \* MAX_CONTEXT_PAIRS
    MaxTruncations,  \* bound on answers cut at max_tokens: the code has none
    CapEnabled       \* whether GRAPH_WALL_CLOCK_TIMEOUT > 0

ASSUME LoopAssumption ==
    /\ RecursionLimit \in Nat \ {0}
    /\ MaxPairs \in Nat \ {0}
    /\ MaxTruncations \in Nat
    /\ CapEnabled \in BOOLEAN

VARIABLES
    at,           \* where the loop is
    messages,     \* the visit's context, oldest first
    tool_rounds,
    truncations,  \* answers cut at max_tokens so far
    llm_calls,    \* calls of the LLM that answered (history)
    overtime,     \* the wall clock has passed the timeout
    handoff,      \* why the loop ended, as handoff_message tells the Router
    trace,        \* readable lines of this visit: the places of the messages dumped
    torn,         \* the trace ends in a part of a line
    undumped,     \* last messages of the dumps that failed, 0 for an earlier
                  \* visit's last dump (history)
    jobs          \* bash_async jobs of this visit are registered

traced == <<trace, torn, undumped>>

vars == <<at, messages, tool_rounds, truncations, llm_calls, overtime, handoff,
          traced, jobs>>

Kinds == {"handoff", "tool_use", "tool_result", "cut", "cut_call", "continue", "final"}
Locations == {"enter", "check", "call", "dispatch", "finally", "unwinding", "commit",
              "returned", "raised"}
Over == {"returned", "raised"}

Init ==
    /\ at = "enter"
    /\ messages = <<"handoff">>
    /\ tool_rounds = 0
    /\ truncations = 0
    /\ llm_calls = 0
    /\ overtime = FALSE
    /\ handoff = "none"
    /\ trace = <<>>
    /\ torn \in BOOLEAN
    /\ undumped = IF torn THEN {0} ELSE {}
    /\ jobs = FALSE

-----------------------------------------------------------------------------
\* Mutant: the window counted in messages where the code counts pairs, less one.
WindowedShort(ms) ==
    IF Len(ms) <= 1 + MaxPairs * 2
      THEN ms
      ELSE <<ms[1], "trimmed">> \o SubSeq(ms, Len(ms) - MaxPairs * 2 + 2, Len(ms))

\* _windowed_messages: the first message and the last MaxPairs exchanges.
Windowed(ms) ==
    IF Len(ms) <= 1 + MaxPairs * 2
      THEN ms
      ELSE <<ms[1], "trimmed">> \o SubSeq(ms, Len(ms) - MaxPairs * 2 + 1, Len(ms))

\* The Messages API answers only a context in which every call of a tool is
\* answered by the next message, and every answer follows its call.
Accepted(ms) ==
    \A i \in 1..Len(ms) :
        /\ ms[i] \in {"tool_use", "cut_call"} => i < Len(ms) /\ ms[i + 1] = "tool_result"
        /\ ms[i] = "tool_result" => i > 1 /\ ms[i - 1] \in {"tool_use", "cut_call"}

\* _dump_trace, of the last two messages of a context of n: a line, spoiled by
\* the part of a line that it is appended to; or the write fails, which is
\* swallowed, and leaves nothing or a part of the line.
Dump(n) ==
    \/ /\ trace' = IF torn THEN trace ELSE Append(trace, <<n - 1, n>>)
       /\ torn' = FALSE
       /\ UNCHANGED undumped
    \/ /\ undumped' = undumped \cup {n}
       /\ torn' \in {torn, TRUE}
       /\ UNCHANGED trace

\* Its os.makedirs raises, which is not: logs is a file, the disk is full.
DumpRaises(n) ==
    /\ undumped' = undumped \cup {n}
    /\ UNCHANGED <<trace, torn>>

\* What precedes the `try': the prompt is assembled, or its ml_rules.md, which
\* the agent wrote, is not UTF-8 and the visit raises.
Enter ==
    /\ at = "enter"
    /\ at' \in {"check", "raised"}
    /\ UNCHANGED <<messages, tool_rounds, truncations, llm_calls, overtime, handoff,
                   traced, jobs>>

WallClockExpires ==
    /\ CapEnabled
    /\ ~overtime
    /\ overtime' = TRUE
    /\ UNCHANGED <<at, messages, tool_rounds, truncations, llm_calls, handoff, traced,
                   jobs>>

\* Mutant: the limit checked with <= where the code has <.
CheckOneMore ==
    /\ at = "check"
    /\ \/ /\ tool_rounds > RecursionLimit
          /\ at' = "finally"
          /\ handoff' = "limit"
       \/ /\ tool_rounds <= RecursionLimit
          /\ overtime
          /\ at' = "finally"
          /\ handoff' = "timeout"
       \/ /\ tool_rounds <= RecursionLimit
          /\ ~overtime
          /\ at' = "call"
          /\ UNCHANGED handoff
    /\ UNCHANGED <<messages, tool_rounds, truncations, llm_calls, overtime, traced, jobs>>

\* The head of the loop: its condition, then the wall clock.
Check ==
    /\ at = "check"
    /\ \/ /\ tool_rounds = RecursionLimit
          /\ at' = "finally"
          /\ handoff' = "limit"
       \/ /\ tool_rounds < RecursionLimit
          /\ overtime
          /\ at' = "finally"
          /\ handoff' = "timeout"
       \/ /\ tool_rounds < RecursionLimit
          /\ ~overtime
          /\ at' = "call"
          /\ UNCHANGED handoff
    /\ UNCHANGED <<messages, tool_rounds, truncations, llm_calls, overtime, traced, jobs>>

\* The API has accepted what _windowed_messages left of the context.
Answered == at = "call" /\ Accepted(Windowed(messages))

\* stop_reason tool_use: the calls are dispatched next.
AnswerWithTools ==
    /\ Answered
    /\ at' = "dispatch"
    /\ messages' = Append(messages, "tool_use")
    /\ llm_calls' = llm_calls + 1
    /\ UNCHANGED <<tool_rounds, truncations, overtime, handoff, traced, jobs>>

\* stop_reason max_tokens, inside a text or inside a tool_use block, which
\* _response_to_message keeps: asked to continue, neither counted nor dumped.
AnswerTruncated ==
    /\ Answered
    /\ truncations < MaxTruncations
    /\ at' = "check"
    /\ \E answer \in {"cut", "cut_call"} : messages' = messages \o <<answer, "continue">>
    /\ truncations' = truncations + 1
    /\ llm_calls' = llm_calls + 1
    /\ UNCHANGED <<tool_rounds, overtime, handoff, traced, jobs>>

\* Any other stop_reason: the text is the handoff.
AnswerFinally ==
    /\ Answered
    /\ messages' = Append(messages, "final")
    /\ llm_calls' = llm_calls + 1
    /\ handoff' = "text"
    /\ \/ Dump(Len(messages) + 1) /\ at' = "finally"
       \/ DumpRaises(Len(messages) + 1) /\ at' = "unwinding"
    /\ UNCHANGED <<tool_rounds, truncations, overtime, jobs>>

\* call_llm raises: the context is not accepted, another API error, an unknown tier.
CallRaises ==
    /\ at = "call"
    /\ at' = "unwinding"
    /\ UNCHANGED <<messages, tool_rounds, truncations, llm_calls, overtime, handoff,
                   traced, jobs>>

\* The tools of a round may launch jobs and end them.
ToolEffects == jobs' \in BOOLEAN

\* Mutant: the round is dumped before its tool_result is appended.
DispatchDumpsFirst ==
    /\ at = "dispatch"
    /\ ToolEffects
    /\ messages' = Append(messages, "tool_result")
    /\ tool_rounds' = tool_rounds + 1
    /\ \/ Dump(Len(messages)) /\ at' = "check"
       \/ DumpRaises(Len(messages)) /\ at' = "unwinding"
    /\ UNCHANGED <<truncations, llm_calls, overtime, handoff>>

\* dispatch_tool_calls runs every call of the answer and returns one message.
Dispatch ==
    /\ at = "dispatch"
    /\ ToolEffects
    /\ messages' = Append(messages, "tool_result")
    /\ tool_rounds' = tool_rounds + 1
    /\ \/ Dump(Len(messages) + 1) /\ at' = "check"
       \/ DumpRaises(Len(messages) + 1) /\ at' = "unwinding"
    /\ UNCHANGED <<truncations, llm_calls, overtime, handoff>>

\* A tool raises (an argument missing, a pid that the system refuses), perhaps
\* after others have run.
DispatchRaises ==
    /\ at = "dispatch"
    /\ ToolEffects
    /\ at' = "unwinding"
    /\ UNCHANGED <<messages, tool_rounds, truncations, llm_calls, overtime, handoff, traced>>

\* Mutant: no try/finally, the sweep only on the way out that returns.
SweepOnReturn ==
    \/ /\ at = "finally"
       /\ jobs' = FALSE
       /\ at' = "commit"
       /\ UNCHANGED <<messages, tool_rounds, truncations, llm_calls, overtime, handoff,
                      traced>>
    \/ /\ at = "unwinding"
       /\ at' = "raised"
       /\ UNCHANGED <<messages, tool_rounds, truncations, llm_calls, overtime, handoff,
                      traced, jobs>>

\* Mutant: the sweep waits for the jobs instead of killing them.
SweepWaits ==
    /\ \/ at = "finally" /\ at' = "commit"
       \/ at = "unwinding" /\ at' = "raised"
    /\ ~jobs
    /\ UNCHANGED <<messages, tool_rounds, truncations, llm_calls, overtime, handoff,
                   traced, jobs>>

\* The `finally' block: _sweep_active_processes, whichever way the loop ended.
Sweep ==
    /\ \/ at = "finally" /\ at' = "commit"
       \/ at = "unwinding" /\ at' = "raised"
    /\ jobs' = FALSE
    /\ UNCHANGED <<messages, tool_rounds, truncations, llm_calls, overtime, handoff,
                   traced>>

\* _auto_commit: behind the `finally', so not on the way out of an exception.
AutoCommit ==
    /\ at = "commit"
    /\ at' = "returned"
    /\ UNCHANGED <<messages, tool_rounds, truncations, llm_calls, overtime, handoff,
                   traced, jobs>>

-----------------------------------------------------------------------------
LoopStep ==
    \/ Enter
    \/ Check
    \/ AnswerWithTools \/ AnswerTruncated \/ AnswerFinally \/ CallRaises
    \/ Dispatch \/ DispatchRaises
    \/ Sweep
    \/ AutoCommit

Left == at \in Over /\ UNCHANGED vars

Next == LoopStep \/ WallClockExpires \/ Left

\* The thread runs, and the LLM and every tool answer or raise.
Spec == Init /\ [][Next]_vars
FairSpec == Spec /\ WF_vars(LoopStep)

-----------------------------------------------------------------------------
(* Properties *)

TypeOK ==
    /\ at \in Locations
    /\ messages \in Seq(Kinds)
    /\ tool_rounds \in 0..RecursionLimit
    /\ truncations \in 0..MaxTruncations
    /\ llm_calls \in Nat
    /\ overtime \in BOOLEAN
    /\ handoff \in {"none", "limit", "timeout", "text"}
    /\ trace \in Seq(Nat \X Nat)
    /\ torn \in BOOLEAN
    /\ undumped \subseteq 0..Len(messages)
    /\ jobs \in BOOLEAN

\* Whatever the window drops, the LLM is shown the handoff first, never more than
\* MaxPairs exchanges, a message to continue only after the answer that was cut,
\* and the last message is not its own.  The window never tears a call of a tool
\* from its answer: the API rejects a request only for a call that was cut.
WindowAligned ==
    at = "call" =>
        LET w == Windowed(messages)
        IN  /\ w[1] = "handoff"
            /\ Len(w) <= 2 + MaxPairs * 2
            /\ w[Len(w)] \in {"handoff", "tool_result", "continue"}
            /\ \A i \in 2..Len(w) : w[i] = "continue" => w[i - 1] \in {"cut", "cut_call"}
            /\ Accepted(w) \/ \E i \in 1..Len(w) : w[i] = "cut_call"

\* The LLM is asked at most once per tool round allowed, and once more per
\* truncated answer: the final answer takes the place of a round.
LlmCallsAccounted == llm_calls <= RecursionLimit + truncations

ToolRounds == {i \in 1..Len(messages) : messages[i] = "tool_result"}

\* Every line is a whole exchange, in the order of the exchanges, and a round that
\* no line shows was lost with its own dump or spoiled by the one directly before:
\* a failed write costs the trace two rounds at most, itself and the next.
ToolRoundsTraced ==
    /\ \A k \in 1..Len(trace) : \E i \in 1..Len(messages) :
          trace[k] = <<i - 1, i>> /\ messages[i] \in {"tool_result", "final"}
    /\ \A k, l \in 1..Len(trace) : k < l => trace[k][2] < trace[l][2]
    /\ \A i \in ToolRounds :
          \/ \E k \in 1..Len(trace) : trace[k] = <<i - 1, i>>
          \/ \E j \in undumped : j <= i /\ ~\E r \in ToolRounds : j < r /\ r < i

\* No registered job of the visit outlives it, whether it returns or raises, and
\* none is writing files while the auto-commit stages them.
SweptBeforeCommitAndExit == at \in Over \cup {"commit"} => ~jobs

\* A visit ends, by the limit if by nothing else, provided that the LLM's
\* answers are cut only finitely often (MaxTruncations).
VisitEnds == <>(at \in Over)

=============================================================================
