--------------------------- MODULE ReactLoop_proofs ---------------------------
(***************************************************************************)
(* For every recursion limit, window and number of truncated answers: the  *)
(* loop's calls, its trace, its window and its sweep.                      *)
(***************************************************************************)
EXTENDS ReactLoop, Integers, TLAPS

-----------------------------------------------------------------------------
(* Types, and the calls of the LLM *)

\* What each place of the loop knows of its counters.
Counted ==
    /\ at \in {"enter", "check", "call"} => llm_calls = tool_rounds + truncations
    /\ at \in {"call", "dispatch"} => tool_rounds < RecursionLimit
    /\ at = "dispatch" => llm_calls = tool_rounds + truncations + 1
    /\ llm_calls <= RecursionLimit + truncations

CountInv == TypeOK /\ Counted

LEMMA CountInit == Init => CountInv
<1> SUFFICES ASSUME Init PROVE CountInv
  OBVIOUS
<1>1. /\ messages \in Seq(Kinds) /\ trace \in Seq(Nat \X Nat)
      /\ undumped \subseteq 0..Len(messages)
  BY DEF Init, Kinds
<1>2. TypeOK
  <2>1. overtime \in BOOLEAN /\ jobs \in BOOLEAN /\ torn \in BOOLEAN
    BY Zenon DEF Init
  <2>2. tool_rounds \in 0..RecursionLimit /\ truncations \in 0..MaxTruncations
    BY LoopAssumption DEF Init
  <2> QED
    BY <1>1, <2>1, <2>2 DEF Init, TypeOK, Locations
<1>3. Counted
  BY LoopAssumption DEF Init, Counted
<1> QED
  BY <1>2, <1>3 DEF CountInv

\* What TypeOK says of the trace.
TraceTyped ==
    trace \in Seq(Nat \X Nat) /\ torn \in BOOLEAN /\ undumped \subseteq 0..Len(messages)

\* What becomes of a dump: nothing, a spoiled line, or a line.
LEMMA DumpOutcomes ==
  ASSUME NEW n, Dump(n) \/ DumpRaises(n)
  PROVE  \/ undumped' = undumped \cup {n} /\ trace' = trace /\ torn' \in {torn, TRUE}
         \/ torn /\ trace' = trace /\ torn' = FALSE /\ undumped' = undumped
         \/ trace' = Append(trace, <<n - 1, n>>) /\ torn' = FALSE /\ undumped' = undumped
<1>1. CASE Dump(n) /\ UNCHANGED undumped
  <2>1. (torn /\ trace' = trace) \/ trace' = Append(trace, <<n - 1, n>>) \/ undumped' = undumped \cup {n}
    BY <1>1, Zenon DEF Dump
  <2> QED
    BY <1>1, <2>1, Zenon DEF Dump
<1>2. CASE Dump(n) /\ ~UNCHANGED undumped
  BY <1>2, Zenon DEF Dump
<1>3. CASE DumpRaises(n)
  BY <1>3, Zenon DEF DumpRaises
<1> QED
  BY <1>1, <1>2, <1>3, Zenon

\* A dump, whatever becomes of it, or none, beside a context that does not shrink.
LEMMA TraceTypedStep ==
  ASSUME TypeOK, NEW new \in Seq(Kinds), messages' = messages \o new,
         \/ UNCHANGED traced
         \/ /\ Dump(Len(messages) + 1) \/ DumpRaises(Len(messages) + 1)
            /\ Len(new) = 1
  PROVE  TraceTyped'
<1>1. Len(messages) \in Nat /\ Len(new) \in Nat /\ Len(messages') = Len(messages) + Len(new)
  BY DEF TypeOK
<1>2. 0..Len(messages) \subseteq 0..Len(messages')
  BY <1>1
<1>3. CASE UNCHANGED traced
  BY <1>2, <1>3 DEF traced, TypeOK, TraceTyped
<1>4. CASE (Dump(Len(messages) + 1) \/ DumpRaises(Len(messages) + 1)) /\ Len(new) = 1
  <2>1. PICK n \in Nat : n = Len(messages) + 1
    BY <1>1
  <2>2. Dump(n) \/ DumpRaises(n)
    BY <1>4, <2>1, Zenon
  <2>3. trace' \in Seq(Nat \X Nat)
    <3>1. PICK pair \in Nat \X Nat : pair = <<n - 1, n>>
      <4>1. PICK before \in Nat : before = n - 1
        BY <1>1, <2>1
      <4>2. <<before, n>> \in Nat \X Nat
        OBVIOUS
      <4> QED
        BY <4>1, <4>2, Zenon
    <3>2. trace \in Seq(Nat \X Nat) /\ Append(trace, pair) \in Seq(Nat \X Nat)
      BY DEF TypeOK
    <3>3. trace' = trace \/ trace' = Append(trace, pair)
      BY <2>2, <3>1, DumpOutcomes, Zenon
    <3> QED
      BY <3>2, <3>3
  <2>4. torn' \in BOOLEAN
    BY <2>2, DumpOutcomes, Zenon DEF TypeOK
  <2>5. undumped' \subseteq undumped \cup {n}
    BY <2>2, DumpOutcomes
  <2>6. n \in 0..Len(messages')
    BY <1>1, <1>4, <2>1
  <2> QED
    BY <1>2, <2>3, <2>4, <2>5, <2>6 DEF TraceTyped, TypeOK
<1> QED
  BY <1>3, <1>4

LEMMA CountStep == CountInv /\ [Next]_vars => CountInv'
<1> SUFFICES ASSUME TypeOK, Counted, [Next]_vars PROVE CountInv'
  BY DEF CountInv
<1> USE LoopAssumption
<1> USE DEF CountInv, TypeOK, Counted, Locations
<1>0. /\ \A k \in Kinds : /\ Append(messages, k) \in Seq(Kinds) /\ <<k>> \in Seq(Kinds)
                           /\ Append(messages, k) = messages \o <<k>> /\ Len(<<k>>) = 1
      /\ \A k, l \in Kinds : messages \o <<k, l>> \in Seq(Kinds) /\ <<k, l>> \in Seq(Kinds)
  <2>1. messages \in Seq(Kinds)
    OBVIOUS
  <2>2. \A k \in Kinds : <<k>> \in Seq(Kinds) /\ Len(<<k>>) = 1
    OBVIOUS
  <2>3. \A k, l \in Kinds : <<k, l>> \in Seq(Kinds)
    OBVIOUS
  <2>4. \A k \in Kinds : Append(messages, k) = messages \o <<k>>
    BY <2>1
  <2>5. \A u, v \in Seq(Kinds) : u \o v \in Seq(Kinds)
    OBVIOUS
  <2> QED
    BY <2>1, <2>2, <2>3, <2>4, <2>5
<1>1. ASSUME UNCHANGED <<messages, traced>> PROVE TraceTyped'
  BY <1>1 DEF traced, TraceTyped
<1>2. CASE Enter
  BY <1>1, <1>2 DEF Enter, TraceTyped
<1>3. CASE Check
  BY <1>1, <1>3 DEF Check, TraceTyped
<1>4. CASE AnswerWithTools
  <2>1. TraceTyped'
    BY <1>0, <1>4, TraceTypedStep DEF AnswerWithTools, Kinds
  <2> QED
    BY <1>0, <1>4, <2>1 DEF AnswerWithTools, Answered, Kinds, TraceTyped
<1>5. CASE AnswerTruncated
  <2>1. TraceTyped'
    BY <1>0, <1>5, TraceTypedStep DEF AnswerTruncated, Kinds
  <2> QED
    BY <1>0, <1>5, <2>1 DEF AnswerTruncated, Answered, Kinds, TraceTyped
<1>6. CASE AnswerFinally
  <2>1. TraceTyped'
    BY <1>0, <1>6, TraceTypedStep DEF AnswerFinally, Kinds
  <2> QED
    BY <1>0, <1>6, <2>1 DEF AnswerFinally, Answered, Kinds, TraceTyped
<1>7. CASE CallRaises
  BY <1>1, <1>7 DEF CallRaises, TraceTyped
<1>8. CASE Dispatch
  <2>1. TraceTyped'
    BY <1>0, <1>8, TraceTypedStep DEF Dispatch, Kinds
  <2> QED
    BY <1>0, <1>8, <2>1 DEF Dispatch, ToolEffects, Kinds, TraceTyped
<1>9. CASE DispatchRaises
  BY <1>1, <1>9 DEF DispatchRaises, ToolEffects, TraceTyped
<1>10. CASE Sweep \/ AutoCommit
  BY <1>1, <1>10 DEF Sweep, AutoCommit, TraceTyped
<1>11. CASE WallClockExpires
  BY <1>1, <1>11 DEF WallClockExpires, TraceTyped
<1>12. CASE UNCHANGED vars
  BY <1>1, <1>12 DEF vars, TraceTyped
<1> QED
  BY <1>2, <1>3, <1>4, <1>5, <1>6, <1>7, <1>8, <1>9, <1>10, <1>11, <1>12
  DEF Next, LoopStep, Left

LEMMA CountInvariance == Spec => []CountInv
  BY CountInit, CountStep, PTL DEF Spec

\* Type correctness.
THEOREM TypeCorrect == Spec => []TypeOK
<1>1. CountInv => TypeOK
  BY DEF CountInv
<1> QED
  BY <1>1, CountInvariance, PTL

\* For every limit the LLM answers at most once per round allowed and once per
\* truncated answer.
THEOREM CallsAreAccounted == Spec => []LlmCallsAccounted
<1>1. CountInv => LlmCallsAccounted
  BY DEF CountInv, Counted, LlmCallsAccounted
<1> QED
  BY <1>1, CountInvariance, PTL

-----------------------------------------------------------------------------
(* Its end *)

\* A bound on the steps that the loop can still take: a round of it, by a tool
\* call or a truncated answer, takes three.
StepsLeft ==
    LET rounds == (RecursionLimit - tool_rounds) + (MaxTruncations - truncations)
        way == [enter |-> 6, check |-> 5, call |-> 4, dispatch |-> 3, finally |-> 2,
                unwinding |-> 2, commit |-> 1, returned |-> 0, raised |-> 0]
    IN  3 * rounds + way[at]

\* No step takes the loop back to where it was: each uses up some of a budget
\* that the limit sets (and MaxTruncations, for the truncated answers that the
\* code does not count), so that a visit ends after finitely many.
LoopRunsDown == [][LoopStep => StepsLeft \in Nat /\ StepsLeft' < StepsLeft]_vars

\* What a step of the loop leaves of the budget is a number and less.
LEMMA StepRunsDown == CountInv /\ CountInv' /\ LoopStep => StepsLeft \in Nat /\ StepsLeft' < StepsLeft
<1> SUFFICES ASSUME TypeOK, Counted, TypeOK', LoopStep
             PROVE  StepsLeft \in Nat /\ StepsLeft' < StepsLeft
  BY DEF CountInv
<1> DEFINE way == [enter |-> 6, check |-> 5, call |-> 4, dispatch |-> 3, finally |-> 2,
                   unwinding |-> 2, commit |-> 1, returned |-> 0, raised |-> 0]
           rounds == (RecursionLimit - tool_rounds) + (MaxTruncations - truncations)
<1> USE LoopAssumption
<1>1. /\ rounds \in Nat /\ rounds' \in Nat
      /\ StepsLeft = 3 * rounds + way[at] /\ StepsLeft' = 3 * rounds' + way[at']
  <2>1. rounds \in Nat
    BY DEF TypeOK
  <2>2. rounds' \in Nat
    <3>1. tool_rounds' \in 0..RecursionLimit /\ truncations' \in 0..MaxTruncations
      BY DEF TypeOK
    <3>2. \A n \in Nat : \A k \in 0..n : n - k \in Nat
      OBVIOUS
    <3>3. RecursionLimit - tool_rounds' \in Nat /\ MaxTruncations - truncations' \in Nat
      BY <3>1, <3>2
    <3> QED
      BY <3>3
  <2>3. StepsLeft = 3 * rounds + way[at]
    BY DEF StepsLeft
  <2>4. StepsLeft' = 3 * rounds' + way[at']
    BY DEF StepsLeft
  <2> QED
    BY <2>1, <2>2, <2>3, <2>4
<1>2. way[at] \in Nat
  BY DEF TypeOK, Locations
<1>3. CASE Enter \/ Check
  <2>1. rounds' = rounds /\ way[at'] < way[at] /\ way[at'] \in Nat
    BY <1>3 DEF Enter, Check
  <2> QED
    BY <1>1, <1>2, <2>1
<1>4. CASE AnswerWithTools \/ AnswerFinally \/ CallRaises
  <2>1. rounds' = rounds /\ way[at'] < way[at] /\ way[at'] \in Nat
    BY <1>4 DEF AnswerWithTools, AnswerFinally, CallRaises, Answered
  <2> QED
    BY <1>1, <1>2, <2>1
<1>5. CASE AnswerTruncated
  <2>1. rounds' = rounds - 1 /\ way[at] = 4 /\ way[at'] = 5
    BY <1>5 DEF AnswerTruncated, Answered, TypeOK
  <2> QED
    BY <1>1, <2>1
<1>6. CASE Dispatch
  <2>1. rounds' = rounds - 1 /\ way[at] = 3 /\ way[at'] \in {2, 5}
    BY <1>6 DEF Dispatch, TypeOK
  <2> QED
    BY <1>1, <2>1
<1>7. CASE DispatchRaises \/ Sweep \/ AutoCommit
  <2>1. rounds' = rounds /\ way[at'] < way[at] /\ way[at'] \in Nat
    BY <1>7 DEF DispatchRaises, Sweep, AutoCommit
  <2> QED
    BY <1>1, <1>2, <2>1
<1> QED
  BY <1>1, <1>2, <1>3, <1>4, <1>5, <1>6, <1>7 DEF LoopStep

\* For every limit, a visit has taken its last step once its budget is used up.
THEOREM LoopComesToAnEnd == Spec => LoopRunsDown
<1>1. CountInv /\ CountInv' /\ [Next]_vars =>
         [LoopStep => StepsLeft \in Nat /\ StepsLeft' < StepsLeft]_vars
  BY StepRunsDown
<1> QED
  BY <1>1, CountInvariance, PTL DEF Spec, LoopRunsDown

-----------------------------------------------------------------------------
(* The sweep *)

\* Besides, a visit that raises before its loop has launched nothing.
Swept == at \in {"enter", "commit"} \cup Over => ~jobs

\* Whatever the visit launched and however it left, its jobs are swept before
\* the auto-commit and at its end.
THEOREM SweepPrecedesCommit == Spec => []SweptBeforeCommitAndExit
<1>1. Init => Swept
  BY DEF Init, Swept
<1>2. Swept /\ [Next]_vars => Swept'
  BY DEF Swept, Over, Next, LoopStep, vars, Enter, Check, AnswerWithTools, AnswerTruncated,
      AnswerFinally, Answered, CallRaises, Dispatch, DispatchRaises, Sweep, AutoCommit,
      WallClockExpires, Left
<1>3. Swept => SweptBeforeCommitAndExit
  BY DEF Swept, SweptBeforeCommitAndExit
<1> QED
  BY <1>1, <1>2, <1>3, PTL DEF Spec

-----------------------------------------------------------------------------
(* The trace *)

\* The lines are whole exchanges, in order; a round is one of them, or it was lost
\* with its own dump or the one before; and the part of a line that the trace ends
\* in is of a dump since which there was no round.
Traced ==
    /\ \A k \in 1..Len(trace) :
          /\ trace[k][2] \in 1..Len(messages) /\ trace[k] = <<trace[k][2] - 1, trace[k][2]>>
          /\ messages[trace[k][2]] \in {"tool_result", "final"}
    /\ \A k, l \in 1..Len(trace) : k < l => trace[k][2] < trace[l][2]
    /\ \A i \in ToolRounds :
          \/ \E k \in 1..Len(trace) : trace[k] = <<i - 1, i>>
          \/ \E j \in undumped : j <= i /\ ~\E r \in ToolRounds : j < r /\ r < i
    /\ torn => \E j \in undumped : \A r \in ToolRounds : r <= j

\* Messages that are no answers of tools need no dump.
LEMMA TracedSilently ==
  ASSUME TypeOK, Traced, NEW new \in Seq(Kinds),
         \A i \in 1..Len(new) : new[i] # "tool_result",
         messages' = messages \o new, UNCHANGED traced
  PROVE  Traced'
<1>1. /\ Len(messages) \in Nat /\ Len(new) \in Nat
      /\ Len(messages') = Len(messages) + Len(new)
      /\ \A i \in 1..Len(messages) : messages'[i] = messages[i]
      /\ \A i \in (Len(messages) + 1)..Len(messages') :
            messages'[i] = new[i - Len(messages)]
  BY DEF TypeOK
<1>2. ToolRounds' = ToolRounds
  BY <1>1 DEF ToolRounds
<1>3. \A k \in 1..Len(trace) : trace[k][2] \in 1..Len(messages) =>
         /\ trace[k][2] \in 1..Len(messages')
         /\ messages'[trace[k][2]] = messages[trace[k][2]]
  BY <1>1
<1> QED
  BY <1>2, <1>3 DEF Traced, traced

\* A message appended, of which a dump is tried.
LEMMA TracedByDump ==
  ASSUME TypeOK, Traced, NEW new \in {"tool_result", "final"},
         messages' = Append(messages, new),
         Dump(Len(messages) + 1) \/ DumpRaises(Len(messages) + 1)
  PROVE  Traced'
<1> DEFINE n == Len(messages)
           m == Len(trace)
           Line(k, t, ms) ==
              /\ t[k][2] \in 1..Len(ms) /\ t[k] = <<t[k][2] - 1, t[k][2]>>
              /\ ms[t[k][2]] \in {"tool_result", "final"}
           Excused(i, u, rs) == \E j \in u : j <= i /\ ~\E r \in rs : j < r /\ r < i
<1>1. n \in Nat /\ m \in Nat /\ undumped \subseteq 0..n
  BY DEF TypeOK
<1>2. /\ Len(messages') = n + 1 /\ messages'[n + 1] = new
      /\ \A i \in 1..n : messages'[i] = messages[i]
  BY DEF TypeOK
<1>3. /\ ToolRounds \subseteq 1..n /\ ToolRounds \subseteq ToolRounds'
      /\ \A r \in ToolRounds' : r \in ToolRounds \/ r = n + 1
  BY <1>1, <1>2 DEF ToolRounds
<1>4. \A k \in 1..m : Line(k, trace, messages) /\ Line(k, trace, messages')
  <2>1. \A k \in 1..m : Line(k, trace, messages)
    BY DEF Traced
  <2> QED
    BY <1>1, <1>2, <2>1
<1>5. ASSUME NEW i \in ToolRounds, Excused(i, undumped, ToolRounds)
      PROVE  Excused(i, undumped', ToolRounds')
  <2>1. undumped \subseteq undumped'
    BY DEF Dump, DumpRaises
  <2>2. \A r \in ToolRounds' : r < i => r \in ToolRounds
    BY <1>1, <1>3
  <2> QED
    BY <1>5, <2>1, <2>2
<1>6. CASE n + 1 \in undumped' /\ trace' = trace
  <2>1. Excused(n + 1, undumped', ToolRounds')
    BY <1>1, <1>3, <1>6
  <2>2. ASSUME NEW i \in ToolRounds'
        PROVE  (\E k \in 1..m : trace[k] = <<i - 1, i>>) \/ Excused(i, undumped', ToolRounds')
    <3> HIDE DEF Excused
    <3>1. CASE i = n + 1
      BY <2>1, <3>1
    <3>2. CASE i \in ToolRounds
      <4>1. (\E k \in 1..m : trace[k] = <<i - 1, i>>) \/ Excused(i, undumped, ToolRounds)
        BY <3>2 DEF Traced, Excused
      <4> QED
        BY <1>5, <3>2, <4>1
    <3> QED
      BY <1>3, <3>1, <3>2
  <2>3. \A r \in ToolRounds' : r <= n + 1
    BY <1>1, <1>3
  <2>4. \A k \in 1..m, l \in 1..m : k < l => trace[k][2] < trace[l][2]
    BY DEF Traced
  <2> QED
    BY <1>4, <1>6, <2>2, <2>3, <2>4 DEF Traced
<1>7. CASE torn /\ trace' = trace /\ torn' = FALSE /\ undumped' = undumped
  <2>1. PICK j \in undumped : \A r \in ToolRounds : r <= j
    BY <1>7 DEF Traced
  <2>2. Excused(n + 1, undumped', ToolRounds')
    BY <1>1, <1>3, <1>7, <2>1
  <2>3. ASSUME NEW i \in ToolRounds'
        PROVE  (\E k \in 1..m : trace[k] = <<i - 1, i>>) \/ Excused(i, undumped', ToolRounds')
    <3> HIDE DEF Excused
    <3>1. CASE i = n + 1
      BY <2>2, <3>1
    <3>2. CASE i \in ToolRounds
      <4>1. (\E k \in 1..m : trace[k] = <<i - 1, i>>) \/ Excused(i, undumped, ToolRounds)
        BY <3>2 DEF Traced, Excused
      <4> QED
        BY <1>5, <3>2, <4>1
    <3> QED
      BY <1>3, <3>1, <3>2
  <2>4. \A k \in 1..m, l \in 1..m : k < l => trace[k][2] < trace[l][2]
    BY DEF Traced
  <2> QED
    BY <1>4, <1>7, <2>3, <2>4 DEF Traced
<1>8. CASE trace' = Append(trace, <<n, n + 1>>) /\ torn' = FALSE /\ undumped' = undumped
  <2>1. /\ Len(trace') = m + 1 /\ trace'[m + 1] = <<n, n + 1>>
        /\ \A k \in 1..m : trace'[k] = trace[k]
    BY <1>8 DEF TypeOK
  <2>2. ASSUME NEW k \in 1..(m + 1) PROVE Line(k, trace', messages')
    <3>1. CASE k = m + 1
      BY <1>1, <1>2, <2>1, <3>1
    <3>2. CASE k # m + 1
      <4>1. k \in 1..m /\ trace'[k] = trace[k]
        BY <1>1, <2>1, <3>2
      <4> QED
        BY <1>4, <4>1
    <3> QED
      BY <3>1, <3>2
  <2>3. ASSUME NEW k \in 1..(m + 1), NEW l \in 1..(m + 1), k < l
        PROVE  trace'[k][2] < trace'[l][2]
    <3>1. k \in 1..m /\ trace'[k] = trace[k] /\ trace[k][2] \in 1..n
      BY <1>1, <1>4, <2>1, <2>3
    <3>2. CASE l = m + 1
      BY <1>1, <2>1, <3>1, <3>2
    <3>3. CASE l # m + 1
      <4>1. l \in 1..m /\ trace'[l] = trace[l]
        BY <1>1, <2>1, <3>3
      <4> QED
        BY <2>3, <3>1, <4>1 DEF Traced
    <3> QED
      BY <3>2, <3>3
  <2>4. ASSUME NEW i \in ToolRounds'
        PROVE  \/ \E k \in 1..(m + 1) : trace'[k] = <<i - 1, i>>
               \/ Excused(i, undumped', ToolRounds')
    <3> HIDE DEF Excused
    <3>1. CASE i = n + 1
      <4>1. m + 1 \in 1..(m + 1) /\ trace'[m + 1] = <<i - 1, i>>
        BY <1>1, <2>1, <3>1
      <4> QED
        BY <4>1
    <3>2. CASE i \in ToolRounds
      <4>1. CASE \E k \in 1..m : trace[k] = <<i - 1, i>>
        BY <1>1, <2>1, <4>1
      <4>2. CASE Excused(i, undumped, ToolRounds)
        BY <1>5, <3>2, <4>2
      <4> QED
        BY <3>2, <4>1, <4>2 DEF Traced, Excused
    <3> QED
      BY <1>3, <3>1, <3>2
  <2> QED
    BY <1>8, <2>1, <2>2, <2>3, <2>4 DEF Traced
<1>9. PICK p \in Nat : p = n + 1
  BY <1>1
<1>10. Dump(p) \/ DumpRaises(p)
  BY <1>9, Zenon
<1>11. p - 1 = n /\ p \in undumped \cup {p}
  BY <1>1, <1>9
<1> QED
  BY <1>6, <1>7, <1>8, <1>9, <1>10, <1>11, DumpOutcomes

LEMMA TracedStep == TypeOK /\ Traced /\ [Next]_vars => Traced'
<1> SUFFICES ASSUME TypeOK, Traced, [Next]_vars PROVE Traced'
  OBVIOUS
<1>1. ASSUME UNCHANGED <<messages, traced>> PROVE Traced'
  BY <1>1 DEF Traced, traced, ToolRounds
<1>2. CASE AnswerWithTools
  <2>1. messages' = messages \o <<"tool_use">>
    BY <1>2 DEF AnswerWithTools, TypeOK
  <2>2. <<"tool_use">> \in Seq(Kinds) /\ \A i \in 1..Len(<<"tool_use">>) :
           <<"tool_use">>[i] # "tool_result"
    BY DEF Kinds
  <2>3. UNCHANGED traced
    BY <1>2 DEF AnswerWithTools
  <2> QED
    BY <2>1, <2>2, <2>3, TracedSilently
<1>3. CASE AnswerTruncated
  <2>1. PICK answer \in {"cut", "cut_call"} : messages' = messages \o <<answer, "continue">>
    BY <1>3 DEF AnswerTruncated
  <2>2. <<answer, "continue">> \in Seq(Kinds) /\ \A i \in 1..Len(<<answer, "continue">>) :
           <<answer, "continue">>[i] # "tool_result"
    BY DEF Kinds
  <2>3. UNCHANGED traced
    BY <1>3 DEF AnswerTruncated
  <2> QED
    BY <2>1, <2>2, <2>3, TracedSilently
<1>4. CASE AnswerFinally \/ Dispatch
  BY <1>4, TracedByDump DEF AnswerFinally, Dispatch
<1>5. CASE Enter \/ Check \/ CallRaises \/ DispatchRaises \/ Sweep \/ AutoCommit
           \/ WallClockExpires \/ UNCHANGED vars
  BY <1>1, <1>5 DEF Enter, Check, CallRaises, DispatchRaises, Sweep, AutoCommit,
      WallClockExpires, vars
<1> QED
  BY <1>2, <1>3, <1>4, <1>5 DEF Next, LoopStep, Left

\* For every limit, whichever writes fail and whatever part of a line is there at
\* first: the trace holds whole exchanges in order, and lacks a round only by its
\* own failed dump or the one directly before.
THEOREM RoundsAreTraced == Spec => []ToolRoundsTraced
<1>1. Init => Traced
  BY DEF Init, Traced, ToolRounds
<1>2. TypeOK /\ Traced => ToolRoundsTraced
  BY DEF Traced, ToolRoundsTraced
<1> QED
  BY <1>1, <1>2, TracedStep, TypeCorrect, PTL DEF Spec

-----------------------------------------------------------------------------
(* The window *)

\* From its place s on, ms alternates between the LLM's answers and what is
\* answered to them, and ends on the latter.
Alternating(ms, s) ==
    /\ Len(ms) \in Nat /\ s \in Nat /\ s <= Len(ms)
    /\ \A i \in (s + 1)..Len(ms) :
          IF (i - s) % 2 = 1
            THEN ms[i] \in {"tool_use", "cut", "cut_call"}
            ELSE ms[i] = IF ms[i - 1] = "tool_use" THEN "tool_result" ELSE "continue"

\* What the loop keeps of its context: the handoff, then whole exchanges, but
\* for the calls that are being dispatched.
Exchanged ==
    /\ Len(messages) > 0 /\ messages[1] = "handoff"
    /\ at \in {"enter", "check", "call"} =>
          Alternating(messages, 1) /\ (Len(messages) - 1) % 2 = 0
    /\ at = "dispatch" =>
          /\ Alternating(messages, 1) /\ (Len(messages) - 1) % 2 = 1
          /\ messages[Len(messages)] = "tool_use"

LEMMA Parity ==
  ASSUME NEW d \in Int
  PROVE  d % 2 \in {0, 1} /\ (d + 1) % 2 = 1 - (d % 2) /\ (d - 1) % 2 = 1 - (d % 2)
  OBVIOUS

LEMMA ParityOfSum ==
  ASSUME NEW d \in Int, NEW e \in Int, e % 2 = 0
  PROVE  (e + d) % 2 = d % 2
  OBVIOUS

\* One message more, of the side whose turn it is.
LEMMA AlternatingAppend ==
  ASSUME NEW ms \in Seq(Kinds), Alternating(ms, 1), NEW k \in Kinds,
         IF (Len(ms) - 1) % 2 = 0
           THEN k \in {"tool_use", "cut", "cut_call"}
           ELSE k = IF ms[Len(ms)] = "tool_use" THEN "tool_result" ELSE "continue"
  PROVE  /\ Append(ms, k) \in Seq(Kinds)
         /\ Len(Append(ms, k)) = Len(ms) + 1
         /\ Append(ms, k)[Len(ms) + 1] = k
         /\ Append(ms, k)[1] = ms[1]
         /\ Alternating(Append(ms, k), 1)
<1>1. /\ Len(ms) \in Nat /\ Len(ms) >= 1
      /\ Len(Append(ms, k)) = Len(ms) + 1 /\ Append(ms, k)[Len(ms) + 1] = k
      /\ \A i \in 1..Len(ms) : Append(ms, k)[i] = ms[i]
  BY DEF Alternating
<1>2. ASSUME NEW i \in 2..(Len(ms) + 1)
      PROVE  IF (i - 1) % 2 = 1
               THEN Append(ms, k)[i] \in {"tool_use", "cut", "cut_call"}
               ELSE Append(ms, k)[i] =
                      IF Append(ms, k)[i - 1] = "tool_use" THEN "tool_result" ELSE "continue"
  <2>1. CASE i = Len(ms) + 1
    BY <1>1, <2>1
  <2>2. CASE i # Len(ms) + 1
    BY <1>1, <2>2 DEF Alternating
  <2> QED
    BY <2>1, <2>2
<1> QED
  BY <1>1, <1>2 DEF Alternating

\* A context of whole exchanges is one that the API accepts, but for a call of a
\* tool that was cut.
LEMMA AlternatingAccepted ==
  ASSUME NEW w, NEW s, Alternating(w, s), s > 0, (Len(w) - s) % 2 = 0,
         \A i \in 1..s : w[i] \in {"handoff", "trimmed"}
  PROVE  /\ s < Len(w) => w[Len(w)] \in {"tool_result", "continue"}
         /\ \A i \in 2..Len(w) : w[i] = "continue" => w[i - 1] \in {"cut", "cut_call"}
         /\ Accepted(w) \/ \E i \in 1..Len(w) : w[i] = "cut_call"
<1> USE DEF Alternating
<1>1. s < Len(w) => w[Len(w)] \in {"tool_result", "continue"}
  OBVIOUS
<1>2. ASSUME NEW i \in 1..Len(w), w[i] \in {"tool_result", "continue"}
      PROVE  /\ i > 1
             /\ w[i - 1] \in {"tool_use", "cut", "cut_call"}
             /\ w[i] = IF w[i - 1] = "tool_use" THEN "tool_result" ELSE "continue"
  <2>1. i > s /\ (i - s) % 2 = 0
    BY <1>2
  <2>2. i - 1 > s /\ (i - 1 - s) % 2 = 1
    <3>1. i - s \in Int /\ i - s # 1 /\ i - s - 1 = i - 1 - s
      BY <2>1
    <3>2. (i - s - 1) % 2 = 1
      BY <2>1, <3>1, Parity
    <3> QED
      BY <2>1, <3>1, <3>2
  <2> QED
    BY <2>1, <2>2
<1>3. ASSUME NEW i \in 1..Len(w), w[i] = "tool_use"
      PROVE  i < Len(w) /\ w[i + 1] = "tool_result"
  <2>1. i > s /\ (i - s) % 2 = 1
    BY <1>3
  <2>2. i < Len(w) /\ (i + 1 - s) % 2 = 0
    <3>1. i - s \in Int /\ i # Len(w) /\ i - s + 1 = i + 1 - s
      BY <2>1
    <3>2. (i - s + 1) % 2 = 0
      BY <2>1, <3>1, Parity
    <3> QED
      BY <3>1, <3>2
  <2> QED
    BY <1>3, <2>1, <2>2
<1>4. Accepted(w) \/ \E i \in 1..Len(w) : w[i] = "cut_call"
  BY <1>2, <1>3 DEF Accepted
<1> QED
  BY <1>1, <1>2, <1>4

\* What the window leaves of an alternating context alternates again.
LEMMA WindowAlternates ==
  ASSUME NEW ms \in Seq(Kinds), Alternating(ms, 1), (Len(ms) - 1) % 2 = 0,
         ms[1] = "handoff"
  PROVE  LET w == Windowed(ms)
         IN  /\ w[1] = "handoff"
             /\ Len(w) <= 2 + MaxPairs * 2
             /\ \E s \in 1..2 :
                   /\ Alternating(w, s) /\ (Len(w) - s) % 2 = 0
                   /\ s = Len(w) => w[s] = "handoff"
                   /\ \A i \in 1..s : w[i] \in {"handoff", "trimmed"}
<1> DEFINE w == Windowed(ms)
           n == Len(ms)
<1> USE LoopAssumption
<1>1. n \in Nat /\ n >= 1
  BY DEF Alternating
<1>2. CASE n <= 1 + MaxPairs * 2
  <2>1. w = ms
    BY <1>2 DEF Windowed
  <2> QED
    BY <1>1, <1>2, <2>1
<1>3. CASE n > 1 + MaxPairs * 2
  <2> DEFINE cut == n - MaxPairs * 2
             kept == SubSeq(ms, cut + 1, n)
  <2>1. cut \in Nat /\ cut >= 2 /\ n - cut = MaxPairs * 2
    BY <1>1, <1>3
  <2>2. /\ kept \in Seq(Kinds) /\ Len(kept) = MaxPairs * 2
        /\ \A i \in 1..(MaxPairs * 2) : kept[i] = ms[cut + i]
    BY <1>1, <2>1
  <2>3. /\ w = <<ms[1], "trimmed">> \o kept
        /\ Len(w) = 2 + MaxPairs * 2 /\ w[1] = ms[1] /\ w[2] = "trimmed"
        /\ \A i \in 3..(2 + MaxPairs * 2) : w[i] = kept[i - 2]
    <3>1. w = <<ms[1], "trimmed">> \o kept
      BY <1>1, <1>3 DEF Windowed
    <3> QED
      BY <2>2, <3>1
  <2>4. \A i \in 3..(2 + MaxPairs * 2) : w[i] = ms[cut + i - 2]
    BY <2>1, <2>2, <2>3
  <2>5. (cut - 1) % 2 = 0
    BY <1>1, <2>1
  <2> HIDE DEF w, kept, cut
  <2>6. ASSUME NEW i \in 3..Len(w)
        PROVE  IF (i - 2) % 2 = 1
                 THEN w[i] \in {"tool_use", "cut", "cut_call"}
                 ELSE w[i] = IF w[i - 1] = "tool_use" THEN "tool_result" ELSE "continue"
    <3> DEFINE j == cut + i - 2
    <3>1. i \in 3..(2 + MaxPairs * 2) /\ w[i] = ms[j]
      BY <2>3, <2>4
    <3>2. j \in 2..n
      BY <1>1, <2>1, <3>1
    <3>3. (j - 1) % 2 = (i - 2) % 2
      <4>1. cut - 1 \in Int /\ i - 2 \in Int /\ j - 1 = (cut - 1) + (i - 2)
        BY <2>1
      <4> QED
        BY <2>5, <4>1, ParityOfSum
    <3>4. ASSUME (i - 2) % 2 # 1 PROVE w[i - 1] = ms[j - 1]
      <4>1. i # 3
        BY <3>4
      <4>2. i - 1 \in 3..(2 + MaxPairs * 2) /\ cut + (i - 1) - 2 = j - 1
        BY <2>1, <3>1, <4>1
      <4> QED
        BY <2>4, <4>2
    <3> HIDE DEF j
    <3>5. IF (j - 1) % 2 = 1
            THEN ms[j] \in {"tool_use", "cut", "cut_call"}
            ELSE ms[j] = IF ms[j - 1] = "tool_use" THEN "tool_result" ELSE "continue"
      BY <3>2 DEF Alternating
    <3> QED
      BY <3>1, <3>3, <3>4, <3>5
  <2>7. (Len(w) - 2) % 2 = 0
    <3>1. MaxPairs \in Nat /\ Len(w) - 2 = MaxPairs * 2 /\ (MaxPairs * 2) % 2 = 0
      BY <2>3
    <3> QED
      BY <3>1
  <2>8. Alternating(w, 2)
    <3>1. Len(w) \in Nat /\ 2 <= Len(w)
      BY <2>3
    <3> QED
      BY <2>6, <3>1 DEF Alternating
  <2>9. \A i \in 1..2 : w[i] \in {"handoff", "trimmed"}
    BY <2>3
  <2>10. w[1] = "handoff" /\ Len(w) <= 2 + MaxPairs * 2 /\ Len(w) # 2
    BY <2>3
  <2> QED
    BY <2>7, <2>8, <2>9, <2>10 DEF w
<1> QED
  BY <1>1, <1>2, <1>3

LEMMA ExchangedStep == TypeOK /\ Exchanged /\ [Next]_vars => Exchanged'
<1> SUFFICES ASSUME TypeOK, Exchanged, [Next]_vars PROVE Exchanged'
  OBVIOUS
<1>1. messages \in Seq(Kinds) /\ Len(messages) \in Nat
  BY DEF TypeOK
<1>2. CASE AnswerWithTools
  <2>1. /\ messages' = Append(messages, "tool_use") /\ at = "call" /\ at' = "dispatch"
    BY <1>2 DEF AnswerWithTools, Answered
  <2>2. Alternating(messages, 1) /\ (Len(messages) - 1) % 2 = 0
    BY <2>1 DEF Exchanged
  <2> QED
    BY <1>1, <2>1, <2>2, Parity, AlternatingAppend DEF Exchanged, Kinds
<1>3. CASE AnswerTruncated
  <2>1. PICK answer \in {"cut", "cut_call"} : messages' = messages \o <<answer, "continue">>
    BY <1>3 DEF AnswerTruncated
  <2>2. at = "call" /\ at' = "check"
    BY <1>3 DEF AnswerTruncated, Answered
  <2>3. Alternating(messages, 1) /\ (Len(messages) - 1) % 2 = 0
    BY <2>2 DEF Exchanged
  <2> DEFINE once == Append(messages, answer)
  <2>4. /\ once \in Seq(Kinds) /\ Len(once) = Len(messages) + 1
        /\ once[Len(once)] = answer /\ once[1] = messages[1]
        /\ Alternating(once, 1) /\ (Len(once) - 1) % 2 = 1
    BY <1>1, <2>3, Parity, AlternatingAppend DEF Kinds
  <2>5. messages' = Append(once, "continue")
    BY <1>1, <2>1 DEF Kinds
  <2> HIDE DEF once
  <2>6. /\ Len(messages') = Len(once) + 1 /\ messages'[1] = once[1]
        /\ Alternating(messages', 1)
    BY <2>4, <2>5, AlternatingAppend DEF Kinds
  <2> QED
    BY <1>1, <2>2, <2>4, <2>6, Parity DEF Exchanged
<1>4. CASE Dispatch
  <2>1. /\ messages' = Append(messages, "tool_result")
        /\ at = "dispatch" /\ at' \in {"check", "unwinding"}
    BY <1>4 DEF Dispatch
  <2>2. /\ Alternating(messages, 1) /\ (Len(messages) - 1) % 2 = 1
        /\ messages[Len(messages)] = "tool_use"
    BY <2>1 DEF Exchanged
  <2> QED
    BY <1>1, <2>1, <2>2, Parity, AlternatingAppend DEF Exchanged, Kinds
<1>5. CASE AnswerFinally
  <2>1. messages' = Append(messages, "final") /\ at' \in {"finally", "unwinding"}
    BY <1>5 DEF AnswerFinally
  <2> QED
    BY <1>1, <2>1 DEF Exchanged
<1>6. CASE Enter \/ Check \/ CallRaises \/ DispatchRaises \/ Sweep \/ AutoCommit
           \/ WallClockExpires \/ UNCHANGED vars
  BY <1>6 DEF Enter, Check, CallRaises, DispatchRaises, Sweep, AutoCommit,
      WallClockExpires, vars, Exchanged
<1> QED
  BY <1>2, <1>3, <1>4, <1>5, <1>6 DEF Next, LoopStep, Left

\* For every window and every order of rounds and truncations, the LLM is shown
\* whole exchanges, and rejects none but a call of a tool that was cut.
THEOREM WindowIsAligned == Spec => []WindowAligned
<1>1. Init => Exchanged
  BY DEF Init, Exchanged, Alternating
<1>2. TypeOK /\ Exchanged => WindowAligned
  <2> SUFFICES ASSUME TypeOK, Exchanged, at = "call" PROVE WindowAligned
    BY DEF WindowAligned
  <2> DEFINE w == Windowed(messages)
  <2>1. /\ messages \in Seq(Kinds) /\ messages[1] = "handoff"
        /\ Alternating(messages, 1) /\ (Len(messages) - 1) % 2 = 0
    BY DEF TypeOK, Exchanged
  <2>2. /\ w[1] = "handoff" /\ Len(w) <= 2 + MaxPairs * 2
        /\ \E s \in 1..2 :
              /\ Alternating(w, s) /\ (Len(w) - s) % 2 = 0
              /\ s = Len(w) => w[s] = "handoff"
              /\ \A i \in 1..s : w[i] \in {"handoff", "trimmed"}
    BY <2>1, WindowAlternates
  <2> HIDE DEF w
  <2>3. PICK s \in 1..2 :
           /\ Alternating(w, s) /\ (Len(w) - s) % 2 = 0
           /\ s = Len(w) => w[s] = "handoff"
           /\ \A i \in 1..s : w[i] \in {"handoff", "trimmed"}
    BY <2>2
  <2>4. /\ s < Len(w) => w[Len(w)] \in {"tool_result", "continue"}
        /\ \A i \in 2..Len(w) : w[i] = "continue" => w[i - 1] \in {"cut", "cut_call"}
        /\ Accepted(w) \/ \E i \in 1..Len(w) : w[i] = "cut_call"
    BY <2>3, AlternatingAccepted
  <2>5. w[Len(w)] \in {"handoff", "tool_result", "continue"}
    BY <2>3, <2>4 DEF Alternating
  <2> QED
    BY <2>2, <2>4, <2>5 DEF WindowAligned, w
<1> QED
  BY <1>1, <1>2, ExchangedStep, TypeCorrect, PTL DEF Spec

=============================================================================
