----------------------- MODULE TraceInspector_proofs -----------------------
(***************************************************************************)
(* The trace that the inspector reads, for any nodes, rounds and bounds:   *)
(* it is a sequence of lines, some of them torn.  What the report counts,  *)
(* warns of and keeps is what the run did, as far as the lines were not    *)
(* lost.                                                                   *)
(***************************************************************************)
EXTENDS TraceInspector, NumberInduction, FunctionTheorems, FiniteSetTheorems, SequenceTheorems, TLAPS

\* The histories are sequences, no round is counted that was not dumped, and
\* only the last line can be open.
Typed ==
    /\ node \in Nodes \cup {None}
    /\ tool_round \in Nat
    /\ visits \in Seq(Nodes)
    /\ trace \in Seq(Lines \cup {Torn})
    /\ open \in BOOLEAN
    /\ open => trace # <<>> /\ trace[Len(trace)] = Torn
    /\ dumps \in Seq(Lines)
    /\ Len(trace) <= Len(dumps)
    /\ tool_round <= Len(dumps)
    /\ Len(dumps) <= MaxDumps

LEMMA TypedInit == Init => Typed
<1> SUFFICES ASSUME Init PROVE Typed
  OBVIOUS
<1>1. /\ node = None /\ tool_round = 0 /\ open = FALSE
      /\ visits = <<>> /\ trace = <<>> /\ dumps = <<>>
  BY DEF Init
<1>2. /\ visits \in Seq(Nodes) /\ trace \in Seq(Lines \cup {Torn}) /\ dumps \in Seq(Lines)
      /\ Len(trace) = 0 /\ Len(dumps) = 0
  BY <1>1
<1>3. open \in BOOLEAN /\ ~open
  BY <1>1, Zenon
<1> QED
  BY <1>1, <1>2, <1>3, TraceAssumption DEF Typed

\* Whatever becomes of the write, the file holds lines, as many as were dumped
\* or fewer: what a torn line takes up is taken up by the next one.
LEMMA DumpKeepsLines ==
  ASSUME Typed, NEW round \in Nat, round <= Len(dumps) + 1, NEW tools \in Seq(Kinds),
         node # None, Dump(round, tools)
  PROVE  /\ trace' \in Seq(Lines \cup {Torn})
         /\ open' \in BOOLEAN
         /\ open' => trace' # <<>> /\ trace'[Len(trace')] = Torn
         /\ dumps' \in Seq(Lines)
         /\ Len(trace') <= Len(dumps')
         /\ Len(dumps') = Len(dumps) + 1
         /\ Len(dumps') <= MaxDumps
<1> DEFINE line == [node |-> node, tool_round |-> round, visit |-> Len(visits),
                    at |-> Len(dumps) + 1, tools |-> tools]
           onto == IF open THEN Front(trace) ELSE trace
<1>1. line \in Lines
  <2>1. node \in Nodes /\ Len(visits) \in Nat /\ Len(dumps) + 1 \in Nat
    BY DEF Typed
  <2> QED
    BY <2>1 DEF Lines
<1>2. /\ onto \in Seq(Lines \cup {Torn})
      /\ Len(onto) <= Len(dumps)
  BY DEF Typed, Front
<1>3. /\ Len(dumps) < MaxDumps
      /\ dumps' = Append(dumps, line)
      /\ \/ /\ trace' = Append(onto, IF open THEN Torn ELSE line)
            /\ open' = FALSE
         \/ UNCHANGED <<trace, open>>
         \/ /\ trace' = Append(onto, Torn)
            /\ open' = TRUE
  BY DEF Dump
<1> HIDE DEF line, onto
<1>4. /\ dumps' \in Seq(Lines) /\ Len(dumps') = Len(dumps) + 1
      /\ Len(dumps') <= MaxDumps
  BY <1>1, <1>3, TraceAssumption DEF Typed
<1>5. CASE trace' = Append(onto, IF open THEN Torn ELSE line) /\ open' = FALSE
  <2>1. PICK l \in Lines \cup {Torn} : l = IF open THEN Torn ELSE line
    BY <1>1
  <2>2. /\ trace' \in Seq(Lines \cup {Torn}) /\ Len(trace') = Len(onto) + 1
    BY <1>2, <1>5, <2>1
  <2>3. Len(onto) \in Nat /\ Len(dumps) \in Nat
    BY <1>2 DEF Typed
  <2>4. open' \in BOOLEAN /\ ~open'
    BY <1>5, Zenon
  <2>5. dumps' \in Seq(Lines) /\ Len(dumps') = Len(dumps) + 1 /\ Len(dumps') <= MaxDumps
    BY <1>4
  <2>6. Len(trace') <= Len(dumps')
    BY <1>2, <2>2, <2>3, <2>5
  <2> QED
    BY <2>2, <2>4, <2>5, <2>6
<1>6. CASE UNCHANGED <<trace, open>>
  BY <1>4, <1>6 DEF Typed
<1>7. CASE trace' = Append(onto, Torn) /\ open' = TRUE
  BY <1>2, <1>4, <1>7 DEF Typed
<1> QED
  BY <1>3, <1>4, <1>5, <1>6, <1>7

LEMMA TypedStep == Typed /\ [Next]_vars => Typed'
<1> SUFFICES ASSUME Typed, [Next]_vars PROVE Typed'
  OBVIOUS
<1>1. ASSUME NEW n \in Nodes, Enter(n) PROVE Typed'
  BY <1>1, TraceAssumption DEF Enter, Typed
<1>2. ASSUME NEW tools \in Answers, Round(tools) PROVE Typed'
  <2>1. tools \in Seq(Kinds) /\ tool_round + 1 \in Nat /\ tool_round + 1 <= Len(dumps) + 1
    BY TraceAssumption DEF Typed
  <2>2. node # None /\ Dump(tool_round + 1, tools)
    BY <1>2 DEF Round
  <2>3. /\ node' = node /\ visits' = visits /\ tool_round' = tool_round + 1
    BY <1>2 DEF Round
  <2> QED
    BY <2>1, <2>2, <2>3, DumpKeepsLines DEF Typed
<1>3. CASE EndTurn
  <2>1. <<>> \in Seq(Kinds) /\ tool_round \in Nat /\ tool_round <= Len(dumps) + 1
    BY DEF Typed
  <2>2. node # None /\ Dump(tool_round, <<>>)
    BY <1>3 DEF EndTurn
  <2>3. /\ node' = None /\ visits' = visits /\ tool_round' = tool_round
    BY <1>3 DEF EndTurn
  <2> QED
    BY <2>1, <2>2, <2>3, DumpKeepsLines DEF Typed
<1>4. CASE LeaveUndumped
  BY <1>4 DEF LeaveUndumped, Typed
<1>5. CASE UNCHANGED vars
  BY <1>5 DEF vars, Typed
<1> QED
  BY <1>1, <1>2, <1>3, <1>4, <1>5 DEF Next, Over, Full

\* At every moment of a run the file holds lines of the trace and torn ones, no
\* more than _dump_trace was called for, and the last one is torn while open.
THEOREM TypeCorrect == Spec => []TypeOK
<1>1. Typed => TypeOK
  <2> SUFFICES ASSUME Typed PROVE TypeOK
    OBVIOUS
  <2>1. tool_round \in 0..MaxDumps
    BY TraceAssumption DEF Typed
  <2>2. \A i \in 1..Len(visits) : visits[i] \in Nodes
    BY DEF Typed
  <2>3. \A i \in 1..Len(trace) : trace[i] = Torn \/ trace[i] \in Lines
    BY DEF Typed
  <2>4. open => trace # <<>> /\ Last(trace) = Torn
    BY DEF Typed, Last
  <2> QED
    BY <2>1, <2>2, <2>3, <2>4 DEF Typed, TypeOK
<1> QED
  BY <1>1, TypedInit, TypedStep, PTL DEF Spec

-----------------------------------------------------------------------------
(* What a dump does to the lines that can be read *)

LEMMA TypedAlways == Spec => []Typed
  BY TypedInit, TypedStep, PTL DEF Spec

\* The line that a dump of the visit writes.
LineOf(round, tools) ==
  [node |-> node, tool_round |-> round, visit |-> Len(visits),
   at |-> Len(dumps) + 1, tools |-> tools]

\* It is added after the others.
Added(line) ==
  /\ Entries' = Entries \cup {Len(trace) + 1}
  /\ Len(trace) + 1 \notin Entries
  /\ trace' = Append(trace, line)
  /\ trace'[Len(trace) + 1] = line
  /\ \A i \in Entries : trace'[i] = trace[i]

\* The others stay as they are.
Unread ==
  /\ Entries' = Entries
  /\ \A i \in Entries : trace'[i] = trace[i]

\* A dump adds its line or no line, and spoils none.
LEMMA DumpOutcome ==
  ASSUME Typed, NEW round \in Nat, NEW tools \in Seq(Kinds), node # None,
         Dump(round, tools)
  PROVE  /\ LineOf(round, tools) \in Lines
         /\ Len(dumps') = Len(dumps) + 1
         /\ Added(LineOf(round, tools)) \/ Unread
<1> DEFINE line == LineOf(round, tools)
           onto == IF open THEN Front(trace) ELSE trace
<1>1. line \in Lines
  <2>1. node \in Nodes /\ Len(visits) \in Nat /\ Len(dumps) + 1 \in Nat
    BY DEF Typed
  <2> QED
    BY <2>1 DEF Lines, LineOf
<1>2. /\ dumps' = Append(dumps, line)
      /\ \/ /\ trace' = Append(onto, IF open THEN Torn ELSE line)
            /\ open' = FALSE
         \/ UNCHANGED <<trace, open>>
         \/ /\ trace' = Append(onto, Torn)
            /\ open' = TRUE
  BY DEF Dump, LineOf
<1>3. /\ trace \in Seq(Lines \cup {Torn})
      /\ open => trace # <<>> /\ trace[Len(trace)] = Torn
      /\ line # Torn
  BY <1>1, TraceAssumption DEF Typed
<1>4. Len(dumps') = Len(dumps) + 1
  BY <1>2 DEF Typed
<1> HIDE DEF line
<1>5. CASE trace' = Append(trace, line)
  <2>1. /\ trace'[Len(trace) + 1] = line /\ Len(trace') = Len(trace) + 1
        /\ \A i \in 1..Len(trace) : trace'[i] = trace[i]
    BY <1>1, <1>3, <1>5
  <2>2. Entries' = Entries \cup {Len(trace) + 1}
    BY <1>3, <2>1 DEF Entries
  <2> QED
    BY <1>1, <1>3, <1>4, <1>5, <2>1, <2>2 DEF Added, Entries, line
<1>6. CASE trace' = Append(onto, Torn)
  <2>1. /\ onto \in Seq(Lines \cup {Torn})
        /\ \A i \in 1..Len(onto) : onto[i] = trace[i]
        /\ Len(onto) <= Len(trace)
        /\ \A i \in 1..Len(trace) : i > Len(onto) => trace[i] = Torn
    <3>1. CASE open
      BY <1>3, <3>1 DEF Front
    <3>2. CASE ~open
      BY <1>3, <3>2
    <3> QED
      BY <3>1, <3>2
  <2> HIDE DEF onto
  <2>2. /\ trace'[Len(onto) + 1] = Torn /\ Len(trace') = Len(onto) + 1
        /\ \A i \in 1..Len(onto) : trace'[i] = trace[i]
    BY <1>6, <2>1
  <2>3. Len(onto) \in Nat /\ Len(trace) \in Nat
    BY <1>3, <2>1
  <2>4. ASSUME NEW i \in Entries PROVE i \in Entries' /\ trace'[i] = trace[i]
    BY <2>1, <2>2, <2>3, <2>4 DEF Entries
  <2>5. ASSUME NEW i \in Entries' PROVE i \in Entries
    BY <2>1, <2>2, <2>3, <2>5 DEF Entries
  <2> QED
    BY <1>1, <1>4, <2>4, <2>5 DEF Unread, line
<1>7. CASE UNCHANGED <<trace, open>>
  BY <1>1, <1>4, <1>7 DEF Unread, Entries, line
<1>8. (trace' = Append(onto, IF open THEN Torn ELSE line)) =>
         (trace' = Append(trace, line) \/ trace' = Append(onto, Torn))
  OBVIOUS
<1> QED
  BY <1>2, <1>5, <1>6, <1>7, <1>8

-----------------------------------------------------------------------------
(* The tool uses that a dump adds *)

\* A dump adds its uses, on a new line, and changes no other use.
LEMMA UsesAdded ==
  ASSUME Typed, NEW line \in Lines, Added(line), NEW m, m = Len(trace) + 1
  PROVE  /\ Uses' = Uses \cup {<<m, k>> : k \in 1..Len(line.tools)}
         /\ Uses \cap {<<m, k>> : k \in 1..Len(line.tools)} = {}
         /\ \A use \in Uses : NodeOf(use)' = NodeOf(use) /\ ToolOf(use)' = ToolOf(use)
         /\ \A k : NodeOf(<<m, k>>)' = line.node /\ ToolOf(<<m, k>>)' = line.tools[k]
<1>1. /\ Entries' = Entries \cup {m} /\ m \notin Entries /\ trace'[m] = line
      /\ \A i \in Entries : trace'[i] = trace[i]
  BY DEF Added
<1>2. \A use : use \in Uses <=> \E i \in Entries : \E k \in 1..Len(trace[i].tools) : use = <<i, k>>
  BY DEF Uses
<1>3. \A use : use \in Uses' <=>
                 \E i \in Entries' : \E k \in 1..Len(trace'[i].tools) : use = <<i, k>>
  BY DEF Uses
<1>4. \A use : use \in Uses' <=>
                 use \in Uses \/ \E k \in 1..Len(line.tools) : use = <<m, k>>
  BY <1>1, <1>2, <1>3
<1>5. Uses' = Uses \cup {<<m, k>> : k \in 1..Len(line.tools)}
  BY <1>4
<1>6. Uses \cap {<<m, k>> : k \in 1..Len(line.tools)} = {}
  BY <1>1, <1>2
<1>7. \A use \in Uses : NodeOf(use)' = NodeOf(use) /\ ToolOf(use)' = ToolOf(use)
  BY <1>1, <1>2 DEF NodeOf, ToolOf
<1>8. \A k : NodeOf(<<m, k>>)' = line.node /\ ToolOf(<<m, k>>)' = line.tools[k]
  BY <1>1 DEF NodeOf, ToolOf
<1> QED
  BY <1>5, <1>6, <1>7, <1>8

LEMMA UsesUnread ==
  ASSUME Unread
  PROVE  /\ Uses' = Uses
         /\ \A use \in Uses : NodeOf(use)' = NodeOf(use) /\ ToolOf(use)' = ToolOf(use)
<1>1. Entries' = Entries /\ \A i \in Entries : trace'[i] = trace[i]
  BY DEF Unread
<1>2. \A use : use \in Uses <=> \E i \in Entries : \E k \in 1..Len(trace[i].tools) : use = <<i, k>>
  BY DEF Uses
<1>3. \A use : use \in Uses' <=>
                 \E i \in Entries' : \E k \in 1..Len(trace'[i].tools) : use = <<i, k>>
  BY DEF Uses
<1>4. \A use : use \in Uses' <=> use \in Uses
  BY <1>1, <1>2, <1>3
<1>5. \A use \in Uses : NodeOf(use)' = NodeOf(use) /\ ToolOf(use)' = ToolOf(use)
  BY <1>1, <1>2 DEF NodeOf, ToolOf
<1> QED
  BY <1>4, <1>5

-----------------------------------------------------------------------------
(* The counts *)

Calls == [node : Nodes, tool : Kinds]

\* The history gains the calls of a round.
Called(tools) ==
  /\ made' \in Seq(Calls)
  /\ Len(made') = Len(made) + Len(tools)
  /\ \A i \in 1..Len(made) : made'[i] = made[i]
  /\ \A k \in 1..Len(tools) : made'[Len(made) + k] = [node |-> node, tool |-> tools[k]]

LEMMA RoundCalls ==
  ASSUME made \in Seq(Calls), node \in Nodes, NEW tools \in Seq(Kinds),
         made' = made \o [i \in 1..Len(tools) |-> [node |-> node, tool |-> tools[i]]]
  PROVE  Called(tools)
<1>1. PICK n \in Nat : n = Len(tools)
  OBVIOUS
<1> DEFINE more == [i \in 1..n |-> [node |-> node, tool |-> tools[i]]]
<1>2. /\ more \in Seq(Calls) /\ Len(more) = n
      /\ \A k \in 1..n : more[k] = [node |-> node, tool |-> tools[k]]
  <2>1. \A i \in 1..n : [node |-> node, tool |-> tools[i]] \in Calls
    BY <1>1 DEF Calls
  <2> QED
    BY <2>1
<1>3. made' = made \o more
  BY <1>1
<1> HIDE DEF more
<1>4. /\ made \o more \in Seq(Calls) /\ Len(made \o more) = Len(made) + Len(more)
      /\ \A i \in 1..(Len(made) + Len(more)) :
            (made \o more)[i] = IF i <= Len(made) THEN made[i] ELSE more[i - Len(made)]
  BY <1>2, ConcatProperties
<1>5. PICK m \in Nat : m = Len(made)
  OBVIOUS
<1>6. /\ made' \in Seq(Calls) /\ Len(made') = m + n
      /\ \A i \in 1..(m + n) : made'[i] = IF i <= m THEN made[i] ELSE more[i - m]
  BY <1>2, <1>3, <1>4, <1>5
<1>7. ASSUME NEW i \in 1..m PROVE made'[i] = made[i]
  <2>1. i \in 1..(m + n) /\ i <= m
    OBVIOUS
  <2> QED
    BY <1>6, <2>1
<1>8. ASSUME NEW k \in 1..n PROVE made'[m + k] = [node |-> node, tool |-> tools[k]]
  <2>1. m + k \in 1..(m + n) /\ ~(m + k <= m) /\ (m + k) - m = k
    OBVIOUS
  <2> QED
    BY <1>2, <1>6, <2>1
<1> QED
  BY <1>1, <1>5, <1>6, <1>7, <1>8 DEF Called

LEMMA NoCalls ==
  ASSUME made \in Seq(Calls), made' = made
  PROVE  Called(<<>>)
<1>1. Len(<<>>) = 0 /\ Len(made) \in Nat /\ 1..0 = {}
  OBVIOUS
<1>2. \A k \in 1..0 : made'[Len(made) + k] = [node |-> node, tool |-> (<<>>)[k]]
  BY <1>1
<1> QED
  BY <1>1, <1>2 DEF Called

LEMMA PartOfInterval ==
  ASSUME NEW n \in Nat, NEW S, S \subseteq 1..n
  PROVE  IsFiniteSet(S)
<1>1. IsFiniteSet(1..n)
  BY FS_Interval
<1> QED
  BY <1>1, FS_Subset

LEMMA DisjointSize ==
  ASSUME NEW S, IsFiniteSet(S), NEW T, IsFiniteSet(T), S \cap T = {}, NEW U, U = S \cup T
  PROVE  /\ IsFiniteSet(U)
         /\ Cardinality(U) = Cardinality(S) + Cardinality(T)
<1>1. IsFiniteSet(U) /\ Cardinality(U) = Cardinality(S) + Cardinality(T) - Cardinality({})
  BY FS_Union
<1>2. Cardinality({}) = 0 /\ Cardinality(S) \in Nat /\ Cardinality(T) \in Nat
  BY FS_EmptySet, FS_CardinalityType
<1> QED
  BY <1>1, <1>2

\* A set of numbers, shifted or paired with another, keeps its size.
LEMMA ShiftedSize ==
  ASSUME NEW K, IsFiniteSet(K), K \subseteq Nat, NEW m \in Nat
  PROVE  /\ IsFiniteSet({m + k : k \in K})
         /\ Cardinality({m + k : k \in K}) = Cardinality(K)
<1> DEFINE T == {m + k : k \in K}
           f == [k \in K |-> m + k]
<1>1. f \in Bijection(K, T)
  <2>1. f \in [K -> T]
    OBVIOUS
  <2>2. \A a, b \in K : f[a] = f[b] => a = b
    OBVIOUS
  <2>3. \A t \in T : \E k \in K : f[k] = t
    OBVIOUS
  <2> QED
    BY <2>1, <2>2, <2>3, Fun_IsBij
<1>2. ExistsBijection(K, T)
  BY <1>1 DEF ExistsBijection
<1> QED
  BY <1>2, FS_Bijection

LEMMA PairedSize ==
  ASSUME NEW K, IsFiniteSet(K), NEW m
  PROVE  /\ IsFiniteSet({<<m, k>> : k \in K})
         /\ Cardinality({<<m, k>> : k \in K}) = Cardinality(K)
<1> DEFINE T == {<<m, k>> : k \in K}
           f == [k \in K |-> <<m, k>>]
<1>1. f \in Bijection(K, T)
  <2>1. f \in [K -> T]
    OBVIOUS
  <2>2. \A a, b \in K : f[a] = f[b] => a = b
    OBVIOUS
  <2>3. \A t \in T : \E k \in K : f[k] = t
    OBVIOUS
  <2> QED
    BY <2>1, <2>2, <2>3, Fun_IsBij
<1>2. ExistsBijection(K, T)
  BY <1>1 DEF ExistsBijection
<1> QED
  BY <1>2, FS_Bijection

\* The places where a round calls a tool; its uses in the trace; its calls in the run.
Places(tools, tool) == {k \in 1..Len(tools) : tools[k] = tool}
UsesOf(tool) == {use \in Uses : ToolOf(use) = tool}
CallsOf(tool) == {i \in 1..Len(made) : made[i].tool = tool}

LEMMA CallsGrow ==
  ASSUME made \in Seq(Calls), NEW tools \in Seq(Kinds), Called(tools), NEW tool
  PROVE  /\ IsFiniteSet(CallsOf(tool)) /\ IsFiniteSet(CallsOf(tool)')
         /\ IsFiniteSet(Places(tools, tool))
         /\ Cardinality(CallsOf(tool)') = Cardinality(CallsOf(tool)) + Cardinality(Places(tools, tool))
<1>1. PICK m \in Nat, n \in Nat : m = Len(made) /\ n = Len(tools)
  OBVIOUS
<1> DEFINE K == Places(tools, tool)
           S == CallsOf(tool)
           T == {m + k : k \in K}
<1>2. IsFiniteSet(K) /\ K \subseteq 1..n
  <2>1. K \subseteq 1..n
    BY <1>1 DEF Places
  <2> HIDE DEF K
  <2> QED
    BY <2>1, PartOfInterval
<1>3. IsFiniteSet(S) /\ S \subseteq 1..m
  <2>1. S \subseteq 1..m
    BY <1>1 DEF CallsOf
  <2> HIDE DEF S
  <2> QED
    BY <2>1, PartOfInterval
<1>4. IsFiniteSet(T) /\ Cardinality(T) = Cardinality(K)
  <2>1. K \subseteq Nat /\ IsFiniteSet(K) /\ m \in Nat
    BY <1>2
  <2> HIDE DEF K
  <2> QED
    BY <2>1, ShiftedSize
<1>5. S \cap T = {}
  <2> HIDE DEF S, K
  <2> QED
    BY <1>2, <1>3
<1>6. CallsOf(tool)' = S \cup T
  <2>1. /\ Len(made') = m + n
        /\ \A i \in 1..m : made'[i] = made[i]
        /\ \A k \in 1..n : made'[m + k] = [node |-> node, tool |-> tools[k]]
    BY <1>1 DEF Called
  <2>2. ASSUME NEW i \in 1..m PROVE i \in CallsOf(tool)' <=> i \in S
    BY <1>1, <2>1 DEF CallsOf
  <2>3. ASSUME NEW k \in 1..n PROVE m + k \in CallsOf(tool)' <=> k \in K
    <3>1. m + k \in 1..(m + n)
      OBVIOUS
    <3>2. made'[m + k] = [node |-> node, tool |-> tools[k]]
      BY <2>1
    <3>3. made'[m + k].tool = tools[k]
      BY <3>2
    <3> QED
      BY <1>1, <2>1, <3>1, <3>3 DEF CallsOf, Places
  <2>4. CallsOf(tool)' \subseteq 1..(m + n)
    BY <2>1 DEF CallsOf
  <2> HIDE DEF S, K
  <2>5. ASSUME NEW i \in CallsOf(tool)' PROVE i \in S \cup T
    <3>1. CASE i <= m
      BY <2>2, <2>4, <2>5, <3>1
    <3>2. CASE ~(i <= m)
      <4>1. i - m \in 1..n /\ i = m + (i - m)
        BY <2>4, <2>5, <3>2
      <4> QED
        BY <2>3, <2>5, <4>1
    <3> QED
      BY <3>1, <3>2
  <2>6. S \cup T \subseteq CallsOf(tool)'
    BY <1>2, <1>3, <2>2, <2>3
  <2> QED
    BY <2>5, <2>6
<1> HIDE DEF S, T, K
<1>7. \A U : U = S \cup T => IsFiniteSet(U) /\ Cardinality(U) = Cardinality(S) + Cardinality(T)
  BY <1>2, <1>3, <1>4, <1>5, DisjointSize
<1>8. IsFiniteSet(CallsOf(tool)') /\ Cardinality(CallsOf(tool)') = Cardinality(S) + Cardinality(K)
  BY <1>4, <1>6, <1>7
<1>9. IsFiniteSet(S) /\ IsFiniteSet(K)
  BY <1>2, <1>3
<1> QED
  BY <1>8, <1>9 DEF S, K

LEMMA UsesGrow ==
  ASSUME Typed, NEW line \in Lines, Added(line), NEW tool, IsFiniteSet(UsesOf(tool))
  PROVE  /\ IsFiniteSet(UsesOf(tool)')
         /\ Cardinality(UsesOf(tool)')
               = Cardinality(UsesOf(tool)) + Cardinality(Places(line.tools, tool))
<1>1. PICK m : m = Len(trace) + 1
  OBVIOUS
<1> DEFINE K == Places(line.tools, tool)
           S == UsesOf(tool)
           T == {<<m, k>> : k \in K}
<1>0. IsFiniteSet(S)
  OBVIOUS
<1>2. IsFiniteSet(K)
  <2>1. PICK n \in Nat : n = Len(line.tools)
    BY DEF Lines
  <2>2. K \subseteq 1..n
    BY <2>1 DEF Places
  <2> HIDE DEF K
  <2> QED
    BY <2>2, PartOfInterval
<1>3. IsFiniteSet(T) /\ Cardinality(T) = Cardinality(K)
  BY <1>2, PairedSize
<1>4. /\ Uses' = Uses \cup {<<m, k>> : k \in 1..Len(line.tools)}
      /\ Uses \cap {<<m, k>> : k \in 1..Len(line.tools)} = {}
      /\ \A use \in Uses : ToolOf(use)' = ToolOf(use)
      /\ \A k : ToolOf(<<m, k>>)' = line.tools[k]
  BY <1>1, UsesAdded
<1>5. S \cap T = {}
  BY <1>4 DEF Places, UsesOf
<1>6. UsesOf(tool)' = S \cup T
  <2>1. UsesOf(tool)' = {use \in Uses' : ToolOf(use)' = tool}
    BY DEF UsesOf
  <2>2. ASSUME NEW use \in UsesOf(tool)' PROVE use \in S \cup T
    BY <1>4, <2>1, <2>2 DEF Places, UsesOf
  <2>3. ASSUME NEW use \in S PROVE use \in UsesOf(tool)'
    BY <1>4, <2>1, <2>3 DEF UsesOf
  <2>4. ASSUME NEW use \in T PROVE use \in UsesOf(tool)'
    BY <1>4, <2>1, <2>4 DEF Places
  <2> QED
    BY <2>2, <2>3, <2>4
<1> HIDE DEF S, T, K
<1>7. \A U : U = S \cup T => IsFiniteSet(U) /\ Cardinality(U) = Cardinality(S) + Cardinality(T)
  BY <1>0, <1>3, <1>5, DisjointSize
<1>8. IsFiniteSet(UsesOf(tool)') /\ Cardinality(UsesOf(tool)') = Cardinality(S) + Cardinality(K)
  BY <1>3, <1>6, <1>7
<1> QED
  BY <1>8 DEF S, K

LEMMA EntriesGrow ==
  ASSUME Typed
  PROVE  /\ IsFiniteSet(Entries)
         /\ Unread => Cardinality(Entries') = Cardinality(Entries)
         /\ \A line : Added(line) => Cardinality(Entries') = Cardinality(Entries) + 1
<1>1. PICK n \in Nat : n = Len(trace)
  BY DEF Typed
<1>2. Entries \subseteq 1..n
  BY <1>1 DEF Entries
<1>3. IsFiniteSet(Entries)
  BY <1>2, PartOfInterval
<1>4. Unread => Cardinality(Entries') = Cardinality(Entries)
  BY DEF Unread
<1>5. ASSUME NEW line, Added(line) PROVE Cardinality(Entries') = Cardinality(Entries) + 1
  <2>1. Entries' = Entries \cup {n + 1} /\ n + 1 \notin Entries
    BY <1>1, <1>5 DEF Added
  <2> QED
    BY <1>3, <2>1, FS_AddElement
<1> QED
  BY <1>3, <1>4, <1>5

\* A trace without losses has every call; a trace with losses has no more.
CountedOf(tool) ==
  /\ IsFiniteSet(UsesOf(tool))
  /\ Cardinality(UsesOf(tool)) <= Cardinality(CallsOf(tool))
  /\ ~Lost => Cardinality(UsesOf(tool)) = Cardinality(CallsOf(tool))

Counted ==
  /\ made \in Seq(Calls)
  /\ Cardinality(Entries) <= Len(dumps)
  /\ \A tool \in Kinds : CountedOf(tool)

LEMMA CountedInit == Init => Counted
<1> SUFFICES ASSUME Init PROVE Counted
  OBVIOUS
<1>1. trace = <<>> /\ dumps = <<>> /\ made = <<>>
  BY DEF Init
<1>2. Entries = {} /\ Cardinality({}) = 0 /\ IsFiniteSet({}) /\ Len(dumps) = 0
  BY <1>1, FS_EmptySet DEF Entries
<1>3. ASSUME NEW tool PROVE CountedOf(tool)
  <2>1. UsesOf(tool) = {} /\ CallsOf(tool) = {}
    BY <1>1, <1>2 DEF UsesOf, Uses, CallsOf
  <2> QED
    BY <1>2, <2>1 DEF CountedOf
<1>4. made \in Seq(Calls) /\ Cardinality(Entries) <= Len(dumps)
  BY <1>1, <1>2
<1> QED
  BY <1>3, <1>4 DEF Counted

LEMMA CountedDump ==
  ASSUME Typed, Counted, NEW round \in Nat, NEW tools \in Seq(Kinds), node # None,
         Dump(round, tools), Called(tools)
  PROVE  Counted'
<1> DEFINE line == LineOf(round, tools)
<1>1. /\ line \in Lines
      /\ Len(dumps') = Len(dumps) + 1
      /\ Added(line) \/ Unread
  BY DumpOutcome
<1>2. line.tools = tools
  BY DEF LineOf
<1> HIDE DEF line
<1>3. /\ Cardinality(Entries) \in Nat /\ Len(dumps) \in Nat
      /\ Cardinality(Entries) <= Len(dumps)
      /\ Unread => Cardinality(Entries') = Cardinality(Entries)
      /\ Added(line) => Cardinality(Entries') = Cardinality(Entries) + 1
  BY EntriesGrow, FS_CardinalityType DEF Counted, Typed
<1>4. /\ Cardinality(Entries') <= Len(dumps')
      /\ Unread => Lost'
      /\ Added(line) /\ ~Lost' => ~Lost
  BY <1>1, <1>3 DEF Lost
<1>5. ASSUME NEW tool \in Kinds PROVE CountedOf(tool)'
  <2>1. /\ IsFiniteSet(UsesOf(tool)) /\ CountedOf(tool)
        /\ Cardinality(UsesOf(tool)) \in Nat
    BY FS_CardinalityType DEF Counted, CountedOf
  <2>2. /\ IsFiniteSet(CallsOf(tool)) /\ IsFiniteSet(Places(tools, tool))
        /\ Cardinality(CallsOf(tool)') = Cardinality(CallsOf(tool)) + Cardinality(Places(tools, tool))
    BY CallsGrow DEF Counted
  <2>3. Cardinality(CallsOf(tool)) \in Nat /\ Cardinality(Places(tools, tool)) \in Nat
    BY <2>2, FS_CardinalityType
  <2>4. CASE Added(line)
    <3>1. /\ IsFiniteSet(UsesOf(tool)')
          /\ Cardinality(UsesOf(tool)') = Cardinality(UsesOf(tool)) + Cardinality(Places(tools, tool))
      BY <1>1, <1>2, <2>1, <2>4, UsesGrow
    <3> QED
      BY <1>4, <2>1, <2>2, <2>3, <2>4, <3>1 DEF CountedOf
  <2>5. CASE Unread
    <3>1. Uses' = Uses /\ \A use \in Uses : ToolOf(use)' = ToolOf(use)
      BY <2>5, UsesUnread
    <3>2. UsesOf(tool)' = {use \in Uses' : ToolOf(use)' = tool}
      BY DEF UsesOf
    <3>3. UsesOf(tool)' = UsesOf(tool)
      BY <3>1, <3>2 DEF UsesOf
    <3> QED
      BY <1>4, <2>1, <2>2, <2>3, <2>5, <3>3 DEF CountedOf
  <2> QED
    BY <1>1, <2>4, <2>5
<1> QED
  BY <1>4, <1>5 DEF Counted, Called

LEMMA CountedStep == Typed /\ Counted /\ [Next]_vars => Counted'
<1> SUFFICES ASSUME Typed, Counted, [Next]_vars PROVE Counted'
  OBVIOUS
<1>1. ASSUME UNCHANGED <<trace, dumps, made>> PROVE Counted'
  <2>1. Entries' = Entries /\ (Lost' <=> Lost)
    BY <1>1 DEF Entries, Lost
  <2>2. ASSUME NEW tool PROVE UsesOf(tool)' = UsesOf(tool) /\ CallsOf(tool)' = CallsOf(tool)
    BY <1>1, <2>1 DEF UsesOf, Uses, ToolOf, CallsOf
  <2>3. ASSUME NEW tool \in Kinds PROVE CountedOf(tool)'
    BY <2>1, <2>2 DEF Counted, CountedOf
  <2> QED
    BY <1>1, <2>1, <2>3 DEF Counted
<1>2. ASSUME NEW tools \in Answers, Round(tools) PROVE Counted'
  <2>1. tools \in Seq(Kinds) /\ tool_round + 1 \in Nat
    BY TraceAssumption DEF Typed
  <2>2. node # None /\ Dump(tool_round + 1, tools)
    BY <1>2 DEF Round
  <2>3. made' = made \o [i \in 1..Len(tools) |-> [node |-> node, tool |-> tools[i]]]
    BY <1>2 DEF Round
  <2>4. node \in Nodes /\ made \in Seq(Calls)
    BY <2>2 DEF Typed, Counted
  <2>5. Called(tools)
    BY <2>1, <2>3, <2>4, RoundCalls
  <2> QED
    BY <2>1, <2>2, <2>5, CountedDump
<1>3. CASE EndTurn
  <2>1. <<>> \in Seq(Kinds) /\ tool_round \in Nat
    BY DEF Typed
  <2>2. node # None /\ Dump(tool_round, <<>>) /\ made' = made
    BY <1>3 DEF EndTurn
  <2>3. Called(<<>>)
    BY <2>2, NoCalls DEF Counted
  <2> QED
    BY <2>1, <2>2, <2>3, CountedDump
<1> QED
  BY <1>1, <1>2, <1>3 DEF Next, Enter, LeaveUndumped, Over, Full, vars

\* Whatever dumps are lost or torn, the report counts no call that was not made,
\* and every call once if no dump was lost.
THEOREM CallsCounted == Spec => []CountsExact
<1>1. Counted => CountsExact
  BY DEF Counted, CountedOf, CountsExact, CallCount, UsesOf, CallsOf
<1> QED
  BY <1>1, TypedInit, TypedStep, CountedInit, CountedStep, PTL DEF Spec

-----------------------------------------------------------------------------
(* The alarm *)

IsUsed(n, tool) == \E use \in Uses : NodeOf(use) = n /\ ToolOf(use) = tool
IsCalled(n, tool) == \E i \in 1..Len(made) : made[i].node = n /\ made[i].tool = tool

\* Without losses the trace shows of each node the tools that it called.
Shown == ~Lost => \A n, tool : IsUsed(n, tool) <=> IsCalled(n, tool)

LEMMA ShownInit == Init => Shown
<1> SUFFICES ASSUME Init PROVE Shown
  OBVIOUS
<1>1. trace = <<>> /\ made = <<>>
  BY DEF Init
<1>2. Uses = {} /\ Len(made) = 0
  BY <1>1 DEF Uses, Entries
<1> QED
  BY <1>2 DEF Shown, IsUsed, IsCalled

LEMMA UsedGrow ==
  ASSUME Typed, NEW line \in Lines, Added(line), NEW n, NEW tool
  PROVE  IsUsed(n, tool)' <=>
            \/ IsUsed(n, tool)
            \/ line.node = n /\ \E k \in 1..Len(line.tools) : line.tools[k] = tool
<1>1. PICK m : m = Len(trace) + 1
  OBVIOUS
<1>2. /\ Uses' = Uses \cup {<<m, k>> : k \in 1..Len(line.tools)}
      /\ \A use \in Uses : NodeOf(use)' = NodeOf(use) /\ ToolOf(use)' = ToolOf(use)
      /\ \A k : NodeOf(<<m, k>>)' = line.node /\ ToolOf(<<m, k>>)' = line.tools[k]
  BY <1>1, UsesAdded
<1>3. IsUsed(n, tool)' <=> \E use \in Uses' : NodeOf(use)' = n /\ ToolOf(use)' = tool
  BY DEF IsUsed
<1>4. (\E use \in Uses' : NodeOf(use)' = n /\ ToolOf(use)' = tool) <=>
         \/ \E use \in Uses : NodeOf(use) = n /\ ToolOf(use) = tool
         \/ \E k \in 1..Len(line.tools) : line.node = n /\ line.tools[k] = tool
  BY <1>2
<1> QED
  BY <1>3, <1>4 DEF IsUsed

LEMMA CalledGrow ==
  ASSUME made \in Seq(Calls), NEW tools \in Seq(Kinds), Called(tools), NEW n, NEW tool
  PROVE  IsCalled(n, tool)' <=>
            \/ IsCalled(n, tool)
            \/ node = n /\ \E k \in 1..Len(tools) : tools[k] = tool
<1>1. PICK m \in Nat, l \in Nat : m = Len(made) /\ l = Len(tools)
  OBVIOUS
<1>2. /\ Len(made') = m + l
      /\ \A i \in 1..m : made'[i] = made[i]
      /\ \A k \in 1..l : made'[m + k] = [node |-> node, tool |-> tools[k]]
  BY <1>1 DEF Called
<1>3. ASSUME NEW k \in 1..l
      PROVE  made'[m + k].node = node /\ made'[m + k].tool = tools[k] /\ m + k \in 1..(m + l)
  <2>1. made'[m + k] = [node |-> node, tool |-> tools[k]]
    BY <1>2
  <2>2. made'[m + k].node = node /\ made'[m + k].tool = tools[k]
    BY <2>1
  <2>3. m + k \in 1..(m + l)
    OBVIOUS
  <2> QED
    BY <2>2, <2>3
<1>4. ASSUME NEW i \in 1..(m + l), ~(i <= m) PROVE i - m \in 1..l /\ i = m + (i - m)
  BY <1>4
<1>5. \A i \in 1..m : i \in 1..(m + l)
  OBVIOUS
<1>6. ASSUME IsCalled(n, tool)'
      PROVE  IsCalled(n, tool) \/ (node = n /\ \E k \in 1..l : tools[k] = tool)
  <2>1. PICK i \in 1..(m + l) : made'[i].node = n /\ made'[i].tool = tool
    BY <1>2, <1>6 DEF IsCalled
  <2>2. CASE i <= m
    BY <1>1, <1>2, <2>1, <2>2 DEF IsCalled
  <2>3. CASE ~(i <= m)
    BY <1>3, <1>4, <2>1, <2>3
  <2> QED
    BY <2>2, <2>3
<1>7. ASSUME IsCalled(n, tool) PROVE IsCalled(n, tool)'
  BY <1>1, <1>2, <1>5, <1>7 DEF IsCalled
<1>8. ASSUME node = n, NEW k \in 1..l, tools[k] = tool PROVE IsCalled(n, tool)'
  BY <1>2, <1>3, <1>8 DEF IsCalled
<1> QED
  BY <1>1, <1>6, <1>7, <1>8

LEMMA ShownDump ==
  ASSUME Typed, Counted, Shown, NEW round \in Nat, NEW tools \in Seq(Kinds), node # None,
         Dump(round, tools), Called(tools)
  PROVE  Shown'
<1> DEFINE line == LineOf(round, tools)
<1>1. /\ line \in Lines
      /\ Len(dumps') = Len(dumps) + 1
      /\ Added(line) \/ Unread
  BY DumpOutcome
<1>2. line.tools = tools /\ line.node = node
  BY DEF LineOf
<1> HIDE DEF line
<1>3. /\ Cardinality(Entries) \in Nat /\ Len(dumps) \in Nat
      /\ Cardinality(Entries) <= Len(dumps)
      /\ Unread => Cardinality(Entries') = Cardinality(Entries)
      /\ Added(line) => Cardinality(Entries') = Cardinality(Entries) + 1
  BY EntriesGrow, FS_CardinalityType DEF Counted, Typed
<1>4. /\ Unread => Lost'
      /\ Added(line) /\ ~Lost' => ~Lost
  BY <1>1, <1>3 DEF Lost
<1>5. ASSUME ~Lost', NEW n, NEW tool PROVE IsUsed(n, tool)' <=> IsCalled(n, tool)'
  <2>1. Added(line) /\ ~Lost
    BY <1>1, <1>4, <1>5
  <2>2. IsUsed(n, tool) <=> IsCalled(n, tool)
    BY <2>1 DEF Shown
  <2>3. IsUsed(n, tool)' <=>
           \/ IsUsed(n, tool)
           \/ node = n /\ \E k \in 1..Len(tools) : tools[k] = tool
    BY <1>1, <1>2, <2>1, UsedGrow
  <2>4. IsCalled(n, tool)' <=>
           \/ IsCalled(n, tool)
           \/ node = n /\ \E k \in 1..Len(tools) : tools[k] = tool
    BY CalledGrow DEF Counted
  <2> QED
    BY <2>2, <2>3, <2>4
<1> QED
  BY <1>5 DEF Shown

LEMMA ShownStep == Typed /\ Counted /\ Shown /\ [Next]_vars => Shown'
<1> SUFFICES ASSUME Typed, Counted, Shown, [Next]_vars PROVE Shown'
  OBVIOUS
<1>1. ASSUME UNCHANGED <<trace, dumps, made>> PROVE Shown'
  BY <1>1 DEF Shown, IsUsed, IsCalled, Lost, Entries, Uses, NodeOf, ToolOf
<1>2. ASSUME NEW tools \in Answers, Round(tools) PROVE Shown'
  <2>1. tools \in Seq(Kinds) /\ tool_round + 1 \in Nat
    BY TraceAssumption DEF Typed
  <2>2. node # None /\ Dump(tool_round + 1, tools)
    BY <1>2 DEF Round
  <2>3. made' = made \o [i \in 1..Len(tools) |-> [node |-> node, tool |-> tools[i]]]
    BY <1>2 DEF Round
  <2>4. node \in Nodes /\ made \in Seq(Calls)
    BY <2>2 DEF Typed, Counted
  <2>5. Called(tools)
    BY <2>1, <2>3, <2>4, RoundCalls
  <2> QED
    BY <2>1, <2>2, <2>5, ShownDump
<1>3. CASE EndTurn
  <2>1. <<>> \in Seq(Kinds) /\ tool_round \in Nat
    BY DEF Typed
  <2>2. node # None /\ Dump(tool_round, <<>>) /\ made' = made
    BY <1>3 DEF EndTurn
  <2>3. Called(<<>>)
    BY <2>2, NoCalls DEF Counted
  <2> QED
    BY <2>1, <2>2, <2>3, ShownDump
<1> QED
  BY <1>1, <1>2, <1>3 DEF Next, Enter, LeaveUndumped, Over, Full, vars

\* Unless a dump was lost, the report raises its alarm about just the nodes that
\* launched a job and never waited for or killed one, in any of their visits.
THEOREM AlarmsAreReal == Spec => []AlarmIsReal
<1>1. Counted /\ Shown => AlarmIsReal
  <2> SUFFICES ASSUME Counted, Shown, ~Lost PROVE AlarmIsReal
    BY DEF AlarmIsReal
  <2> DEFINE called(n) == {call.tool : call \in {c \in ToSet(made) : c.node = n}}
  <2>1. ASSUME NEW n, NEW tool PROVE tool \in called(n) <=> IsUsed(n, tool)
    <3>1. tool \in called(n) <=> IsCalled(n, tool)
      BY DEF ToSet, IsCalled, Counted
    <3> QED
      BY <3>1 DEF Shown
  <2>2. ASSUME NEW n, NEW tool, IsUsed(n, tool) PROVE n \in Nodes
    <3>1. IsCalled(n, tool)
      BY <2>2 DEF Shown
    <3>2. PICK i \in 1..Len(made) : made[i].node = n
      BY <3>1 DEF IsCalled
    <3>3. made[i] \in Calls
      BY <3>2 DEF Counted
    <3> QED
      BY <3>2, <3>3 DEF Calls
  <2>3. ASSUME NEW n
        PROVE  n \in {NodeOf(use) : use \in Unpaired} <=>
                  IsUsed(n, "bash_async") /\ ~\E tool \in Waits : IsUsed(n, tool)
    BY DEF Unpaired, IsUsed
  <2> HIDE DEF called
  <2>4. {NodeOf(use) : use \in Unpaired} =
           {n \in Nodes : "bash_async" \in called(n) /\ called(n) \cap Waits = {}}
    <3>1. ASSUME NEW n
          PROVE  n \in {NodeOf(use) : use \in Unpaired} <=>
                    n \in Nodes /\ "bash_async" \in called(n) /\ called(n) \cap Waits = {}
      BY <2>1, <2>2, <2>3
    <3> QED
      BY <3>1
  <2> QED
    BY <2>4 DEF AlarmIsReal, called
<1> QED
  BY <1>1, TypedInit, TypedStep, CountedInit, CountedStep, ShownInit, ShownStep, PTL DEF Spec

-----------------------------------------------------------------------------
(* The exits *)

NoExits == [n \in {} |-> 0]

\* NodeExits takes the lines of the trace one by one.
LEMMA ExitsUnfold ==
  ASSUME NEW N \in Nat, N = Len(trace)
  PROVE  \E f : /\ f[0] = NoExits
                /\ \A i \in 1..N : f[i] = Kept(f[i - 1], trace[i])
                /\ NodeExits = f[N]
<1> DEFINE body(f, i) == IF i = 0 THEN NoExits ELSE Kept(f[i - 1], trace[i])
           Solution(g, k) == g = [i \in 0..k |-> body(g, i)]
           Solvable == {k \in Nat : \E g : Solution(g, k)}
           after == CHOOSE after : after = [i \in 0..Len(trace) |->
                       IF i = 0 THEN NoExits ELSE Kept(after[i - 1], trace[i])]
<1>1. 0 \in Solvable
  <2> DEFINE g == [i \in 0..0 |-> NoExits]
  <2>1. Solution(g, 0)
    OBVIOUS
  <2> HIDE DEF Solution, g
  <2> QED
    BY <2>1
<1>2. ASSUME NEW k \in Nat, k \in Solvable PROVE k + 1 \in Solvable
  <2>1. PICK g : Solution(g, k)
    <3> HIDE DEF Solution
    <3> QED
      BY <1>2
  <2> DEFINE h == [i \in 0..(k + 1) |-> IF i <= k THEN g[i] ELSE Kept(g[k], trace[k + 1])]
  <2>2. \A i \in 0..k : g[i] = body(g, i) /\ h[i] = g[i]
    <3> HIDE DEF body
    <3> QED
      BY <2>1
  <2>3. h[k + 1] = Kept(g[k], trace[k + 1])
    OBVIOUS
  <2>4. h = [i \in 0..(k + 1) |-> h[i]]
    OBVIOUS
  <2> HIDE DEF h
  <2>5. ASSUME NEW i \in 0..(k + 1) PROVE h[i] = body(h, i)
    <3>1. CASE i = 0
      <4>1. i \in 0..k
        BY <3>1
      <4> QED
        BY <2>2, <3>1, <4>1
    <3>2. CASE i # 0 /\ i <= k
      <4>1. i \in 0..k /\ i - 1 \in 0..k
        BY <3>2
      <4> QED
        BY <2>2, <3>2, <4>1
    <3>3. CASE i = k + 1
      <4>1. k \in 0..k /\ i - 1 = k /\ i # 0
        BY <3>3
      <4> QED
        BY <2>2, <2>3, <3>3, <4>1
    <3> QED
      BY <3>1, <3>2, <3>3
  <2>6. Solution(h, k + 1)
    <3> HIDE DEF body
    <3> QED
      BY <2>4, <2>5
  <2> HIDE DEF Solution
  <2> QED
    BY <2>6
<1>3. N \in Solvable
  <2> HIDE DEF Solvable
  <2>1. Nat \subseteq Solvable
    BY <1>1, <1>2, InductionOnSet
  <2> QED
    BY <2>1
<1>4. PICK g : Solution(g, N)
  <2> HIDE DEF Solution
  <2> QED
    BY <1>3
<1>5. Solution(after, N)
  BY <1>4
<1>6. NodeExits = after[N]
  BY DEF NodeExits, NoExits
<1> HIDE DEF after
<1>7. \A i \in 0..N : after[i] = body(after, i)
  <2> HIDE DEF body
  <2> QED
    BY <1>5
<1>8. after[0] = NoExits
  BY <1>7
<1>9. \A i \in 1..N : after[i] = Kept(after[i - 1], trace[i])
  BY <1>7
<1> QED
  BY <1>6, <1>8, <1>9

\* The lines of node n among the first i, and a last one of its highest round.
LinesOf(n, i) == {j \in Entries : j <= i /\ trace[j].node = n}

IsExit(j, n, i) ==
  /\ j \in LinesOf(n, i)
  /\ \A l \in LinesOf(n, i) :
        \/ trace[l].tool_round < trace[j].tool_round
        \/ trace[l].tool_round = trace[j].tool_round /\ l <= j

\* exits holds such a line for the nodes of the first i lines, and for no other.
Highest(exits, i) ==
  \A n : /\ n \in DOMAIN exits <=> LinesOf(n, i) # {}
         /\ n \in DOMAIN exits => \E j \in LinesOf(n, i) : IsExit(j, n, i) /\ exits[n] = trace[j]

\* A line of another node, or one that cannot be read, changes nothing for n.
LEMMA OtherLine ==
  ASSUME Typed, NEW i \in 1..Len(trace), NEW n, trace[i] = Torn \/ trace[i].node # n
  PROVE  /\ LinesOf(n, i) = LinesOf(n, i - 1)
         /\ \A j : IsExit(j, n, i - 1) => IsExit(j, n, i)
<1>1. \A j \in Entries : j \in Nat
  BY DEF Entries
<1>2. ASSUME NEW j \in Entries, trace[j].node = n PROVE j <= i <=> j <= i - 1
  <2>1. j # i
    BY <1>2 DEF Entries
  <2> QED
    BY <1>1, <2>1
<1>3. LinesOf(n, i) = LinesOf(n, i - 1)
  BY <1>2 DEF LinesOf
<1> QED
  BY <1>3 DEF IsExit

\* A line of n is one more of its lines, after the others.
LEMMA OwnLine ==
  ASSUME Typed, NEW i \in 1..Len(trace), trace[i] # Torn, NEW n, trace[i].node = n
  PROVE  /\ LinesOf(n, i) = LinesOf(n, i - 1) \cup {i}
         /\ \A l \in LinesOf(n, i) : l \in Nat /\ l <= i /\ trace[l].tool_round \in Nat
<1>1. \A j \in Entries : j \in Nat /\ trace[j] \in Lines
  BY DEF Entries, Typed
<1>2. i \in Entries
  BY DEF Entries
<1>3. \A j \in Nat : j <= i <=> (j <= i - 1 \/ j = i)
  OBVIOUS
<1>4. LinesOf(n, i) = LinesOf(n, i - 1) \cup {i}
  BY <1>1, <1>2, <1>3 DEF LinesOf
<1>5. \A l \in LinesOf(n, i) : l \in Nat /\ l <= i /\ trace[l].tool_round \in Nat
  BY <1>1 DEF LinesOf, Lines
<1> QED
  BY <1>4, <1>5

LEMMA KeptIsHighest ==
  ASSUME Typed, NEW i \in 1..Len(trace), NEW exits, Highest(exits, i - 1)
  PROVE  Highest(Kept(exits, trace[i]), i)
<1> DEFINE line == trace[i]
           new == Kept(exits, line)
<1>1. ASSUME NEW n
      PROVE  /\ n \in DOMAIN exits <=> LinesOf(n, i - 1) # {}
             /\ n \in DOMAIN exits =>
                   \E j \in LinesOf(n, i - 1) : IsExit(j, n, i - 1) /\ exits[n] = trace[j]
  BY DEF Highest
<1>2. ASSUME NEW n, line = Torn \/ line.node # n
      PROVE  /\ n \in DOMAIN new <=> n \in DOMAIN exits
             /\ n \in DOMAIN exits => new[n] = exits[n]
  <2> HIDE DEF line
  <2> QED
    BY <1>2 DEF Kept
<1>3. ASSUME NEW n, line = Torn \/ line.node # n
      PROVE  /\ n \in DOMAIN new <=> LinesOf(n, i) # {}
             /\ n \in DOMAIN new => \E j \in LinesOf(n, i) : IsExit(j, n, i) /\ new[n] = trace[j]
  <2> HIDE DEF new
  <2> QED
    BY <1>1, <1>2, <1>3, OtherLine
<1>4. ASSUME NEW n, line # Torn, line.node = n
      PROVE  /\ n \in DOMAIN new <=> LinesOf(n, i) # {}
             /\ n \in DOMAIN new => \E j \in LinesOf(n, i) : IsExit(j, n, i) /\ new[n] = trace[j]
  <2>1. /\ LinesOf(n, i) = LinesOf(n, i - 1) \cup {i}
        /\ \A l \in LinesOf(n, i) : l \in Nat /\ l <= i /\ trace[l].tool_round \in Nat
    BY <1>4, OwnLine
  <2>2. CASE n \in DOMAIN exits /\ exits[n].tool_round > line.tool_round
    <3>1. new = exits
      <4> HIDE DEF line
      <4> QED
        BY <1>4, <2>2 DEF Kept
    <3>2. PICK j \in LinesOf(n, i - 1) : IsExit(j, n, i - 1) /\ exits[n] = trace[j]
      BY <1>1, <2>2
    <3>3. trace[i].tool_round < trace[j].tool_round
      BY <2>1, <2>2, <3>2
    <3>4. IsExit(j, n, i) /\ j \in LinesOf(n, i)
      BY <2>1, <3>2, <3>3 DEF IsExit
    <3> HIDE DEF new
    <3> QED
      BY <2>2, <3>1, <3>2, <3>4
  <2>3. CASE ~(n \in DOMAIN exits /\ exits[n].tool_round > line.tool_round)
    <3>1. n \in DOMAIN new /\ new[n] = line
      <4> HIDE DEF line
      <4> QED
        BY <1>4, <2>3 DEF Kept
    <3>2. ASSUME NEW l \in LinesOf(n, i - 1) PROVE trace[l].tool_round <= trace[i].tool_round
      <4>1. n \in DOMAIN exits
        BY <1>1, <3>2
      <4>2. PICK j \in LinesOf(n, i - 1) : IsExit(j, n, i - 1) /\ exits[n] = trace[j]
        BY <1>1, <4>1
      <4>3. /\ trace[j].tool_round <= trace[i].tool_round
            /\ trace[i].tool_round \in Nat /\ trace[j].tool_round \in Nat
            /\ trace[l].tool_round \in Nat
        BY <2>1, <2>3, <4>1, <4>2
      <4>4. trace[l].tool_round <= trace[j].tool_round
        BY <4>2, <4>3 DEF IsExit
      <4> QED
        BY <4>3, <4>4
    <3>3. IsExit(i, n, i) /\ i \in LinesOf(n, i)
      <4>1. ASSUME NEW l \in LinesOf(n, i)
            PROVE  \/ trace[l].tool_round < trace[i].tool_round
                   \/ trace[l].tool_round = trace[i].tool_round /\ l <= i
        BY <2>1, <3>2
      <4> QED
        BY <2>1, <4>1 DEF IsExit
    <3> HIDE DEF new
    <3> QED
      BY <3>1, <3>3
  <2> QED
    BY <2>2, <2>3
<1>5. ASSUME NEW n
      PROVE  /\ n \in DOMAIN new <=> LinesOf(n, i) # {}
             /\ n \in DOMAIN new => \E j \in LinesOf(n, i) : IsExit(j, n, i) /\ new[n] = trace[j]
  BY <1>3, <1>4
<1> HIDE DEF new
<1>6. Highest(new, i)
  BY <1>5 DEF Highest
<1> QED
  BY <1>6 DEF new

\* The exits are, for each node with a line, a last line of its highest round.
LEMMA ExitsAreHighest ==
  ASSUME Typed
  PROVE  Highest(NodeExits, Len(trace))
<1>1. PICK N \in Nat : N = Len(trace)
  BY DEF Typed
<1>2. PICK f : /\ f[0] = NoExits
               /\ \A i \in 1..N : f[i] = Kept(f[i - 1], trace[i])
               /\ NodeExits = f[N]
  BY <1>1, ExitsUnfold
<1> DEFINE S == {k \in Nat : k <= N => Highest(f[k], k)}
<1>3. 0 \in S
  <2>1. \A n : LinesOf(n, 0) = {}
    BY DEF LinesOf, Entries
  <2>2. DOMAIN NoExits = {}
    BY DEF NoExits
  <2>3. Highest(f[0], 0)
    BY <1>2, <2>1, <2>2 DEF Highest
  <2> QED
    BY <2>3
<1>4. ASSUME NEW k \in Nat, k \in S PROVE k + 1 \in S
  <2>1. CASE k + 1 <= N
    <3>1. k + 1 \in 1..N /\ (k + 1) - 1 = k /\ k <= N
      BY <2>1
    <3>2. Highest(f[k], k) /\ f[k + 1] = Kept(f[k], trace[k + 1])
      BY <1>2, <1>4, <3>1
    <3>3. Highest(f[k + 1], k + 1)
      BY <1>1, <3>1, <3>2, KeptIsHighest
    <3> QED
      BY <3>3
  <2>2. CASE ~(k + 1 <= N)
    BY <2>2
  <2> QED
    BY <2>1, <2>2
<1>5. N \in S
  <2> HIDE DEF S
  <2>1. Nat \subseteq S
    BY <1>3, <1>4, InductionOnSet
  <2> QED
    BY <2>1
<1> QED
  BY <1>1, <1>2, <1>5

-----------------------------------------------------------------------------
(* The order of the lines *)

\* Later lines were dumped later, and in a visit the rounds only go up.
Ordered ==
  /\ \A i \in Entries :
        /\ trace[i].at <= Len(dumps)
        /\ trace[i].visit \in 1..Len(visits)
        /\ visits[trace[i].visit] = trace[i].node
  /\ \A i, j \in Entries : i < j =>
        /\ trace[i].at <= trace[j].at
        /\ trace[i].visit = trace[j].visit => trace[i].tool_round <= trace[j].tool_round
  /\ node # None =>
        /\ Len(visits) >= 1
        /\ visits[Len(visits)] = node
        /\ \A i \in Entries : trace[i].visit = Len(visits) => trace[i].tool_round <= tool_round

LEMMA EntriesAreLines ==
  ASSUME Typed
  PROVE  \A i \in Entries : /\ i \in Nat /\ i <= Len(trace) /\ trace[i] \in Lines
                            /\ trace[i].node \in Nodes /\ trace[i].tool_round \in Nat
                            /\ trace[i].visit \in Nat /\ trace[i].at \in Nat
<1>1. \A i \in Entries : i \in Nat /\ i <= Len(trace) /\ trace[i] \in Lines
  BY DEF Entries, Typed
<1> QED
  BY <1>1 DEF Lines

LEMMA OrderedDump ==
  ASSUME Typed, Ordered, NEW round \in Nat, NEW tools \in Seq(Kinds), node # None,
         tool_round <= round, Dump(round, tools), visits' = visits,
         node' # None => node' = node /\ tool_round' = round
  PROVE  Ordered'
<1> DEFINE line == LineOf(round, tools)
<1>1. /\ line \in Lines
      /\ Len(dumps') = Len(dumps) + 1
      /\ Added(line) \/ Unread
  BY DumpOutcome
<1>2. /\ line.node = node /\ line.tool_round = round
      /\ line.visit = Len(visits) /\ line.at = Len(dumps) + 1
  BY DEF LineOf
<1> HIDE DEF line
<1>3. /\ Len(dumps) \in Nat /\ Len(visits) \in Nat /\ Len(trace) \in Nat /\ tool_round \in Nat
      /\ Len(visits) >= 1 /\ visits[Len(visits)] = node
  BY DEF Typed, Ordered
<1>4. \A i \in Entries :
         /\ i \in Nat /\ i <= Len(trace)
         /\ trace[i].tool_round \in Nat /\ trace[i].visit \in Nat /\ trace[i].at \in Nat
         /\ trace[i].at <= Len(dumps)
         /\ trace[i].visit \in 1..Len(visits)
         /\ visits[trace[i].visit] = trace[i].node
         /\ trace[i].visit = Len(visits) => trace[i].tool_round <= tool_round
  BY EntriesAreLines DEF Ordered
<1>8. ASSUME NEW i \in Entries
      PROVE  /\ trace[i].at <= Len(dumps')
             /\ trace[i].visit \in 1..Len(visits')
             /\ visits'[trace[i].visit] = trace[i].node
             /\ trace[i].visit = Len(visits') => trace[i].tool_round <= round
  <2>1. trace[i].at <= Len(dumps')
    BY <1>1, <1>3, <1>4
  <2>2. trace[i].visit \in 1..Len(visits') /\ visits'[trace[i].visit] = trace[i].node
    BY <1>4
  <2>3. trace[i].visit = Len(visits') => trace[i].tool_round <= round
    BY <1>3, <1>4
  <2> QED
    BY <2>1, <2>2, <2>3
<1>5. \A i, j \in Entries : i < j =>
         /\ trace[i].at <= trace[j].at
         /\ trace[i].visit = trace[j].visit => trace[i].tool_round <= trace[j].tool_round
  BY DEF Ordered
<1>6. CASE Unread
  <2>1. Entries' = Entries /\ \A i \in Entries : trace'[i] = trace[i]
    BY <1>6 DEF Unread
  <2>2. ASSUME NEW i \in Entries'
        PROVE  /\ trace'[i].at <= Len(dumps')
               /\ trace'[i].visit \in 1..Len(visits')
               /\ visits'[trace'[i].visit] = trace'[i].node
               /\ trace'[i].visit = Len(visits') => trace'[i].tool_round <= round
    <3>1. i \in Entries /\ trace'[i] = trace[i]
      BY <2>1
    <3> QED
      BY <1>8, <3>1
  <2>3. ASSUME NEW i \in Entries', NEW j \in Entries', i < j
        PROVE  /\ trace'[i].at <= trace'[j].at
               /\ trace'[i].visit = trace'[j].visit => trace'[i].tool_round <= trace'[j].tool_round
    BY <1>5, <2>1, <2>3
  <2> QED
    BY <1>3, <2>2, <2>3 DEF Ordered
<1>7. CASE Added(line)
  <2>1. PICK m \in Nat : m = Len(trace) + 1
    BY <1>3
  <2>2. /\ Entries' = Entries \cup {m} /\ m \notin Entries
        /\ trace'[m] = line
        /\ \A i \in Entries : trace'[i] = trace[i] /\ i < m
    <3>1. /\ Entries' = Entries \cup {m} /\ m \notin Entries
          /\ trace'[m] = line
          /\ \A i \in Entries : trace'[i] = trace[i]
      BY <1>7, <2>1 DEF Added
    <3>2. \A i \in Entries : i < m
      BY <1>3, <1>4, <2>1
    <3> QED
      BY <3>1, <3>2
  <2>3. ASSUME NEW i \in Entries'
        PROVE  /\ trace'[i].at <= Len(dumps')
               /\ trace'[i].visit \in 1..Len(visits')
               /\ visits'[trace'[i].visit] = trace'[i].node
               /\ trace'[i].visit = Len(visits') => trace'[i].tool_round <= round
    <3>1. CASE i = m
      BY <1>1, <1>2, <1>3, <2>2, <3>1
    <3>2. CASE i # m
      <4>1. i \in Entries /\ trace'[i] = trace[i]
        BY <2>2, <3>2
      <4> QED
        BY <1>8, <4>1
    <3> QED
      BY <3>1, <3>2
  <2>4. ASSUME NEW i \in Entries', NEW j \in Entries', i < j
        PROVE  /\ trace'[i].at <= trace'[j].at
               /\ trace'[i].visit = trace'[j].visit => trace'[i].tool_round <= trace'[j].tool_round
    <3>1. i \in Entries
      BY <1>4, <2>1, <2>2, <2>4
    <3>2. CASE j = m
      <4>1. trace'[i] = trace[i] /\ trace'[j] = line
        BY <2>2, <3>1, <3>2
      <4>2. /\ trace[i].at \in Nat /\ trace[i].at <= Len(dumps) /\ trace[i].tool_round \in Nat
            /\ trace[i].visit = Len(visits) => trace[i].tool_round <= tool_round
        BY <1>4, <3>1
      <4>3. trace'[i].at <= trace'[j].at
        BY <1>2, <1>3, <4>1, <4>2
      <4>4. trace'[i].visit = trace'[j].visit => trace'[i].tool_round <= trace'[j].tool_round
        BY <1>2, <1>3, <4>1, <4>2
      <4> QED
        BY <4>3, <4>4
    <3>3. CASE j # m
      BY <1>5, <2>2, <2>4, <3>1, <3>3
    <3> QED
      BY <3>2, <3>3
  <2> QED
    BY <1>3, <2>3, <2>4 DEF Ordered
<1> QED
  BY <1>1, <1>6, <1>7

LEMMA OrderedStep == Typed /\ Ordered /\ [Next]_vars => Ordered'
<1> SUFFICES ASSUME Typed, Ordered, [Next]_vars PROVE Ordered'
  OBVIOUS
<1>1. ASSUME NEW n \in Nodes, Enter(n) PROVE Ordered'
  <2>1. /\ trace' = trace /\ dumps' = dumps /\ Entries' = Entries
        /\ node' = n /\ visits' = Append(visits, n)
    BY <1>1 DEF Enter, Entries
  <2>2. PICK l \in Nat : l = Len(visits)
    BY DEF Typed
  <2>3. /\ Len(visits') = l + 1 /\ visits'[l + 1] = n
        /\ \A v \in 1..l : visits'[v] = visits[v]
    BY <2>1, <2>2 DEF Typed
  <2>4. ASSUME NEW i \in Entries
        PROVE  /\ trace[i].at <= Len(dumps)
               /\ trace[i].visit \in 1..(l + 1)
               /\ visits'[trace[i].visit] = trace[i].node
               /\ trace[i].visit # l + 1
    BY <2>2, <2>3 DEF Ordered
  <2>5. ASSUME NEW i \in Entries, NEW j \in Entries, i < j
        PROVE  /\ trace[i].at <= trace[j].at
               /\ trace[i].visit = trace[j].visit => trace[i].tool_round <= trace[j].tool_round
    BY <2>5 DEF Ordered
  <2> QED
    BY <2>1, <2>2, <2>3, <2>4, <2>5 DEF Ordered
<1>2. ASSUME NEW tools \in Answers, Round(tools) PROVE Ordered'
  <2>1. tools \in Seq(Kinds) /\ tool_round + 1 \in Nat /\ tool_round <= tool_round + 1
    BY TraceAssumption DEF Typed
  <2>2. /\ node # None /\ Dump(tool_round + 1, tools)
        /\ visits' = visits /\ node' = node /\ tool_round' = tool_round + 1
    BY <1>2 DEF Round
  <2> QED
    BY <2>1, <2>2, OrderedDump
<1>3. CASE EndTurn
  <2>1. <<>> \in Seq(Kinds) /\ tool_round \in Nat /\ tool_round <= tool_round
    BY DEF Typed
  <2>2. node # None /\ Dump(tool_round, <<>>) /\ visits' = visits /\ node' = None
    BY <1>3 DEF EndTurn
  <2> QED
    BY <2>1, <2>2, OrderedDump
<1>4. CASE LeaveUndumped
  BY <1>4 DEF LeaveUndumped, Ordered, Entries
<1>5. CASE UNCHANGED vars
  BY <1>5 DEF vars, Ordered, Entries
<1> QED
  BY <1>1, <1>2, <1>3, <1>4, <1>5 DEF Next, Over, Full

\* For a node visited once the exit entry is its last dump, for any node the last
\* dump of the highest round of its visits, whatever dumps are lost.
THEOREM ExitsOfLongestVisits == Spec => []ExitOfLongestVisit
<1>1. Init => Ordered
  BY DEF Init, Ordered, Entries
<1>2. Typed /\ Ordered => ExitOfLongestVisit
  <2> SUFFICES ASSUME Typed, Ordered PROVE ExitOfLongestVisit
    OBVIOUS
  <2> DEFINE exits == NodeExits
             of(n) == {i \in Entries : trace[i].node = n}
             AllOf(n) ==
                /\ n \in DOMAIN exits <=> of(n) # {}
                /\ \A i \in of(n) :
                      \/ trace[i].tool_round < exits[n].tool_round
                      \/ trace[i].at <= exits[n].at
                /\ Cardinality({v \in 1..Len(visits) : visits[v] = n}) = 1 =>
                      \A i \in of(n) : trace[i].at <= exits[n].at
  <2>1. ASSUME NEW n \in Nodes PROVE AllOf(n)
    <3>1. of(n) = LinesOf(n, Len(trace))
      BY EntriesAreLines DEF LinesOf
    <3>2. Highest(exits, Len(trace))
      BY ExitsAreHighest
    <3> HIDE DEF exits
    <3>3. n \in DOMAIN exits <=> of(n) # {}
      BY <3>1, <3>2 DEF Highest
    <3>4. ASSUME NEW i \in of(n)
          PROVE  /\ \/ trace[i].tool_round < exits[n].tool_round
                    \/ trace[i].at <= exits[n].at
                 /\ Cardinality({v \in 1..Len(visits) : visits[v] = n}) = 1 =>
                       trace[i].at <= exits[n].at
      <4>1. PICK j \in of(n) : IsExit(j, n, Len(trace)) /\ exits[n] = trace[j]
        BY <3>1, <3>2, <3>3, <3>4 DEF Highest
      <4>2. \/ trace[i].tool_round < trace[j].tool_round
            \/ trace[i].tool_round = trace[j].tool_round /\ i <= j
        BY <3>1, <4>1 DEF IsExit
      <4>3. /\ i \in Nat /\ j \in Nat
            /\ trace[i].tool_round \in Nat /\ trace[j].tool_round \in Nat
            /\ trace[i].at \in Nat /\ trace[j].at \in Nat
        BY EntriesAreLines
      <4>4. i <= j => trace[i].at <= trace[j].at
        BY <4>3 DEF Ordered
      <4>5. ASSUME Cardinality({v \in 1..Len(visits) : visits[v] = n}) = 1
            PROVE  trace[i].at <= trace[j].at
        <5> DEFINE V == {v \in 1..Len(visits) : visits[v] = n}
        <5>1. PICK l \in Nat : l = Len(visits)
          BY DEF Typed
        <5>2. trace[i].visit \in V /\ trace[j].visit \in V /\ V \subseteq 1..l
          BY <5>1 DEF Ordered
        <5>3. trace[i].visit = trace[j].visit
          <6> HIDE DEF V
          <6>1. IsFiniteSet(V)
            BY <5>2, PartOfInterval
          <6>2. Cardinality(V) = 1
            BY <4>5 DEF V
          <6>3. PICK x : V = {x}
            BY <6>1, <6>2, FS_Singleton
          <6> QED
            BY <5>2, <6>3
        <5>4. j < i => trace[j].tool_round <= trace[i].tool_round
          BY <5>3 DEF Ordered
        <5> QED
          BY <4>2, <4>3, <4>4, <5>4
      <4> QED
        BY <4>1, <4>2, <4>4, <4>5
    <3> QED
      BY <3>3, <3>4
  <2> HIDE DEF AllOf
  <2>2. \A n \in Nodes : AllOf(n)
    BY <2>1
  <2> QED
    BY <2>2 DEF AllOf, ExitOfLongestVisit
<1> QED
  BY <1>1, <1>2, TypedInit, TypedStep, OrderedStep, PTL DEF Spec

=============================================================================
