-------------------------- MODULE ToolCalls_proofs --------------------------
(***************************************************************************)
(* For any ids, texts and bounds: the micro-task queue is the agenda that  *)
(* TaskAgenda promises, and the file tools read and replace what they were *)
(* asked to of the text that Python reads.                                 *)
(***************************************************************************)
EXTENDS ToolCalls, NumberInduction, FiniteSetTheorems, SequenceTheorems, TLAPS

-----------------------------------------------------------------------------
(* The occurrences that str.count counts *)

\* g is a solution of the recursion: index i is 0, or adds inc[i] to index next[i].
Recursion(g, n, stops, inc, next) ==
  \A i \in 1..n : g[i] = IF i \in stops THEN 0 ELSE inc[i] + g[next[i]]

Ascending(n, stops, next) == \A i \in 1..n : i \notin stops => next[i] > i

\* A recursion over 1..n in which every index asks for a greater one has a solution.
LEMMA RecursionHasSolution ==
  ASSUME NEW n \in Nat, NEW stops, NEW inc \in [1..n -> Nat], NEW next \in [1..n -> 1..n],
         Ascending(n, stops, next)
  PROVE  \E g \in [1..n -> Nat] : Recursion(g, n, stops, inc, next)
<1> DEFINE value(g, i) == IF i \in stops THEN 0 ELSE inc[i] + g[next[i]]
           Solves(g, k) == \A i \in 1..n : i > n - k => g[i] = value(g, i)
           Solvable == {k \in Nat : \E g \in [1..n -> Nat] : Solves(g, k)}
<1>1. 0 \in Solvable
  <2>1. [i \in 1..n |-> 0] \in [1..n -> Nat]
    OBVIOUS
  <2>2. Solves([i \in 1..n |-> 0], 0)
    <3> HIDE DEF value
    <3> QED
      OBVIOUS
  <2> HIDE DEF Solves
  <2> QED
    BY <2>1, <2>2
<1>2. ASSUME NEW k \in Nat, k \in Solvable PROVE k + 1 \in Solvable
  <2>1. PICK g \in [1..n -> Nat] : Solves(g, k)
    <3> HIDE DEF Solves
    <3> QED
      BY <1>2
  <2>2. CASE k >= n
    <3>1. Solves(g, k + 1)
      <4> HIDE DEF value
      <4>1. \A i \in 1..n : i > n - k
        BY <2>2
      <4> QED
        BY <2>1, <4>1
    <3>2. k + 1 \in Nat /\ \E g1 \in [1..n -> Nat] : Solves(g1, k + 1)
      <4>1. k + 1 \in Nat
        OBVIOUS
      <4> HIDE DEF Solves
      <4> QED
        BY <3>1, <4>1, Zenon
    <3> HIDE DEF Solves
    <3> QED
      BY <3>2
  <2>3. CASE k < n
    <3> DEFINE j == n - k
               h == [g EXCEPT ![j] = value(g, j)]
    <3>1. j \in 1..n
      BY <2>3
    <3>2. value(g, j) \in Nat
      <4> HIDE DEF j
      <4>1. inc[j] \in Nat /\ next[j] \in 1..n /\ g[next[j]] \in Nat
        BY <3>1
      <4> QED
        BY <4>1
    <3>3. h \in [1..n -> Nat] /\ h[j] = value(g, j) /\ \A i \in 1..n : i # j => h[i] = g[i]
      <4> HIDE DEF j, value
      <4> QED
        BY <3>1, <3>2
    <3> HIDE DEF h
    <3>4. ASSUME NEW i \in 1..n, i >= j PROVE value(h, i) = value(g, i)
      <4> HIDE DEF j
      <4>1. CASE i \in stops
        BY <4>1
      <4>2. CASE i \notin stops
        <5>1. next[i] \in 1..n /\ next[i] # j
          BY <3>1, <3>4, <4>2 DEF Ascending
        <5> QED
          BY <3>3, <5>1
      <4> QED
        BY <4>1, <4>2
    <3> HIDE DEF value
    <3>5. ASSUME NEW i \in 1..n, i > n - (k + 1) PROVE h[i] = value(h, i)
      <4>1. i >= j
        BY <3>5
      <4>2. value(h, i) = value(g, i)
        BY <3>4, <4>1
      <4>3. CASE i = j
        BY <3>3, <4>2, <4>3
      <4>4. CASE i # j
        <5>1. i > n - k
          BY <4>1, <4>4
        <5>2. h[i] = g[i] /\ g[i] = value(g, i)
          BY <2>1, <3>3, <4>4, <5>1
        <5> QED
          BY <4>2, <5>2
      <4> QED
        BY <4>3, <4>4
    <3>6. Solves(h, k + 1)
      BY <3>5
    <3>7. k + 1 \in Nat /\ \E g1 \in [1..n -> Nat] : Solves(g1, k + 1)
      <4>1. k + 1 \in Nat
        OBVIOUS
      <4> HIDE DEF Solves
      <4> QED
        BY <3>3, <3>6, <4>1, Zenon
    <3> HIDE DEF Solves
    <3> QED
      BY <3>7
  <2> HIDE DEF Solvable
  <2> QED
    BY <2>2, <2>3
<1>3. n \in Solvable
  <2> HIDE DEF Solvable
  <2> QED
    BY <1>1, <1>2, InductionOnSet
<1>4. PICK g \in [1..n -> Nat] : Solves(g, n)
  <2> HIDE DEF Solves
  <2> QED
    BY <1>3
<1>5. \A i \in 1..n : i > n - n
  OBVIOUS
<1>6. Recursion(g, n, stops, inc, next)
  BY <1>4, <1>5 DEF Recursion
<1> QED
  BY <1>6

\* Count's local function, for a text of n chunks, a piece of m, and its places P.
Body(f, i, n, m, P) ==
  IF i > n - m + 1 THEN 0
  ELSE IF i \notin P THEN f[i + 1]
  ELSE 1 + f[i + (IF m = 0 THEN 1 ELSE m)]

LEMMA CountUnfolds ==
  ASSUME NEW content \in Seq(Chunks), NEW piece \in Seq(Chunks),
         NEW n \in Nat, n = Len(content), NEW m \in Nat, m = Len(piece),
         NEW P, P = Places(content, piece)
  PROVE  \E f : /\ \A i \in 1..(n + 2) : f[i] = Body(f, i, n, m, P)
                /\ Count(content, piece) = f[1]
<1> DEFINE d == IF piece = <<>> THEN 1 ELSE Len(piece)
           body(f, i) == IF i > Len(content) - Len(piece) + 1 THEN 0
                         ELSE IF i \notin Places(content, piece) THEN f[i + 1]
                         ELSE 1 + f[i + d]
           f == CHOOSE f : f = [i \in 1..(Len(content) + 2) |-> body(f, i)]
<1>1. d = (IF m = 0 THEN 1 ELSE m) /\ d \in Nat /\ d >= 1 /\ (d = m \/ (d = 1 /\ m = 0))
  OBVIOUS
<1>2. PICK g \in [1..(n + 2) -> Nat] : \A i \in 1..(n + 2) : g[i] = Body(g, i, n, m, P)
  <2>0. PICK N \in Nat : N = n + 2
    OBVIOUS
  <2> DEFINE D == 1..N
             stops == {i \in D : i > n - m + 1}
             inc == [i \in D |-> IF i \in P THEN 1 ELSE 0]
             next == [i \in D |-> IF i \in stops THEN i ELSE IF i \in P THEN i + d ELSE i + 1]
  <2> HIDE DEF d
  <2>1. inc \in [D -> Nat]
    OBVIOUS
  <2>2. next \in [D -> D] /\ \A i \in D : i \notin stops => next[i] > i
    BY <1>1, <2>0
  <2>3. Ascending(N, stops, next)
    BY <2>2 DEF Ascending
  <2>4. PICK g \in [1..N -> Nat] : Recursion(g, N, stops, inc, next)
    <3> HIDE DEF stops, inc, next
    <3> QED
      BY <2>0, <2>1, <2>2, <2>3, RecursionHasSolution
  <2>5. ASSUME NEW i \in D PROVE g[i] = Body(g, i, n, m, P)
    <3>1. CASE i \in stops
      BY <2>4, <3>1 DEF Body, Recursion
    <3>2. CASE i \notin stops /\ i \notin P
      <4>1. next[i] = i + 1 /\ inc[i] = 0 /\ i + 1 \in D /\ ~(i > n - m + 1)
        BY <2>0, <3>2
      <4>2. g[i] = 0 + g[i + 1] /\ g[i + 1] \in Nat
        <5> HIDE DEF inc, next, stops
        <5> QED
          BY <2>4, <3>2, <4>1 DEF Recursion
      <4> QED
        BY <3>2, <4>1, <4>2 DEF Body
    <3>3. CASE i \notin stops /\ i \in P
      <4>1. next[i] = i + d /\ inc[i] = 1 /\ ~(i > n - m + 1)
        BY <3>3
      <4>2. g[i] = 1 + g[i + d]
        <5> HIDE DEF inc, next, stops
        <5> QED
          BY <2>4, <3>3, <4>1 DEF Recursion
      <4> QED
        BY <1>1, <3>3, <4>1, <4>2 DEF Body
    <3> QED
      BY <3>1, <3>2, <3>3
  <2> QED
    BY <2>0, <2>4, <2>5
<1>3. g = [i \in 1..(Len(content) + 2) |-> body(g, i)]
  <2>1. \A i \in 1..(n + 2) : Body(g, i, n, m, P) = body(g, i)
    <3> HIDE DEF d
    <3> QED
      BY <1>1 DEF Body
  <2>2. \A i \in 1..(n + 2) : g[i] = body(g, i)
    BY <1>2, <2>1
  <2> HIDE DEF body
  <2> QED
    BY <2>2
<1>4. f = [i \in 1..(Len(content) + 2) |-> body(f, i)]
  <2> HIDE DEF body
  <2> QED
    BY <1>3
<1>5. Count(content, piece) = f[1]
  BY DEF Count
<1> HIDE DEF f
<1>6. \A i \in 1..(n + 2) : f[i] = Body(f, i, n, m, P)
  <2>1. \A i \in 1..(n + 2) : Body(f, i, n, m, P) = body(f, i)
    <3> HIDE DEF d
    <3> QED
      BY <1>1 DEF Body
  <2>2. \A i \in 1..(n + 2) : f[i] = body(f, i)
    <3> HIDE DEF body
    <3> QED
      BY <1>4
  <2> QED
    BY <2>1, <2>2
<1> QED
  BY <1>5, <1>6

\* What Count's function says at index i of the places from there on.
Tally(f, i, m, P) ==
  /\ f[i] \in Nat
  /\ f[i] = 0 <=> \A j \in P : j < i
  /\ f[i] = 1 => \A j, k \in P : i <= j /\ j < k => k < j + m
  /\ f[i] > 1 => \E j, k \in P : i <= j /\ j < k /\ j + m <= k

LEMMA CountTallies ==
  ASSUME NEW n \in Nat, NEW m \in Nat, NEW P, P \subseteq 1..(n - m + 1), NEW f,
         \A i \in 1..(n + 2) : f[i] = Body(f, i, n, m, P)
  PROVE  \A i \in 1..(n + 2) : Tally(f, i, m, P)
<1> DEFINE Tallied == {k \in Nat : \A i \in 1..(n + 2) : i > n + 2 - k => Tally(f, i, m, P)}
<1>1. ASSUME NEW i \in 1..(n + 2), \A l \in 1..(n + 2) : l > i => Tally(f, l, m, P)
      PROVE  Tally(f, i, m, P)
  <2> DEFINE d == IF m = 0 THEN 1 ELSE m
  <2>1. d \in Nat /\ d > 0 /\ m <= d /\ (d = m \/ (d = 1 /\ m = 0))
    OBVIOUS
  <2>2. \A j \in P : j \in Nat /\ j <= n - m + 1
    OBVIOUS
  <2>3. f[i] = IF i > n - m + 1 THEN 0 ELSE IF i \notin P THEN f[i + 1] ELSE 1 + f[i + d]
    BY <1>1 DEF Body
  <2> HIDE DEF d
  <2>4. CASE i > n - m + 1
    <3>1. f[i] = 0 /\ \A j \in P : j < i
      BY <2>2, <2>3, <2>4
    <3> QED
      BY <3>1 DEF Tally
  <2>5. CASE ~(i > n - m + 1) /\ i \notin P
    <3>1. i + 1 \in 1..(n + 2) /\ i + 1 > i
      BY <2>5
    <3>2. Tally(f, i + 1, m, P) /\ f[i] = f[i + 1]
      BY <1>1, <2>3, <2>5, <3>1
    <3>3. \A j \in P : (j < i <=> j < i + 1) /\ (i <= j <=> i + 1 <= j)
      BY <2>2, <2>5
    <3> QED
      BY <3>2, <3>3 DEF Tally
  <2>6. CASE ~(i > n - m + 1) /\ i \in P
    <3>1. i + d \in 1..(n + 2) /\ i + d > i
      BY <2>1, <2>6
    <3>2. Tally(f, i + d, m, P) /\ f[i] = 1 + f[i + d]
      BY <1>1, <2>3, <2>6, <3>1
    <3>3. f[i + d] \in Nat /\ f[i] \in Nat /\ f[i] # 0 /\ ~(i < i)
      BY <3>2 DEF Tally
    <3>4. ASSUME f[i] = 1, NEW j \in P, NEW k \in P, i <= j, j < k PROVE k < j + m
      <4>1. k < i + d
        BY <3>2, <3>3, <3>4 DEF Tally
      <4> QED
        BY <2>1, <2>2, <3>4, <4>1
    <3>5. ASSUME f[i] > 1 PROVE \E j, k \in P : i <= j /\ j < k /\ j + m <= k
      <4>1. f[i + d] # 0
        BY <3>2, <3>3, <3>5
      <4>2. PICK k \in P : ~(k < i + d)
        BY <3>2, <4>1 DEF Tally
      <4>3. i <= i /\ i < k /\ i + m <= k
        BY <2>1, <2>2, <4>2
      <4> QED
        BY <2>6, <4>3
    <3> QED
      BY <2>6, <3>3, <3>4, <3>5 DEF Tally
  <2> QED
    BY <2>4, <2>5, <2>6
<1>2. 0 \in Tallied
  OBVIOUS
<1>3. ASSUME NEW k \in Nat, k \in Tallied PROVE k + 1 \in Tallied
  <2>1. ASSUME NEW i \in 1..(n + 2), i > n + 2 - (k + 1) PROVE Tally(f, i, m, P)
    <3>1. \A l \in 1..(n + 2) : l > i => l > n + 2 - k
      BY <2>1
    <3>2. \A l \in 1..(n + 2) : l > i => Tally(f, l, m, P)
      BY <1>3, <3>1
    <3> QED
      BY <1>1, <3>2
  <2>2. k + 1 \in Nat
    OBVIOUS
  <2> QED
    BY <2>1, <2>2
<1>4. n + 2 \in Tallied
  <2>1. n + 2 \in Nat
    OBVIOUS
  <2> HIDE DEF Tallied
  <2> QED
    BY <1>2, <1>3, <2>1, InductionOnSet
<1>5. \A i \in 1..(n + 2) : i > n + 2 - (n + 2)
  OBVIOUS
<1> QED
  BY <1>4, <1>5

\* No second occurrence stands beside a first one.
Beside(places, m) == \E i, j \in places : i < j /\ i + m <= j

\* str.count is zero where there is no occurrence, and one where those there are overlap.
LEMMA CountMeans ==
  ASSUME NEW content \in Seq(Chunks), NEW piece \in Seq(Chunks)
  PROVE  LET places == Places(content, piece)
         IN  IF Count(content, piece) = 1
               THEN places # {} /\ ~Beside(places, Len(piece))
               ELSE places = {} \/ Beside(places, Len(piece))
<1>1. PICK n \in Nat, m \in Nat : n = Len(content) /\ m = Len(piece)
  OBVIOUS
<1> DEFINE P == Places(content, piece)
<1>2. P \subseteq 1..(n - m + 1)
  BY <1>1 DEF Places
<1> HIDE DEF P
<1>3. PICK f : /\ \A i \in 1..(n + 2) : f[i] = Body(f, i, n, m, P)
               /\ Count(content, piece) = f[1]
  BY <1>1, CountUnfolds DEF P
<1>4. Tally(f, 1, m, P)
  <2>1. 1 \in 1..(n + 2)
    OBVIOUS
  <2> QED
    BY <1>2, <1>3, <2>1, CountTallies
<1>5. \A j \in P : j \in Int /\ 1 <= j
  BY <1>2
<1>6. CASE f[1] = 1
  <2>1. P # {}
    BY <1>4, <1>6 DEF Tally
  <2>2. \A j, k \in P : j < k => k < j + m
    BY <1>4, <1>5, <1>6 DEF Tally
  <2>3. ~Beside(P, m)
    BY <1>5, <2>2 DEF Beside
  <2> QED
    BY <1>1, <1>3, <1>6, <2>1, <2>3 DEF P
<1>7. CASE f[1] = 0
  <2>1. P = {}
    BY <1>4, <1>5, <1>7 DEF Tally
  <2> QED
    BY <1>1, <1>3, <1>7, <2>1 DEF P
<1>8. CASE f[1] # 0 /\ f[1] # 1
  <2>1. f[1] > 1
    BY <1>4, <1>8 DEF Tally
  <2>2. Beside(P, m)
    BY <1>4, <2>1 DEF Tally, Beside
  <2> QED
    BY <1>1, <1>3, <1>8, <2>2 DEF P
<1> QED
  BY <1>6, <1>7, <1>8

-----------------------------------------------------------------------------
(* The text of an edit *)

\* text is content with the piece at i replaced, and nothing around it changed.
ReplacedAt(text, content, piece, by, i) ==
  /\ Len(text) = Len(content) - Len(piece) + Len(by)
  /\ \A k \in 1..(i - 1) : text[k] = content[k]
  /\ \A k \in 1..Len(by) : text[i + k - 1] = by[k]
  /\ \A k \in i..(Len(content) - Len(piece)) :
        text[k + Len(by)] = content[k + Len(piece)]

\* str.replace of a text that holds the piece: one occurrence gives way to by,
\* the text before it and behind it stays.
LEMMA ReplacedText ==
  ASSUME NEW content \in Seq(Chunks), NEW piece \in Seq(Chunks), NEW by \in Seq(Chunks),
         Places(content, piece) # {}, NEW text, text = Replaced(content, piece, by)
  PROVE  /\ text \in Seq(Chunks)
         /\ \E i \in Places(content, piece) : ReplacedAt(text, content, piece, by, i)
<1> DEFINE P == Places(content, piece)
           i == CHOOSE i \in P : \A j \in P : i <= j
           n == Len(content)
           m == Len(piece)
           before == SubSeq(content, 1, i - 1)
           after == SubSeq(content, i + m, n)
<1>1. n \in Nat /\ m \in Nat /\ Len(by) \in Nat
  OBVIOUS
<1>2. P \subseteq 1..(n - m + 1)
  BY DEF Places
<1>3. i \in P
  <2> HIDE DEF P, n, m
  <2>1. P \subseteq Nat /\ P # {}
    BY <1>1, <1>2 DEF P
  <2>2. \E x \in P : \A y \in P : x <= y
    BY <2>1, Least
  <2> QED
    BY <2>2
<1>4. text = before \o by \o after
  BY DEF Replaced
<1> HIDE DEF i, P
<1>5. i \in Nat /\ 1 <= i /\ i <= n - m + 1
  BY <1>1, <1>2, <1>3
<1>6. /\ before \in Seq(Chunks) /\ Len(before) = i - 1
      /\ \A k \in 1..(i - 1) : before[k] = content[k]
  BY <1>1, <1>5
<1>7. /\ after \in Seq(Chunks) /\ Len(after) = n - m - i + 1
      /\ \A k \in 1..(n - m - i + 1) : after[k] = content[i + m + k - 1]
  BY <1>1, <1>5
<1> HIDE DEF before, after
<1>8. before \o by \in Seq(Chunks) /\ Len(before \o by) = i - 1 + Len(by)
  <2>1. before \o by \in Seq(Chunks) /\ Len(before \o by) = Len(before) + Len(by)
    BY <1>6, ConcatProperties
  <2> QED
    BY <1>1, <1>5, <1>6, <2>1
<1>9. text \in Seq(Chunks) /\ Len(text) = n - m + Len(by)
  <2>1. text \in Seq(Chunks) /\ Len(text) = Len(before \o by) + Len(after)
    BY <1>4, <1>7, <1>8, ConcatProperties
  <2> QED
    BY <1>1, <1>5, <1>7, <1>8, <2>1
<1>10. ASSUME NEW k \in 1..(i - 1) PROVE text[k] = content[k]
  <2>1. (before \o by)[k] = before[k]
    BY <1>1, <1>5, <1>6
  <2>2. text[k] = (before \o by)[k]
    BY <1>1, <1>4, <1>5, <1>7, <1>8
  <2> QED
    BY <1>6, <2>1, <2>2
<1>11. ASSUME NEW k \in 1..Len(by) PROVE text[i + k - 1] = by[k]
  <2>1. i + k - 1 \in 1..(i - 1 + Len(by)) /\ i + k - 1 > i - 1 /\ (i + k - 1) - (i - 1) = k
    BY <1>1, <1>5
  <2>2. (before \o by)[i + k - 1] = by[k]
    BY <1>1, <1>5, <1>6, <2>1
  <2>3. text[i + k - 1] = (before \o by)[i + k - 1]
    BY <1>1, <1>4, <1>5, <1>7, <1>8, <2>1
  <2> QED
    BY <2>2, <2>3
<1>12. ASSUME NEW k \in i..(n - m) PROVE text[k + Len(by)] = content[k + m]
  <2>1. PICK l \in Nat : l = k - i + 1
    BY <1>5
  <2>2. /\ l \in 1..(n - m - i + 1)
      /\ i + m + l - 1 = k + m
      /\ k + Len(by) = (i - 1 + Len(by)) + l
    BY <1>1, <1>5, <2>1
  <2>3. text[(i - 1 + Len(by)) + l] = after[l]
    <3>1. PICK p \in Nat : p = Len(before \o by)
      BY <1>8
    <3>2. PICK q \in Nat : q = Len(after)
      BY <1>7
    <3>3. \A j \in 1..(p + q) :
             text[j] = IF j <= p THEN (before \o by)[j] ELSE after[j - p]
      <4>1. text = (before \o by) \o after
        BY <1>4
      <4>2. PICK u \in Seq(Chunks) : u = before \o by
        BY <1>8
      <4>3. PICK v \in Seq(Chunks) : v = after
        BY <1>7
      <4>4. \A j \in 1..(Len(u) + Len(v)) : (u \o v)[j] = IF j <= Len(u) THEN u[j] ELSE v[j - Len(u)]
        BY ConcatProperties
      <4> QED
        BY <3>1, <3>2, <4>1, <4>2, <4>3, <4>4
    <3>4. p + l \in 1..(p + q) /\ ~(p + l <= p) /\ (p + l) - p = l
      BY <1>5, <1>7, <2>2, <3>1, <3>2
    <3> QED
      BY <1>8, <3>1, <3>3, <3>4
  <2> QED
    BY <1>7, <2>2, <2>3
<1> QED
  BY <1>3, <1>9, <1>10, <1>11, <1>12 DEF P, ReplacedAt

-----------------------------------------------------------------------------
(* Types *)

\* An edit whose text is still to be written.
Pending == [tool : {"edit_file_chunk"}, search_string : Seq(Chunks),
            replace_string : Seq(Chunks), old : Files, content : Files,
            result : {"pending"}, text : Texts(MaxLen)]

Typed == TypeOK /\ (at = "editing" => answer \in Pending)

LEMMA TextIsSeq ==
  ASSUME NEW n \in Nat, NEW text \in Texts(n)
  PROVE  text \in Seq(Chunks) /\ Len(text) \in Nat /\ Len(text) <= n
<1>1. PICK k \in 0..n : text \in [1..k -> Chunks]
  BY DEF Texts
<1> QED
  BY <1>1

LEMMA SeqIsText ==
  ASSUME NEW n \in Nat, NEW text \in Seq(Chunks), Len(text) <= n
  PROVE  text \in Texts(n)
<1>1. Len(text) \in 0..n /\ text \in [1..Len(text) -> Chunks]
  OBVIOUS
<1> QED
  BY <1>1 DEF Texts

\* A file that is read is a text of the same length.
LEMMA ContentIsText ==
  ASSUME file \in Files, file # Missing
  PROVE  Content \in Texts(MaxLen) /\ Content \in Seq(Chunks) /\ Len(Content) <= MaxLen
<1>1. file \in Seq(Chunks) /\ Len(file) \in Nat /\ Len(file) <= MaxLen
  BY ToolAssumption, TextIsSeq DEF Files
<1>2. Content = [i \in 1..Len(file) |-> IF file[i] = CRLF THEN LF ELSE file[i]]
  BY DEF Content
<1>3. \A i \in 1..Len(file) : (IF file[i] = CRLF THEN LF ELSE file[i]) \in Chunks
  BY <1>1, ToolAssumption
<1>4. Content \in Seq(Chunks) /\ Len(Content) = Len(file)
  BY <1>1, <1>2, <1>3
<1> QED
  BY <1>1, <1>4, ToolAssumption, SeqIsText

\* It differs from the file in line ends only.
LEMMA ContentAlike ==
  ASSUME file \in Files, file # Missing
  PROVE  \A k \in 1..Len(Content) : Content[k] = file[k] \/ (Content[k] = LF /\ file[k] = CRLF)
<1>1. file \in Seq(Chunks) /\ Len(file) \in Nat
  BY ToolAssumption, TextIsSeq DEF Files
<1>2. Content = [i \in 1..Len(file) |-> IF file[i] = CRLF THEN LF ELSE file[i]]
  BY DEF Content
<1>3. Len(Content) = Len(file)
  BY <1>1, <1>2
<1> QED
  BY <1>2, <1>3

\* What an interrupted write leaves is a file, too.
LEMMA WrittenIsFile ==
  ASSUME file \in Files, NEW text \in Texts(MaxLen), NEW ok \in BOOLEAN
  PROVE  Written(text, ok) \subseteq Files
<1>1. text \in Seq(Chunks) /\ Len(text) <= MaxLen /\ MaxLen \in Nat
  BY ToolAssumption, TextIsSeq
<1>2. ASSUME NEW n \in 0..Len(text) PROVE SubSeq(text, 1, n) \in Texts(MaxLen)
  <2>1. SubSeq(text, 1, n) \in Seq(Chunks) /\ Len(SubSeq(text, 1, n)) = n
    BY <1>1
  <2>2. Len(SubSeq(text, 1, n)) <= MaxLen
    BY <1>1, <2>1
  <2> QED
    BY <1>1, <2>1, <2>2, SeqIsText, Zenon
<1> QED
  BY <1>2 DEF Written, Files

LEMMA TypedInit == Init => Typed
  BY DEF Init, Typed, TypeOK, NoCall

LEMMA TypedStep == Typed /\ [Next]_vars => Typed'
<1> SUFFICES ASSUME Typed, [Next]_vars PROVE Typed'
  OBVIOUS
<1> USE DEF Typed, TypeOK
<1>1. ASSUME NEW id \in TaskIds, NEW description \in Descriptions, Push(id, description)
      PROVE  Typed'
  <2>1. [task_id |-> id, description |-> description, status |-> "pending"] \in Tasks
    BY DEF Tasks, Statuses
  <2> QED
    BY <1>1, <2>1 DEF Tools, Push, TaskAnswer
<1>2. ASSUME NEW id \in TaskIds, NEW description \in Descriptions \cup {NotGiven},
             Update(id, description)
      PROVE  Typed'
  <2>1. PICK i \in 1..Len(tasks) :
           tasks' = IF description = NotGiven THEN tasks
                    ELSE [tasks EXCEPT ![i].description = description]
    BY <1>2 DEF Update
  <2>2. tasks[i] \in Tasks
    OBVIOUS
  <2>3. description # NotGiven => [tasks[i] EXCEPT !.description = description] \in Tasks
    BY <2>2 DEF Tasks
  <2>4. tasks' \in Seq(Tasks)
    BY <2>1, <2>3
  <2> QED
    BY <1>2, <2>4 DEF Tools, Update, TaskAnswer
<1>3. ASSUME NEW id \in TaskIds, Complete(id) PROVE Typed'
  <2>1. PICK i \in 1..Len(tasks) : tasks' = [tasks EXCEPT ![i].status = "completed"]
    BY <1>3 DEF Complete
  <2>2. tasks[i] \in Tasks
    OBVIOUS
  <2>3. [tasks[i] EXCEPT !.status = "completed"] \in Tasks
    BY <2>2 DEF Tasks, Statuses
  <2>4. tasks' \in Seq(Tasks)
    BY <2>1, <2>3
  <2> QED
    BY <1>3, <2>4 DEF Tools, Complete, TaskAnswer
<1>4. CASE Pop
  <2>1. tasks' \in Seq(Tasks)
    BY <1>4 DEF Pop
  <2> QED
    BY <1>4, <2>1 DEF Tools, Pop, TaskAnswer
<1>5. CASE TasksUntouched
  BY <1>5 DEF Tools, TasksUntouched, TaskAnswer
<1>6. ASSUME NEW start_line, NEW end_line, ReadFile(start_line, end_line) PROVE Typed'
  BY <1>6 DEF Tools, ReadFile, ReadAnswer
<1>7. ASSUME NEW text \in Texts(MaxLen), WriteFile(text) PROVE Typed'
  BY <1>7, WrittenIsFile DEF Tools, WriteFile
<1>8. ASSUME NEW piece \in Searches, NEW by \in Replacements, EditRead(piece, by)
      PROVE  Typed'
  <2>1. piece \in Seq(Chunks) /\ by \in Seq(Chunks)
    BY ToolAssumption
  <2>2. CASE file # Missing /\ Count(Content, piece) = 1
    <3>1. Content \in Seq(Chunks) /\ Content \in Files
      BY <2>2, ContentIsText DEF Files
    <3>2. Replaced(Content, piece, by) \in Texts(MaxLen)
      <4>1. Places(Content, piece) # {}
        BY <2>1, <2>2, <3>1, CountMeans
      <4>2. Replaced(Content, piece, by) \in Seq(Chunks)
        BY <2>1, <3>1, <4>1, ReplacedText
      <4>3. Len(Replaced(Content, piece, by)) <= MaxLen
        BY <1>8, <2>2 DEF EditRead
      <4> QED
        BY <4>2, <4>3, ToolAssumption, SeqIsText
    <3> QED
      BY <1>8, <2>1, <2>2, <3>1, <3>2 DEF Tools, EditRead, Pending
  <2>3. CASE ~(file # Missing /\ Count(Content, piece) = 1)
    BY <1>8, <2>3 DEF Tools, EditRead
  <2> QED
    BY <2>2, <2>3
<1>9. CASE EditWrite
  <2>1. PICK ok \in BOOLEAN :
           /\ file' \in Written(answer.text, ok)
           /\ answer' = [answer EXCEPT !.result = IF ok THEN "applied" ELSE "failed"]
    BY <1>9 DEF EditWrite
  <2>2. answer \in Pending
    BY <1>9 DEF EditWrite
  <2>3. file' \in Files
    BY <2>1, <2>2, WrittenIsFile DEF Pending
  <2>4. answer'.tool = "edit_file_chunk"
    BY <2>1, <2>2 DEF Pending
  <2> QED
    BY <1>9, <2>3, <2>4 DEF Tools, EditWrite
<1>10. ASSUME NEW content \in Files, CommandWrites(content) PROVE Typed'
  BY <1>10 DEF CommandWrites, NoCall
<1>11. ASSUME NEW tool \in Tools, DispatchRaises(tool)
       PROVE  Typed'
  BY <1>11 DEF DispatchRaises
<1>12. CASE UNCHANGED vars
  BY <1>12 DEF vars
<1> QED
  BY <1>1, <1>2, <1>3, <1>4, <1>5, <1>6, <1>7, <1>8, <1>9, <1>10, <1>11, <1>12
  DEF Next, TaskCall, FileCall, Raised

LEMMA TypedAlways == Spec => []Typed
  BY TypedInit, TypedStep, PTL DEF Spec

\* Every variable keeps its type: the queue holds tasks, the file is a text of
\* at most MaxLen chunks or missing, and a write is due only for an edit.
THEOREM TypeCorrect == Spec => []TypeOK
<1>1. Typed => TypeOK
  BY DEF Typed
<1> QED
  BY <1>1, TypedAlways, PTL

-----------------------------------------------------------------------------
(* The file tools *)

\* What a step leaves in answer: a call that no property is about, the old
\* one, or that of a file tool.
AnswerLeft ==
  \/ UNCHANGED <<at, answer>> /\ (at = "editing" \/ UNCHANGED file)
  \/ answer'.tool \notin {"read_file", "edit_file_chunk"}
  \/ at' = "raised"
  \/ \E start_line, end_line \in (-1)..(MaxLen + 1) \cup {NotGiven} :
        ReadFile(start_line, end_line)
  \/ \E piece \in Searches, by \in Replacements : EditRead(piece, by)
  \/ EditWrite

LEMMA AnswerStep ==
  ASSUME Typed, [Next]_vars
  PROVE  AnswerLeft
<1>1. CASE TaskCall
  <2>1. \E ok \in BOOLEAN : TaskAnswer(ok)
    BY <1>1 DEF TaskCall, Push, Update, Complete, Pop, TasksUntouched
  <2>2. answer'.tool = "dynamic_task_manager"
    BY <2>1 DEF TaskAnswer
  <2> QED
    BY <2>2 DEF AnswerLeft
<1>2. ASSUME NEW text \in Texts(MaxLen), WriteFile(text)
      PROVE  AnswerLeft
  BY <1>2 DEF AnswerLeft, WriteFile
<1>3. ASSUME NEW content \in Files, CommandWrites(content)
      PROVE  AnswerLeft
  BY <1>3 DEF AnswerLeft, CommandWrites, NoCall
<1>4. ASSUME NEW tool \in Tools, DispatchRaises(tool)
      PROVE  AnswerLeft
  BY <1>4 DEF AnswerLeft, DispatchRaises
<1>5. CASE UNCHANGED vars
  BY <1>5 DEF AnswerLeft, vars
<1>6. CASE FileCall
  <2>1. CASE \E start_line, end_line \in (-1)..(MaxLen + 1) \cup {NotGiven} :
               ReadFile(start_line, end_line)
    BY <2>1, Zenon DEF AnswerLeft
  <2>2. CASE \E text \in Texts(MaxLen) : WriteFile(text)
    BY <1>2, <2>2, Zenon
  <2>3. CASE \E piece \in Searches, by \in Replacements : EditRead(piece, by)
    BY <2>3, Zenon DEF AnswerLeft
  <2>4. CASE EditWrite
    BY <2>4, Zenon DEF AnswerLeft
  <2> QED
    BY <1>6, <2>1, <2>2, <2>3, <2>4, Zenon DEF FileCall
<1>7. CASE \E content \in Files : CommandWrites(content)
  BY <1>3, <1>7, Zenon
<1>8. CASE \E tool \in Tools : DispatchRaises(tool)
  BY <1>4, <1>8, Zenon
<1> QED
  BY <1>1, <1>5, <1>6, <1>7, <1>8, Zenon DEF Next, Raised

\* What ReadIsRange says of a call that answered lines.
Ranged(call) ==
  LET first == IF call.start_line = NotGiven THEN 1 ELSE call.start_line
      asked == {k \in 1..Len(call.content) :
                   first <= k /\ (call.end_line = NotGiven \/ k <= call.end_line)}
  IN  /\ Len(call.text) = Cardinality(asked)
      /\ \A k \in asked : call.text[k - first + 1] = call.content[k]

\* For line numbers from 1, the slice of Python holds the lines from start_line
\* to end_line that there are.
LEMMA LineRangeIsAsked ==
  ASSUME NEW call,
         NEW lines \in Seq(Chunks), lines = call.content,
         NEW start_line \in Int \cup {NotGiven}, start_line = call.start_line,
         NEW end_line \in Int \cup {NotGiven}, end_line = call.end_line,
         start_line = NotGiven \/ start_line >= 1, end_line = NotGiven \/ end_line >= 1,
         call.text = LineRange(lines, start_line, end_line)
  PROVE  Ranged(call)
<1> DEFINE first == IF start_line = NotGiven THEN 1 ELSE start_line
           asked == {k \in 1..Len(lines) :
                        first <= k /\ (end_line = NotGiven \/ k <= end_line)}
           range == LineRange(lines, start_line, end_line)
           n == Len(lines)
           last == IF end_line = NotGiven THEN n ELSE end_line
           a == IF first > n THEN n + 1 ELSE first
           b == IF last > n THEN n ELSE last
<1>1. /\ n \in Nat /\ first \in Nat /\ last \in Nat /\ a \in Int /\ b \in Int
      /\ first >= 1 /\ a >= 1 /\ b <= n
  OBVIOUS
<1>2. range = SubSeq(lines, a, b)
  <2>1. Falsy(start_line) <=> start_line = NotGiven
    BY ToolAssumption DEF Falsy
  <2>2. Falsy(end_line) <=> end_line = NotGiven
    BY ToolAssumption DEF Falsy
  <2>3. range = Slice(lines, first - 1, last)
    BY <2>1, <2>2 DEF LineRange
  <2> HIDE DEF first, last, n, range
  <2>4. first - 1 >= 0 /\ last >= 0
    BY <1>1
  <2>5. range = SubSeq(lines, (IF first - 1 > n THEN n ELSE first - 1) + 1, b)
    BY <2>3, <2>4 DEF Slice, n
  <2>6. (IF first - 1 > n THEN n ELSE first - 1) + 1 = a
    BY <1>1
  <2> QED
    BY <2>5, <2>6
<1>3. asked = a..b
  BY <1>1
<1> HIDE DEF range, a, b, first, asked, last
<1>4. Cardinality(asked) = IF a > b THEN 0 ELSE b - a + 1
  BY <1>1, <1>3, FS_Interval
<1>5. Len(range) = IF a > b THEN 0 ELSE b - a + 1
  BY <1>1, <1>2
<1>6. ASSUME NEW k \in asked PROVE range[k - first + 1] = lines[k]
  <2>1. k \in a..b /\ a = first
    BY <1>1, <1>3, <1>6 DEF asked, a
  <2>2. k - first + 1 \in 1..(b - a + 1) /\ a + (k - first + 1) - 1 = k
    BY <1>1, <2>1
  <2> QED
    BY <1>1, <1>2, <2>1, <2>2
<1> QED
  BY <1>4, <1>5, <1>6 DEF range, asked, first, Ranged

LEMMA ReadStep == Typed /\ ReadIsRange /\ [Next]_vars => ReadIsRange'
<1> SUFFICES ASSUME Typed, ReadIsRange, [Next]_vars PROVE ReadIsRange'
  OBVIOUS
<1>1. CASE UNCHANGED <<at, answer>>
  BY <1>1 DEF ReadIsRange
<1>2. CASE answer'.tool # "read_file" \/ at' = "raised"
  BY <1>2 DEF ReadIsRange
<1>3. ASSUME NEW start_line \in (-1)..(MaxLen + 1) \cup {NotGiven},
             NEW end_line \in (-1)..(MaxLen + 1) \cup {NotGiven},
             ReadFile(start_line, end_line)
      PROVE  ReadIsRange'
  <2>1. start_line \in Int \cup {NotGiven} /\ end_line \in Int \cup {NotGiven}
    BY ToolAssumption
  <2>2. /\ answer'.start_line = start_line
        /\ answer'.end_line = end_line
        /\ answer'.content = Content
    BY <1>3 DEF ReadFile, ReadAnswer
  <2>3. file # Missing => Content \in Seq(Chunks)
    BY ContentIsText DEF Typed, TypeOK
  <2>4. CASE file = Missing
    BY <2>2, <2>4 DEF Content, ReadIsRange
  <2>5. CASE file # Missing /\ TooLong(Content, start_line)
    BY <1>3, <2>2, <2>5 DEF ReadFile, ReadAnswer, TooLong, ReadIsRange
  <2>6. CASE file # Missing /\ ~TooLong(Content, start_line)
    <3>1. answer'.ok /\ answer'.text = LineRange(Content, start_line, end_line)
      BY <1>3, <2>6 DEF ReadFile, ReadAnswer
    <3> QED
      <4>1. CASE /\ start_line = NotGiven \/ start_line >= 1
                 /\ end_line = NotGiven \/ end_line >= 1
        <5>1. Ranged(answer')
          BY <2>1, <2>2, <2>3, <2>6, <3>1, <4>1, LineRangeIsAsked
        <5> QED
          BY <3>1, <5>1, Zenon DEF ReadIsRange, Ranged
      <4>2. CASE ~(/\ start_line = NotGiven \/ start_line >= 1
                   /\ end_line = NotGiven \/ end_line >= 1)
        BY <2>2, <4>2 DEF ReadIsRange
      <4> QED
        BY <4>1, <4>2
  <2> QED
    BY <2>4, <2>5, <2>6
<1>4. ASSUME NEW piece, NEW by, EditRead(piece, by) PROVE ReadIsRange'
  BY <1>4 DEF EditRead, ReadIsRange
<1>5. CASE EditWrite
  <2>1. answer'.tool = "edit_file_chunk"
    BY <1>5 DEF EditWrite, Typed, Pending
  <2> QED
    BY <2>1 DEF ReadIsRange
<1> QED
  BY <1>1, <1>2, <1>3, <1>4, <1>5, AnswerStep DEF AnswerLeft

\* A file of any length, read with any line numbers from 1: read_file answers
\* the lines asked for, or refuses a file above the limit read as a whole.
THEOREM ReadsRange == Spec => []ReadIsRange
<1>1. Init => ReadIsRange
  BY DEF Init, NoCall, ReadIsRange
<1> QED
  BY <1>1, TypedAlways, ReadStep, PTL DEF Spec

\* What EditIsSurgical says of a call that found its file.
Surgical(call) ==
  LET places == Places(call.content, call.search_string)
      beside == Beside(places, Len(call.search_string))
  IN  IF call.result = "refused"
        THEN places = {} \/ beside
        ELSE /\ ~beside
             /\ \E i \in places :
                   ReplacedAt(call.text, call.content, call.search_string,
                              call.replace_string, i)

\* What is read of the file differs from it in line ends only.
Alike(new, old) == new = old \/ (new = LF /\ old = CRLF)

AsOnDisk(call) ==
  /\ call.content \in Seq(Chunks)
  /\ call.search_string \in Seq(Chunks)
  /\ \A k \in 1..Len(call.content) : Alike(call.content[k], call.old[k])

EditFacts(place, call, contents) ==
  call.tool = "edit_file_chunk" /\ place # "raised" /\ call.content # Missing =>
    /\ Surgical(call)
    /\ AsOnDisk(call)
    /\ call.result = "applied" => contents = call.text

LEMMA ReplacedIsSurgical ==
  ASSUME NEW call,
         NEW content \in Seq(Chunks), content = call.content,
         NEW piece \in Seq(Chunks), piece = call.search_string,
         NEW by \in Seq(Chunks), by = call.replace_string,
         Count(content, piece) = 1,
         NEW text, text = Replaced(content, piece, by), text = call.text,
         call.result = "pending"
  PROVE  Surgical(call)
<1>1. Places(content, piece) # {} /\ ~Beside(Places(content, piece), Len(piece))
  BY CountMeans
<1>2. \E i \in Places(content, piece) : ReplacedAt(text, content, piece, by, i)
  BY <1>1, ReplacedText
<1> QED
  BY <1>1, <1>2 DEF Surgical

LEMMA EditStep ==
  ASSUME Typed, EditFacts(at, answer, file), [Next]_vars
  PROVE  EditFacts(at', answer', file')
<1>1. CASE UNCHANGED <<at, answer>> /\ UNCHANGED file
  BY <1>1, Zenon
<1>2. CASE UNCHANGED <<at, answer>> /\ at = "editing"
  <2>1. answer.result # "applied"
    BY <1>2 DEF Typed, Pending
  <2> QED
    BY <1>2, <2>1, Zenon DEF EditFacts
<1>3. CASE answer'.tool \notin {"read_file", "edit_file_chunk"} \/ at' = "raised"
  BY <1>3 DEF EditFacts
<1>4. ASSUME NEW start_line, NEW end_line, ReadFile(start_line, end_line)
      PROVE  EditFacts(at', answer', file')
  BY <1>4 DEF ReadFile, ReadAnswer, EditFacts
<1>5. ASSUME NEW piece \in Searches, NEW by \in Replacements, EditRead(piece, by)
      PROVE  EditFacts(at', answer', file')
  <2>1. piece \in Seq(Chunks) /\ by \in Seq(Chunks)
    BY ToolAssumption
  <2>2. file # Missing => Content \in Seq(Chunks)
    BY ContentIsText DEF Typed, TypeOK
  <2>3. /\ answer'.search_string = piece
        /\ answer'.replace_string = by
        /\ answer'.content = Content
        /\ answer'.old = file
        /\ answer'.result # "applied"
    BY <1>5 DEF EditRead
  <2>4. CASE file = Missing
    BY <2>3, <2>4 DEF Content, EditFacts
  <2>5. file # Missing => AsOnDisk(answer')
    <3>1. SUFFICES ASSUME file # Missing PROVE AsOnDisk(answer')
      OBVIOUS
    <3>2. \A k \in 1..Len(Content) : Alike(Content[k], file[k])
      BY <3>1, ContentAlike DEF Typed, TypeOK, Alike
    <3> QED
      BY <2>1, <2>2, <2>3, <3>1, <3>2 DEF AsOnDisk
  <2>6. CASE file # Missing /\ Count(Content, piece) = 1
    <3>1. answer'.result = "pending" /\ answer'.text = Replaced(Content, piece, by)
      BY <1>5, <2>6 DEF EditRead
    <3>2. Surgical(answer')
      BY <2>1, <2>2, <2>3, <2>6, <3>1, ReplacedIsSurgical
    <3> QED
      BY <2>3, <2>5, <2>6, <3>2 DEF EditFacts
  <2>7. CASE file # Missing /\ Count(Content, piece) # 1
    <3>1. answer'.result = "refused"
      BY <1>5, <2>7 DEF EditRead
    <3>2. Places(Content, piece) = {} \/ Beside(Places(Content, piece), Len(piece))
      BY <2>1, <2>2, <2>7, CountMeans
    <3>3. Surgical(answer')
      BY <2>3, <3>1, <3>2 DEF Surgical
    <3> QED
      BY <2>3, <2>5, <2>7, <3>3 DEF EditFacts
  <2> QED
    BY <2>4, <2>6, <2>7
<1>6. CASE EditWrite
  <2>1. answer \in Pending /\ at = "editing"
    BY <1>6 DEF EditWrite, Typed
  <2>2. PICK ok \in BOOLEAN :
           /\ file' \in Written(answer.text, ok)
           /\ answer' = [answer EXCEPT !.result = IF ok THEN "applied" ELSE "failed"]
    BY <1>6 DEF EditWrite
  <2>3. /\ answer'.result = (IF ok THEN "applied" ELSE "failed")
        /\ answer'.search_string = answer.search_string
        /\ answer'.replace_string = answer.replace_string
        /\ answer'.content = answer.content
        /\ answer'.old = answer.old
        /\ answer'.text = answer.text
    BY <2>1, <2>2 DEF Pending
  <2>4. answer.tool = "edit_file_chunk" /\ answer.result # "refused" /\ at # "raised"
    BY <2>1 DEF Pending
  <2>5. answer'.result = "applied" => file' = answer'.text
    BY <2>2, <2>3 DEF Written
  <2>6. Surgical(answer) => Surgical(answer')
    BY <2>3, <2>4 DEF Surgical
  <2>7. AsOnDisk(answer) => AsOnDisk(answer')
    BY <2>3 DEF AsOnDisk
  <2> QED
    BY <2>3, <2>4, <2>5, <2>6, <2>7 DEF EditFacts
<1> QED
  BY <1>1, <1>2, <1>3, <1>4, <1>5, <1>6, AnswerStep DEF AnswerLeft

\* From the text that was read to the file on the disk.
LEMMA FactsAreSurgical ==
  ASSUME EditFacts(at, answer, file)
  PROVE  EditIsSurgical
<1> SUFFICES ASSUME answer.tool = "edit_file_chunk", at # "raised", answer.content # Missing,
                    answer.result # "refused"
             PROVE  EditIsSurgical
  BY DEF EditFacts, Surgical, Beside, EditIsSurgical
<1>1. Surgical(answer) /\ AsOnDisk(answer) /\ (answer.result = "applied" => file = answer.text)
  BY DEF EditFacts
<1>2. PICK i \in Places(answer.content, answer.search_string) :
         ReplacedAt(answer.text, answer.content, answer.search_string,
                    answer.replace_string, i)
  BY <1>1 DEF Surgical
<1>3. /\ Len(answer.content) \in Nat /\ Len(answer.search_string) \in Nat
      /\ i \in 1..(Len(answer.content) - Len(answer.search_string) + 1)
  BY <1>1 DEF AsOnDisk, Places
<1>4. \A k \in 1..(i - 1) : Alike(answer.text[k], answer.old[k])
  BY <1>1, <1>2, <1>3 DEF AsOnDisk, ReplacedAt
<1>5. \A k \in i..(Len(answer.content) - Len(answer.search_string)) :
         Alike(answer.text[k + Len(answer.replace_string)],
               answer.old[k + Len(answer.search_string)])
  BY <1>1, <1>2, <1>3 DEF AsOnDisk, ReplacedAt
<1> QED
  BY <1>1, <1>2, <1>4, <1>5, Zenon DEF EditIsSurgical, Surgical, Beside, ReplacedAt, Alike

\* For any files and texts: edit_file_chunk replaces an occurrence beside which no
\* other stands, keeps on the disk what is around it, but for line ends, and refuses
\* only for want of one or for a choice, although str.count does not see
\* occurrences that overlap.
THEOREM EditsAreSurgical == Spec => []EditIsSurgical
<1> DEFINE Facts == EditFacts(at, answer, file)
<1>1. Init => Facts
  BY DEF Init, NoCall, EditFacts
<1>2. Typed /\ Facts /\ [Next]_vars => Facts'
  BY EditStep, Zenon
<1>3. Facts => EditIsSurgical
  BY FactsAreSurgical
<1> QED
  BY <1>1, <1>2, <1>3, TypedAlways, PTL DEF Spec

-----------------------------------------------------------------------------
(* The queue as an agenda.  What the agenda knows of a queue q: *)

IdsOf(q) == {q[i].task_id : i \in 1..Len(q)}
DoneOf(q) == {q[i].task_id : i \in {k \in 1..Len(q) : q[k].status = "completed"}}
BeforeOf(q) == {<<q[pair[1]].task_id, q[pair[2]].task_id>> :
                   pair \in {p \in (1..Len(q)) \X (1..Len(q)) : p[1] < p[2]}}
UniqueIn(q) == \A i, j \in 1..Len(q) : q[i].task_id = q[j].task_id => i = j

Precedes(q, n, x, y) ==
  \E j, k \in 1..n : j < k /\ x = q[j].task_id /\ y = q[k].task_id

\* The steps of the agenda, from queue q to queue r.
Adds(q, r, id) ==
  /\ id \notin IdsOf(q)
  /\ IdsOf(r) = IdsOf(q) \cup {id}
  /\ DoneOf(r) = DoneOf(q)
  /\ BeforeOf(r) = BeforeOf(q) \cup (IdsOf(q) \X {id})

Finishes(q, r, id) ==
  /\ id \in IdsOf(q)
  /\ IdsOf(r) = IdsOf(q)
  /\ DoneOf(r) = DoneOf(q) \cup {id}
  /\ BeforeOf(r) = BeforeOf(q)

Takes(q, r, id) ==
  /\ id \in IdsOf(q)
  /\ \A other \in IdsOf(q) : <<other, id>> \notin BeforeOf(q)
  /\ IdsOf(r) = IdsOf(q) \ {id}
  /\ DoneOf(r) = DoneOf(q) \ {id}
  /\ BeforeOf(r) = {pair \in BeforeOf(q) : pair[1] # id}

Rests(q, r) ==
  /\ IdsOf(r) = IdsOf(q)
  /\ DoneOf(r) = DoneOf(q)
  /\ BeforeOf(r) = BeforeOf(q)

LEMMA OfQueue ==
  /\ Ids = IdsOf(tasks) /\ Ids' = IdsOf(tasks')
  /\ TaskIdsUnique <=> UniqueIn(tasks)
  /\ TaskIdsUnique' <=> UniqueIn(tasks')
  BY DEF Ids, IdsOf, TaskIdsUnique, UniqueIn

LEMMA InBefore ==
  ASSUME NEW q, NEW n, n = Len(q)
  PROVE  /\ \A x, y : <<x, y>> \in BeforeOf(q) <=> Precedes(q, n, x, y)
         /\ \A pair \in BeforeOf(q) : pair = <<pair[1], pair[2]>>
<1> DEFINE pairs == {p \in (1..Len(q)) \X (1..Len(q)) : p[1] < p[2]}
<1>1. ASSUME NEW j \in 1..Len(q), NEW k \in 1..Len(q), j < k
      PROVE  <<q[j].task_id, q[k].task_id>> \in BeforeOf(q)
  <2>1. <<j, k>> \in pairs
    BY <1>1
  <2>2. <<q[j].task_id, q[k].task_id>> = <<q[<<j, k>>[1]].task_id, q[<<j, k>>[2]].task_id>>
    OBVIOUS
  <2> HIDE DEF pairs
  <2> QED
    BY <2>1, <2>2, Zenon DEF BeforeOf, pairs
<1>2. ASSUME NEW pair \in BeforeOf(q)
      PROVE  \E j, k \in 1..Len(q) : j < k /\ pair = <<q[j].task_id, q[k].task_id>>
  <2>1. PICK p \in pairs : pair = <<q[p[1]].task_id, q[p[2]].task_id>>
    BY <1>2, Zenon DEF BeforeOf
  <2>2. p[1] \in 1..Len(q) /\ p[2] \in 1..Len(q) /\ p[1] < p[2]
    BY <2>1
  <2> QED
    BY <2>1, <2>2, Zenon
<1>3. ASSUME NEW x, NEW y, <<x, y>> \in BeforeOf(q)
      PROVE  Precedes(q, n, x, y)
  <2>1. PICK j \in 1..Len(q), k \in 1..Len(q) :
           j < k /\ <<x, y>> = <<q[j].task_id, q[k].task_id>>
    BY <1>2, <1>3
  <2> QED
    BY <2>1 DEF Precedes
<1>4. ASSUME NEW pair \in BeforeOf(q) PROVE pair = <<pair[1], pair[2]>>
  BY <1>2, <1>4
<1> QED
  BY <1>1, <1>3, <1>4 DEF Precedes

Pairs(A) == \A pair \in A : pair = <<pair[1], pair[2]>>

LEMMA SamePairs ==
  ASSUME NEW A, NEW B, Pairs(A), Pairs(B), \A x, y : <<x, y>> \in A <=> <<x, y>> \in B
  PROVE  A = B
<1>1. ASSUME NEW pair \in A PROVE pair \in B
  BY <1>1 DEF Pairs
<1>2. ASSUME NEW pair \in B PROVE pair \in A
  BY <1>2 DEF Pairs
<1> QED
  BY <1>1, <1>2

\* A task whose id does not change keeps its place.
LEMMA SameIds ==
  ASSUME NEW q, NEW r, Len(r) = Len(q), \A i \in 1..Len(q) : r[i].task_id = q[i].task_id
  PROVE  IdsOf(r) = IdsOf(q) /\ BeforeOf(r) = BeforeOf(q) /\ (UniqueIn(q) => UniqueIn(r))
<1>1. IdsOf(r) = IdsOf(q) /\ (UniqueIn(q) => UniqueIn(r))
  BY DEF IdsOf, UniqueIn
<1>2. \A x, y : Precedes(r, Len(q), x, y) <=> Precedes(q, Len(q), x, y)
  BY DEF Precedes
<1>3. \A x, y : <<x, y>> \in BeforeOf(r) <=> <<x, y>> \in BeforeOf(q)
  BY <1>2, InBefore
<1>4. Pairs(BeforeOf(r)) /\ Pairs(BeforeOf(q))
  BY InBefore DEF Pairs
<1>5. BeforeOf(r) = BeforeOf(q)
  BY <1>3, <1>4, SamePairs
<1> QED
  BY <1>1, <1>5

\* Push at the end: behind every task there is.
LEMMA Appended ==
  ASSUME NEW q \in Seq(Tasks), NEW t \in Tasks,
         t.task_id \notin IdsOf(q), t.status = "pending",
         UniqueIn(q), NEW r, r = Append(q, t)
  PROVE  Adds(q, r, t.task_id) /\ UniqueIn(r)
<1>1. PICK n \in Nat : n = Len(q)
  OBVIOUS
<1>2. Len(r) = n + 1 /\ r[n + 1] = t /\ \A i \in 1..n : r[i] = q[i]
  BY <1>1
<1>3. IdsOf(r) = IdsOf(q) \cup {t.task_id}
  BY <1>1, <1>2 DEF IdsOf
<1>4. DoneOf(r) = DoneOf(q)
  BY <1>1, <1>2 DEF DoneOf
<1>5. UniqueIn(r)
  BY <1>1, <1>2 DEF UniqueIn, IdsOf
<1>6. ASSUME NEW x, NEW y
      PROVE  <<x, y>> \in BeforeOf(r) <=>
                <<x, y>> \in BeforeOf(q) \/ (x \in IdsOf(q) /\ y = t.task_id)
  <2>1. <<x, y>> \in BeforeOf(r) <=> Precedes(r, n + 1, x, y)
    BY <1>2, InBefore
  <2>2. <<x, y>> \in BeforeOf(q) <=> Precedes(q, n, x, y)
    BY <1>1, InBefore
  <2>3. x \in IdsOf(q) <=> \E j \in 1..n : x = q[j].task_id
    BY <1>1 DEF IdsOf
  <2>4. \A j, k \in 1..(n + 1) : j < k => j \in 1..n /\ (k \in 1..n \/ k = n + 1)
    OBVIOUS
  <2>5. \A j \in 1..n : j \in 1..(n + 1) /\ j < n + 1 /\ n + 1 \in 1..(n + 1)
    OBVIOUS
  <2> QED
    BY <1>2, <2>1, <2>2, <2>3, <2>4, <2>5 DEF Precedes
<1>7. BeforeOf(r) = BeforeOf(q) \cup (IdsOf(q) \X {t.task_id})
  <2> DEFINE all == BeforeOf(q) \cup (IdsOf(q) \X {t.task_id})
  <2>1. Pairs(BeforeOf(r)) /\ Pairs(BeforeOf(q))
    BY InBefore DEF Pairs
  <2>2. Pairs(all)
    BY <2>1 DEF Pairs
  <2>3. \A x, y : <<x, y>> \in BeforeOf(r) <=> <<x, y>> \in all
    BY <1>6
  <2> HIDE DEF all
  <2>4. BeforeOf(r) = all
    BY <2>1, <2>2, <2>3, SamePairs
  <2> QED
    BY <2>4 DEF all
<1> QED
  BY <1>3, <1>4, <1>5, <1>7 DEF Adds

\* Pop at the front: no task is before the one that goes.
LEMMA Popped ==
  ASSUME NEW q \in Seq(Tasks), q # <<>>, UniqueIn(q), NEW r, r = Tail(q),
         NEW id, id = q[1].task_id
  PROVE  Takes(q, r, id) /\ UniqueIn(r)
<1>1. PICK n \in Nat : n + 1 = Len(q)
  <2>1. Len(q) \in Nat /\ Len(q) - 1 \in Nat /\ (Len(q) - 1) + 1 = Len(q)
    OBVIOUS
  <2> QED
    BY <2>1
<1>2. Len(r) = n /\ \A i \in 1..n : r[i] = q[i + 1]
  BY <1>1
<1>3. \A i \in 1..(n + 1) : q[i].task_id = id <=> i = 1
  BY <1>1 DEF UniqueIn
<1>4. /\ \A i \in 1..n : i + 1 \in 1..(n + 1) /\ i + 1 # 1
      /\ \A i \in 1..(n + 1) : i # 1 => i - 1 \in 1..n /\ (i - 1) + 1 = i
  OBVIOUS
<1>5. id \in IdsOf(q) /\ \A other \in IdsOf(q) : <<other, id>> \notin BeforeOf(q)
  <2>1. id \in IdsOf(q)
    BY <1>1 DEF IdsOf
  <2>2. ASSUME NEW other, <<other, id>> \in BeforeOf(q) PROVE FALSE
    <3>1. PICK j \in 1..(n + 1), k \in 1..(n + 1) : j < k /\ id = q[k].task_id
      BY <1>1, <2>2, InBefore DEF Precedes
    <3> QED
      BY <1>3, <3>1
  <2> QED
    BY <2>1, <2>2
<1>6. IdsOf(r) = IdsOf(q) \ {id}
  <2>1. \A x : x \in IdsOf(r) <=> \E i \in 1..n : x = q[i + 1].task_id
    BY <1>2 DEF IdsOf
  <2>2. \A x : x \in IdsOf(q) <=> \E i \in 1..(n + 1) : x = q[i].task_id
    BY <1>1 DEF IdsOf
  <2>3. \A x \in IdsOf(r) : x \in IdsOf(q) /\ x # id
    BY <1>3, <1>4, <2>1, <2>2
  <2>4. ASSUME NEW x \in IdsOf(q), x # id PROVE x \in IdsOf(r)
    <3>1. PICK i \in 1..(n + 1) : x = q[i].task_id
      BY <2>2
    <3>2. i - 1 \in 1..n /\ (i - 1) + 1 = i
      BY <1>3, <1>4, <2>4, <3>1
    <3> QED
      BY <2>1, <3>1, <3>2
  <2> QED
    BY <2>3, <2>4
<1>7. DoneOf(r) = DoneOf(q) \ {id}
  <2>1. \A x : x \in DoneOf(r) <=>
           \E i \in 1..n : q[i + 1].status = "completed" /\ x = q[i + 1].task_id
    BY <1>2 DEF DoneOf
  <2>2. \A x : x \in DoneOf(q) <=>
           \E i \in 1..(n + 1) : q[i].status = "completed" /\ x = q[i].task_id
    BY <1>1 DEF DoneOf
  <2>3. \A x \in DoneOf(r) : x \in DoneOf(q) /\ x # id
    BY <1>3, <1>4, <2>1, <2>2
  <2>4. ASSUME NEW x \in DoneOf(q), x # id PROVE x \in DoneOf(r)
    <3>1. PICK i \in 1..(n + 1) : q[i].status = "completed" /\ x = q[i].task_id
      BY <2>2
    <3>2. i - 1 \in 1..n /\ (i - 1) + 1 = i
      BY <1>3, <1>4, <2>4, <3>1
    <3> QED
      BY <2>1, <3>1, <3>2
  <2> QED
    BY <2>3, <2>4
<1>8. ASSUME NEW x, NEW y
      PROVE  <<x, y>> \in BeforeOf(r) <=> <<x, y>> \in BeforeOf(q) /\ x # id
  <2>1. <<x, y>> \in BeforeOf(r) <=> Precedes(r, n, x, y)
    BY <1>2, InBefore
  <2>2. <<x, y>> \in BeforeOf(q) <=> Precedes(q, n + 1, x, y)
    BY <1>1, InBefore
  <2>3. ASSUME <<x, y>> \in BeforeOf(r) PROVE <<x, y>> \in BeforeOf(q) /\ x # id
    <3>1. PICK j \in 1..n, k \in 1..n : j < k /\ x = q[j + 1].task_id /\ y = q[k + 1].task_id
      BY <1>2, <2>1, <2>3 DEF Precedes
    <3>2. j + 1 < k + 1
      BY <3>1
    <3> QED
      BY <1>3, <1>4, <2>2, <3>1, <3>2 DEF Precedes
  <2>4. ASSUME <<x, y>> \in BeforeOf(q), x # id PROVE <<x, y>> \in BeforeOf(r)
    <3>1. PICK j \in 1..(n + 1), k \in 1..(n + 1) :
             j < k /\ x = q[j].task_id /\ y = q[k].task_id
      BY <2>2, <2>4 DEF Precedes
    <3>2. j # 1 /\ k # 1
      BY <1>3, <2>4, <3>1
    <3>3. j - 1 < k - 1
      BY <3>1
    <3>4. PICK l \in 1..n, m \in 1..n : l = j - 1 /\ m = k - 1
      BY <1>4, <3>2
    <3>5. l < m /\ x = r[l].task_id /\ y = r[m].task_id
      BY <1>2, <3>1, <3>3, <3>4
    <3> QED
      BY <2>1, <3>5 DEF Precedes
  <2> QED
    BY <2>3, <2>4
<1>9. BeforeOf(r) = {pair \in BeforeOf(q) : pair[1] # id}
  <2> DEFINE rest == {pair \in BeforeOf(q) : pair[1] # id}
  <2>1. Pairs(BeforeOf(r)) /\ Pairs(BeforeOf(q))
    BY InBefore DEF Pairs
  <2>2. Pairs(rest)
    BY <2>1 DEF Pairs
  <2>3. \A x, y : <<x, y>> \in BeforeOf(r) <=> <<x, y>> \in rest
    BY <1>8
  <2> HIDE DEF rest
  <2>4. BeforeOf(r) = rest
    BY <2>1, <2>2, <2>3, SamePairs
  <2> QED
    BY <2>4 DEF rest
<1>10. UniqueIn(r)
  BY <1>1, <1>2, <1>4 DEF UniqueIn
<1> QED
  BY <1>5, <1>6, <1>7, <1>9, <1>10, Zenon DEF Takes

\* Complete: the task it names is done, and nothing else changes.
LEMMA Completed ==
  ASSUME NEW q \in Seq(Tasks), UniqueIn(q), NEW i \in 1..Len(q),
         NEW r, r = [q EXCEPT ![i].status = "completed"]
  PROVE  Finishes(q, r, q[i].task_id) /\ UniqueIn(r)
<1>1. PICK n \in Nat : n = Len(q)
  OBVIOUS
<1>2. \A j \in 1..n : q[j] \in Tasks
  BY <1>1
<1>3. /\ Len(r) = n /\ r[i].task_id = q[i].task_id /\ r[i].status = "completed"
      /\ \A j \in 1..n : j # i => r[j] = q[j]
  <2>1. q[i] \in Tasks
    BY <1>1, <1>2
  <2>2. r[i] = [q[i] EXCEPT !.status = "completed"]
    BY <1>1
  <2>3. r[i].task_id = q[i].task_id /\ r[i].status = "completed"
    BY <2>1, <2>2 DEF Tasks
  <2> QED
    BY <1>1, <2>3
<1>4. IdsOf(r) = IdsOf(q) /\ BeforeOf(r) = BeforeOf(q) /\ UniqueIn(r)
  <2>1. Len(r) = Len(q) /\ \A j \in 1..Len(q) : r[j].task_id = q[j].task_id
    BY <1>1, <1>3
  <2> QED
    BY <2>1, SameIds
<1>5. DoneOf(r) = DoneOf(q) \cup {q[i].task_id}
  <2>1. \A x : x \in DoneOf(r) <=>
           \E j \in 1..n : r[j].status = "completed" /\ x = r[j].task_id
    BY <1>3 DEF DoneOf
  <2>2. \A x : x \in DoneOf(q) <=>
           \E j \in 1..n : q[j].status = "completed" /\ x = q[j].task_id
    BY <1>1 DEF DoneOf
  <2>3. i \in 1..n
    BY <1>1
  <2>4. \A x : x \in DoneOf(r) <=> x \in DoneOf(q) \/ x = q[i].task_id
    <3>1. ASSUME NEW x \in DoneOf(r), x # q[i].task_id PROVE x \in DoneOf(q)
      <4>1. PICK j \in 1..n : r[j].status = "completed" /\ x = r[j].task_id
        BY <2>1, <3>1
      <4>2. j # i /\ r[j] = q[j]
        BY <1>3, <3>1, <4>1
      <4> QED
        BY <2>2, <4>1, <4>2
    <3>2. ASSUME NEW x \in DoneOf(q) PROVE x \in DoneOf(r) \/ x = q[i].task_id
      <4>1. PICK j \in 1..n : q[j].status = "completed" /\ x = q[j].task_id
        BY <2>2, <3>2
      <4>2. j # i => r[j] = q[j]
        BY <1>3
      <4> QED
        BY <2>1, <4>1, <4>2
    <3>3. q[i].task_id \in DoneOf(r)
      BY <1>3, <2>1, <2>3
    <3> QED
      BY <3>1, <3>2, <3>3
  <2> QED
    BY <2>4
<1>6. q[i].task_id \in IdsOf(q)
  BY DEF IdsOf
<1> QED
  BY <1>4, <1>5, <1>6 DEF Finishes

\* Update: the agenda does not see it.
LEMMA Described ==
  ASSUME NEW q \in Seq(Tasks), UniqueIn(q), NEW i \in 1..Len(q), NEW description,
         NEW r, r = [q EXCEPT ![i].description = description]
  PROVE  Rests(q, r) /\ UniqueIn(r)
<1>1. q[i] \in Tasks
  OBVIOUS
<1>2. r[i] = [q[i] EXCEPT !.description = description]
  OBVIOUS
<1>3. r[i].task_id = q[i].task_id /\ r[i].status = q[i].status
  BY <1>1, <1>2 DEF Tasks
<1>4. /\ Len(r) = Len(q)
      /\ \A j \in 1..Len(q) : r[j].task_id = q[j].task_id /\ r[j].status = q[j].status
  BY <1>3
<1>5. IdsOf(r) = IdsOf(q) /\ BeforeOf(r) = BeforeOf(q) /\ UniqueIn(r)
  BY <1>4, SameIds
<1>6. DoneOf(r) = DoneOf(q)
  BY <1>4 DEF DoneOf
<1> QED
  BY <1>5, <1>6 DEF Rests

LEMMA QueueStep ==
  ASSUME Typed, UniqueIn(tasks), [Next]_vars
  PROVE  /\ \/ Rests(tasks, tasks')
            \/ \E id \in TaskIds : \/ Adds(tasks, tasks', id)
                                   \/ Finishes(tasks, tasks', id)
                                   \/ Takes(tasks, tasks', id)
         /\ UniqueIn(tasks')
<1>0. tasks \in Seq(Tasks)
  BY DEF Typed, TypeOK
<1>1. ASSUME NEW id \in TaskIds, NEW description \in Descriptions, Push(id, description)
      PROVE  Adds(tasks, tasks', id) /\ UniqueIn(tasks')
  <2> DEFINE t == [task_id |-> id, description |-> description, status |-> "pending"]
  <2>1. t \in Tasks /\ t.task_id = id /\ t.status = "pending"
    BY DEF Tasks, Statuses
  <2>2. id \notin IdsOf(tasks) /\ tasks' = Append(tasks, t)
    BY <1>1, OfQueue DEF Push
  <2> HIDE DEF t
  <2> QED
    BY <1>0, <2>1, <2>2, Appended
<1>2. ASSUME NEW id \in TaskIds, NEW description, Update(id, description)
      PROVE  Rests(tasks, tasks') /\ UniqueIn(tasks')
  <2>1. PICK i \in 1..Len(tasks) :
           tasks' = IF description = NotGiven THEN tasks
                    ELSE [tasks EXCEPT ![i].description = description]
    BY <1>2 DEF Update
  <2>2. CASE description = NotGiven
    BY <2>1, <2>2 DEF Rests
  <2>3. CASE description # NotGiven
    <3>1. tasks' = [tasks EXCEPT ![i].description = description]
      BY <2>1, <2>3
    <3> QED
      BY <1>0, <2>1, <3>1, Described, Zenon
  <2> QED
    BY <2>2, <2>3
<1>3. ASSUME NEW id \in TaskIds, Complete(id)
      PROVE  Finishes(tasks, tasks', id) /\ UniqueIn(tasks')
  <2>1. PICK i \in 1..Len(tasks) :
           tasks[i].task_id = id /\ tasks' = [tasks EXCEPT ![i].status = "completed"]
    BY <1>3 DEF Complete
  <2> QED
    BY <1>0, <2>1, Completed
<1>4. CASE Pop
  <2>1. tasks # <<>> /\ tasks' = Tail(tasks)
    BY <1>4 DEF Pop
  <2>2. tasks[1].task_id \in TaskIds
    <3>1. tasks[1] \in Tasks
      BY <1>0, <2>1
    <3> QED
      BY <3>1 DEF Tasks
  <2>3. Takes(tasks, tasks', tasks[1].task_id) /\ UniqueIn(tasks')
    BY <1>0, <2>1, Popped, Zenon
  <2> QED
    BY <2>2, <2>3
<1>5. ASSUME UNCHANGED tasks PROVE Rests(tasks, tasks') /\ UniqueIn(tasks')
  BY <1>5 DEF Rests
<1>6. CASE TaskCall
  BY <1>1, <1>2, <1>3, <1>4, <1>5, <1>6 DEF TaskCall, TasksUntouched
<1>7. ASSUME ~TaskCall PROVE UNCHANGED tasks
  BY <1>7 DEF Next, FileCall, ReadFile, ReadAnswer, WriteFile, EditRead, EditWrite,
     CommandWrites, DispatchRaises, Raised, vars
<1> QED
  BY <1>5, <1>6, <1>7

LEMMA UniqueAlways == Spec => []TaskIdsUnique
<1>1. Init => TaskIdsUnique
  BY DEF Init, TaskIdsUnique
<1>2. Typed /\ TaskIdsUnique /\ [Next]_vars => TaskIdsUnique'
  BY QueueStep, OfQueue
<1> QED
  BY <1>1, <1>2, TypedAlways, PTL DEF Spec

\* After any sequence of calls, no two tasks of the queue have one id, so that
\* complete and update find the task that was pushed under it.
THEOREM TaskIdsAreUnique == Spec => []TaskIdsUnique
  BY UniqueAlways

LEMMA AgendaInitially == Init => Agenda!AgendaInit
<1> SUFFICES ASSUME Init PROVE Agenda!AgendaInit
  OBVIOUS
<1>1. tasks = <<>> /\ 1..Len(tasks) = {}
  BY DEF Init
<1> QED
  BY <1>1 DEF Agenda!AgendaInit, Ids

LEMMA AgendaStep ==
  Typed /\ TaskIdsUnique /\ [Next]_vars =>
      [Agenda!AgendaNext]_<<Ids, DoneOf(tasks), BeforeOf(tasks)>>
<1> SUFFICES ASSUME Typed, TaskIdsUnique, [Next]_vars
             PROVE  Agenda!AgendaNext \/ UNCHANGED <<Ids, DoneOf(tasks), BeforeOf(tasks)>>
  OBVIOUS
<1>1. \/ Rests(tasks, tasks')
      \/ \E id \in TaskIds : \/ Adds(tasks, tasks', id)
                             \/ Finishes(tasks, tasks', id)
                             \/ Takes(tasks, tasks', id)
  BY OfQueue, QueueStep
<1>2. ASSUME NEW id \in TaskIds, Adds(tasks, tasks', id) PROVE Agenda!Add(id)
  BY <1>2, OfQueue DEF Agenda!Add, Adds, DoneOf, BeforeOf
<1>3. ASSUME NEW id \in TaskIds, Finishes(tasks, tasks', id) PROVE Agenda!Finish(id)
  BY <1>3, OfQueue DEF Agenda!Finish, Finishes, DoneOf, BeforeOf
<1>4. ASSUME NEW id \in TaskIds, Takes(tasks, tasks', id) PROVE Agenda!Take(id)
  BY <1>4, OfQueue DEF Agenda!Take, Takes, DoneOf, BeforeOf
<1>5. ASSUME Rests(tasks, tasks') PROVE UNCHANGED <<Ids, DoneOf(tasks), BeforeOf(tasks)>>
  BY <1>5, OfQueue DEF Rests
<1> QED
  BY <1>1, <1>2, <1>3, <1>4, <1>5 DEF Agenda!AgendaNext

\* The queue implements TaskAgenda: tasks are taken in the order of their pushes
\* and only by pop, and one that is completed stays so.
THEOREM Refinement == Spec => ImplementsAgenda
<1>1. Spec => [][Agenda!AgendaNext]_<<Ids, DoneOf(tasks), BeforeOf(tasks)>>
  BY AgendaStep, TypedAlways, UniqueAlways, PTL DEF Spec
<1> QED
  BY <1>1, AgendaInitially, PTL DEF Spec, ImplementsAgenda, Agenda!AgendaSpec, DoneOf, BeforeOf

=============================================================================
