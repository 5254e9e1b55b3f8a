------------------------- MODULE HandlerListProofs -------------------------
(***************************************************************************)
(* Proof that Pipeline implements HandlerList: the contexts met on the way *)
(* from the head change as the operation promises, by one insertion, one   *)
(* removal or a clearing, in one of its pointer assignments, and in no     *)
(* other step; and the way back is whole when it has ended.                *)
(*                                                                         *)
(* The listed contexts that PipelineProofs knows as a set are put in a row *)
(* here: s[1], ..., s[n] are what the walk from the head meets.            *)
(***************************************************************************)
EXTENDS PipelineProofs, SequenceTheorems

----------------------------------------------------------------------------
(* The walk from the head.                                                 *)

\* The links of f lead from the head through the contexts s[1], ..., s[n].
Row(f, n, s) ==
  /\ n \in Nat /\ s \in [0..n -> Nodes] /\ s[0] = Head0
  /\ \A i \in 1..n : s[i] \in Contexts /\ s[i] = f[s[i - 1]]
  /\ \A i, j \in 1..n : s[i] = s[j] => i = j
  /\ f[s[n]] \in {Tail0, Nil} /\ f[Tail0] = Nil

\* A row is no longer than there are nodes.
LEMMA RowIsShort ==
  ASSUME NEW f, NEW n, NEW s, Row(f, n, s)
  PROVE  n <= Cardinality(Nodes) /\ Cardinality({s[i] : i \in 1..n}) = n
<1> DEFINE S == {s[i] : i \in 1..n}
           g == [i \in 1..n |-> s[i]]
<1>1. n \in Nat /\ IsFiniteSet(1..n) /\ Cardinality(1..n) = n
  <2>1. n \in Nat
    BY DEF Row
  <2>2. IsFiniteSet(1..n) /\ Cardinality(1..n) = IF 1 <= n THEN n - 1 + 1 ELSE 0
    BY <2>1, FS_Interval
  <2> QED BY <2>1, <2>2
<1>2. S \subseteq Nodes
  BY DEF Row
<1>3. IsFiniteSet(S) /\ Cardinality(S) <= Cardinality(Nodes)
  BY <1>2, NodeCount, FS_Subset
<1>4. g \in Bijection(1..n, S)
  BY DEF Row, Bijection, Injection, Surjection, IsInjective
<1>5. Cardinality(S) = n
  <2>1. Cardinality(1..n) = Cardinality(S)
    BY <1>1, <1>3, <1>4, FS_Bijection DEF ExistsBijection
  <2> QED BY <1>1, <2>1
<1> QED BY <1>3, <1>5

\* The walk along f meets the row, and then nothing but the tail.
LEMMA WalkIsRow ==
  ASSUME NEW f \in [Nodes -> Links], NEW n, NEW s, Row(f, n, s)
  PROVE  /\ \A i \in 1..n : Walk(f, Head0)[i] = s[i]
         /\ Contexts \cap PathSet(f, Head0) = {s[i] : i \in 1..n}
<1> DEFINE C == Cardinality(Nodes)
           w == Walk(f, Head0)
           K == {k \in Nat : k <= C => IF k <= n THEN w[k] = s[k] ELSE w[k] \in {Tail0, Nil}}
<1>1. C \in Nat /\ n \in Nat /\ n <= C
  BY NodeCount, RowIsShort, Zenon DEF Row
<1>2. w[0] = Head0 /\ \A i \in 1..C : w[i] = IF w[i - 1] = Nil THEN Nil ELSE f[w[i - 1]]
  <2>1. Head0 \in Links
    BY NodeFacts
  <2> QED BY <2>1, WalkStep
<1>3. PathSet(f, Head0) = {w[i] : i \in 1..C} \ {Nil}
  BY DEF PathSet
<1> HIDE DEF C, w
<1>4. 0 \in K
  BY <1>1, <1>2 DEF Row
<1>5. ASSUME NEW k \in Nat, k \in K PROVE k + 1 \in K
  <2> SUFFICES ASSUME k + 1 <= C
               PROVE  IF k + 1 <= n THEN w[k + 1] = s[k + 1] ELSE w[k + 1] \in {Tail0, Nil}
    OBVIOUS
  <2>1. w[k + 1] = IF w[k] = Nil THEN Nil ELSE f[w[k]]
    BY <1>1, <1>2
  <2>2. CASE k <= n
    <3>1. w[k] = s[k] /\ w[k] # Nil
      BY <1>1, <1>5, <2>2, NodeFacts DEF Row
    <3>2. k + 1 <= n => s[k + 1] = f[s[k]]
      BY <1>1 DEF Row
    <3>3. k + 1 <= n \/ k = n
      BY <1>1, <2>2
    <3> QED BY <1>1, <2>1, <3>1, <3>2, <3>3 DEF Row
  <2>3. CASE ~(k <= n)
    BY <1>1, <1>5, <2>1, <2>3 DEF Row
  <2> QED BY <2>2, <2>3
<1>6. Nat \subseteq K
  BY <1>4, <1>5, NatSetInduction, Zenon
<1>7. \A i \in 1..C : IF i <= n THEN w[i] = s[i] ELSE w[i] \in {Tail0, Nil}
  BY <1>1, <1>6
<1>8. \A i \in 1..n : i \in 1..C /\ w[i] = s[i] /\ s[i] \in Contexts /\ s[i] # Nil
  BY <1>1, <1>7, NodeFacts DEF Row
<1>9. Contexts \cap PathSet(f, Head0) = {s[i] : i \in 1..n}
  <2>1. ASSUME NEW i \in 1..C, w[i] \in Contexts PROVE \E j \in 1..n : w[i] = s[j]
    BY <1>1, <1>7, <2>1, NodeFacts
  <2> QED BY <1>3, <1>8, <2>1
<1> QED BY <1>8, <1>9 DEF w

\* So it is what Forward lists.
LEMMA ForwardIsRow ==
  ASSUME next \in [Nodes -> Links], NEW n, NEW s, Row(next, n, s)
  PROVE  Forward = [i \in 1..n |-> s[i]]
<1>1. /\ \A i \in 1..n : Walk(next, Head0)[i] = s[i]
      /\ Contexts \cap PathSet(next, Head0) = {s[i] : i \in 1..n}
  BY WalkIsRow
<1>2. Cardinality(Contexts \cap PathSet(next, Head0)) = n
  BY <1>1, RowIsShort
<1> QED BY <1>1, <1>2 DEF Forward

\* The same of the next state.
LEMMA ForwardWillBeRow ==
  ASSUME next' \in [Nodes -> Links], NEW n, NEW s, Row(next', n, s)
  PROVE  Forward' = [i \in 1..n |-> s[i]]
<1>1. /\ \A i \in 1..n : Walk(next', Head0)[i] = s[i]
      /\ Contexts \cap PathSet(next', Head0) = {s[i] : i \in 1..n}
  BY WalkIsRow
<1>2. Cardinality(Contexts \cap PathSet(next', Head0)) = n
  BY <1>1, RowIsShort
<1> QED BY <1>1, <1>2 DEF Forward

----------------------------------------------------------------------------
(* The list as a row.                                                      *)

\* s holds what k steps from the head meet, in the order of the rank, and what
\* else is listed comes later.
Begins(L, r, k, s) ==
  /\ s \in [0..k -> From(L)] /\ s[0] = Head0
  /\ \A i \in 1..k : s[i] \in L /\ s[i] = next[s[i - 1]]
  /\ \A i, j \in 0..k : i < j => r[s[i]] < r[s[j]]
  /\ \A z \in L : (\E i \in 1..k : z = s[i]) \/ r[s[k]] < r[z]

\* From the last of them the link leads to the next listed context, or out of
\* the list, which is then complete.
LEMMA OneStepOn ==
  ASSUME TypeOK, NEW L \in SUBSET Contexts, NEW r \in [Nodes -> Nat], ListInv(L, r),
         NEW k \in Nat, NEW s, Begins(L, r, k, s)
  PROVE  \/ Row(next, k, s) /\ L = {s[i] : i \in 1..k}
         \/ \E q : Begins(L, r, k + 1, q)
<1> USE NodeFacts
<1>1. PICK x : x = s[k]
  OBVIOUS
<1>2. Ranked(r) /\ Forwards(L, r)
  BY DEF ListInv
<1>3. /\ On(L) \subseteq created /\ created \subseteq Nodes /\ From(L) \subseteq On(L)
      /\ Tail0 \notin L /\ x \in From(L) /\ From(L) \subseteq Nodes
      /\ \A y \in From(L) : r[y] \in Nat
  <2>1. x \in From(L)
    BY <1>1 DEF Begins
  <2>2. /\ On(L) \subseteq created /\ created \subseteq Nodes /\ From(L) \subseteq On(L)
        /\ Tail0 \notin L
    BY ListFacts
  <2> QED BY <2>1, <2>2
<1>4. Fwd(x) \in Into(L) /\ \A z \in On(L) : ~(r[x] < r[z] /\ r[z] < r[Fwd(x)])
  BY <1>2, <1>3 DEF Forwards
<1>5. CASE Fwd(x) = Tail0
  <2>1. \A z \in L : \E i \in 1..k : z = s[i]
    BY <1>1, <1>2, <1>4, <1>5 DEF Forwards, Begins, On
  <2>2. \A i, j \in 1..k : s[i] = s[j] => i = j
    BY <1>3 DEF Begins
  <2>3. next[s[k]] \in {Tail0, Nil} /\ next[Tail0] = Nil
    BY <1>1, <1>2, <1>5 DEF Fwd, Forwards
  <2>4. s \in [0..k -> Nodes]
    BY <1>3 DEF Begins
  <2> QED BY <2>1, <2>2, <2>3, <2>4 DEF Begins, Row
<1>6. CASE Fwd(x) # Tail0
  <2>1. PICK y : y = next[x]
    OBVIOUS
  <2>2. y \in L /\ y \in From(L) /\ y \in On(L) /\ y = Fwd(x) /\ r[x] < r[y]
    BY <1>2, <1>3, <1>4, <1>6, <2>1 DEF Fwd, Into, From, On, Ranked
  <2>3. \A z \in L : r[x] < r[z] => z = y \/ r[y] < r[z]
    <3> SUFFICES ASSUME NEW z \in L, r[x] < r[z], ~(r[y] < r[z]) PROVE z = y
      OBVIOUS
    <3>1. z \in From(L) /\ z \in On(L) /\ r[z] \in Nat /\ r[y] \in Nat
      BY <1>3, <2>2 DEF From
    <3>2. r[z] = r[y]
      BY <1>4, <2>2, <3>1
    <3> QED BY <1>2, <1>3, <2>2, <3>1, <3>2 DEF Ranked
  <2> DEFINE q == [i \in 0..(k + 1) |-> IF i = k + 1 THEN y ELSE s[i]]
  <2>4. q \in [0..(k + 1) -> From(L)] /\ q[0] = Head0
    BY <2>2 DEF Begins
  <2>5. \A i \in 1..(k + 1) : q[i] \in L /\ q[i] = next[q[i - 1]]
    <3> SUFFICES ASSUME NEW i \in 1..(k + 1) PROVE q[i] \in L /\ q[i] = next[q[i - 1]]
      BY Zenon
    <3>1. CASE i = k + 1
      <4>1. q[i] = y /\ q[i - 1] = s[k]
        BY <3>1
      <4> QED BY <1>1, <2>1, <2>2, <4>1, Zenon
    <3>2. CASE i # k + 1
      <4>1. i \in 1..k /\ q[i] = s[i] /\ q[i - 1] = s[i - 1]
        BY <3>2
      <4> QED BY <4>1 DEF Begins
    <3> QED BY <3>1, <3>2
  <2>6. \A i, j \in 0..(k + 1) : i < j => r[q[i]] < r[q[j]]
    <3> SUFFICES ASSUME NEW i \in 0..(k + 1), NEW j \in 0..(k + 1), i < j
                 PROVE  r[q[i]] < r[q[j]]
      OBVIOUS
    <3>1. CASE j = k + 1
      <4>1. i \in 0..k /\ q[i] = s[i] /\ q[j] = y
        BY <3>1
      <4>2. r[s[i]] < r[x] \/ s[i] = x
        BY <1>1, <4>1 DEF Begins
      <4>3. s[i] \in From(L)
        BY <4>1 DEF Begins
      <4>4. r[s[i]] \in Nat /\ r[x] \in Nat /\ r[y] \in Nat
        BY <1>3, <2>2, <4>3
      <4> QED BY <2>2, <4>1, <4>2, <4>4
    <3>2. CASE j # k + 1
      BY <3>2 DEF Begins
    <3> QED BY <3>1, <3>2
  <2>7. \A z \in L : (\E i \in 1..(k + 1) : z = q[i]) \/ r[q[k + 1]] < r[z]
    <3>3. q[k + 1] = y /\ \A i \in 1..k : q[i] = s[i] /\ i \in 1..(k + 1)
      OBVIOUS
    <3> HIDE DEF q
    <3> SUFFICES ASSUME NEW z \in L, ~(r[y] < r[z]) PROVE \E i \in 1..(k + 1) : z = q[i]
      BY <3>3
    <3>1. CASE \E i \in 1..k : z = s[i]
      BY <3>1, <3>3
    <3>2. CASE z = y
      <4>1. k + 1 \in 1..(k + 1)
        OBVIOUS
      <4> QED BY <3>2, <3>3, <4>1
    <3> QED BY <1>1, <2>3, <3>1, <3>2 DEF Begins
  <2> HIDE DEF q
  <2>8. Begins(L, r, k + 1, q)
    BY <2>4, <2>5, <2>6, <2>7 DEF Begins
  <2> QED BY <2>8
<1> QED BY <1>5, <1>6

\* There are too few nodes to go on for ever: whatever is listed is a row.
LEMMA ListIsRow ==
  ASSUME TypeOK, NEW L \in SUBSET Contexts, NEW r \in [Nodes -> Nat], ListInv(L, r)
  PROVE  \E n, s : Row(next, n, s) /\ L = {s[i] : i \in 1..n}
<1> DEFINE Found == \E n, s : Row(next, n, s) /\ L = {s[i] : i \in 1..n}
           K == {k \in Nat : Found \/ \E s : Begins(L, r, k, s)}
<1>1. 0 \in K
  <2>1. PICK s : s = [i \in 0..0 |-> Head0]
    BY Zenon
  <2>2. Ranked(r) /\ Forwards(L, r)
    BY DEF ListInv
  <2>3. Begins(L, r, 0, s)
    BY <2>1, <2>2 DEF Begins, From, Forwards
  <2> QED BY <2>3
<1>2. ASSUME NEW k \in Nat, k \in K PROVE k + 1 \in K
  BY <1>2, OneStepOn
<1> DEFINE C == Cardinality(Nodes)
<1>3. IsFiniteSet(Nodes) /\ C \in Nat
  BY NodeCount
<1>4. Nat \subseteq K
  <2> HIDE DEF K
  <2> QED BY <1>1, <1>2, NatSetInduction
<1>5. ASSUME NEW s, Begins(L, r, C, s) PROVE FALSE
  <2> HIDE DEF C
  <2>1. From(L) \subseteq Nodes /\ \A y \in From(L) : r[y] \in Nat
    BY NodeFacts DEF From
  <2>2. s \in [0..C -> Nodes] /\ \A i, j \in 0..C : s[i] = s[j] => i = j
    BY <1>3, <1>5, <2>1 DEF Begins
  <2>3. IsFiniteSet(0..C) /\ Cardinality(0..C) = C + 1
    <3>1. IsFiniteSet(0..C) /\ Cardinality(0..C) = IF 0 <= C THEN C - 0 + 1 ELSE 0
      BY <1>3, FS_Interval
    <3> QED BY <1>3, <3>1
  <2>4. Cardinality(Nodes) < Cardinality(0..C)
    BY <1>3, <2>3 DEF C
  <2> QED BY <1>3, <2>2, <2>3, <2>4, FS_PigeonHole
<1>6. C \in K
  BY <1>3, <1>4
<1> QED BY <1>5, <1>6

----------------------------------------------------------------------------
(* What a pointer assignment does to the row, and so to the list.          *)

\* Where the links of the listed contexts stay, or only the last is broken, the
\* pipeline lists what it did.
LEMMA SameList ==
  ASSUME TypeOK, TypeOK', NEW L \in SUBSET Contexts, NEW n, NEW s,
         Row(next, n, s), L = {s[i] : i \in 1..n},
         \A x \in From(L) : next'[x] = next[x] \/ (next[x] = Tail0 /\ next'[x] = Nil),
         next'[Tail0] = Nil
  PROVE  Forward' = Forward
<1> USE NodeFacts
<1>1. n \in Nat /\ \A i \in 0..n : s[i] \in From(L)
  BY DEF Row, From
<1>2. \A i \in 1..n : s[i] = next'[s[i - 1]]
  <2> SUFFICES ASSUME NEW i \in 1..n PROVE s[i] = next'[s[i - 1]]
    OBVIOUS
  <2>1. s[i] = next[s[i - 1]] /\ s[i] # Tail0 /\ s[i - 1] \in From(L)
    BY <1>1 DEF Row
  <2> QED BY <2>1
<1>3. next'[s[n]] \in {Tail0, Nil}
  <2>1. next[s[n]] \in {Tail0, Nil} /\ n \in 0..n
    BY <1>1 DEF Row
  <2> QED BY <1>1, <2>1
<1>4. Row(next', n, s)
  BY <1>2, <1>3 DEF Row
<1>5. Forward = [i \in 1..n |-> s[i]]
  BY ForwardIsRow DEF TypeOK
<1>6. Forward' = [i \in 1..n |-> s[i]]
  BY <1>4, ForwardWillBeRow DEF TypeOK
<1> QED BY <1>5, <1>6

\* What the abstract list becomes, element by element, when c is put in ...
LEMMA InsertedIs ==
  ASSUME NEW t \in Seq(Nodes), NEW k \in 0..Len(t), NEW c \in Nodes,
         NEW g, g = Abstract!InsertedAt(t, k + 1, c)
  PROVE  /\ g \in Seq(Nodes) /\ Len(g) = Len(t) + 1
         /\ \A i \in 1..(Len(t) + 1) :
              g[i] = IF i <= k THEN t[i] ELSE IF i = k + 1 THEN c ELSE t[i - 1]
<1>1. PICK n, a, b : n = Len(t) /\ a = SubSeq(t, 1, k) /\ b = SubSeq(t, k + 1, n)
  BY Zenon
<1>2. n \in Nat /\ \A i \in 1..n : t[i] \in Nodes
  BY <1>1
<1>3. a \in Seq(Nodes) /\ Len(a) = k /\ \A i \in 1..k : a[i] = t[i]
  <2>1. \A i \in 1..k : t[i] \in Nodes
    BY <1>1, <1>2
  <2> QED BY <1>1, <1>2, <2>1, SubSeqProperties
<1>4. b \in Seq(Nodes) /\ Len(b) = n - k /\ \A i \in 1..(n - k) : b[i] = t[k + i]
  <2>1. \A i \in (k + 1)..n : t[i] \in Nodes
    BY <1>1, <1>2
  <2>2. /\ b \in Seq(Nodes) /\ Len(b) = IF k + 1 <= n THEN n - (k + 1) + 1 ELSE 0
        /\ \A i \in 1..(n - (k + 1) + 1) : b[i] = t[(k + 1) + i - 1]
    BY <1>1, <1>2, <2>1, SubSeqProperties
  <2> QED BY <1>1, <1>2, <2>2
<1>5. PICK d : d = a \o <<c>>
  BY Zenon
<1>6. d \in Seq(Nodes) /\ Len(d) = k + 1 /\ \A i \in 1..(k + 1) : d[i] = IF i <= k THEN t[i] ELSE c
  <2>1. <<c>> \in Seq(Nodes) /\ Len(<<c>>) = 1 /\ <<c>>[1] = c
    OBVIOUS
  <2>2. /\ d \in Seq(Nodes) /\ Len(d) = k + 1
        /\ \A i \in 1..(k + 1) : d[i] = IF i <= k THEN a[i] ELSE <<c>>[i - k]
    BY <1>3, <1>5, <2>1, ConcatProperties
  <2> QED BY <1>3, <2>1, <2>2
<1>7. PICK e : e = d \o b
  BY Zenon
<1>8. /\ e \in Seq(Nodes) /\ Len(e) = n + 1
      /\ \A i \in 1..(n + 1) : e[i] = IF i <= k + 1 THEN d[i] ELSE b[i - (k + 1)]
  <2>1. /\ e \in Seq(Nodes) /\ Len(e) = Len(d) + Len(b)
        /\ \A i \in 1..(Len(d) + Len(b)) : e[i] = IF i <= Len(d) THEN d[i] ELSE b[i - Len(d)]
    BY <1>4, <1>6, <1>7, ConcatProperties
  <2>2. Len(d) + Len(b) = n + 1
    <3>1. n \in Int /\ k \in Int
      BY <1>1, <1>2
    <3>2. Len(d) = k + 1 /\ Len(b) = n - k
      BY <1>4, <1>6
    <3> QED BY <3>1, <3>2
  <2> QED BY <1>6, <2>1, <2>2
<1>9. \A i \in 1..(n + 1) : e[i] = IF i <= k THEN t[i] ELSE IF i = k + 1 THEN c ELSE t[i - 1]
  <2> SUFFICES ASSUME NEW i \in 1..(n + 1)
               PROVE  e[i] = IF i <= k THEN t[i] ELSE IF i = k + 1 THEN c ELSE t[i - 1]
    OBVIOUS
  <2>1. CASE i <= k + 1
    BY <1>1, <1>2, <1>6, <1>8, <2>1
  <2>2. CASE i > k + 1
    <3>1. i - (k + 1) \in 1..(n - k) /\ k + (i - (k + 1)) = i - 1 /\ ~(i <= k + 1)
      BY <1>1, <1>2, <2>2
    <3>2. e[i] = t[i - 1]
      BY <1>4, <1>8, <3>1
    <3> QED BY <1>1, <1>2, <2>2, <3>2
  <2> QED BY <1>1, <1>2, <2>1, <2>2
<1>10. g = e
  <2>1. (k + 1) - 1 = k
    OBVIOUS
  <2> QED BY <1>1, <1>5, <1>7, <2>1, Zenon DEF Abstract!InsertedAt
<1> QED BY <1>1, <1>2, <1>8, <1>9, <1>10

\* ... and when its element k is taken out.
LEMMA RemovedIs ==
  ASSUME NEW S, NEW t \in Seq(S), NEW k \in 1..Len(t)
  PROVE  /\ SubSeq(t, 1, k - 1) \o SubSeq(t, k + 1, Len(t)) \in Seq(S)
         /\ Len(SubSeq(t, 1, k - 1) \o SubSeq(t, k + 1, Len(t))) = Len(t) - 1
         /\ \A i \in 1..(Len(t) - 1) : (SubSeq(t, 1, k - 1) \o SubSeq(t, k + 1, Len(t)))[i] =
              IF i < k THEN t[i] ELSE t[i + 1]
<1>1. PICK n, a, b : n = Len(t) /\ a = SubSeq(t, 1, k - 1) /\ b = SubSeq(t, k + 1, n)
  BY Zenon
<1>2. n \in Nat /\ \A i \in 1..n : t[i] \in S
  BY <1>1
<1>3. a \in Seq(S) /\ Len(a) = k - 1 /\ \A i \in 1..(k - 1) : a[i] = t[i]
  <2>1. \A i \in 1..(k - 1) : t[i] \in S
    BY <1>1, <1>2
  <2>2. /\ a \in Seq(S) /\ Len(a) = IF 1 <= k - 1 THEN (k - 1) - 1 + 1 ELSE 0
        /\ \A i \in 1..((k - 1) - 1 + 1) : a[i] = t[1 + i - 1]
    BY <1>1, <1>2, <2>1, SubSeqProperties
  <2> QED BY <1>1, <1>2, <2>2
<1>4. b \in Seq(S) /\ Len(b) = n - k /\ \A i \in 1..(n - k) : b[i] = t[k + i]
  <2>1. \A i \in (k + 1)..n : t[i] \in S
    BY <1>1, <1>2
  <2>2. /\ b \in Seq(S) /\ Len(b) = IF k + 1 <= n THEN n - (k + 1) + 1 ELSE 0
        /\ \A i \in 1..(n - (k + 1) + 1) : b[i] = t[(k + 1) + i - 1]
    BY <1>1, <1>2, <2>1, SubSeqProperties
  <2> QED BY <1>1, <1>2, <2>2
<1>5. PICK e : e = a \o b
  BY Zenon
<1>6. /\ e \in Seq(S) /\ Len(e) = n - 1
      /\ \A i \in 1..(n - 1) : e[i] = IF i <= k - 1 THEN a[i] ELSE b[i - (k - 1)]
  <2>1. /\ e \in Seq(S) /\ Len(e) = Len(a) + Len(b)
        /\ \A i \in 1..(Len(a) + Len(b)) : e[i] = IF i <= Len(a) THEN a[i] ELSE b[i - Len(a)]
    BY <1>3, <1>4, <1>5, ConcatProperties
  <2>2. Len(a) + Len(b) = n - 1
    <3>1. n \in Int /\ k \in Int
      BY <1>1, <1>2
    <3>2. Len(a) = k - 1 /\ Len(b) = n - k
      BY <1>3, <1>4
    <3> QED BY <3>1, <3>2
  <2> QED BY <1>3, <2>1, <2>2, Zenon
<1>7. \A i \in 1..(n - 1) : e[i] = IF i < k THEN t[i] ELSE t[i + 1]
  <2> SUFFICES ASSUME NEW i \in 1..(n - 1) PROVE e[i] = IF i < k THEN t[i] ELSE t[i + 1]
    OBVIOUS
  <2>1. CASE i < k
    BY <1>1, <1>2, <1>3, <1>6, <2>1
  <2>2. CASE ~(i < k)
    <3>1. i - (k - 1) \in 1..(n - k) /\ k + (i - (k - 1)) = i + 1 /\ ~(i <= k - 1)
      BY <1>1, <1>2, <2>2
    <3>2. e[i] = t[i + 1]
      BY <1>4, <1>6, <3>1
    <3> QED BY <2>2, <3>2
  <2> QED BY <2>1, <2>2
<1> QED BY <1>1, <1>5, <1>6, <1>7, Zenon

\* A context linked behind a listed one is inserted there, before its target.
LEMMA LinkedIsAdded ==
  ASSUME TypeOK, TypeOK', NEW L \in SUBSET Contexts, NEW n, NEW s,
         Row(next, n, s), L = {s[i] : i \in 1..n},
         NEW a \in From(L), NEW c \in Contexts \ L, next[a] = target,
         next[c] = next[a], next' = [next EXCEPT ![a] = c]
  PROVE  \E i \in 1..(Len(Forward) + 1) :
           Abstract!Place(i) /\ Forward' = Abstract!InsertedAt(Forward, i, c)
<1> USE NodeFacts
<1>1. n \in Nat /\ \A i \in 1..n : s[i] \in L /\ s[i] \in Contexts
  BY DEF Row
<1>2. PICK k \in 0..n : a = s[k]
  BY <1>1 DEF From, Row
<1>3. PICK q : q = [i \in 0..(n + 1) |-> IF i <= k THEN s[i] ELSE IF i = k + 1 THEN c ELSE s[i - 1]]
  BY Zenon
<1>4. /\ a # c /\ a # Tail0 /\ c # Tail0
      /\ \A x \in Nodes : next'[x] = IF x = a THEN c ELSE next[x]
  BY DEF From, TypeOK
<1>5. \A i \in 0..n : s[i] = a => i = k
  BY <1>1, <1>2 DEF Row
<1>6. Row(next', n + 1, q)
  <2>1. q \in [0..(n + 1) -> Nodes] /\ q[0] = Head0
    BY <1>1, <1>3 DEF Row
  <2>2. \A i \in 1..(n + 1) : q[i] \in Contexts
    <3> SUFFICES ASSUME NEW i \in 1..(n + 1) PROVE q[i] \in Contexts
      OBVIOUS
    <3>1. i \in 0..(n + 1) /\ (i <= k => i \in 1..n) /\ (i > k + 1 => i - 1 \in 1..n)
      BY <1>1
    <3>2. q[i] = IF i <= k THEN s[i] ELSE IF i = k + 1 THEN c ELSE s[i - 1]
      BY <1>3, <3>1
    <3> QED BY <1>1, <3>1, <3>2
  <2>3. \A i \in 1..(n + 1) : q[i] = next'[q[i - 1]]
    <3> SUFFICES ASSUME NEW i \in 1..(n + 1) PROVE q[i] = next'[q[i - 1]]
      OBVIOUS
    <3>1. CASE i <= k
      <4>1. i \in 1..n /\ q[i] = s[i] /\ q[i - 1] = s[i - 1] /\ i - 1 \in 0..n /\ i - 1 # k
        BY <1>1, <1>3, <3>1
      <4>2. s[i - 1] \in Nodes /\ s[i - 1] # a /\ s[i] = next[s[i - 1]]
        BY <1>5, <4>1 DEF Row
      <4> QED BY <1>4, <4>1, <4>2
    <3>2. CASE i = k + 1
      <4>1. q[i] = c /\ q[i - 1] = s[k]
        BY <1>1, <1>3, <3>2
      <4> QED BY <1>2, <1>4, <4>1 DEF Row
    <3>3. CASE i = k + 2
      <4>1. q[i] = s[k + 1] /\ q[i - 1] = c /\ k + 1 \in 1..n
        BY <1>1, <1>3, <3>3
      <4>2. s[k + 1] = next[s[k]]
        BY <4>1 DEF Row
      <4> QED BY <1>2, <1>4, <4>1, <4>2
    <3>4. CASE i > k + 2
      <4>1. /\ q[i] = s[i - 1] /\ q[i - 1] = s[(i - 1) - 1] /\ i - 1 \in 1..n
            /\ (i - 1) - 1 \in 0..n /\ (i - 1) - 1 # k
        BY <1>1, <1>3, <3>4
      <4>2. s[(i - 1) - 1] \in Nodes /\ s[(i - 1) - 1] # a /\ s[i - 1] = next[s[(i - 1) - 1]]
        BY <1>5, <4>1 DEF Row
      <4> QED BY <1>4, <4>1, <4>2
    <3> QED BY <1>1, <3>1, <3>2, <3>3, <3>4
  <2>4. \A i, j \in 1..(n + 1) : q[i] = q[j] => i = j
    <3> SUFFICES ASSUME NEW i \in 1..(n + 1), NEW j \in 1..(n + 1), q[i] = q[j] PROVE i = j
      OBVIOUS
    <3>1. \A m \in 1..(n + 1) : /\ m <= k => m \in 1..n /\ q[m] = s[m] /\ q[m] # c
                                /\ m > k + 1 => m - 1 \in 1..n /\ q[m] = s[m - 1] /\ q[m] # c
                                /\ m = k + 1 => q[m] = c
      BY <1>1, <1>3
    <3>2. \A m, l \in 1..n : s[m] = s[l] => m = l
      BY DEF Row
    <3> QED BY <1>1, <3>1, <3>2
  <2>5. next'[q[n + 1]] \in {Tail0, Nil}
    <3>1. CASE k = n
      <4>1. q[n + 1] = c
        BY <1>1, <1>3, <3>1
      <4>2. next[s[n]] \in {Tail0, Nil} /\ next[c] = next[s[n]]
        BY <1>2, <3>1 DEF Row
      <4> QED BY <1>4, <4>1, <4>2
    <3>2. CASE k # n
      <4>1. q[n + 1] = s[n] /\ s[n] \in Nodes /\ s[n] # a
        <5>1. q[n + 1] = s[n]
          BY <1>1, <1>3, <3>2
        <5>2. n \in 0..n
          BY <1>1
        <5> QED BY <1>5, <3>2, <5>1, <5>2 DEF Row
      <4> QED BY <1>4, <4>1 DEF Row
    <3> QED BY <3>1, <3>2
  <2>6. next'[Tail0] = Nil
    BY <1>4 DEF Row
  <2> QED BY <1>1, <2>1, <2>2, <2>3, <2>4, <2>5, <2>6 DEF Row
<1>7. Forward = [i \in 1..n |-> s[i]]
  BY ForwardIsRow DEF TypeOK
<1>8. Forward' = [i \in 1..(n + 1) |-> q[i]]
  <2>1. PICK m : m = n + 1
    OBVIOUS
  <2>2. Row(next', m, q)
    BY <1>6, <2>1
  <2>3. next' \in [Nodes -> Links]
    BY DEF TypeOK
  <2>4. Forward' = [i \in 1..m |-> q[i]]
    BY <2>2, <2>3, ForwardWillBeRow, Zenon
  <2> QED BY <2>1, <2>4
<1>9. Forward' = Abstract!InsertedAt(Forward, k + 1, c)
  <2>1. Forward \in Seq(Nodes) /\ Len(Forward) = n /\ \A i \in 1..n : Forward[i] = s[i]
    BY <1>1, <1>7
  <2>2. PICK g : g = Abstract!InsertedAt(Forward, k + 1, c)
    OBVIOUS
  <2>3. /\ g \in Seq(Nodes) /\ Len(g) = n + 1
        /\ \A i \in 1..(n + 1) :
             g[i] = IF i <= k THEN Forward[i] ELSE IF i = k + 1 THEN c ELSE Forward[i - 1]
    <3>1. k \in 0..Len(Forward) /\ c \in Nodes
      BY <2>1
    <3>2. /\ g \in Seq(Nodes) /\ Len(g) = Len(Forward) + 1
          /\ \A i \in 1..(Len(Forward) + 1) :
               g[i] = IF i <= k THEN Forward[i] ELSE IF i = k + 1 THEN c ELSE Forward[i - 1]
      <4>1. Forward \in Seq(Nodes)
        BY <2>1
      <4> QED BY <2>2, <3>1, <4>1, InsertedIs
    <3> QED BY <2>1, <3>2
  <2>4. \A i \in 1..(n + 1) : q[i] = g[i]
    <3> SUFFICES ASSUME NEW i \in 1..(n + 1) PROVE q[i] = g[i]
      OBVIOUS
    <3>1. i \in 0..(n + 1) /\ (i <= k => i \in 1..n) /\ (i > k + 1 => i - 1 \in 1..n)
      BY <1>1
    <3>2. q[i] = IF i <= k THEN s[i] ELSE IF i = k + 1 THEN c ELSE s[i - 1]
      BY <1>3, <3>1
    <3> QED BY <1>1, <2>1, <2>3, <3>1, <3>2
  <2>5. g = [i \in 1..(n + 1) |-> g[i]]
    BY <1>1, <2>3
  <2> QED BY <1>8, <2>2, <2>4, <2>5, Zenon
<1>10. PICK t : t = Forward
  OBVIOUS
<1>11. Len(t) = n /\ DOMAIN t = 1..n /\ \A i \in 1..n : t[i] = s[i]
  <2>1. Len(Forward) = n /\ DOMAIN Forward = 1..n /\ \A i \in 1..n : Forward[i] = s[i]
    BY <1>1, <1>7
  <2> QED BY <1>10, <2>1
<1>12. IF target = Tail0 THEN k + 1 = n + 1 ELSE k + 1 \in 1..n /\ s[k + 1] = target
  <2>1. CASE k = n
    <3>1. target \in {Tail0, Nil} /\ target # Nil
      BY <1>2, <2>1 DEF Row, TypeOK
    <3> QED BY <2>1, <3>1
  <2>2. CASE k # n
    <3>1. k + 1 \in 1..n /\ (k + 1) - 1 = k
      BY <1>1, <2>2
    <3>2. s[k + 1] = target /\ target # Tail0
      BY <1>1, <1>2, <3>1 DEF Row
    <3> QED BY <3>1, <3>2
  <2> QED BY <2>1, <2>2
<1>13. Abstract!Place(k + 1) /\ k + 1 \in 1..(Len(t) + 1)
  <2>1. Abstract!Place(k + 1)
    BY <1>10, <1>11, <1>12 DEF Abstract!Place
  <2> QED BY <1>1, <1>11, <2>1
<1> QED BY <1>9, <1>10, <1>13, Zenon

\* c is taken out of the list.
Taken(c) == \E i \in DOMAIN Forward :
              Forward[i] = c /\ Forward' = Abstract!RemovedAt(Forward, i)

\* A context led past is.
LEMMA BypassedIsRemoved ==
  ASSUME TypeOK, TypeOK', NEW L \in SUBSET Contexts, NEW n, NEW s,
         Row(next, n, s), L = {s[i] : i \in 1..n},
         NEW a \in From(L), NEW c \in L,
         next[a] = c, next' = [next EXCEPT ![a] = next[c]]
  PROVE  Taken(c)
<1> USE NodeFacts
<1>1. n \in Nat /\ \A i \in 1..n : s[i] \in L /\ s[i] \in Contexts
  BY DEF Row
<1>2. PICK k \in 1..n : c = s[k]
  OBVIOUS
<1>3. a = s[k - 1] /\ \A i \in 0..n : s[i] = a => i = k - 1
  <2>1. PICK j \in 0..n : a = s[j]
    BY <1>1 DEF From, Row
  <2>2. j # n
    BY <1>1, <2>1 DEF Row
  <2>3. j + 1 \in 1..n /\ (j + 1) - 1 = j
    BY <1>1, <2>2
  <2>4. s[j + 1] = s[k]
    BY <1>2, <2>1, <2>3 DEF Row
  <2>5. j = k - 1
    BY <1>1, <2>3, <2>4 DEF Row
  <2>6. ASSUME NEW i \in 0..n, s[i] = a PROVE i = j
    <3>1. i # n
      BY <1>1, <2>6 DEF Row
    <3>2. i + 1 \in 1..n /\ (i + 1) - 1 = i
      BY <1>1, <3>1
    <3>3. s[i + 1] = s[k]
      BY <1>2, <2>6, <3>2 DEF Row
    <3> QED BY <1>1, <2>5, <3>2, <3>3 DEF Row
  <2> QED BY <2>1, <2>5, <2>6
<1>4. PICK q : q = [i \in 0..(n - 1) |-> IF i < k THEN s[i] ELSE s[i + 1]]
  BY Zenon
<1>5. /\ a \in Nodes /\ a # Tail0 /\ a # c
      /\ \A x \in Nodes : next'[x] = IF x = a THEN next[c] ELSE next[x]
  <2>1. k \in 0..n
    BY <1>1
  <2>2. k # k - 1
    BY <1>1
  <2> QED BY <1>2, <1>3, <2>1, <2>2 DEF From, TypeOK
<1>6. /\ \A i \in 0..(n - 1) : /\ i < k => i \in 0..n /\ q[i] = s[i]
                               /\ ~(i < k) => i + 1 \in 1..n /\ q[i] = s[i + 1]
      /\ n - 1 \in Nat /\ k \in Nat
  BY <1>1, <1>4
<1>7. Row(next', n - 1, q)
  <2>1. q \in [0..(n - 1) -> Nodes] /\ q[0] = Head0
    <3>1. q = [i \in 0..(n - 1) |-> q[i]] /\ 0 \in 0..(n - 1) /\ 0 < k
      BY <1>1, <1>4
    <3> QED BY <1>6, <3>1 DEF Row
  <2>2. \A i \in 1..(n - 1) : q[i] \in Contexts
    <3> SUFFICES ASSUME NEW i \in 1..(n - 1) PROVE q[i] \in Contexts
      OBVIOUS
    <3>1. i \in 0..(n - 1) /\ (i < k => i \in 1..n)
      BY <1>1
    <3> QED BY <1>1, <1>6, <3>1
  <2>3. \A i \in 1..(n - 1) : q[i] = next'[q[i - 1]]
    <3> SUFFICES ASSUME NEW i \in 1..(n - 1) PROVE q[i] = next'[q[i - 1]]
      OBVIOUS
    <3>1. i \in 0..(n - 1) /\ i - 1 \in 0..(n - 1) /\ (i - 1) + 1 = i /\ i \in 1..n /\ i + 1 \in 1..n
      BY <1>1
    <3>2. CASE i < k
      <4>1. i - 1 < k /\ i - 1 # k - 1 /\ i - 1 \in 0..n
        BY <1>1, <3>1, <3>2
      <4>2. q[i] = s[i] /\ q[i - 1] = s[i - 1]
        BY <1>6, <3>1, <3>2, <4>1
      <4>3. s[i - 1] \in Nodes /\ s[i - 1] # a /\ s[i] = next[s[i - 1]]
        BY <1>3, <3>1, <4>1, Zenon DEF Row
      <4> QED BY <1>5, <4>2, <4>3
    <3>3. CASE i = k
      <4>1. i - 1 < k
        BY <1>1, <3>1, <3>3
      <4>2. q[i] = s[i + 1] /\ q[i - 1] = a
        BY <1>3, <1>6, <3>1, <3>3, <4>1
      <4>3. s[i + 1] = next[s[i]]
        <5>1. (i + 1) - 1 = i
          BY <3>1
        <5> QED BY <3>1, <5>1, Zenon DEF Row
      <4> QED BY <1>2, <1>5, <3>3, <4>2, <4>3
    <3>4. CASE k < i
      <4>1. ~(i < k) /\ ~(i - 1 < k) /\ i # k - 1 /\ i \in 0..n /\ (i + 1) - 1 = i
        BY <1>1, <3>1, <3>4
      <4>2. q[i] = s[i + 1] /\ q[i - 1] = s[i]
        BY <1>6, <3>1, <4>1
      <4>3. s[i] \in Nodes /\ s[i] # a /\ s[i + 1] = next[s[i]]
        BY <1>3, <3>1, <4>1, Zenon DEF Row
      <4> QED BY <1>5, <4>2, <4>3
    <3> QED BY <1>1, <3>2, <3>3, <3>4
  <2>4. \A i, j \in 1..(n - 1) : q[i] = q[j] => i = j
    <3> SUFFICES ASSUME NEW i \in 1..(n - 1), NEW j \in 1..(n - 1), q[i] = q[j] PROVE i = j
      OBVIOUS
    <3>1. \A m \in 1..(n - 1) : /\ m \in 0..(n - 1) /\ m \in 1..n /\ m + 1 \in 1..n
      BY <1>1
    <3>2. \A m \in 1..(n - 1) : /\ m < k => q[m] = s[m]
                                /\ ~(m < k) => q[m] = s[m + 1]
      BY <1>6, <3>1
    <3>3. \A m, l \in 1..n : s[m] = s[l] => m = l
      BY DEF Row
    <3> QED BY <1>6, <3>1, <3>2, <3>3
  <2>5. next'[q[n - 1]] \in {Tail0, Nil}
    <3>1. s[n] \in Nodes /\ next[s[n]] \in {Tail0, Nil}
      BY <1>1 DEF Row
    <3>2. CASE k = n
      <4>1. n - 1 \in 0..(n - 1) /\ n - 1 < k
        BY <1>1, <3>2
      <4>2. q[n - 1] = a
        BY <1>3, <1>6, <3>2, <4>1
      <4> QED BY <1>2, <1>5, <3>1, <3>2, <4>2
    <3>3. CASE k # n
      <4>1. n - 1 \in 0..(n - 1) /\ ~(n - 1 < k) /\ (n - 1) + 1 = n /\ n # k - 1 /\ n \in 0..n
        BY <1>1, <3>3
      <4>2. q[n - 1] = s[n] /\ s[n] # a
        BY <1>3, <1>6, <4>1
      <4> QED BY <1>5, <3>1, <4>2
    <3> QED BY <3>2, <3>3
  <2>6. next'[Tail0] = Nil
    BY <1>5 DEF Row
  <2> QED BY <1>6, <2>1, <2>2, <2>3, <2>4, <2>5, <2>6 DEF Row
<1>8. Forward = [i \in 1..n |-> s[i]]
  BY ForwardIsRow DEF TypeOK
<1>9. Forward' = [i \in 1..(n - 1) |-> q[i]]
  <2>1. PICK m : m = n - 1
    OBVIOUS
  <2>2. Row(next', m, q)
    BY <1>7, <2>1
  <2>3. next' \in [Nodes -> Links]
    BY DEF TypeOK
  <2>4. Forward' = [i \in 1..m |-> q[i]]
    BY <2>2, <2>3, ForwardWillBeRow, Zenon
  <2> QED BY <2>1, <2>4
<1>10. PICK h : h = Forward
  OBVIOUS
<1>11. h \in Seq(Nodes) /\ Len(h) = n /\ \A i \in 1..n : h[i] = s[i]
  <2>1. Forward \in Seq(Nodes) /\ Len(Forward) = n /\ \A i \in 1..n : Forward[i] = s[i]
    BY <1>1, <1>8
  <2> QED BY <1>10, <2>1
<1>12. Forward' = SubSeq(h, 1, k - 1) \o SubSeq(h, k + 1, Len(h))
  <2>1. PICK g : g = SubSeq(h, 1, k - 1) \o SubSeq(h, k + 1, Len(h))
    BY Zenon
  <2>2. /\ g \in Seq(Nodes) /\ Len(g) = n - 1
        /\ \A i \in 1..(n - 1) : g[i] = IF i < k THEN h[i] ELSE h[i + 1]
    <3>1. k \in 1..Len(h)
      BY <1>11
    <3>2. /\ SubSeq(h, 1, k - 1) \o SubSeq(h, k + 1, Len(h)) \in Seq(Nodes)
          /\ Len(SubSeq(h, 1, k - 1) \o SubSeq(h, k + 1, Len(h))) = Len(h) - 1
          /\ \A i \in 1..(Len(h) - 1) : (SubSeq(h, 1, k - 1) \o SubSeq(h, k + 1, Len(h)))[i] =
               IF i < k THEN h[i] ELSE h[i + 1]
      <4>1. h \in Seq(Nodes)
        BY <1>11
      <4> QED BY <3>1, <4>1, RemovedIs, Zenon
    <3> QED BY <1>11, <2>1, <3>2, Zenon
  <2>3. \A i \in 1..(n - 1) : q[i] = g[i]
    <3> SUFFICES ASSUME NEW i \in 1..(n - 1) PROVE q[i] = g[i]
      OBVIOUS
    <3>1. i \in 0..(n - 1) /\ i \in 1..n /\ i + 1 \in 1..n
      BY <1>1
    <3> QED BY <1>6, <1>11, <2>2, <3>1
  <2>4. g = [i \in 1..(n - 1) |-> g[i]]
    BY <1>6, <2>2
  <2> QED BY <1>9, <2>1, <2>3, <2>4, Zenon
<1>13. k \in DOMAIN Forward /\ Forward[k] = c
  BY <1>2, <1>8
<1> QED BY <1>10, <1>12, <1>13, Zenon DEF Taken, Abstract!RemovedAt

\* When the head leads to the tail, nothing is listed.
LEMMA HeadToTail ==
  /\ next \in [Nodes -> Links] /\ next[Head0] = Tail0 /\ next[Tail0] = Nil => Forward = <<>>
  /\ next' \in [Nodes -> Links] /\ next'[Head0] = Tail0 /\ next'[Tail0] = Nil => Forward' = <<>>
<1>1. PICK s : s = [i \in 0..0 |-> Head0]
  BY Zenon
<1>2. ASSUME NEW f, f[Head0] = Tail0, f[Tail0] = Nil PROVE Row(f, 0, s)
  BY <1>1, <1>2, NodeFacts DEF Row
<1>3. [i \in 1..0 |-> s[i]] = <<>>
  OBVIOUS
<1>4. ASSUME next \in [Nodes -> Links], next[Head0] = Tail0, next[Tail0] = Nil
      PROVE  Forward = <<>>
  <2>1. Row(next, 0, s)
    BY <1>2, <1>4
  <2> QED BY <1>3, <1>4, <2>1, ForwardIsRow
<1>5. ASSUME next' \in [Nodes -> Links], next'[Head0] = Tail0, next'[Tail0] = Nil
      PROVE  Forward' = <<>>
  <2>1. Row(next', 0, s)
    BY <1>2, <1>5
  <2> QED BY <1>3, <1>5, <2>1, ForwardWillBeRow
<1> QED BY <1>4, <1>5

----------------------------------------------------------------------------
(* The broken list, and the way back.                                      *)

\* RemoveFirst of an empty pipeline took the tail's way back.  Until Clear resets
\* it no way back that an operation may follow leads to the head again, and
\* nothing is listed.
BrokenInv ==
  broken =>
    /\ next[Head0] = Tail0
    /\ op \notin {"dropNext", "dropPrev"} => prev[Tail0] # Head0
    /\ op \in {"linkPrev", "linkNext"} => prev[ctx] # Head0
    /\ op \in {"dropNext", "dropPrev"} => ctx = Tail0

\* An operation that begins keeps it broken.
LEMMA BrokenStart ==
  ASSUME TypeOK, TypeOK', NEW L \in SUBSET Contexts, NEW r \in [Nodes -> Nat], ListInv(L, r),
         BrokenInv, OpStart
  PROVE  BrokenInv'
<1> USE NodeFacts
<1>1. SUFFICES ASSUME broken' PROVE BrokenInv'
  BY DEF BrokenInv
<1>2. /\ Backwards(L) /\ (op # "clearHead" => (next[Head0] = Tail0) = (L = {}))
      /\ next[Tail0] = Nil
  BY ListFacts, Zenon DEF ListInv, Forwards
<1>3. ASSUME NEW x \in Contexts, NEW t \in On(L), StartAdd(x, t), broken' = broken
      PROVE  BrokenInv'
  <2>1. /\ op = "idle" /\ op' = "linkPrev" /\ ctx' = x /\ x \notin created
        /\ next' = [next EXCEPT ![x] = t] /\ prev' = [prev EXCEPT ![x] = prev[t]]
    BY <1>3 DEF StartAdd
  <2>2. next[Head0] = Tail0 /\ prev[Tail0] # Head0
    BY <1>1, <1>3, <2>1 DEF BrokenInv
  <2>3. t \in {Head0, Tail0} /\ prev[Head0] # Head0
    BY <1>2, <1>3, <2>1, <2>2 DEF On, Backwards
  <2> QED BY <2>1, <2>2, <2>3 DEF BrokenInv, TypeOK
<1>4. ASSUME NEW x \in Contexts, AddLast(x) PROVE BrokenInv'
  BY <1>3, <1>4 DEF AddLast, On
<1>5. ASSUME NEW x \in Contexts, NEW t \in Nodes, AddBefore(t, x) PROVE BrokenInv'
  <2>1. t \in On(L)
    BY <1>5, PathListed DEF AddBefore, ListInv, On
  <2> QED BY <1>3, <1>5, <2>1 DEF AddBefore
<1>6. ASSUME RemoveFirst PROVE BrokenInv'
  <2>1. /\ op = "idle" /\ UNCHANGED <<next, prev>> /\ ctx' = next[Head0]
        /\ op' = IF next[next[Head0]] # Nil THEN "firstPrev" ELSE "dropNext"
        /\ broken' = (broken \/ next[Head0] = Tail0)
    BY <1>6 DEF RemoveFirst, listVars
  <2>2. next[Head0] = Tail0
    BY <1>1, <2>1 DEF BrokenInv
  <2> QED BY <1>2, <2>1, <2>2 DEF BrokenInv
<1>7. ASSUME NEW x \in Contexts, Remove(x) PROVE BrokenInv'
  <2>1. op = "idle" /\ UNCHANGED <<next, prev, broken>> /\ op' = "bypassPrev"
    BY <1>7 DEF Remove, listVars
  <2> QED BY <2>1 DEF BrokenInv
<1>8. ASSUME Clear PROVE BrokenInv'
  <2>1. /\ op = "idle" /\ UNCHANGED <<next, broken>> /\ op' = "clearLast"
        /\ prev' = [prev EXCEPT ![next[Head0]] = Nil]
    BY <1>8 DEF Clear
  <2> QED BY <1>1, <2>1 DEF BrokenInv, TypeOK
<1> QED BY <1>4, <1>5, <1>6, <1>7, <1>8 DEF OpStart

\* So does every later step of one.
LEMMA BrokenStep ==
  ASSUME TypeOK, TypeOK', NEW L \in SUBSET Contexts, NEW r \in [Nodes -> Nat], ListInv(L, r),
         BrokenInv, OpStep
  PROVE  BrokenInv'
<1> USE NodeFacts
<1>1. SUFFICES ASSUME broken' PROVE BrokenInv'
  BY DEF BrokenInv
<1>2. /\ Adding(L, r) /\ Removing(L)
      /\ op # "clearHead" => (next[Head0] = Tail0) = (L = {})
  BY ListFacts, Zenon DEF ListInv
<1>3. broken /\ op # "clearTail"
  <2>1. CASE ClearLinks
    BY <1>1, <2>1 DEF ClearLinks
  <2>2. CASE ~ClearLinks
    <3>1. broken' = broken /\ op # "clearTail"
      BY <2>2 DEF OpStep, AddLinkPrev, AddLinkNext, AddSetHandler, RemoveFirstBypass,
                  RemoveFirstDrop, RemoveBypass, histVars
    <3> QED BY <1>1, <3>1
  <2> QED BY <2>1, <2>2
<1>4. /\ next[Head0] = Tail0
      /\ op \notin {"dropNext", "dropPrev"} => prev[Tail0] # Head0
      /\ op \in {"linkPrev", "linkNext"} => prev[ctx] # Head0
      /\ op \in {"dropNext", "dropPrev"} => ctx = Tail0
  BY <1>3 DEF BrokenInv
<1>5. op \notin {"firstPrev", "firstNext", "bypassPrev", "bypassNext"}
  BY <1>2, <1>4 DEF Removing
<1>6. op \in {"linkPrev", "linkNext"} => ctx \in Contexts /\ ctx \in Nodes
  BY <1>2 DEF Adding
<1>7. CASE AddLinkPrev
  <2>1. /\ op = "linkPrev" /\ op' = "linkNext" /\ UNCHANGED <<next, ctx>>
        /\ prev' = [prev EXCEPT ![target] = ctx]
    BY <1>7 DEF AddLinkPrev
  <2> QED BY <1>4, <1>6, <2>1 DEF BrokenInv, TypeOK
<1>8. CASE AddLinkNext
  <2>1. /\ op = "linkNext" /\ op' \in {"idle", "setHandler"} /\ UNCHANGED <<prev, ctx>>
        /\ next' = next \/ next' = [next EXCEPT ![prev[ctx]] = ctx]
    BY <1>8 DEF AddLinkNext
  <2> QED BY <1>4, <2>1 DEF BrokenInv, TypeOK
<1>9. CASE AddSetHandler
  BY <1>4, <1>9 DEF AddSetHandler, BrokenInv
<1>10. CASE RemoveFirstDrop
  BY <1>4, <1>10 DEF RemoveFirstDrop, BrokenInv, TypeOK
<1>11. CASE ClearLinks
  BY <1>3, <1>4, <1>11 DEF ClearLinks, BrokenInv, TypeOK
<1> QED BY <1>5, <1>7, <1>8, <1>9, <1>10, <1>11 DEF OpStep, RemoveFirstBypass, RemoveBypass

\* A list that is not broken has its ways back whenever no operation is in
\* progress.
LEMMA TidyIdle == IInv => Abstract!Tidy
<1> SUFFICES ASSUME IInv, Doing = "nothing", ~broken PROVE Mirrored
  BY DEF Abstract!Tidy
<1>1. TypeOK
  BY DEF IInv
<1>2. PICK L \in SUBSET Contexts, r \in [Nodes -> Nat] : ListInv(L, r)
  BY InvIs
<1>3. op = "idle"
  BY <1>1 DEF TypeOK, Ops, Doing, GrowingOps, CuttingOps
<1>4. PICK n, s : Row(next, n, s) /\ L = {s[i] : i \in 1..n}
  BY <1>1, <1>2, ListIsRow
<1>5. Contexts \cap PathSet(next, Head0) = L
  BY <1>1, <1>4, WalkIsRow DEF TypeOK
<1>6. /\ \A x \in From(L) : next[x] \in Into(L)
      /\ \A x, y \in From(L) : next[x] = next[y] => x = y
  BY <1>1, <1>2, <1>3, ListFacts, Zenon
<1>7. \A x \in Into(L) : prev[x] \in From(L) /\ next[prev[x]] = x
  BY <1>2, <1>3 DEF ListInv, Backwards, Clearing, Loose
<1>8. ASSUME NEW x \in From(L) PROVE next[x] # Nil /\ prev[next[x]] = x
  <2>1. next[x] \in Into(L)
    BY <1>6
  <2>2. prev[next[x]] \in From(L) /\ next[prev[next[x]]] = next[x]
    BY <1>7, <2>1
  <2>3. Nil \notin Into(L)
    BY NodeFacts DEF Into
  <2> QED BY <1>6, <2>1, <2>2, <2>3
<1> QED BY <1>5, <1>8 DEF Mirrored, From

----------------------------------------------------------------------------
(* The refinement.                                                         *)

\* Where the links from the head stay, the list does.
LEMMA KeptLinks ==
  ASSUME TypeOK, TypeOK', NEW L \in SUBSET Contexts, NEW r \in [Nodes -> Nat], ListInv(L, r),
         \A x \in From(L) : next'[x] = next[x] \/ (next[x] = Tail0 /\ next'[x] = Nil),
         next'[Tail0] = Nil
  PROVE  Forward' = Forward
<1>1. PICK n, s : Row(next, n, s) /\ L = {s[i] : i \in 1..n}
  BY ListIsRow
<1> QED BY <1>1, SameList

\* What is listed, and what comes first.
LEMMA ListedIs ==
  ASSUME TypeOK, NEW L \in SUBSET Contexts, NEW r \in [Nodes -> Nat], ListInv(L, r)
  PROVE  /\ \A x : Abstract!Listed(x) <=> x \in L
         /\ L = {} => Forward = <<>>
         /\ L # {} => Forward # <<>> /\ Forward[1] = next[Head0]
<1>1. PICK n, s : Row(next, n, s) /\ L = {s[i] : i \in 1..n}
  BY ListIsRow
<1>2. Forward = [i \in 1..n |-> s[i]] /\ n \in Nat
  <2>1. Forward = [i \in 1..n |-> s[i]]
    BY <1>1, ForwardIsRow DEF TypeOK
  <2> QED BY <1>1, <2>1 DEF Row
<1>3. \A x : Abstract!Listed(x) <=> x \in L
  BY <1>1, <1>2 DEF Abstract!Listed
<1>4. L = {} => Forward = <<>>
  <2>1. L = {} => n = 0
    BY <1>1, <1>2
  <2> QED BY <1>2, <2>1
<1>5. L # {} => Forward # <<>> /\ Forward[1] = next[Head0]
  <2>1. L # {} => 1 \in 1..n /\ s[1] = next[Head0]
    <3>1. 1 - 1 = 0
      OBVIOUS
    <3>2. L # {} => 1 \in 1..n
      BY <1>1, <1>2
    <3> QED BY <1>1, <3>1, <3>2 DEF Row
  <2>2. L # {} => DOMAIN Forward # DOMAIN <<>>
    BY <1>2, <2>1
  <2> QED BY <1>2, <2>1, <2>2
<1> QED BY <1>3, <1>4, <1>5

\* The steps of events do not concern the list.
LEMMA EventSteps ==
  ASSUME TypeOK, TypeOK', NEW L \in SUBSET Contexts, NEW r \in [Nodes -> Nat], ListInv(L, r),
         UNCHANGED vars \/ \E e \in Events : Fire(e) \/ EventStep(e)
  PROVE  UNCHANGED Abstract!vars
<1>1. UNCHANGED <<next, prev, op, ctx, target, broken>>
  BY DEF Fire, EventStep, CheckLink, DeferErrorCaught, PickHandler, CallHandler, listVars, opVars,
         histVars, vars
<1>2. Doing' = Doing /\ Mirrored' = Mirrored
  BY <1>1 DEF Doing, Mirrored
<1>3. Forward' = Forward
  BY <1>1 DEF Forward
<1> QED BY <1>1, <1>2, <1>3 DEF Abstract!vars

\* Every operation is called with what its contract asks for.
LEMMA CallSteps ==
  ASSUME TypeOK, TypeOK', NEW L \in SUBSET Contexts, NEW r \in [Nodes -> Nat], ListInv(L, r),
         OpStart
  PROVE  Abstract!Step
<1> USE NodeFacts
<1>1. /\ L \subseteq created /\ Tail0 \notin From(L) /\ next[Tail0] = Nil
      /\ From(L) \subseteq created /\ created \subseteq Nodes
      /\ op # "clearHead" => (next[Head0] = Tail0) = (L = {})
      /\ op # "clearHead" => next[Head0] \in Into(L)
      /\ op # "clearHead" => \A x \in From(L) : next[x] # Nil
  BY ListFacts DEF ListInv, Forwards, On, Into, From
<1>2. /\ \A x : Abstract!Listed(x) <=> x \in L
      /\ L = {} => Forward = <<>>
      /\ L # {} => Forward # <<>> /\ Forward[1] = next[Head0]
  BY ListedIs
<1>3. ASSUME next' = next PROVE Forward' = Forward
  BY <1>3 DEF Forward
<1>4. ASSUME NEW x \in Contexts, NEW t \in On(L), StartAdd(x, t), broken' = broken
      PROVE  Abstract!CallAdd(x, t)
  <2>1. /\ op = "idle" /\ op' = "linkPrev" /\ ctx' = x /\ target' = t /\ x \notin created
        /\ next' = [next EXCEPT ![x] = t]
    BY <1>4 DEF StartAdd
  <2>2. Forward' = Forward
    <3>1. /\ \A y \in From(L) : next'[y] = next[y]
          /\ next'[Tail0] = Nil
      BY <1>1, <2>1 DEF TypeOK
    <3> QED BY <3>1, KeptLinks
  <2>3. Doing = "nothing" /\ Doing' = "add"
    BY <2>1 DEF Doing
  <2>4. ~Abstract!Listed(x) /\ (t \in {Head0, Tail0} \/ Abstract!Listed(t))
    BY <1>1, <1>2, <1>4, <2>1 DEF On
  <2> QED BY <1>4, <2>1, <2>2, <2>3, <2>4 DEF Abstract!CallAdd, Abstract!Begin
<1>5. ASSUME NEW x \in Contexts, AddLast(x) PROVE Abstract!CallAdd(x, Tail0)
  BY <1>4, <1>5 DEF AddLast, On
<1>6. ASSUME NEW x \in Contexts, NEW t \in Nodes, AddBefore(t, x) PROVE Abstract!CallAdd(x, t)
  <2>1. t \in On(L)
    BY <1>6, PathListed DEF AddBefore, ListInv, On
  <2> QED BY <1>4, <1>6, <2>1 DEF AddBefore
<1>7. ASSUME RemoveFirst PROVE Abstract!CallRemoveFirst
  <2>1. /\ op = "idle" /\ UNCHANGED <<next, target>> /\ ctx' = next[Head0]
        /\ op' = IF next[next[Head0]] # Nil THEN "firstPrev" ELSE "dropNext"
        /\ broken' = (broken \/ next[Head0] = Tail0)
    BY <1>7 DEF RemoveFirst, listVars
  <2>2. Forward' = Forward /\ Doing = "nothing"
    BY <1>3, <2>1 DEF Doing
  <2>3. CASE L = {}
    <3>1. /\ next[Head0] = Tail0 /\ ctx' = Tail0 /\ op' = "dropNext" /\ broken' = TRUE
          /\ Forward = <<>>
      BY <1>1, <1>2, <2>1, <2>3
    <3>2. Doing' = "removed"
      BY <3>1 DEF Doing
    <3> QED BY <2>1, <2>2, <3>1, <3>2 DEF Abstract!CallRemoveFirst, Abstract!Begin
  <2>4. CASE L # {}
    <3>1. next[Head0] # Tail0 /\ next[Head0] \in L /\ Forward # <<>> /\ ctx' = Forward[1]
      BY <1>1, <1>2, <2>1, <2>4 DEF Into
    <3>2. op' = "firstPrev"
      BY <1>1, <2>1, <3>1 DEF From
    <3>3. Doing' = "remove"
      BY <3>2 DEF Doing
    <3>4. broken' = broken
      BY <2>1, <3>1 DEF TypeOK
    <3> QED BY <2>1, <2>2, <3>1, <3>3, <3>4 DEF Abstract!CallRemoveFirst, Abstract!Begin
  <2> QED BY <2>3, <2>4
<1>8. ASSUME NEW x \in Contexts, Remove(x) PROVE Abstract!CallRemove(x)
  <2>1. /\ op = "idle" /\ op' = "bypassPrev" /\ ctx' = x /\ UNCHANGED <<next, target, broken>>
    BY <1>8 DEF Remove, listVars
  <2>2. x \in L
    BY <1>8, PathListed DEF Remove, ListInv, On
  <2>3. Doing = "nothing" /\ Doing' = "remove"
    BY <2>1 DEF Doing
  <2> QED BY <1>2, <1>3, <2>1, <2>2, <2>3 DEF Abstract!CallRemove, Abstract!Begin
<1>9. ASSUME Clear PROVE Abstract!CallClear
  <2>1. op = "idle" /\ op' = "clearLast" /\ UNCHANGED <<next, ctx, target, broken>>
    BY <1>9 DEF Clear
  <2>2. Doing = "nothing" /\ Doing' = "clear"
    BY <2>1 DEF Doing
  <2> QED BY <1>3, <2>1, <2>2 DEF Abstract!CallClear, Abstract!Begin
<1> QED BY <1>5, <1>6, <1>7, <1>8, <1>9 DEF OpStart, Abstract!Step

\* Every step of an operation is one of its contract: one pointer assignment of
\* each changes the list, the others the way back.
LEMMA OpSteps ==
  ASSUME TypeOK, TypeOK', NEW L \in SUBSET Contexts, NEW r \in [Nodes -> Nat], ListInv(L, r),
         BrokenInv, OpStep
  PROVE  Abstract!Step
<1> USE NodeFacts
<1>1. PICK n, s : Row(next, n, s) /\ L = {s[i] : i \in 1..n}
  BY ListIsRow
<1>2. /\ Forwards(L, r) /\ Adding(L, r) /\ Removing(L)
      /\ Tail0 \notin From(L) /\ next[Tail0] = Nil
      /\ op # "clearHead" => (next[Head0] = Tail0) = (L = {})
  BY ListFacts, Zenon DEF ListInv, Forwards
<1>3. ASSUME \A x \in From(L) : next'[x] = next[x] \/ (next[x] = Tail0 /\ next'[x] = Nil),
             next'[Tail0] = Nil
      PROVE  Forward' = Forward
  BY <1>3, KeptLinks
<1>4. ASSUME next' = next PROVE Forward' = Forward
  BY <1>4 DEF Forward
<1>5. CASE AddLinkPrev
  <2>1. op = "linkPrev" /\ op' = "linkNext" /\ UNCHANGED <<next, ctx, target, broken>>
    BY <1>5 DEF AddLinkPrev, histVars
  <2>2. Abstract!Relink
    BY <1>4, <2>1 DEF Abstract!Relink, Doing
  <2> QED BY <2>2 DEF Abstract!Step
<1>6. CASE AddLinkNext
  <2>1. /\ op = "linkNext" /\ op' \in {"idle", "setHandler"} /\ UNCHANGED <<ctx, target, broken>>
    BY <1>6 DEF AddLinkNext, histVars
  <2>2. Doing = "add" /\ Doing' \in {"added", "nothing"}
    BY <2>1 DEF Doing
  <2>3. CASE prev[ctx] \in From(L)
    <3>1. PICK a, c : a = prev[ctx] /\ c = ctx
      OBVIOUS
    <3>2. op' = "setHandler" /\ next' = [next EXCEPT ![a] = c]
      BY <1>2, <1>6, <2>3, <3>1 DEF AddLinkNext, From
    <3>3. c \in Contexts \ L /\ a \in From(L) /\ next[a] = target /\ next[c] = next[a]
      BY <1>2, <2>1, <2>3, <3>1 DEF Adding, From, On
    <3>4. \E i \in 1..(Len(Forward) + 1) :
            Abstract!Place(i) /\ Forward' = Abstract!InsertedAt(Forward, i, c)
      BY <1>1, <3>2, <3>3, LinkedIsAdded, Zenon
    <3>5. target # Head0
      BY <1>2, <3>3 DEF Forwards, Fwd, Into, From
    <3>6. ~broken
      <4>1. broken => L = {} /\ prev[ctx] # Head0
        BY <1>2, <2>1 DEF BrokenInv
      <4> QED BY <2>3, <4>1 DEF From
    <3>7. Abstract!Add
      BY <2>1, <2>2, <3>1, <3>2, <3>4, <3>5, <3>6 DEF Abstract!Add, Doing
    <3> QED BY <3>7 DEF Abstract!Step
  <2>4. CASE prev[ctx] \notin From(L)
    <3>1. ListInv(L, r)' /\ \A x \in From(L) : next'[x] = next[x]
      BY <1>6, <2>4, AddLinkNextMisses
    <3>2. next'[Tail0] = Nil
      BY <3>1 DEF ListInv, Forwards
    <3>3. target = Head0 \/ broken
      BY <1>2, <2>1, <2>4 DEF Adding
    <3>4. Abstract!NotAdded
      BY <1>3, <2>1, <2>2, <3>1, <3>2, <3>3 DEF Abstract!NotAdded
    <3> QED BY <3>4 DEF Abstract!Step
  <2> QED BY <2>3, <2>4
<1>7. CASE AddSetHandler \/ (ClearLinks /\ op = "clearTail")
  <2>1. UNCHANGED <<next, ctx, target>> /\ op' = "idle"
    BY <1>7 DEF AddSetHandler, ClearLinks, histVars
  <2>2. /\ Doing \in {"added", "cleared"} /\ Doing' = "nothing"
        /\ broken' = (broken /\ Doing # "cleared")
    <3>1. CASE AddSetHandler
      BY <3>1 DEF AddSetHandler, Doing, histVars, TypeOK
    <3>2. CASE ClearLinks /\ op = "clearTail"
      BY <3>2 DEF ClearLinks, Doing
    <3> QED BY <1>7, <3>1, <3>2
  <2>3. Abstract!Return
    BY <1>4, <2>1, <2>2 DEF Abstract!Return
  <2> QED BY <2>3 DEF Abstract!Step
<1>8. CASE \/ RemoveFirstBypass /\ op = "firstNext"
           \/ RemoveBypass /\ op = "bypassNext"
  <2>1. PICK a, c, M : a = (IF op = "firstNext" THEN Head0 ELSE prev[ctx]) /\ c = ctx /\ M = L \ {c}
    BY Zenon
  <2>2. a \in From(L) /\ next[a] = c /\ c \in L /\ next' = [next EXCEPT ![a] = next[c]]
    BY <1>8, <2>1, BypassNextList, Zenon
  <2>3. Taken(c)
    BY <1>1, <2>2, BypassedIsRemoved, Zenon
  <2>4. /\ UNCHANGED <<ctx, target, broken>>
        /\ Doing = "remove" /\ Doing' \in {"removed", "nothing"}
    BY <1>8 DEF RemoveFirstBypass, RemoveBypass, histVars, Doing
  <2>5. Abstract!Remove
    BY <2>1, <2>3, <2>4 DEF Abstract!Remove, Taken
  <2> QED BY <2>5 DEF Abstract!Step
<1>9. CASE \/ RemoveFirstBypass /\ op # "firstNext"
           \/ RemoveBypass /\ op # "bypassNext"
  <2>1. UNCHANGED <<next, ctx, target, broken>> /\ Doing = "remove" /\ Doing' = "remove"
    BY <1>9 DEF RemoveFirstBypass, RemoveBypass, histVars, Doing
  <2>2. Abstract!Relink
    BY <1>4, <2>1 DEF Abstract!Relink
  <2> QED BY <2>2 DEF Abstract!Step
<1>10. CASE RemoveFirstDrop
  <2>1. ListInv(L, r)' /\ \A x \in From(L) : next'[x] = next[x]
    BY <1>10, DropList
  <2>2. Forward' = Forward
    BY <1>3, <2>1 DEF ListInv, Forwards
  <2>3. /\ UNCHANGED <<ctx, target, broken>>
        /\ \/ op = "dropNext" /\ op' = "dropPrev"
           \/ op = "dropPrev" /\ op' = "idle"
    BY <1>10 DEF RemoveFirstDrop, histVars
  <2>4. Doing = "removed" /\ Doing' \in {"removed", "nothing"}
    BY <2>3 DEF Doing
  <2>5. Abstract!Relink \/ Abstract!Return
    BY <2>2, <2>3, <2>4 DEF Abstract!Relink, Abstract!Return, TypeOK
  <2> QED BY <2>5 DEF Abstract!Step
<1>11. CASE ClearLinks /\ op # "clearTail"
  <2>1. PICK M : M = IF op = "clearHead" THEN {} ELSE L
    BY Zenon
  <2>2. next'[Tail0] = Nil
    <3>1. ListInv(M, r)'
      BY <1>11, <2>1, ClearLinksList
    <3> QED BY <3>1 DEF ListInv, Forwards
  <2>3. UNCHANGED <<ctx, target, broken>>
    BY <1>11 DEF ClearLinks
  <2>4. CASE op = "clearLast"
    <3>1. /\ next' = IF prev[Tail0] = Nil THEN next ELSE [next EXCEPT ![prev[Tail0]] = Nil]
          /\ op' = "clearHead"
      BY <1>11, <2>4 DEF ClearLinks
    <3>2. prev[Tail0] # Nil => prev[Tail0] \in L /\ next[prev[Tail0]] = Tail0
      BY <1>2, <2>4 DEF Removing
    <3>3. \A x \in From(L) : next'[x] = next[x] \/ (next[x] = Tail0 /\ next'[x] = Nil)
      BY <3>1, <3>2 DEF TypeOK, From
    <3>4. Doing = "clear" /\ Doing' = "clear"
      BY <2>4, <3>1 DEF Doing
    <3>5. Abstract!Relink
      BY <1>3, <2>2, <2>3, <3>3, <3>4 DEF Abstract!Relink
    <3> QED BY <3>5 DEF Abstract!Step
  <2>5. CASE op = "clearHead"
    <3>1. next' = [next EXCEPT ![Head0] = Tail0] /\ op' = "clearTail"
      BY <1>11, <2>5 DEF ClearLinks
    <3>2. next' \in [Nodes -> Links] /\ next'[Head0] = Tail0
      BY <3>1 DEF TypeOK
    <3>3. Forward' = <<>>
      BY <2>2, <3>2, HeadToTail
    <3>4. Doing = "clear" /\ Doing' = "cleared"
      BY <2>5, <3>1 DEF Doing
    <3>5. Abstract!Clear
      BY <2>3, <3>3, <3>4 DEF Abstract!Clear
    <3> QED BY <3>5 DEF Abstract!Step
  <2> QED BY <1>11, <2>4, <2>5 DEF ClearLinks
<1> QED BY <1>5, <1>6, <1>7, <1>8, <1>9, <1>10, <1>11 DEF OpStep

\* While the events of other goroutines walk it, every operation changes the
\* pipeline the way its name says, in one step, and leaves a way back along the
\* same contexts: AddBefore puts its context right before its target, AddLast at
\* the end, RemoveFirst takes the first and Remove the one it was given, until
\* RemoveFirst of an empty pipeline breaks it (pipeline.go:140-247).
THEOREM PipelineImplementsList == Spec => ImplementsHandlerList
<1>1. Init => Abstract!Init /\ BrokenInv
  <2> SUFFICES ASSUME Init PROVE Abstract!Init /\ BrokenInv
    OBVIOUS
  <2>1. next \in [Nodes -> Links] /\ next[Head0] = Tail0 /\ next[Tail0] = Nil
    BY NodeFacts DEF Init
  <2>2. Forward = <<>>
    BY <2>1, HeadToTail
  <2>3. Mirrored
    <3>1. IInv /\ Doing = "nothing" /\ ~broken
      BY InitInv DEF Init, Doing
    <3> QED BY <3>1, TidyIdle DEF Abstract!Tidy
  <2> QED BY <2>2, <2>3 DEF Init, Abstract!Init, Doing, BrokenInv
<1>2. IInv /\ IInv' /\ BrokenInv /\ [Next]_vars
        => BrokenInv' /\ (Abstract!Step \/ UNCHANGED Abstract!vars)
  <2> SUFFICES ASSUME IInv, IInv', BrokenInv, [Next]_vars
               PROVE  BrokenInv' /\ (Abstract!Step \/ UNCHANGED Abstract!vars)
    OBVIOUS
  <2>1. TypeOK /\ TypeOK'
    BY DEF IInv
  <2>2. PICK L \in SUBSET Contexts, r \in [Nodes -> Nat] : ListInv(L, r)
    BY InvIs
  <2>3. CASE OpStart
    BY <2>1, <2>2, <2>3, BrokenStart, CallSteps
  <2>4. CASE OpStep
    BY <2>1, <2>2, <2>4, BrokenStep, OpSteps
  <2>5. CASE UNCHANGED vars \/ \E e \in Events : Fire(e) \/ EventStep(e)
    <3>1. UNCHANGED Abstract!vars
      BY <2>1, <2>2, <2>5, EventSteps
    <3>2. UNCHANGED <<next, prev, op, ctx, broken>>
      BY <2>5 DEF Fire, EventStep, CheckLink, DeferErrorCaught, PickHandler, CallHandler, listVars,
                  opVars, histVars, vars
    <3> QED BY <3>1, <3>2 DEF BrokenInv
  <2> QED BY <2>3, <2>4, <2>5 DEF Next
<1>3. Abstract!Step /\ Abstract!Tidy' => Abstract!Next
  BY DEF Abstract!Next
<1>4. Spec => []BrokenInv
  BY <1>1, <1>2, Invariance, PTL DEF Spec
<1> QED BY <1>1, <1>2, <1>3, <1>4, Invariance, TidyIdle, PTL
        DEF Spec, ImplementsHandlerList, Abstract!Spec
=============================================================================
