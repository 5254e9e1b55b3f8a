--------------------------- MODULE PipelineProofs ---------------------------
(***************************************************************************)
(* Proofs about Pipeline: an event is neither lost nor broken by the       *)
(* removal of a handler (RemoveIsSafe), and the doubly linked list is the  *)
(* list of handlers its users think it is (ImplementsHandlerList).         *)
(*                                                                         *)
(* The invariant is stated about two things the code does not have: the    *)
(* set L of the contexts that are listed, and a rank r of the contexts     *)
(* along which every link, stale ones included, leads from head to tail.   *)
(* An event under way follows links within a set P of contexts that the    *)
(* operations on the list keep closed.                                     *)
(***************************************************************************)
EXTENDS Pipeline, Integers, FiniteSetTheorems, TLAPS

----------------------------------------------------------------------------
(* The inductive invariant.                                                *)

Ops == {"idle", "bypassPrev", "bypassNext"} \cup GrowingOps \cup CuttingOps
Clearing == {"clearLast", "clearHead", "clearTail"}

\* The type of every variable; links lead only to contexts that exist.
TypeOK ==
  /\ next \in [Nodes -> Links] /\ prev \in [Nodes -> Links]
  /\ {Head0, Tail0} \subseteq handled /\ handled \subseteq created
  /\ created \subseteq Nodes
  /\ op \in Ops /\ ctx \in created /\ target \in created
  /\ dir \in [Events -> {"in", "out"}]
  /\ pos \in [Events -> created \cup {Nil}]
  /\ event \in [Events -> {"idle", "check", "defer", "handler", "call",
                           "done", "lost", "panic"}]
  /\ hnd \in [Events -> created \cup {Nil}]
  /\ seen \in [Events -> SUBSET created]
  /\ stayed \in [Events -> SUBSET (created \cap Contexts)]
  /\ twice \subseteq Events /\ mixed \subseteq Events
  /\ grown \subseteq Events /\ cut \subseteq Events
  /\ emptied \in BOOLEAN /\ broken \in BOOLEAN /\ beforeHead \in BOOLEAN
  /\ broken => emptied
  /\ \A x \in Nodes : next[x] \in created \cup {Nil} /\ prev[x] \in created \cup {Nil}
  /\ \A e \in Events : /\ UnderWay(e) => pos[e] # Nil
                       /\ event[e] = "call" => hnd[e] # Nil

\* Links lead forwards and backwards in the rank r.
Ranked(r) ==
  /\ r[Head0] < r[Tail0]
  /\ \A x, y \in created : r[x] = r[y] => x = y
  /\ \A x \in Nodes : next[x] # Nil => r[x] < r[next[x]]
  /\ \A x \in Nodes : prev[x] # Nil => r[prev[x]] < r[x]
  /\ \A e \in Events : \A y \in stayed[e] : r[Head0] < r[y] /\ r[y] < r[Tail0]

On(L) == L \cup {Head0, Tail0}
From(L) == L \cup {Head0}
Into(L) == L \cup {Tail0}

\* Clear breaks the link of the last context before it resets the head.
Fwd(x) == IF next[x] = Nil THEN Tail0 ELSE next[x]

\* From the head on, every link leads to the next listed context in the rank.
Forwards(L, r) ==
  /\ L \subseteq Contexts /\ L \subseteq created
  /\ next[Tail0] = Nil
  /\ \A x \in L : r[Head0] < r[x] /\ r[x] < r[Tail0]
  /\ \A x \in From(L) : Fwd(x) \in Into(L)
  /\ \A x \in From(L), z \in On(L) : ~(r[x] < r[z] /\ r[z] < r[Fwd(x)])
  /\ op # "clearHead" => \A x \in From(L) : next[x] # Nil

\* RemoveFirst on an empty pipeline takes the tail's way back.
Loose(L) == L = {} /\ broken /\ prev[Tail0] \notin On(L)

\* The ways back lead along the same contexts, but where an operation is.
Backwards(L) ==
  /\ prev[Head0] \notin On(L)
  /\ ~beforeHead => prev[Head0] = Nil
  /\ op \notin Clearing =>
       \A x \in Into(L) :
         \/ prev[x] \in From(L) /\ next[prev[x]] = x
         \/ op = "linkNext" /\ x = target
         \/ op \in {"bypassNext", "firstNext"} /\ x = next[ctx]
         \/ x = Tail0 /\ Loose(L)

\* Only the context just linked may still be without its handler.
Armed(L) == \A x \in On(L) \ handled : op = "setHandler" /\ x = ctx

\* What each operation relies on from one pointer assignment to the next.
Adding(L, r) ==
  /\ op \in {"linkPrev", "linkNext"} =>
       /\ ctx \in Contexts \ L /\ target \in On(L)
       /\ next[ctx] = target
       /\ r[ctx] < r[target]
       /\ \A y \in created : ~(r[ctx] < r[y] /\ r[y] < r[target])
       /\ target = Head0 => beforeHead
  /\ op = "linkPrev" => prev[ctx] = prev[target]
  /\ op = "linkNext" =>
       /\ prev[target] = ctx
       /\ \/ prev[ctx] \in From(L) /\ next[prev[ctx]] = target
          \/ /\ prev[ctx] \notin On(L)
             /\ \/ target = Head0
                \/ target = Tail0 /\ L = {} /\ broken

Removing(L) ==
  /\ op \in {"bypassPrev", "bypassNext"} =>
       ctx \in L /\ \A e \in Events : ctx \notin stayed[e]
  /\ op = "bypassNext" => prev[next[ctx]] = prev[ctx]
  /\ op \in {"firstPrev", "firstNext"} => ctx \in L /\ ctx = next[Head0]
  /\ op = "firstNext" => prev[next[ctx]] = Head0
  /\ op \in {"dropNext", "dropPrev"} =>
       ctx \notin From(L) /\ (ctx = Tail0 => L = {} /\ broken)
  /\ op = "clearLast" => IF L = {} THEN prev[Tail0] = Nil
                         ELSE prev[Tail0] \in L /\ next[prev[Tail0]] = Tail0
  /\ op = "clearTail" => L = {}

ListInv(L, r) ==
  Ranked(r) /\ Forwards(L, r) /\ Backwards(L) /\ Armed(L) /\ Adding(L, r) /\ Removing(L)

\* x comes before y for an event of e's direction.
Prec(e, r, x, y) == IF dir[e] = "in" THEN r[x] < r[y] ELSE r[y] < r[x]

\* P is closed under the links e follows, and none of them skips a handler that
\* has stayed in the list and that e is still to come to.
Route(e, r, P) ==
  /\ pos[e] \in P
  /\ \A x \in P \ {Goal(e)} : Link(e, x) \in P
  /\ event[e] # "check" \/ e \notin mixed => pos[e] # Goal(e)
  /\ P \subseteq handled \/ e \in grown
  /\ e \notin mixed => \A y \in stayed[e] \ seen[e] :
       /\ Prec(e, r, pos[e], y)
       /\ \A x \in P \ {Goal(e)} : ~(Prec(e, r, x, y) /\ Prec(e, r, y, Link(e, x)))

Overlaps(e) ==
  /\ op \in CuttingOps /\ UnderWay(e) => e \in cut
  /\ op \in GrowingOps /\ UnderWay(e) => e \in grown

Onwards(e, r) ==
  /\ UnderWay(e) /\ e \notin mixed => \A y \in seen[e] : ~Prec(e, r, pos[e], y)
  /\ event[e] = "idle" => seen[e] = {}

Routed(e, r) ==
  UnderWay(e) /\ e \notin cut /\ ~emptied /\ ~beforeHead =>
    \E P \in SUBSET created : Route(e, r, P)

EventInv(r) ==
  \A e \in Events : Overlaps(e) /\ Onwards(e, r) /\ Routed(e, r)

IInv ==
  /\ TypeOK
  /\ RemoveIsSafe
  /\ \E L \in SUBSET Contexts, r \in [Nodes -> Nat] : ListInv(L, r) /\ EventInv(r)

----------------------------------------------------------------------------
(* Induction and recursion over the natural numbers, as facts about sets.  *)

\* A set that holds 0 and the successor of each of its numbers holds them all:
\* a least number outside it would let 0..n be mapped one-to-one into less.
LEMMA NatSetInduction ==
  ASSUME NEW S, 0 \in S, \A n \in Nat : n \in S => n + 1 \in S
  PROVE  Nat \subseteq S
<1> SUFFICES ASSUME NEW n \in Nat, n \notin S PROVE FALSE
  OBVIOUS
<1> DEFINE T == {i \in 0..n : i \in S}
<1>1. IsFiniteSet(T)
  <2>1. IsFiniteSet(0..n) /\ T \in SUBSET (0..n)
    BY FS_Interval
  <2> QED BY <2>1, FS_Subset
<1>2. 0 \in T
  OBVIOUS
<1>3. IsFiniteSet(T \ {0}) /\ Cardinality(T \ {0}) < Cardinality(T)
  <2> HIDE DEF T
  <2>1. Cardinality(T) \in Nat
    BY <1>1, FS_CardinalityType
  <2>2. IsFiniteSet(T \ {0}) /\ Cardinality(T \ {0}) = Cardinality(T) - 1
    BY <1>1, <1>2, FS_RemoveElement, Zenon
  <2> QED BY <2>1, <2>2
<1> DEFINE f == [i \in T |-> i + 1]
<1>4. f \in [T -> T \ {0}]
  OBVIOUS
<1>5. \A x, y \in T : f[x] = f[y] => x = y
  OBVIOUS
<1> HIDE DEF T, f
<1> QED BY <1>1, <1>3, <1>4, <1>5, FS_PigeonHole

\* A function defined step by step exists, so that Walk is what its definition
\* says.
LEMMA RecursionExists ==
  ASSUME NEW S, NEW a \in S, NEW n \in Nat, NEW G \in [1..n -> [S -> S]]
  PROVE  \E f \in [0..n -> S] : f[0] = a /\ \A i \in 1..n : f[i] = G[i][f[i - 1]]
<1> DEFINE Upto(k, f) == f \in [0..k -> S] /\ f[0] = a /\ \A i \in 1..k : f[i] = G[i][f[i - 1]]
           K == {k \in Nat : k <= n => \E f \in [0..k -> S] : Upto(k, f)}
<1>1. 0 \in K
  <2>1. Upto(0, [i \in 0..0 |-> a])
    OBVIOUS
  <2> QED BY <2>1, Zenon
<1>2. ASSUME NEW k \in Nat, k \in K PROVE k + 1 \in K
  <2> SUFFICES ASSUME k + 1 <= n PROVE \E f \in [0..(k + 1) -> S] : Upto(k + 1, f)
    OBVIOUS
  <2>1. PICK f \in [0..k -> S] : Upto(k, f)
    BY <1>2
  <2>2. G[k + 1][f[k]] \in S
    OBVIOUS
  <2> DEFINE g == [i \in 0..(k + 1) |-> IF i = k + 1 THEN G[k + 1][f[k]] ELSE f[i]]
  <2>3. g \in [0..(k + 1) -> S]
    BY <2>2
  <2>4. g[0] = a
    BY <2>1
  <2>5. \A i \in 1..(k + 1) : g[i] = G[i][g[i - 1]]
    BY <2>1
  <2> QED BY <2>3, <2>4, <2>5, Zenon
<1> HIDE DEF K
<1>3. Nat \subseteq K
  BY <1>1, <1>2, NatSetInduction
<1>4. n \in K
  BY <1>3
<1> QED BY <1>4 DEF K

----------------------------------------------------------------------------
(* Types.                                                                  *)

\* The constants: the head, the tail and nil are no contexts.
LEMMA NodeFacts ==
  /\ Head0 \in Nodes /\ Tail0 \in Nodes /\ Nil \notin Nodes
  /\ Head0 # Tail0 /\ Head0 # Nil /\ Tail0 # Nil
  /\ Contexts \subseteq Nodes /\ Head0 \notin Contexts /\ Tail0 \notin Contexts
  /\ Nodes \subseteq Links /\ Nil \in Links /\ Nodes = Contexts \cup {Head0, Tail0}
BY ContextsAssumption DEF Nodes, Links, Head0, Tail0, Nil

\* A new pipeline has two nodes that know each other.
LEMMA InitType == Init => TypeOK
<1> SUFFICES ASSUME Init PROVE TypeOK
  OBVIOUS
<1>1. next \in [Nodes -> Links] /\ prev \in [Nodes -> Links]
  BY NodeFacts DEF Init
<1>2. \A x \in Nodes : next[x] \in created \cup {Nil} /\ prev[x] \in created \cup {Nil}
  BY NodeFacts DEF Init
<1>3. /\ {Head0, Tail0} \subseteq handled /\ handled \subseteq created
      /\ created \subseteq Nodes /\ op \in Ops /\ ctx \in created /\ target \in created
  BY NodeFacts DEF Init, Ops
<1>4. \A e \in Events : event[e] = "idle"
  BY DEF Init
<1> QED BY <1>1, <1>2, <1>3, <1>4, Zenon DEF Init, TypeOK, UnderWay

\* The number of the nodes, by which every walk is bounded.
LEMMA NodeCount == IsFiniteSet(Nodes) /\ Cardinality(Nodes) \in Nat
<1>1. Nodes = (Contexts \cup {Head0}) \cup {Tail0}
  BY DEF Nodes
<1>2. IsFiniteSet(Contexts \cup {Head0})
  BY ContextsAssumption, FS_AddElement
<1>3. IsFiniteSet(Nodes)
  BY <1>1, <1>2, FS_AddElement
<1> QED BY <1>3, FS_CardinalityType

\* What Walk and PathSet are, one step after the other.
LEMMA WalkStep ==
  ASSUME NEW f \in [Nodes -> Links], NEW a \in Links
  PROVE  /\ Walk(f, a) \in [0..Cardinality(Nodes) -> Links]
         /\ Walk(f, a)[0] = a
         /\ \A i \in 1..Cardinality(Nodes) :
              Walk(f, a)[i] = IF Walk(f, a)[i - 1] = Nil THEN Nil ELSE f[Walk(f, a)[i - 1]]
<1> DEFINE C == Cardinality(Nodes)
           G == [i \in 1..C |-> [v \in Links |-> IF v = Nil THEN Nil ELSE f[v]]]
           Is(g) == g = [i \in 0..C |-> IF i = 0 THEN a
                           ELSE LET v == g[i - 1] IN IF v = Nil THEN Nil ELSE f[v]]
<1>1. C \in Nat
  BY NodeCount
<1>2. \A v \in Links : v = Nil \/ v \in Nodes
  BY DEF Links
<1>3. G \in [1..C -> [Links -> Links]]
  BY <1>2, NodeFacts
<1> HIDE DEF C, G
<1>4. PICK g \in [0..C -> Links] : g[0] = a /\ \A i \in 1..C : g[i] = G[i][g[i - 1]]
  BY <1>1, <1>3, RecursionExists
<1>5. \A i \in 1..C : g[i - 1] \in Links /\ i - 1 \in 0..C
  BY <1>1, <1>4
<1>6. Is(g)
  <2> DEFINE H(v) == IF v = Nil THEN Nil ELSE f[v]
  <2>0. \A i \in 1..C, v \in Links : G[i][v] = H(v)
    BY DEF G
  <2> HIDE DEF H
  <2>1. \A i \in 1..C : g[i] = H(g[i - 1])
    BY <1>4, <1>5, <2>0
  <2> USE DEF H
  <2>2. \A i \in 0..C : g[i] = IF i = 0 THEN a
                           ELSE LET v == g[i - 1] IN IF v = Nil THEN Nil ELSE f[v]
    BY <1>1, <1>4, <2>1
  <2> QED BY <1>4, <2>2
<1>7. Walk(f, a) = CHOOSE h : Is(h)
  BY DEF Walk, C
<1>8. Is(Walk(f, a))
  <2> HIDE DEF Is
  <2> QED BY <1>6, <1>7, Zenon
<1>9. \A h : Is(h) => /\ h[0] = a
                       /\ \A i \in 1..C : h[i] = IF h[i - 1] = Nil THEN Nil ELSE f[h[i - 1]]
  BY <1>1
<1>10. \A h : Is(h) => DOMAIN h = 0..C /\ h = [i \in 0..C |-> h[i]]
  OBVIOUS
<1>11. Walk(f, a) \in [0..C -> Links]
  <2> DEFINE w == Walk(f, a)
             K == {k \in Nat : k <= C => w[k] \in Links}
  <2>1. w[0] = a /\ \A i \in 1..C : w[i] = IF w[i - 1] = Nil THEN Nil ELSE f[w[i - 1]]
    BY <1>8, <1>9, Zenon
  <2> HIDE DEF w
  <2>2. 0 \in K
    BY <2>1
  <2>3. \A n \in Nat : n \in K => n + 1 \in K
    BY <1>1, <1>2, <2>1, NodeFacts
  <2>4. Nat \subseteq K
    BY <2>2, <2>3, NatSetInduction, Zenon
  <2>5. \A k \in 0..C : w[k] \in Links
    BY <1>1, <2>4
  <2> QED BY <1>8, <1>10, <2>5 DEF w
<1> QED BY <1>8, <1>9, <1>11, Zenon DEF C

\* A path that starts in a set closed under its links stays there.
LEMMA PathStays ==
  ASSUME NEW f \in [Nodes -> Links], NEW S \in SUBSET Nodes, Head0 \in S,
         \A x \in S : f[x] \in S \cup {Nil}
  PROVE  PathSet(f, Head0) \subseteq S
<1> DEFINE C == Cardinality(Nodes)
           w == Walk(f, Head0)
           K == {k \in Nat : k <= C => w[k] \in S \cup {Nil}}
<1>1. C \in Nat
  BY NodeCount
<1>2. w[0] = Head0 /\ \A i \in 1..C : w[i] = IF w[i - 1] = Nil THEN Nil ELSE f[w[i - 1]]
  <2>1. Head0 \in Links
    BY NodeFacts
  <2> QED BY <2>1, WalkStep
<1>3. PathSet(f, Head0) = {w[i] : i \in 1..C} \ {Nil}
  BY DEF PathSet
<1> HIDE DEF C, w
<1>4. 0 \in K
  BY <1>2
<1>5. \A n \in Nat : n \in K => n + 1 \in K
  BY <1>1, <1>2
<1>6. Nat \subseteq K
  BY <1>4, <1>5, NatSetInduction, Zenon
<1>7. \A k \in 1..C : w[k] \in S \cup {Nil}
  BY <1>1, <1>6
<1> QED BY <1>3, <1>7

\* Adding a context keeps the types.
LEMMA AddType ==
  ASSUME TypeOK,
         \/ \E x \in Contexts : AddLast(x) \/ \E t \in Nodes : AddBefore(t, x)
         \/ AddLinkPrev \/ AddLinkNext \/ AddSetHandler
  PROVE  TypeOK'
<1> USE NodeFacts DEF TypeOK, UnderWay, Ops, GrowingOps
<1>1. ASSUME NEW x \in Contexts, NEW t \in created, StartAdd(x, t),
             UNCHANGED <<handled, eventVars, stayed, cut, emptied, broken>>, beforeHead' \in BOOLEAN
      PROVE  TypeOK'
  BY <1>1 DEF StartAdd, eventVars, Overlapped
<1>2. ASSUME NEW x \in Contexts, AddLast(x) PROVE TypeOK'
  BY <1>1, <1>2 DEF AddLast
<1>3. ASSUME NEW x \in Contexts, NEW t \in Nodes, AddBefore(t, x) PROVE TypeOK'
  <2>1. PathSet(next, Head0) \subseteq created
    BY PathStays, Zenon
  <2>2. t \in created
    BY <1>3, <2>1 DEF AddBefore
  <2> QED BY <1>1, <1>3, <2>2 DEF AddBefore
<1>4. ASSUME AddLinkPrev PROVE TypeOK'
  BY <1>4 DEF AddLinkPrev, eventVars, histVars
<1>5. ASSUME AddLinkNext PROVE TypeOK'
  BY <1>5 DEF AddLinkNext, eventVars, histVars
<1>6. ASSUME AddSetHandler PROVE TypeOK'
  BY <1>6 DEF AddSetHandler, eventVars, histVars
<1> QED BY <1>2, <1>3, <1>4, <1>5, <1>6

\* So do RemoveFirst, Remove and Clear.
LEMMA RemoveType ==
  ASSUME TypeOK,
         \/ RemoveFirst \/ RemoveFirstBypass \/ RemoveFirstDrop
         \/ \E x \in Contexts : Remove(x)
         \/ RemoveBypass \/ Clear \/ ClearLinks
  PROVE  TypeOK'
<1> USE NodeFacts DEF TypeOK, UnderWay, Ops, CuttingOps
<1>1. ASSUME RemoveFirst PROVE TypeOK'
  <2>1. next[Head0] \in created
    BY <1>1 DEF RemoveFirst
  <2>2. stayed' \in [Events -> SUBSET (created' \cap Contexts)]
    BY <1>1 DEF RemoveFirst, listVars, Leave
  <2>3. /\ op' \in Ops /\ ctx' \in created' /\ target' \in created'
        /\ cut' \subseteq Events /\ emptied' \in BOOLEAN /\ broken' \in BOOLEAN
        /\ broken' => emptied'
    BY <1>1, <2>1 DEF RemoveFirst, listVars, Overlapped
  <2> QED BY <1>1, <2>2, <2>3 DEF RemoveFirst, listVars, eventVars
<1>2. ASSUME RemoveFirstBypass PROVE TypeOK'
  BY <1>2 DEF RemoveFirstBypass, eventVars, histVars
<1>3. ASSUME RemoveFirstDrop PROVE TypeOK'
  BY <1>3 DEF RemoveFirstDrop, eventVars, histVars
<1>4. ASSUME NEW x \in Contexts, Remove(x) PROVE TypeOK'
  <2>1. PathSet(next, Head0) \subseteq created
    BY PathStays, Zenon
  <2>2. stayed' \in [Events -> SUBSET (created' \cap Contexts)]
    BY <1>4 DEF Remove, listVars, Leave
  <2>3. op' \in Ops /\ ctx' \in created' /\ target' \in created'
    BY <1>4, <2>1 DEF Remove, listVars
  <2> QED BY <1>4, <2>2, <2>3 DEF Remove, listVars, eventVars
<1>5. ASSUME RemoveBypass PROVE TypeOK'
  BY <1>5 DEF RemoveBypass, eventVars, histVars
<1>6. ASSUME Clear PROVE TypeOK'
  <2>1. stayed' \in [Events -> SUBSET (created' \cap Contexts)]
    BY <1>6 DEF Clear, Leave
  <2>2. prev' \in [Nodes -> Links] /\ cut' \subseteq Events /\ op' \in Ops
    BY <1>6, Zenon DEF Clear, Overlapped
  <2>3. \A x \in Nodes : prev'[x] \in created' \cup {Nil}
    BY <1>6 DEF Clear
  <2> QED BY <1>6, <2>1, <2>2, <2>3 DEF Clear, eventVars
<1>7. ASSUME ClearLinks PROVE TypeOK'
  <2>1. /\ UNCHANGED <<handled, created, ctx, target, eventVars, stayed, grown, cut, emptied,
                        beforeHead>>
        /\ op' \in {"clearHead", "clearTail", "idle"}
    BY <1>7 DEF ClearLinks
  <2>2. broken' \in BOOLEAN /\ (broken' => emptied)
    <3>1. broken \in BOOLEAN /\ (broken => emptied)
      BY Zenon
    <3> HIDE DEF TypeOK
    <3>2. CASE UNCHANGED broken
      BY <3>1, <3>2
    <3>3. CASE broken' = FALSE
      BY <3>3
    <3> QED BY <1>7, <3>2, <3>3 DEF ClearLinks
  <2>3. /\ next' \in [Nodes -> Links] /\ prev' \in [Nodes -> Links]
        /\ \A x \in Nodes : next'[x] \in created \cup {Nil} /\ prev'[x] \in created \cup {Nil}
    BY <1>7 DEF ClearLinks
  <2> QED BY <2>1, <2>2, <2>3 DEF eventVars
<1> QED BY <1>1, <1>2, <1>3, <1>4, <1>5, <1>6, <1>7

\* So does every step of an event.
LEMMA EventType ==
  ASSUME TypeOK, NEW e \in Events, Fire(e) \/ EventStep(e)
  PROVE  TypeOK'
<1> USE NodeFacts DEF TypeOK, UnderWay, EventTo, listVars, opVars
<1>1. ASSUME Fire(e) PROVE TypeOK'
  <2>1. PathSet(next, Head0) \subseteq created
    BY PathStays, Zenon
  <2>2. stayed' \in [Events -> SUBSET (created' \cap Contexts)]
    BY <1>1, <2>1 DEF Fire
  <2>3. grown' \subseteq Events /\ cut' \subseteq Events
    BY <1>1 DEF Fire
  <2> QED BY <1>1, <2>2, <2>3 DEF Fire
<1>2. ASSUME CheckLink(e) PROVE TypeOK'
  BY <1>2 DEF CheckLink, histVars
<1>3. ASSUME DeferErrorCaught(e) PROVE TypeOK'
  BY <1>3 DEF DeferErrorCaught, histVars
<1>4. ASSUME PickHandler(e) PROVE TypeOK'
  <2>1. Link(e, pos[e]) \in created \cup {Nil}
    BY <1>4 DEF PickHandler, Link
  <2> DEFINE n == Link(e, pos[e])
  <2> HIDE DEF n
  <2>2. hnd' \in [Events -> created \cup {Nil}] /\ hnd' = [hnd EXCEPT ![e] = n]
    BY <1>4, <2>1 DEF PickHandler, n
  <2>3. \/ event' = [event EXCEPT ![e] = "call"] /\ n \in handled
        \/ event' = [event EXCEPT ![e] = "panic"]
    BY <1>4, Zenon DEF PickHandler, n
  <2>4. event[e] = "handler"
    BY <1>4 DEF PickHandler
  <2>5. \A f \in Events : /\ event'[f] \in {"check", "defer", "handler", "call"} => pos[f] # Nil
                          /\ event'[f] = "call" => hnd'[f] # Nil
    BY <2>2, <2>3, <2>4
  <2> QED BY <1>4, <2>2, <2>3, <2>5 DEF PickHandler, histVars
<1>5. ASSUME CallHandler(e) PROVE TypeOK'
  <2>1. hnd[e] \in created /\ pos[e] \in created
    BY <1>5 DEF CallHandler
  <2>2. Link(e, pos[e]) \in created \cup {Nil}
    BY <2>1 DEF Link
  <2> DEFINE n == Link(e, pos[e])
             done == IF hnd[e] = Goal(e) THEN "done" ELSE "check"
  <2>3. \/ n = Nil /\ event' = [event EXCEPT ![e] = "panic"] /\ UNCHANGED <<pos, seen, twice, mixed>>
        \/ /\ n # Nil /\ event' = [event EXCEPT ![e] = done]
           /\ pos' = [pos EXCEPT ![e] = n]
           /\ seen' = [seen EXCEPT ![e] = @ \cup {hnd[e]}]
           /\ twice' \in {twice, twice \cup {e}} /\ mixed' \in {mixed, mixed \cup {e}}
    BY <1>5 DEF CallHandler, Handled
  <2>4. done \in {"done", "check"}
    OBVIOUS
  <2> HIDE DEF n, done
  <2>5. pos' \in [Events -> created \cup {Nil}] /\ seen' \in [Events -> SUBSET created]
    BY <2>1, <2>2, <2>3 DEF n
  <2>6. /\ event' \in [Events -> {"idle", "check", "defer", "handler", "call",
                                 "done", "lost", "panic"}]
        /\ event'[e] \in {"panic", "done", "check"}
        /\ \A f \in Events \ {e} : event'[f] = event[f]
    BY <2>3, <2>4
  <2>7. \A f \in Events : /\ event'[f] \in {"check", "defer", "handler", "call"} => pos'[f] # Nil
                          /\ event'[f] = "call" => hnd'[f] # Nil
    <3>1. pos'[e] # Nil /\ \A f \in Events \ {e} : pos'[f] = pos[f]
      BY <2>1, <2>2, <2>3
    <3>2. \A f \in Events \ {e} : hnd'[f] = hnd[f]
      BY <1>5 DEF CallHandler
    <3> QED BY <2>6, <3>1, <3>2
  <2>8. twice' \subseteq Events /\ mixed' \subseteq Events
    BY <2>3
  <2>9. hnd' \in [Events -> created \cup {Nil}]
    BY <1>5 DEF CallHandler
  <2> QED BY <1>5, <2>5, <2>6, <2>7, <2>8, <2>9 DEF CallHandler, histVars
<1> QED BY <1>1, <1>2, <1>3, <1>4, <1>5 DEF EventStep

----------------------------------------------------------------------------
(* Events.                                                                 *)

\* RemoveIsSafe, of one event.
SafeFor(e) ==
  /\ event[e] = "lost" => e \in mixed \cup cut \/ emptied \/ beforeHead
  /\ event[e] = "panic" => e \in cut \cup grown \/ emptied \/ beforeHead
  /\ event[e] = "done" =>
       e \in mixed \cup cut \/ emptied \/ beforeHead \/ stayed[e] \subseteq seen[e]
  /\ e \in twice => e \in mixed

EventOK(e, r) == Overlaps(e) /\ Onwards(e, r) /\ Routed(e, r) /\ SafeFor(e)

\* Nothing that concerns e changes.
Elsewhere(e) ==
  /\ dir'[e] = dir[e] /\ pos'[e] = pos[e] /\ event'[e] = event[e] /\ seen'[e] = seen[e]
  /\ stayed'[e] = stayed[e]
  /\ (e \in twice') = (e \in twice) /\ (e \in mixed') = (e \in mixed)
  /\ (e \in grown') = (e \in grown) /\ (e \in cut') = (e \in cut)
  /\ UNCHANGED <<listVars, opVars, emptied, broken, beforeHead>>

\* An event is not disturbed by the steps of the others.
LEMMA OtherEvents ==
  ASSUME NEW e \in Events, NEW r \in [Nodes -> Nat], EventOK(e, r), Elsewhere(e)
  PROVE  EventOK(e, r)'
<1> USE DEF Elsewhere, listVars, opVars, UnderWay
<1>1. Overlaps(e)' /\ SafeFor(e)'
  BY DEF EventOK, Overlaps, SafeFor
<1>2. Onwards(e, r)'
  BY DEF EventOK, Onwards, Prec
<1>3. ASSUME NEW P, Route(e, r, P) PROVE Route(e, r, P)'
  BY <1>3 DEF Route, Prec, Link, Goal
<1>4. Routed(e, r)'
  BY <1>3 DEF EventOK, Routed
<1> QED BY <1>1, <1>2, <1>4 DEF EventOK

\* What lies between head and tail is what is listed.
LEMMA PathListed ==
  ASSUME TypeOK, NEW L \in SUBSET Contexts, NEW r \in [Nodes -> Nat], Forwards(L, r)
  PROVE  PathSet(next, Head0) \subseteq On(L)
<1>1. On(L) \in SUBSET Nodes /\ Head0 \in On(L)
  BY NodeFacts DEF On
<1>2. \A x \in On(L) : next[x] \in On(L) \cup {Nil}
  BY DEF Forwards, On, From, Into, Fwd
<1>3. next \in [Nodes -> Links]
  BY DEF TypeOK
<1> QED BY <1>1, <1>2, <1>3, PathStays

\* The fields of an event's step that most of its lemmas need.
LEMMA StepElsewhere ==
  ASSUME TypeOK, NEW e \in Events, Fire(e) \/ EventStep(e), NEW f \in Events, f # e
  PROVE  Elsewhere(f)
<1> USE DEF Elsewhere, TypeOK, EventTo
<1>1. ASSUME Fire(e) PROVE Elsewhere(f)
  BY <1>1 DEF Fire
<1>2. ASSUME CheckLink(e) PROVE Elsewhere(f)
  BY <1>2 DEF CheckLink, histVars
<1>3. ASSUME DeferErrorCaught(e) PROVE Elsewhere(f)
  BY <1>3 DEF DeferErrorCaught, histVars
<1>4. ASSUME PickHandler(e) PROVE Elsewhere(f)
  BY <1>4 DEF PickHandler, histVars
<1>5. ASSUME CallHandler(e) PROVE Elsewhere(f)
  BY <1>5 DEF CallHandler, histVars, Handled
<1> QED BY <1>1, <1>2, <1>3, <1>4, <1>5 DEF EventStep

\* A link tested for nil, or about to be followed, stays on the route.
LEMMA LinkReads ==
  ASSUME TypeOK, NEW L \in SUBSET Contexts, NEW r \in [Nodes -> Nat], ListInv(L, r),
         NEW e \in Events, EventOK(e, r),
         CheckLink(e) \/ DeferErrorCaught(e) \/ PickHandler(e)
  PROVE  EventOK(e, r)'
<1> USE NodeFacts
<1>1. /\ UNCHANGED <<listVars, opVars, dir, pos, seen, twice, mixed, histVars>>
      /\ event[e] \in {"check", "defer", "handler"}
      /\ \/ event'[e] = "lost" /\ Link(e, pos[e]) = Nil /\ event[e] = "check"
         \/ event'[e] = "panic" /\ Link(e, pos[e]) \notin handled /\ event[e] # "check"
         \/ event'[e] \in {"defer", "handler", "call"}
            /\ (Link(e, pos[e]) # Nil \/ event[e] # "check")
  BY DEF CheckLink, DeferErrorCaught, PickHandler, EventTo, TypeOK
<1>2. UnderWay(e) /\ Overlaps(e) /\ Onwards(e, r) /\ Routed(e, r) /\ SafeFor(e)
  BY <1>1 DEF UnderWay, EventOK
<1>3. Overlaps(e)'
  BY <1>1, <1>2 DEF Overlaps, UnderWay, histVars, opVars
<1>4. Onwards(e, r)'
  BY <1>1, <1>2 DEF Onwards, UnderWay, Prec
<1>5. ASSUME NEW P \in SUBSET created, Route(e, r, P), ~beforeHead PROVE
        /\ event'[e] = "lost" => e \in mixed
        /\ event'[e] = "panic" => e \in grown
        /\ event'[e] \in {"defer", "handler", "call"} => Route(e, r, P)'
  <2>1. prev[Head0] = Nil /\ next[Tail0] = Nil
    BY <1>5 DEF ListInv, Backwards, Forwards
  <2>2. P \subseteq Nodes /\ Nil \notin P /\ pos[e] \in P
    BY <1>5, NodeFacts DEF TypeOK, Route
  <2>3. Link(e, Goal(e)) = Nil
    BY <2>1 DEF Link, Goal, TypeOK
  <2>4. event'[e] = "lost" => e \in mixed
    BY <1>1, <1>5, <2>2 DEF Route
  <2>5. event'[e] = "panic" => e \in grown
    BY <1>1, <1>5, <2>2 DEF Route
  <2>6. event'[e] \in {"defer", "handler", "call"} => pos[e] # Goal(e)
    BY <1>1, <1>5, <2>3 DEF Route
  <2>7. event'[e] \in {"defer", "handler", "call"} => Route(e, r, P)'
    BY <1>1, <1>5, <2>6 DEF Route, Prec, Link, Goal, listVars, histVars
  <2> QED BY <2>4, <2>5, <2>7
<1>6. Routed(e, r)'
  BY <1>1, <1>2, <1>5 DEF Routed, UnderWay, histVars, listVars
<1>7. SafeFor(e)'
  BY <1>1, <1>2, <1>5 DEF SafeFor, Routed, UnderWay, histVars, listVars
<1> QED BY <1>3, <1>4, <1>6, <1>7 DEF EventOK

\* A handler that passes the event on with the context it belongs to leaves behind
\* it every handler that has handled the event, and before it every handler
\* that has stayed and is still to come.
LEMMA CallOn ==
  ASSUME TypeOK, NEW L \in SUBSET Contexts, NEW r \in [Nodes -> Nat], ListInv(L, r),
         NEW e \in Events, EventOK(e, r), CallHandler(e)
  PROVE  EventOK(e, r)'
<1> USE NodeFacts
<1> DEFINE n == Link(e, pos[e])
<1>1. /\ UNCHANGED <<listVars, opVars, dir, histVars>>
      /\ event[e] = "call" /\ hnd[e] \in created /\ pos[e] \in created /\ pos[e] \in Nodes
      /\ created \subseteq Nodes
  BY DEF CallHandler, TypeOK, UnderWay
<1>2. \/ n = Nil /\ event'[e] = "panic" /\ UNCHANGED <<pos, seen, twice, mixed>>
      \/ /\ n # Nil /\ pos'[e] = n
         /\ event'[e] = IF hnd[e] = Goal(e) THEN "done" ELSE "check"
         /\ seen'[e] = seen[e] \cup {hnd[e]}
         /\ (e \in twice') = (e \in twice \/ hnd[e] \in seen[e])
         /\ (e \in mixed') = (e \in mixed \/ hnd[e] # n)
  BY DEF CallHandler, Handled, EventTo, TypeOK
<1>3. UnderWay(e) /\ Overlaps(e) /\ Onwards(e, r) /\ Routed(e, r) /\ SafeFor(e)
  BY <1>1 DEF UnderWay, EventOK
<1>4. n # Nil => n \in created /\ n \in Nodes /\ Prec(e, r, pos[e], n)
  BY <1>1 DEF ListInv, Ranked, Prec, Link, TypeOK
<1>5. dir'[e] = dir[e] /\ Goal(e)' = Goal(e) /\ \A x, y : Prec(e, r, x, y)' = Prec(e, r, x, y)
  BY <1>1 DEF Prec, Goal
<1>6. Overlaps(e)'
  BY <1>1, <1>2, <1>3 DEF Overlaps, UnderWay, histVars, opVars
<1>7. stayed'[e] = stayed[e] /\ stayed[e] \subseteq created \cap Contexts /\ seen[e] \subseteq created
  BY <1>1 DEF TypeOK, histVars
<1>8. ASSUME NEW x \in created, NEW y \in created, NEW z \in created
      PROVE  /\ Prec(e, r, x, y) /\ Prec(e, r, y, z) => Prec(e, r, x, z)
             /\ ~Prec(e, r, x, x)
             /\ Prec(e, r, x, y) \/ Prec(e, r, y, x) \/ x = y
             /\ Prec(e, r, x, y) => ~Prec(e, r, y, x)
  BY <1>1 DEF Prec, ListInv, Ranked
<1> HIDE DEF n
<1>9. Onwards(e, r)'
  <2> SUFFICES ASSUME n # Nil, e \notin mixed', NEW y \in seen'[e], event'[e] = "check"
               PROVE  ~Prec(e, r, n, y)
    BY <1>2, <1>5 DEF Onwards, UnderWay
  <2>1. e \notin mixed /\ hnd[e] = n /\ \A w \in seen[e] : ~Prec(e, r, pos[e], w)
    BY <1>2, <1>3 DEF Onwards
  <2>2. CASE y = n
    BY <1>4, <1>8, <2>2
  <2>3. CASE y \in seen[e]
    BY <1>1, <1>4, <1>7, <1>8, <2>1, <2>3
  <2> QED BY <1>2, <2>1, <2>2, <2>3
<1>10. ASSUME NEW P \in SUBSET created, Route(e, r, P) PROVE
         /\ n \in P
         /\ \A y \in stayed[e] \ seen[e] : e \notin mixed => Prec(e, r, n, y) \/ y = n
         /\ event'[e] = "check" => Route(e, r, P)'
  <2>1. pos[e] \in P \ {Goal(e)} /\ n \in P /\ n # Nil
    BY <1>1, <1>10, NodeFacts DEF Route, TypeOK, n
  <2>2. \A y \in stayed[e] \ seen[e] : e \notin mixed => Prec(e, r, n, y) \/ y = n
    BY <1>4, <1>7, <1>8, <1>10, <2>1 DEF Route, n
  <2>3. ASSUME event'[e] = "check" PROVE Route(e, r, P)'
    <3>1. pos'[e] = n /\ hnd[e] # Goal(e)
      BY <1>2, <2>1, <2>3
    <3>2. \A x : Link(e, x)' = Link(e, x)
      BY <1>1 DEF Link, listVars
    <3>3. handled' = handled /\ (e \in grown') = (e \in grown)
      BY <1>1 DEF listVars, histVars
    <3>4. ASSUME e \notin mixed' PROVE
            /\ pos'[e] # Goal(e)
            /\ \A y \in stayed'[e] \ seen'[e] : Prec(e, r, n, y)
            /\ e \notin mixed /\ stayed'[e] \ seen'[e] \subseteq stayed[e] \ seen[e]
      <4>1. hnd[e] = n /\ e \notin mixed /\ seen'[e] = seen[e] \cup {n}
        BY <1>2, <2>1, <3>4
      <4> QED BY <1>7, <2>2, <3>1, <4>1
    <3> QED BY <1>5, <1>10, <2>1, <2>3, <3>1, <3>2, <3>3, <3>4 DEF Route
  <2> QED BY <2>1, <2>2, <2>3
<1>11. Routed(e, r)'
  <2> SUFFICES ASSUME UnderWay(e)', e \notin cut, ~emptied, ~beforeHead
               PROVE  \E P \in SUBSET created : Route(e, r, P)'
    BY <1>1 DEF Routed, histVars, listVars
  <2>1. PICK P \in SUBSET created : Route(e, r, P)
    BY <1>3 DEF Routed
  <2> QED BY <1>2, <1>10, <2>1 DEF UnderWay
<1>12. SafeFor(e)'
  <2>1. e \in twice' => e \in mixed'
    <3>1. SUFFICES ASSUME n # Nil, e \notin mixed, hnd[e] = n, n \in seen[e] PROVE FALSE
      BY <1>2, <1>3 DEF SafeFor
    <3> QED BY <1>3, <1>4, <3>1 DEF Onwards
  <2>2. (e \in grown') = (e \in grown) /\ (e \in cut') = (e \in cut)
        /\ emptied' = emptied /\ beforeHead' = beforeHead
    BY <1>1 DEF histVars
  <2>3. CASE e \in cut \/ emptied \/ beforeHead
    BY <1>2, <2>1, <2>2, <2>3 DEF SafeFor
  <2>4. CASE e \notin cut /\ ~emptied /\ ~beforeHead
    <3>1. PICK P \in SUBSET created : Route(e, r, P)
      BY <1>3, <2>4 DEF Routed
    <3>2. n \in P /\ n # Nil
      BY <1>1, <1>10, <3>1, NodeFacts
    <3>3. ASSUME event'[e] = "done", e \notin mixed' PROVE stayed'[e] \subseteq seen'[e]
      <4>1. hnd[e] = Goal(e) /\ n = Goal(e) /\ e \notin mixed
        BY <1>2, <3>2, <3>3
      <4>2. \A y \in stayed[e] : ~Prec(e, r, Goal(e), y) /\ y # Goal(e)
        BY <1>1, <1>7, NodeFacts DEF Prec, Goal, ListInv, Ranked
      <4> QED BY <1>2, <1>7, <1>10, <3>1, <3>2, <4>1, <4>2
    <3> QED BY <1>2, <2>1, <3>2, <3>3 DEF SafeFor
  <2> QED BY <2>3, <2>4
<1> QED BY <1>6, <1>9, <1>11, <1>12 DEF EventOK

\* An event is fired into the listed contexts, in either direction, and even
\* while a context is being linked or bypassed.
LEMMA FireOn ==
  ASSUME TypeOK, TypeOK', NEW L \in SUBSET Contexts, NEW r \in [Nodes -> Nat], ListInv(L, r),
         NEW e \in Events, EventOK(e, r), Fire(e)
  PROVE  EventOK(e, r)'
<1> USE NodeFacts
<1> DEFINE s == {x \in Contexts \cap PathSet(next, Head0) : op = "idle" \/ x # ctx}
<1>1. /\ UNCHANGED <<listVars, opVars, hnd, seen, twice, mixed, emptied, broken, beforeHead>>
      /\ event[e] = "idle" /\ event'[e] = "check" /\ stayed'[e] = s
      /\ (e \in grown') = (e \in grown \/ op \in GrowingOps)
      /\ (e \in cut') = (e \in cut \/ op \in CuttingOps)
      /\ \/ dir'[e] = "in" /\ pos'[e] = Head0
         \/ dir'[e] = "out" /\ pos'[e] = Tail0
  BY DEF Fire, EventTo, TypeOK
<1>2. s \subseteq L /\ (op # "idle" => ctx \notin s)
  BY PathListed DEF ListInv, On
<1> HIDE DEF s
<1>3. Overlaps(e)' /\ SafeFor(e)' /\ Onwards(e, r)'
  BY <1>1 DEF EventOK, Overlaps, SafeFor, Onwards, opVars
<1>4. Ranked(r) /\ Forwards(L, r) /\ Backwards(L) /\ Armed(L) /\ Adding(L, r) /\ Removing(L)
  BY DEF ListInv
<1>5. L \subseteq Contexts /\ L \subseteq created /\ On(L) \subseteq created /\ L \subseteq Nodes
  BY <1>4 DEF Forwards, On, TypeOK
<1>6. \A x \in created : r[x] \in Nat /\ x \in Nodes
  BY DEF TypeOK
<1>7. ASSUME e \notin cut', ~emptied, ~beforeHead, dir'[e] = "in" PROVE Route(e, r, On(L))'
  <2>1. op \notin CuttingOps
    BY <1>1, <1>7
  <2>2. \A x \in From(L) : /\ next[x] \in Into(L)
                           /\ \A y \in L : ~(r[x] < r[y] /\ r[y] < r[next[x]])
    BY <1>4, <2>1 DEF Forwards, CuttingOps, Fwd, On
  <2>3. \A y \in L : r[Head0] < r[y]
    BY <1>4 DEF Forwards
  <2>4. On(L) \subseteq handled' \/ e \in grown'
    BY <1>1, <1>4 DEF Armed, listVars, GrowingOps
  <2> QED BY <1>1, <1>2, <1>7, <2>2, <2>3, <2>4 DEF Route, Link, Goal, Prec, listVars, On, From, Into
<1>8. ASSUME e \notin cut', ~emptied, ~beforeHead, dir'[e] = "out"
      PROVE  \E P \in SUBSET created : Route(e, r, P)'
  <2>1. op \notin CuttingOps
    BY <1>1, <1>8
  <2>2. \A x \in From(L) : /\ next[x] \in Into(L) /\ r[x] < r[next[x]]
                           /\ \A y \in L : ~(r[x] < r[y] /\ r[y] < r[next[x]])
    BY <1>4, <1>6, <2>1 DEF Forwards, Ranked, CuttingOps, Fwd, On, From
  <2>3. \A y \in s : r[y] < r[Tail0]
    BY <1>2, <1>4 DEF Forwards
  <2>4. (L \cup {Head0, Tail0} \subseteq handled /\ op # "linkNext") \/ e \in grown'
    BY <1>1, <1>4 DEF Armed, On, GrowingOps
  <2>5. \A x \in Into(L) :
          \/ prev[x] \in From(L) /\ next[prev[x]] = x
          \/ op = "linkNext" /\ x = target
          \/ op = "bypassNext" /\ x = next[ctx]
    BY <1>4, <1>8, <2>1 DEF Backwards, Clearing, CuttingOps, Loose, TypeOK
  <2>6. CASE op = "linkNext"
    <3>1. /\ ctx \in Contexts \ L /\ target \in On(L) /\ target # Head0
          /\ prev[target] = ctx /\ prev[ctx] \in From(L) /\ next[prev[ctx]] = target
          /\ \A y \in created : ~(r[ctx] < r[y] /\ r[y] < r[target])
          /\ ctx \in created
      BY <1>4, <1>8, <2>6 DEF Adding, TypeOK
    <3>2. r[prev[ctx]] < r[ctx] /\ r[ctx] < r[target]
      BY <1>4, <3>1 DEF Ranked, TypeOK, From
    <3>3. PICK P \in SUBSET created : P = On(L) \cup {ctx}
      BY <1>5, <3>1, Zenon
    <3>4. \A x \in P \ {Head0} : prev[x] \in P
      BY <2>5, <2>6, <3>1, <3>3 DEF On, From, Into
    <3>5. ASSUME NEW y \in L, NEW x \in P \ {Head0} PROVE ~(r[y] < r[x] /\ r[prev[x]] < r[y])
      <4>1. CASE x = ctx
        <5>1. ~(r[prev[ctx]] < r[y] /\ r[y] < r[target])
          BY <2>2, <3>1
        <5>2. r[ctx] \in Nat /\ r[y] \in Nat /\ r[target] \in Nat
          BY <1>5, <1>6, <3>1
        <5> QED BY <3>2, <4>1, <5>1, <5>2
      <4>2. CASE x = target
        BY <1>5, <3>1, <4>2
      <4>3. CASE x \in Into(L) /\ x # target
        BY <2>2, <2>5, <2>6, <4>3
      <4> QED BY <3>3, <4>1, <4>2, <4>3 DEF On, Into
    <3>6. Route(e, r, P)'
      <4>1. e \in grown'
        BY <1>1, <2>6 DEF GrowingOps
      <4>2. pos'[e] = Tail0 /\ dir'[e] = "out" /\ prev' = prev /\ stayed'[e] = s /\ Tail0 \in P
        BY <1>1, <1>8, <3>3 DEF listVars, On
      <4> QED BY <1>2, <2>3, <3>4, <3>5, <4>1, <4>2, NodeFacts DEF Route, Prec, Link, Goal
    <3> QED BY <3>6
  <2>7. CASE op # "linkNext"
    <3>1. op = "bypassNext" => /\ ctx \in L /\ ctx \notin s /\ next[ctx] \in Into(L)
                               /\ prev[next[ctx]] = prev[ctx]
                               /\ prev[ctx] \in From(L) /\ next[prev[ctx]] = ctx
      <4> SUFFICES ASSUME op = "bypassNext" PROVE
            /\ ctx \in L /\ ctx \notin s /\ next[ctx] \in Into(L) /\ prev[next[ctx]] = prev[ctx]
            /\ prev[ctx] \in From(L) /\ next[prev[ctx]] = ctx
        OBVIOUS
      <4>1. ctx \in L /\ ctx \notin s /\ prev[next[ctx]] = prev[ctx]
        BY <1>2, <1>4 DEF Removing
      <4>2. next[ctx] \in Into(L) /\ r[ctx] < r[next[ctx]]
        BY <2>2, <4>1 DEF From
      <4>3. ctx # next[ctx]
        BY <1>5, <1>6, <4>1, <4>2
      <4> QED BY <2>5, <4>1, <4>2, <4>3 DEF Into
    <3>2. \A x \in Into(L) : prev[x] \in From(L)
      BY <2>5, <2>7, <3>1
    <3>3. ASSUME NEW y \in s, NEW x \in Into(L) PROVE ~(r[y] < r[x] /\ r[prev[x]] < r[y])
      <4>1. CASE next[prev[x]] = x
        BY <1>2, <2>2, <3>2, <4>1
      <4>2. CASE op = "bypassNext" /\ x = next[ctx]
        <5>1. /\ ~(r[prev[x]] < r[y] /\ r[y] < r[ctx])
              /\ ~(r[ctx] < r[y] /\ r[y] < r[x])
          BY <1>2, <2>2, <3>1, <4>2 DEF From
        <5>2. r[y] # r[ctx]
          BY <1>2, <1>4, <1>5, <3>1, <4>2 DEF Ranked
        <5>3. r[y] \in Nat /\ r[ctx] \in Nat
          BY <1>2, <1>5, <1>6, <3>1, <4>2
        <5> QED BY <5>1, <5>2, <5>3
      <4> QED BY <2>5, <2>7, <4>1, <4>2
    <3>4. Route(e, r, On(L))'
      <4>1. pos'[e] = Tail0 /\ dir'[e] = "out" /\ prev' = prev /\ stayed'[e] = s
        BY <1>1, <1>8 DEF listVars
      <4>2. handled' = handled /\ (On(L) \subseteq handled \/ e \in grown')
        BY <1>1, <2>4 DEF listVars, On
      <4>3. \A x \in On(L) \ {Head0} : /\ prev[x] \in On(L)
                                      /\ \A y \in s : ~(r[y] < r[x] /\ r[prev[x]] < r[y])
        BY <3>2, <3>3 DEF On, Into, From
      <4> QED BY <2>3, <4>1, <4>2, <4>3, NodeFacts DEF Route, Prec, Link, Goal, On
    <3> QED BY <1>5, <3>4
  <2> QED BY <2>6, <2>7
<1>9. Routed(e, r)'
  BY <1>1, <1>5, <1>7, <1>8 DEF Routed, UnderWay, listVars
<1> QED BY <1>3, <1>9 DEF EventOK

----------------------------------------------------------------------------
(* The operations and the list.                                            *)

\* What is on the list is known, and has a place in the rank.
LEMMA ListFacts ==
  ASSUME TypeOK, NEW L \in SUBSET Contexts, NEW r \in [Nodes -> Nat], ListInv(L, r)
  PROVE  /\ On(L) \subseteq created /\ created \subseteq Nodes
         /\ From(L) \subseteq On(L) /\ Into(L) \subseteq On(L)
         /\ Head0 \notin L /\ Tail0 \notin L /\ Head0 \notin Into(L) /\ Tail0 \notin From(L)
         /\ \A x \in created : r[x] \in Nat
         /\ \A x \in From(L) : r[Head0] <= r[x] /\ r[x] < r[Tail0]
         /\ \A x \in Into(L) : r[Head0] < r[x] /\ r[x] <= r[Tail0]
         /\ op # "clearHead" => \A x \in From(L) :
              /\ next[x] \in Into(L) /\ r[x] < r[next[x]]
              /\ \A z \in On(L) : ~(r[x] < r[z] /\ r[z] < r[next[x]])
         /\ op # "clearHead" => \A x, y \in From(L) : next[x] = next[y] => x = y
         /\ op # "clearHead" => (next[Head0] = Tail0) = (L = {})
<1> USE NodeFacts
<1>1. Ranked(r) /\ Forwards(L, r)
  BY DEF ListInv
<1>2. On(L) \subseteq created /\ created \subseteq Nodes
  BY <1>1 DEF Forwards, On, TypeOK
<1>3. From(L) \subseteq On(L) /\ Into(L) \subseteq On(L)
  BY DEF From, Into, On
<1>4. Head0 \notin L /\ Tail0 \notin L /\ Head0 \notin Into(L) /\ Tail0 \notin From(L)
  BY DEF From, Into
<1>5. \A x \in created : r[x] \in Nat
  BY <1>2
<1>6. /\ \A x \in From(L) : r[Head0] <= r[x] /\ r[x] < r[Tail0]
      /\ \A x \in Into(L) : r[Head0] < r[x] /\ r[x] <= r[Tail0]
  BY <1>1, <1>2, <1>5 DEF Ranked, Forwards, From, Into, On
<1>7. ASSUME op # "clearHead" PROVE
        /\ \A x \in From(L) : /\ next[x] \in Into(L) /\ r[x] < r[next[x]]
                              /\ \A z \in On(L) : ~(r[x] < r[z] /\ r[z] < r[next[x]])
        /\ \A x, y \in From(L) : next[x] = next[y] => x = y
        /\ (next[Head0] = Tail0) = (L = {})
  <2>1. \A x \in From(L) : /\ next[x] \in Into(L) /\ r[x] < r[next[x]]
                           /\ \A z \in On(L) : ~(r[x] < r[z] /\ r[z] < r[next[x]])
    BY <1>1, <1>2, <1>3, <1>7 DEF Forwards, Ranked, Fwd
  <2>2. \A x, y \in From(L) : next[x] = next[y] => x = y
    <3> SUFFICES ASSUME NEW x \in From(L), NEW y \in From(L), next[x] = next[y], x # y
                 PROVE  FALSE
      OBVIOUS
    <3>1. r[x] \in Nat /\ r[y] \in Nat /\ r[x] # r[y] /\ x \in On(L) /\ y \in On(L)
      BY <1>1, <1>2, <1>3, <1>5 DEF Ranked
    <3>2. ~(r[x] < r[y]) /\ ~(r[y] < r[x])
      BY <2>1, <3>1
    <3> QED BY <3>1, <3>2
  <2>3. (next[Head0] = Tail0) = (L = {})
    BY <1>1, <2>1 DEF Forwards, From, Into, On
  <2> QED BY <2>1, <2>2, <2>3
<1> QED BY <1>2, <1>3, <1>4, <1>5, <1>6, <1>7

\* The rank with x put right before t.
Shifted(r, x, t) ==
  [y \in Nodes |-> IF y = x THEN r[t] ELSE IF r[t] <= r[y] THEN r[y] + 1 ELSE r[y]]

\* It orders the other nodes as before.
LEMMA ShiftedRank ==
  ASSUME NEW r \in [Nodes -> Nat], NEW x \in Nodes, NEW t \in Nodes, x # t, NEW q, q = Shifted(r, x, t)
  PROVE  /\ q \in [Nodes -> Nat]
         /\ \A y, z \in Nodes \ {x} : /\ (q[y] < q[z]) = (r[y] < r[z])
                                      /\ q[y] = q[z] => r[y] = r[z]
         /\ q[x] < q[t]
         /\ \A y \in Nodes \ {x} : /\ q[y] # q[x]
                                   /\ r[y] < r[t] => q[y] < q[x]
                                   /\ ~(q[x] < q[y] /\ q[y] < q[t])
<1>1. q \in [Nodes -> Nat]
  BY DEF Shifted
<1>2. q[x] = r[t] /\ \A y \in Nodes \ {x} : q[y] = IF r[t] <= r[y] THEN r[y] + 1 ELSE r[y]
  BY DEF Shifted
<1>3. \A y \in Nodes : r[y] \in Nat
  OBVIOUS
<1> QED BY <1>1, <1>2, <1>3

\* A context starts to be added: so far nothing points at it.
LEMMA StartAddList ==
  ASSUME TypeOK, TypeOK', NEW L \in SUBSET Contexts, NEW r \in [Nodes -> Nat], ListInv(L, r),
         NEW x \in Contexts, NEW t \in On(L), StartAdd(x, t),
         handled' = handled, stayed' = stayed, emptied' = emptied,
         broken' = broken, beforeHead' = (beforeHead \/ t = Head0)
  PROVE  ListInv(L, Shifted(r, x, t))'
<1> USE NodeFacts
<1>1. PICK q : q = Shifted(r, x, t)
  OBVIOUS
<1>2. /\ op = "idle" /\ x \notin created /\ created' = created \cup {x}
      /\ op' = "linkPrev" /\ ctx' = x /\ target' = t
      /\ next' = [next EXCEPT ![x] = t] /\ prev' = [prev EXCEPT ![x] = prev[t]]
  BY DEF StartAdd
<1>3. Ranked(r) /\ Forwards(L, r) /\ Backwards(L) /\ Armed(L)
  BY DEF ListInv
<1>4. On(L) \subseteq created /\ created \subseteq Nodes /\ From(L) \subseteq On(L) /\ Into(L) \subseteq On(L)
  BY ListFacts
<1>5. x # t /\ x \in Nodes /\ t \in Nodes /\ x \notin On(L)
  BY <1>2, <1>4
<1>6. /\ q \in [Nodes -> Nat]
      /\ \A y, z \in Nodes \ {x} : /\ (q[y] < q[z]) = (r[y] < r[z])
                                   /\ q[y] = q[z] => r[y] = r[z]
      /\ q[x] < q[t]
      /\ \A y \in Nodes \ {x} : /\ q[y] # q[x]
                                /\ r[y] < r[t] => q[y] < q[x]
                                /\ ~(q[x] < q[y] /\ q[y] < q[t])
  BY <1>1, <1>5, ShiftedRank
<1>7. /\ \A y \in Nodes \ {x} : next'[y] = next[y] /\ prev'[y] = prev[y]
      /\ next'[x] = t /\ prev'[x] = prev[t]
      /\ \A y \in Nodes : next[y] \in created \cup {Nil} /\ prev[y] \in created \cup {Nil}
  BY <1>2, <1>5 DEF TypeOK
<1>8. created \subseteq Nodes \ {x} /\ Head0 \in created /\ Tail0 \in created
  BY <1>2, <1>4 DEF On
<1>9. Ranked(q)'
  <2>1. q[Head0] < q[Tail0] /\ \A y, z \in created' : q[y] = q[z] => y = z
    BY <1>2, <1>3, <1>6, <1>8 DEF Ranked
  <2>2. \A y \in Nodes : /\ next'[y] # Nil => q[y] < q[next'[y]]
                         /\ prev'[y] # Nil => q[prev'[y]] < q[y]
    BY <1>3, <1>5, <1>6, <1>7, <1>8 DEF Ranked
  <2>3. \A e \in Events : \A y \in stayed'[e] : q[Head0] < q[y] /\ q[y] < q[Tail0]
    <3>1. \A e \in Events : stayed[e] \subseteq created
      BY DEF TypeOK
    <3> QED BY <1>3, <1>6, <1>8, <3>1 DEF Ranked
  <2> QED BY <2>1, <2>2, <2>3 DEF Ranked
<1>10. Forwards(L, q)'
  <2>1. \A y \in On(L) : y \in Nodes \ {x}
    BY <1>4, <1>8
  <2>2. \A y \in On(L) : Fwd(y)' = Fwd(y)
    BY <1>7, <2>1 DEF Fwd
  <2>3. \A y \in From(L) : Fwd(y) \in On(L)
    BY <1>3, <1>4 DEF Forwards
  <2>4. \A y \in From(L), z \in On(L) : ~(q[y] < q[z] /\ q[z] < q[Fwd(y)'])
    BY <1>3, <1>4, <1>6, <2>1, <2>2, <2>3 DEF Forwards
  <2>5. \A y \in L : q[Head0] < q[y] /\ q[y] < q[Tail0]
    BY <1>3, <1>6, <2>1 DEF Forwards, On
  <2> QED BY <1>2, <1>3, <1>4, <1>7, <2>1, <2>2, <2>4, <2>5 DEF Forwards, On
<1>11. Backwards(L)'
  <2>1. \A y \in On(L) : y \in Nodes \ {x}
    BY <1>4, <1>8
  <2>2. prev'[Head0] = prev[Head0] /\ prev'[Tail0] = prev[Tail0]
    BY <1>7, <1>8
  <2>3. \A y \in Into(L) : \/ prev[y] \in From(L) /\ next[prev[y]] = y
                           \/ y = Tail0 /\ Loose(L)
    BY <1>2, <1>3 DEF Backwards, Clearing
  <2>4. \A y \in Into(L) : \/ prev'[y] \in From(L) /\ next'[prev'[y]] = y
                           \/ y = Tail0 /\ Loose(L)'
    BY <1>4, <1>7, <2>1, <2>2, <2>3 DEF Loose
  <2> QED BY <1>2, <1>3, <2>2, <2>4, Zenon DEF Backwards
<1>12. Armed(L)'
  BY <1>2, <1>3 DEF Armed
<1>13. Adding(L, q)' /\ Removing(L)'
  <2>1. \A y \in created' : ~(q[x] < q[y] /\ q[y] < q[t])
    BY <1>2, <1>6, <1>8
  <2> QED BY <1>2, <1>5, <1>6, <1>7, <2>1 DEF Adding, Removing, On
<1> QED BY <1>1, <1>9, <1>10, <1>11, <1>12, <1>13 DEF ListInv

\* The target now leads back to the new context.
LEMMA AddLinkPrevList ==
  ASSUME TypeOK, TypeOK', NEW L \in SUBSET Contexts, NEW r \in [Nodes -> Nat], ListInv(L, r),
         AddLinkPrev
  PROVE  ListInv(L, r)'
<1> USE NodeFacts
<1>1. /\ op = "linkPrev" /\ op' = "linkNext" /\ prev' = [prev EXCEPT ![target] = ctx]
      /\ UNCHANGED <<next, handled, created, ctx, target, eventVars, histVars>>
  BY DEF AddLinkPrev
<1>2. Ranked(r) /\ Forwards(L, r) /\ Backwards(L) /\ Armed(L) /\ Adding(L, r)
  BY DEF ListInv
<1>3. On(L) \subseteq created /\ created \subseteq Nodes /\ From(L) \subseteq On(L) /\ Into(L) \subseteq On(L)
  BY ListFacts
<1>4. /\ ctx \in Contexts \ L /\ target \in On(L) /\ next[ctx] = target /\ ctx # target
      /\ prev[ctx] = prev[target] /\ (target = Head0 => beforeHead)
      /\ \A y \in Nodes \ {target} : prev'[y] = prev[y]
      /\ prev'[target] = ctx /\ target \in Nodes
  BY <1>1, <1>2, <1>3 DEF Adding, On, TypeOK
<1>5. Ranked(r)'
  BY <1>1, <1>2, <1>4 DEF Ranked, Adding, histVars
<1>6. Forwards(L, r)'
  BY <1>1, <1>2 DEF Forwards, Fwd
<1>7. Backwards(L)'
  BY <1>1, <1>2, <1>3, <1>4 DEF Backwards, Loose, Clearing, On, histVars
<1>8. Armed(L)'
  BY <1>1, <1>2 DEF Armed
<1>9. Adding(L, r)'
  <2>1. \/ prev[ctx] \in From(L) /\ next[prev[ctx]] = target
        \/ prev[ctx] \notin On(L) /\ (target = Head0 \/ (target = Tail0 /\ L = {} /\ broken))
    BY <1>1, <1>2, <1>3, <1>4 DEF Backwards, Loose, Clearing, On, Into
  <2> QED BY <1>1, <1>2, <1>4, <2>1 DEF Adding, histVars
<1>10. Removing(L)'
  BY <1>1 DEF Removing
<1> QED BY <1>5, <1>6, <1>7, <1>8, <1>9, <1>10 DEF ListInv

\* If the new context is led back to a listed one, it joins the list there.
LEMMA AddLinkNextJoins ==
  ASSUME TypeOK, TypeOK', NEW L \in SUBSET Contexts, NEW r \in [Nodes -> Nat], ListInv(L, r),
         AddLinkNext, prev[ctx] \in From(L), NEW M, M = L \cup {ctx}
  PROVE  ListInv(M, r)' /\ M \in SUBSET Contexts
<1> USE NodeFacts
<1>1. PICK a : a = prev[ctx]
  OBVIOUS
<1>2. Ranked(r) /\ Forwards(L, r) /\ Backwards(L) /\ Armed(L) /\ Adding(L, r)
  BY DEF ListInv
<1>3. /\ op = "linkNext" /\ op' = "setHandler" /\ next' = [next EXCEPT ![a] = ctx]
      /\ UNCHANGED <<prev, handled, created, ctx, target, eventVars, histVars>>
  BY <1>1, NodeFacts DEF AddLinkNext, From
<1>4. /\ On(L) \subseteq created /\ created \subseteq Nodes /\ From(L) \subseteq On(L) /\ Into(L) \subseteq On(L)
      /\ \A x \in created : r[x] \in Nat
      /\ \A x \in From(L) : r[Head0] <= r[x] /\ r[x] < r[Tail0]
      /\ \A x \in Into(L) : r[Head0] < r[x] /\ r[x] <= r[Tail0]
      /\ \A x \in From(L) : /\ next[x] \in Into(L) /\ r[x] < r[next[x]]
                            /\ \A z \in On(L) : ~(r[x] < r[z] /\ r[z] < r[next[x]])
      /\ \A x, y \in From(L) : next[x] = next[y] => x = y
  BY <1>3, ListFacts, Zenon
<1>5. /\ ctx \in Contexts \ L /\ target \in On(L) /\ next[ctx] = target /\ ctx \in created
      /\ a \in From(L) /\ next[a] = target /\ prev[target] = ctx /\ target \in Into(L)
      /\ \A y \in created : ~(r[ctx] < r[y] /\ r[y] < r[target])
      /\ r[a] < r[ctx] /\ r[ctx] < r[target] /\ a # ctx /\ ctx # Head0 /\ ctx # Tail0
      /\ \A y \in Nodes \ {a} : next'[y] = next[y]
      /\ next'[a] = ctx
  <2>1. /\ ctx \in Contexts \ L /\ target \in On(L) /\ next[ctx] = target
        /\ a \in From(L) /\ next[a] = target /\ prev[target] = ctx
        /\ \A y \in created : ~(r[ctx] < r[y] /\ r[y] < r[target])
        /\ r[ctx] < r[target] /\ ctx \in created
    BY <1>1, <1>2, <1>3, <1>4 DEF Adding, TypeOK
  <2>2. r[a] < r[ctx] /\ a # ctx /\ a \in Nodes
    BY <1>1, <1>2, <1>4, <2>1 DEF Ranked, From
  <2> QED BY <1>3, <1>4, <2>1, <2>2 DEF TypeOK
<1>6. M \in SUBSET Contexts
  BY <1>5
<1>7. Ranked(r)'
  BY <1>2, <1>3, <1>4, <1>5 DEF Ranked, histVars
<1>8. r[Head0] < r[ctx] /\ r[ctx] < r[Tail0] /\ r[Head0] \in Nat /\ r[ctx] \in Nat /\ r[Tail0] \in Nat
  <2>1. r[a] \in Nat /\ r[target] \in Nat /\ r[ctx] \in Nat /\ r[Head0] \in Nat /\ r[Tail0] \in Nat
    BY <1>4, <1>5 DEF On
  <2> QED BY <1>4, <1>5, <2>1
<1>9. Forwards(M, r)'
  <2>1. \A x \in From(M) : Fwd(x)' = next'[x] /\ next'[x] \in Into(M)
    BY <1>4, <1>5 DEF Fwd, From, Into, TypeOK
  <2>2. ASSUME NEW x \in From(M), NEW z \in On(M) PROVE ~(r[x] < r[z] /\ r[z] < r[next'[x]])
    <3>1. /\ x = ctx \/ x \in From(L)
          /\ z = ctx \/ z \in On(L)
          /\ z \in created /\ x \in created /\ r[x] \in Nat /\ r[z] \in Nat /\ r[target] \in Nat
          /\ r[a] \in Nat /\ r[ctx] \in Nat
      BY <1>4, <1>5 DEF From, On
    <3>2. CASE x = ctx
      BY <1>5, <3>1, <3>2
    <3>3. CASE x = a
      BY <1>4, <1>5, <3>1, <3>3
    <3>4. CASE x \in From(L) /\ x # a
      <4>1. next'[x] = next[x] /\ next[x] # target /\ next[x] \in created
        BY <1>4, <1>5, <3>4
      <4>2. r[next[x]] \in Nat /\ r[next[x]] # r[target]
        BY <1>2, <1>4, <1>5, <4>1 DEF Ranked
      <4>3. ~(r[x] < r[target] /\ r[target] < r[next[x]]) /\ ~(r[ctx] < r[next[x]] /\ r[next[x]] < r[target])
        BY <1>4, <1>5, <3>4, <4>1
      <4> QED BY <1>4, <1>5, <3>1, <3>4, <4>1, <4>2, <4>3
    <3> QED BY <3>1, <3>2, <3>3, <3>4
  <2>3. next'[Tail0] = Nil /\ \A x \in From(M) : next'[x] # Nil
    BY <1>2, <1>4, <1>5, <2>1, NodeFacts DEF Forwards, Into, From, TypeOK
  <2>4. \A x \in M : r[Head0] < r[x] /\ r[x] < r[Tail0]
    BY <1>2, <1>8 DEF Forwards
  <2>5. M \subseteq created'
    BY <1>2, <1>3, <1>5 DEF Forwards
  <2>6. /\ \A x \in From(M) : Fwd(x)' \in Into(M)
        /\ \A x \in From(M), z \in On(M) : ~(r[x] < r[z] /\ r[z] < r[Fwd(x)'])
    BY <2>1, <2>2
  <2> QED BY <1>6, <2>3, <2>4, <2>5, <2>6, Zenon DEF Forwards
<1>10. Backwards(M)'
  <2>1. prev[Head0] # ctx
    BY <1>2, <1>5, <1>8, NodeFacts DEF Ranked, TypeOK
  <2>2. ASSUME NEW x \in Into(M) PROVE prev[x] \in From(M) /\ next'[prev[x]] = x
    <3>1. CASE x = ctx
      BY <1>1, <1>5, <3>1 DEF From
    <3>2. CASE x = target
      BY <1>4, <1>5, <3>2 DEF From
    <3>3. CASE x \in Into(L) /\ x # target
      <4>1. \/ prev[x] \in From(L) /\ next[prev[x]] = x
            \/ x = Tail0 /\ L = {}
        BY <1>2, <1>3, <3>3 DEF Backwards, Clearing, Loose
      <4>2. L = {} => target = Tail0
        BY <1>5 DEF Into
      <4> QED BY <1>4, <1>5, <3>3, <4>1, <4>2 DEF From
    <3> QED BY <3>1, <3>2, <3>3 DEF Into
  <2> QED BY <1>2, <1>3, <2>1, <2>2 DEF Backwards, On, histVars
<1>11. Armed(M)' /\ Adding(M, r)' /\ Removing(M)'
  BY <1>2, <1>3 DEF Armed, Adding, Removing, On
<1> QED BY <1>6, <1>7, <1>9, <1>10, <1>11 DEF ListInv

\* Otherwise the list stays as it is.
LEMMA AddLinkNextMisses ==
  ASSUME TypeOK, TypeOK', NEW L \in SUBSET Contexts, NEW r \in [Nodes -> Nat], ListInv(L, r),
         AddLinkNext, prev[ctx] \notin From(L)
  PROVE  ListInv(L, r)' /\ (emptied \/ beforeHead) /\ \A x \in From(L) : next'[x] = next[x]
<1> USE NodeFacts
<1>1. Ranked(r) /\ Forwards(L, r) /\ Backwards(L) /\ Armed(L) /\ Adding(L, r)
  BY DEF ListInv
<1>2. /\ op = "linkNext" /\ op' \in {"idle", "setHandler"}
      /\ \/ next' = next
         \/ prev[ctx] # Nil /\ next' = [next EXCEPT ![prev[ctx]] = ctx]
      /\ UNCHANGED <<prev, handled, created, ctx, target, eventVars, histVars>>
  BY DEF AddLinkNext
<1>3. On(L) \subseteq created /\ created \subseteq Nodes /\ From(L) \subseteq On(L) /\ Into(L) \subseteq On(L)
      /\ Head0 \notin Into(L)
  BY ListFacts, Zenon
<1>4. /\ ctx \in Contexts \ L /\ prev[target] = ctx /\ prev[ctx] \notin On(L)
      /\ target = Head0 \/ (target = Tail0 /\ L = {} /\ broken)
      /\ target = Head0 => beforeHead
  BY <1>1, <1>2 DEF Adding
<1>5. \A x \in On(L) : x \in Nodes /\ next'[x] = next[x]
  BY <1>2, <1>3, <1>4 DEF TypeOK
<1>6. Ranked(r)'
  BY <1>1, <1>2 DEF Ranked, histVars, TypeOK
<1>7. Forwards(L, r)'
  BY <1>1, <1>2, <1>3, <1>5 DEF Forwards, Fwd, On
<1>8. Backwards(L)'
  <2>1. \A x \in Into(L) : \/ prev[x] \in From(L) /\ next[prev[x]] = x
                           \/ x = Tail0 /\ Loose(L)
    BY <1>1, <1>2, <1>3, <1>4 DEF Backwards, Clearing, Loose, On
  <2> QED BY <1>1, <1>2, <1>3, <1>5, <2>1 DEF Backwards, Loose, histVars
<1>9. Armed(L)' /\ Adding(L, r)' /\ Removing(L)'
  BY <1>1, <1>2 DEF Armed, Adding, Removing
<1> QED BY <1>3, <1>4, <1>5, <1>6, <1>7, <1>8, <1>9 DEF ListInv, TypeOK

\* The new context has its handler.
LEMMA AddSetHandlerList ==
  ASSUME TypeOK, TypeOK', NEW L \in SUBSET Contexts, NEW r \in [Nodes -> Nat], ListInv(L, r),
         AddSetHandler
  PROVE  ListInv(L, r)'
<1>1. /\ op = "setHandler" /\ op' = "idle" /\ handled' = handled \cup {ctx}
      /\ UNCHANGED <<next, prev, created, ctx, target, eventVars, histVars>>
  BY DEF AddSetHandler
<1>2. Ranked(r) /\ Forwards(L, r) /\ Backwards(L) /\ Armed(L)
  BY DEF ListInv
<1>3. Ranked(r)' /\ Forwards(L, r)'
  BY <1>1, <1>2 DEF Ranked, Forwards, Fwd, histVars
<1>4. Backwards(L)'
  BY <1>1, <1>2 DEF Backwards, Loose, histVars, Clearing
<1>5. Armed(L)' /\ Adding(L, r)' /\ Removing(L)'
  BY <1>1, <1>2 DEF Armed, Adding, Removing
<1> QED BY <1>3, <1>4, <1>5 DEF ListInv

\* RemoveFirst and Remove begin, with a context that is listed; only an empty
\* pipeline makes RemoveFirst take the tail.
LEMMA RemoveList ==
  ASSUME TypeOK, TypeOK', NEW L \in SUBSET Contexts, NEW r \in [Nodes -> Nat], ListInv(L, r),
         RemoveFirst \/ \E x \in Contexts : Remove(x)
  PROVE  ListInv(L, r)'
<1> USE NodeFacts
<1>1. Ranked(r) /\ Forwards(L, r) /\ Backwards(L) /\ Armed(L)
  BY DEF ListInv
<1>2. /\ op = "idle" /\ UNCHANGED <<listVars, target, beforeHead>> /\ (broken => broken')
      /\ \A e \in Events : stayed'[e] = stayed[e] \ {ctx'}
      /\ op' \in {"firstPrev", "dropNext", "bypassPrev"}
  <2>1. CASE RemoveFirst
    BY <2>1, Zenon DEF RemoveFirst, Leave
  <2>2. ASSUME NEW x \in Contexts, Remove(x) PROVE
         /\ op = "idle" /\ UNCHANGED <<listVars, target, beforeHead>> /\ (broken => broken')
         /\ \A e \in Events : stayed'[e] = stayed[e] \ {ctx'}
         /\ op' \in {"firstPrev", "dropNext", "bypassPrev"}
    BY <2>2 DEF Remove, Leave
  <2> QED BY <2>1, <2>2
<1>3. /\ From(L) \subseteq On(L)
      /\ \A x \in From(L) : next[x] \in Into(L)
      /\ (next[Head0] = Tail0) = (L = {})
  BY <1>2, ListFacts, Zenon
<1>4. Ranked(r)' /\ Forwards(L, r)'
  BY <1>1, <1>2 DEF Ranked, Forwards, Fwd, listVars
<1>5. Backwards(L)'
  BY <1>1, <1>2 DEF Backwards, Loose, listVars, Clearing
<1>6. Armed(L)'
  BY <1>1, <1>2 DEF Armed, listVars
<1>7. Adding(L, r)'
  BY <1>2 DEF Adding
<1>8. Removing(L)'
  <2>1. CASE RemoveFirst
    <3>1. /\ ctx' = next[Head0] /\ next[Head0] \in Into(L)
          /\ op' = IF next[next[Head0]] # Nil THEN "firstPrev" ELSE "dropNext"
          /\ broken' = (broken \/ next[Head0] = Tail0)
      BY <1>3, <2>1 DEF RemoveFirst, From
    <3>2. next[Head0] = Tail0 => L = {} /\ next[next[Head0]] = Nil
      BY <1>1, <1>3 DEF Forwards
    <3>3. next[Head0] # Tail0 => next[Head0] \in L /\ next[next[Head0]] # Nil
      BY <1>1, <1>2, <3>1 DEF Forwards, Into, From
    <3> QED BY <1>2, <3>1, <3>2, <3>3, Zenon DEF Removing, listVars, From
  <2>2. CASE \E x \in Contexts : Remove(x)
    <3>1. ctx' \in L /\ op' = "bypassPrev"
      BY <1>1, <2>2, PathListed DEF Remove, On
    <3> QED BY <1>2, <3>1 DEF Removing
  <2> QED BY <2>1, <2>2
<1> QED BY <1>4, <1>5, <1>6, <1>7, <1>8 DEF ListInv

\* The context behind the removed one leads back past it.
LEMMA BypassPrevList ==
  ASSUME TypeOK, TypeOK', NEW L \in SUBSET Contexts, NEW r \in [Nodes -> Nat], ListInv(L, r),
         \/ RemoveFirstBypass /\ op = "firstPrev"
         \/ RemoveBypass /\ op = "bypassPrev",
         NEW a, a = IF op = "firstPrev" THEN Head0 ELSE prev[ctx]
  PROVE  /\ ListInv(L, r)'
         /\ a \in From(L) /\ next[a] = ctx /\ ctx \in L /\ next[ctx] \in Into(L)
         /\ prev' = [prev EXCEPT ![next[ctx]] = a]
         /\ op = "bypassPrev" => prev[next[ctx]] \in {ctx} /\ prev[ctx] = a
<1> USE NodeFacts
<1>1. Ranked(r) /\ Forwards(L, r) /\ Backwards(L) /\ Armed(L) /\ Removing(L)
  BY DEF ListInv
<1>2. /\ prev' = [prev EXCEPT ![next[ctx]] = a]
      /\ (op = "firstPrev" /\ op' = "firstNext") \/ (op = "bypassPrev" /\ op' = "bypassNext")
      /\ UNCHANGED <<next, handled, created, ctx, target, eventVars, histVars>>
  BY DEF RemoveFirstBypass, RemoveBypass
<1>3. /\ On(L) \subseteq created /\ created \subseteq Nodes /\ From(L) \subseteq On(L) /\ Into(L) \subseteq On(L)
      /\ Head0 \notin Into(L) /\ Tail0 \notin L
      /\ \A x \in created : r[x] \in Nat
      /\ \A x \in From(L) : next[x] \in Into(L) /\ r[x] < r[next[x]]
      /\ \A x, y \in From(L) : next[x] = next[y] => x = y
  BY <1>2, ListFacts, Zenon
<1>4. ctx \in L /\ next[ctx] \in Into(L) /\ next[ctx] # ctx /\ r[ctx] < r[next[ctx]]
      /\ ctx \in From(L) /\ ctx \in Into(L)
  <2>1. ctx \in L
    BY <1>1, <1>2 DEF Removing
  <2>2. ctx \in From(L) /\ ctx \in Into(L) /\ ctx \in created
    BY <1>3, <2>1 DEF From, Into, On
  <2> QED BY <1>3, <2>1, <2>2
<1>5. a \in From(L) /\ next[a] = ctx /\ (op = "bypassPrev" => prev[ctx] = a /\ prev[next[ctx]] = ctx)
  <2>1. CASE op = "firstPrev"
    BY <1>1, <2>1 DEF Removing, From
  <2>2. CASE op = "bypassPrev"
    <3>1. \A x \in Into(L) : prev[x] \in From(L) /\ next[prev[x]] = x
      BY <1>1, <1>4, <2>2 DEF Backwards, Clearing, Loose
    <3> QED BY <1>3, <1>4, <2>2, <3>1
  <2> QED BY <1>2, <2>1, <2>2
<1>6. /\ \A x \in Nodes \ {next[ctx]} : prev'[x] = prev[x]
      /\ prev'[next[ctx]] = a /\ next[ctx] \in Nodes
      /\ r[a] < r[ctx] /\ r[a] < r[next[ctx]] /\ a \in Nodes
  <2>1. r[a] < r[ctx] /\ a \in created /\ ctx \in created /\ next[ctx] \in created
    BY <1>3, <1>4, <1>5
  <2> QED BY <1>2, <1>3, <1>4, <2>1 DEF TypeOK
<1>7. Ranked(r)'
  BY <1>1, <1>2, <1>6 DEF Ranked, histVars
<1>8. Forwards(L, r)' /\ Armed(L)' /\ Adding(L, r)'
  BY <1>1, <1>2 DEF Forwards, Fwd, Armed, Adding
<1>9. Backwards(L)'
  <2>1. prev'[Head0] = prev[Head0] /\ (Loose(L) => L # {})
    BY <1>3, <1>4, <1>6 DEF Loose
  <2>2. \A x \in Into(L) : prev[x] \in From(L) /\ next[prev[x]] = x
    BY <1>1, <1>2, <1>4 DEF Backwards, Clearing, Loose
  <2> QED BY <1>1, <1>2, <1>3, <1>6, <2>1, <2>2 DEF Backwards, histVars
<1>10. Removing(L)'
  <2>1. op' = "firstNext" => a = Head0
    BY <1>2
  <2>2. op' = "bypassNext" => prev'[ctx] = a
    BY <1>2, <1>3, <1>4, <1>5, <1>6
  <2> QED BY <1>1, <1>2, <1>6, <2>1, <2>2 DEF Removing, histVars
<1> QED BY <1>2, <1>4, <1>5, <1>7, <1>8, <1>9, <1>10 DEF ListInv

\* The context before it, or the head, leads past it as well: it leaves the list.
LEMMA BypassNextList ==
  ASSUME TypeOK, TypeOK', NEW L \in SUBSET Contexts, NEW r \in [Nodes -> Nat], ListInv(L, r),
         \/ RemoveFirstBypass /\ op = "firstNext"
         \/ RemoveBypass /\ op = "bypassNext",
         NEW a, a = IF op = "firstNext" THEN Head0 ELSE prev[ctx],
         NEW M, M = L \ {ctx}
  PROVE  /\ ListInv(M, r)'
         /\ a \in From(L) /\ next[a] = ctx /\ ctx \in L /\ next[ctx] \in Into(L)
         /\ next' = [next EXCEPT ![a] = next[ctx]]
<1> USE NodeFacts
<1>1. Ranked(r) /\ Forwards(L, r) /\ Backwards(L) /\ Armed(L) /\ Removing(L)
  BY DEF ListInv
<1>2. /\ next' = [next EXCEPT ![a] = next[ctx]]
      /\ (op = "firstNext" /\ op' = "dropNext") \/ (op = "bypassNext" /\ op' = "idle")
      /\ UNCHANGED <<prev, handled, created, ctx, target, eventVars, histVars>>
  BY DEF RemoveFirstBypass, RemoveBypass
<1>3. /\ On(L) \subseteq created /\ created \subseteq Nodes /\ From(L) \subseteq On(L) /\ Into(L) \subseteq On(L)
      /\ Head0 \notin Into(L) /\ Tail0 \notin From(L)
      /\ \A x \in created : r[x] \in Nat
      /\ \A x \in From(L) : /\ next[x] \in Into(L) /\ r[x] < r[next[x]]
                            /\ \A z \in On(L) : ~(r[x] < r[z] /\ r[z] < r[next[x]])
      /\ \A x, y \in From(L) : next[x] = next[y] => x = y
  BY <1>2, ListFacts
<1>4. ctx \in L /\ next[ctx] \in Into(L) /\ next[ctx] # ctx /\ r[ctx] < r[next[ctx]]
      /\ ctx \in From(L) /\ ctx \in Into(L) /\ ctx \in On(L)
  <2>1. ctx \in L
    BY <1>1, <1>2 DEF Removing
  <2>2. ctx \in From(L) /\ ctx \in Into(L) /\ ctx \in On(L) /\ ctx \in created
    BY <1>3, <2>1 DEF From, Into, On
  <2> QED BY <1>3, <2>1, <2>2
<1>5. a \in From(L) /\ next[a] = ctx /\ prev[next[ctx]] = a
  <2>1. CASE op = "firstNext"
    BY <1>1, <2>1 DEF Removing, From
  <2>2. CASE op = "bypassNext"
    <3>1. prev[ctx] \in From(L) /\ next[prev[ctx]] = ctx
      BY <1>1, <1>4, <2>2 DEF Backwards, Clearing, Loose
    <3> QED BY <1>1, <2>2, <3>1 DEF Removing
  <2> QED BY <1>2, <2>1, <2>2
<1>6. /\ \A x \in Nodes \ {a} : next'[x] = next[x]
      /\ next'[a] = next[ctx] /\ a \in Nodes /\ a # ctx
      /\ r[a] < r[ctx] /\ r[a] < r[next[ctx]]
  <2>1. r[a] < r[ctx] /\ a \in created /\ ctx \in created /\ next[ctx] \in created
    BY <1>3, <1>4, <1>5
  <2> QED BY <1>2, <1>3, <1>4, <2>1 DEF TypeOK
<1>7. Ranked(r)'
  BY <1>1, <1>2, <1>6 DEF Ranked, histVars
<1>8. /\ From(M) = From(L) \ {ctx} /\ Into(M) = Into(L) \ {ctx} /\ On(M) = On(L) \ {ctx}
      /\ M \subseteq L
  BY <1>4 DEF From, Into, On
<1>9. Forwards(M, r)'
  <2>1. \A x \in From(M) : Fwd(x)' = next'[x] /\ next'[x] # Nil
    BY <1>3, <1>4, <1>6, <1>8 DEF Fwd
  <2>2. ASSUME NEW x \in From(M) PROVE
          /\ next'[x] \in Into(M)
          /\ \A z \in On(M) : ~(r[x] < r[z] /\ r[z] < r[next'[x]])
    <3>1. CASE x = a
      <4>1. next'[x] \in Into(M)
        BY <1>4, <1>6, <1>8, <3>1, Zenon
      <4>2. ASSUME NEW z \in On(M) PROVE ~(r[x] < r[z] /\ r[z] < r[next[ctx]])
        <5>1. /\ ~(r[a] < r[z] /\ r[z] < r[ctx])
              /\ ~(r[ctx] < r[z] /\ r[z] < r[next[ctx]])
          BY <1>3, <1>4, <1>5, <1>8
        <5>2. r[z] \in Nat /\ r[ctx] \in Nat /\ r[z] # r[ctx]
          BY <1>1, <1>3, <1>4, <1>8, Zenon DEF Ranked
        <5> QED BY <3>1, <5>1, <5>2
      <4> QED BY <1>6, <3>1, <4>1, <4>2
    <3>2. CASE x # a
      <4>1. x \in From(L) /\ x \in Nodes /\ next'[x] = next[x] /\ next[x] # ctx
        BY <1>3, <1>5, <1>6, <1>8, <3>2
      <4> QED BY <1>3, <1>8, <4>1, Zenon
    <3> QED BY <3>1, <3>2
  <2>3. next'[Tail0] = Nil
    BY <1>1, <1>3, <1>5, <1>6 DEF Forwards
  <2>4. M \subseteq Contexts /\ M \subseteq created' /\ \A x \in M : r[Head0] < r[x] /\ r[x] < r[Tail0]
    BY <1>1, <1>2, <1>8 DEF Forwards
  <2>5. /\ \A x \in From(M) : Fwd(x)' \in Into(M)
        /\ \A x \in From(M), z \in On(M) : ~(r[x] < r[z] /\ r[z] < r[Fwd(x)'])
    BY <2>1, <2>2
  <2> QED BY <2>1, <2>3, <2>4, <2>5, Zenon DEF Forwards
<1>10. Backwards(M)'
  <2>1. ASSUME NEW x \in Into(M) PROVE prev[x] \in From(M) /\ next'[prev[x]] = x
    <3>1. CASE x = next[ctx]
      BY <1>5, <1>6, <1>8, <3>1, Zenon
    <3>2. CASE x # next[ctx]
      <4>1. prev[x] \in From(L) /\ next[prev[x]] = x /\ x # ctx
        BY <1>1, <1>2, <1>4, <1>8, <3>2, Zenon DEF Backwards, Clearing, Loose
      <4> QED BY <1>3, <1>5, <1>6, <1>8, <3>2, <4>1, Zenon
    <3> QED BY <3>1, <3>2
  <2> QED BY <1>1, <1>2, <1>8, <2>1, Zenon DEF Backwards, histVars
<1>11. Armed(M)' /\ Adding(M, r)'
  BY <1>1, <1>2, <1>8, Zenon DEF Armed, Adding
<1>12. Removing(M)'
  BY <1>2, <1>4, <1>8 DEF Removing
<1> QED BY <1>2, <1>4, <1>5, <1>7, <1>9, <1>10, <1>11, <1>12 DEF ListInv

\* The removed context, or the tail of an empty pipeline, loses its links.
LEMMA DropList ==
  ASSUME TypeOK, TypeOK', NEW L \in SUBSET Contexts, NEW r \in [Nodes -> Nat], ListInv(L, r),
         RemoveFirstDrop
  PROVE  ListInv(L, r)' /\ \A x \in From(L) : next'[x] = next[x]
<1> USE NodeFacts
<1>1. Ranked(r) /\ Forwards(L, r) /\ Backwards(L) /\ Armed(L) /\ Removing(L)
  BY DEF ListInv
<1>2. /\ \/ /\ op = "dropNext" /\ op' = "dropPrev"
            /\ next' = [next EXCEPT ![ctx] = Nil] /\ prev' = prev
         \/ /\ op = "dropPrev" /\ op' = "idle"
            /\ prev' = [prev EXCEPT ![ctx] = Nil] /\ next' = next
      /\ UNCHANGED <<handled, created, ctx, target, eventVars, histVars>>
  BY DEF RemoveFirstDrop
<1>3. ctx \notin From(L) /\ (ctx = Tail0 => L = {} /\ broken)
  BY <1>1, <1>2 DEF Removing
<1>4. /\ \A x \in Nodes : /\ next'[x] = next[x] \/ (x = ctx /\ next'[x] = Nil)
                          /\ prev'[x] = prev[x] \/ (x = ctx /\ prev'[x] = Nil)
  BY <1>2 DEF TypeOK
<1>5. From(L) \subseteq Nodes /\ Into(L) \subseteq Nodes
  BY NodeFacts DEF From, Into
<1>6. \A x \in From(L) : next'[x] = next[x]
  BY <1>3, <1>4, <1>5
<1>7. Ranked(r)'
  BY <1>1, <1>2, <1>4 DEF Ranked, histVars
<1>8. Forwards(L, r)'
  <2>1. next'[Tail0] = Nil
    BY <1>1, <1>4 DEF Forwards
  <2>2. \A x \in From(L) : Fwd(x)' = Fwd(x)
    BY <1>6 DEF Fwd
  <2> QED BY <1>1, <1>2, <1>6, <2>1, <2>2 DEF Forwards
<1>9. Backwards(L)'
  <2>1. prev'[Head0] = prev[Head0] \/ prev'[Head0] = Nil
    BY <1>4
  <2>2. \A x \in Into(L) : \/ prev[x] \in From(L) /\ next[prev[x]] = x
                           \/ x = Tail0 /\ Loose(L)
    BY <1>1, <1>2 DEF Backwards, Clearing
  <2>3. Nil \notin On(L)
    BY <1>1 DEF On
  <2>4. ASSUME NEW x \in Into(L) PROVE \/ prev'[x] \in From(L) /\ next'[prev'[x]] = x
                                       \/ x = Tail0 /\ Loose(L)'
    <3>1. CASE prev'[x] = prev[x]
      BY <1>2, <1>6, <2>2, <3>1 DEF Loose, histVars
    <3>2. CASE x = ctx /\ prev'[x] = Nil
      BY <1>2, <1>3, <2>3, <3>2 DEF Into, From, Loose, histVars
    <3> QED BY <1>4, <1>5, <3>1, <3>2
  <2> QED BY <1>1, <1>2, <2>1, <2>3, <2>4 DEF Backwards, histVars
<1>10. Armed(L)' /\ Adding(L, r)' /\ Removing(L)'
  BY <1>1, <1>2, <1>3 DEF Armed, Adding, Removing, histVars
<1> QED BY <1>6, <1>7, <1>8, <1>9, <1>10 DEF ListInv

\* Clear takes the way back of the first context.
LEMMA ClearList ==
  ASSUME TypeOK, TypeOK', NEW L \in SUBSET Contexts, NEW r \in [Nodes -> Nat], ListInv(L, r),
         Clear
  PROVE  ListInv(L, r)'
<1> USE NodeFacts
<1>1. Ranked(r) /\ Forwards(L, r) /\ Backwards(L) /\ Armed(L)
  BY DEF ListInv
<1>2. /\ op = "idle" /\ op' = "clearLast" /\ prev' = [prev EXCEPT ![next[Head0]] = Nil]
      /\ UNCHANGED <<next, handled, created, ctx, target, broken, beforeHead>>
      /\ \A e \in Events : stayed'[e] \subseteq stayed[e]
  BY DEF Clear, Leave
<1>3. /\ From(L) \subseteq On(L) /\ Head0 \notin Into(L)
      /\ \A x \in From(L) : next[x] \in Into(L)
      /\ (next[Head0] = Tail0) = (L = {})
  BY <1>2, ListFacts, Zenon
<1>4. \A x \in Nodes : prev'[x] = prev[x] \/ (x = next[Head0] /\ prev'[x] = Nil)
  BY <1>2 DEF TypeOK
<1>5. Ranked(r)'
  BY <1>1, <1>2, <1>4 DEF Ranked
<1>6. Forwards(L, r)' /\ Armed(L)' /\ Adding(L, r)'
  BY <1>1, <1>2 DEF Forwards, Fwd, Armed, Adding
<1>7. Backwards(L)'
  <2>1. next[Head0] # Head0
    BY <1>3 DEF From
  <2> QED BY <1>1, <1>2, <1>4, <2>1 DEF Backwards, Clearing
<1>8. IF L = {} THEN prev'[Tail0] = Nil ELSE prev'[Tail0] \in L /\ next[prev'[Tail0]] = Tail0
  <2>1. CASE L = {}
    BY <1>2, <1>3, <2>1 DEF TypeOK
  <2>2. CASE L # {}
    <3>1. prev[Tail0] \in From(L) /\ next[prev[Tail0]] = Tail0
      BY <1>1, <1>2, <2>2 DEF Backwards, Clearing, Loose, Into
    <3>2. prev'[Tail0] = prev[Tail0]
      BY <1>3, <1>4, <2>2
    <3> QED BY <1>3, <2>2, <3>1, <3>2 DEF From
  <2> QED BY <2>1, <2>2
<1>9. Removing(L)'
  BY <1>2, <1>8 DEF Removing
<1> QED BY <1>5, <1>6, <1>7, <1>9 DEF ListInv

\* The last context loses its link; then the head leads to the tail, and the
\* list is empty; then the tail leads back to the head.
LEMMA ClearLinksList ==
  ASSUME TypeOK, TypeOK', NEW L \in SUBSET Contexts, NEW r \in [Nodes -> Nat], ListInv(L, r),
         ClearLinks, NEW M, M = IF op = "clearHead" THEN {} ELSE L
  PROVE  ListInv(M, r)'
<1> USE NodeFacts
<1>1. Ranked(r) /\ Forwards(L, r) /\ Backwards(L) /\ Armed(L) /\ Removing(L)
  BY DEF ListInv
<1>2. UNCHANGED <<handled, created, ctx, target, eventVars, stayed, beforeHead>>
  BY DEF ClearLinks
<1>3. From(L) \subseteq Nodes /\ Into(L) \subseteq Nodes
  BY NodeFacts DEF From, Into
<1>4. CASE op = "clearLast"
  <2>1. /\ op' = "clearHead" /\ prev' = prev /\ broken' = broken
        /\ next' = IF prev[Tail0] = Nil THEN next ELSE [next EXCEPT ![prev[Tail0]] = Nil]
    BY <1>4 DEF ClearLinks
  <2>2. prev[Tail0] # Nil => prev[Tail0] \in L /\ next[prev[Tail0]] = Tail0
    BY <1>1, <1>4 DEF Removing
  <2>3. \A x \in Nodes : \/ next'[x] = next[x]
                         \/ x \in L /\ next[x] = Tail0 /\ next'[x] = Nil
    BY <2>1, <2>2 DEF TypeOK
  <2>4. \A x \in Nodes : x \in From(L) => Fwd(x)' = Fwd(x)
    BY <2>3 DEF Fwd
  <2>5. Ranked(r)'
    BY <1>1, <1>2, <2>1, <2>3 DEF Ranked
  <2>6. Forwards(L, r)'
    <3>1. next'[Tail0] = Nil
      BY <1>1, <2>3 DEF Forwards
    <3> QED BY <1>1, <1>2, <1>3, <2>1, <2>4, <3>1 DEF Forwards
  <2>7. Backwards(L)' /\ Armed(L)' /\ Adding(L, r)' /\ Removing(L)'
    BY <1>1, <1>2, <1>4, <2>1 DEF Backwards, Armed, Adding, Removing, Clearing
  <2> QED BY <1>4, <2>5, <2>6, <2>7 DEF ListInv
<1>5. CASE op = "clearHead"
  <2>1. /\ op' = "clearTail" /\ prev' = prev /\ broken' = broken /\ next' = [next EXCEPT ![Head0] = Tail0]
    BY <1>5 DEF ClearLinks
  <2>2. next'[Head0] = Tail0 /\ \A x \in Nodes \ {Head0} : next'[x] = next[x]
    BY <2>1 DEF TypeOK
  <2>3. Ranked(r)'
    BY <1>1, <1>2, <2>1, <2>2 DEF Ranked
  <2>4. Forwards({}, r)'
    <3>1. next'[Tail0] = Nil
      BY <1>1, <2>2 DEF Forwards
    <3>2. Fwd(Head0)' = Tail0
      BY <2>2 DEF Fwd
    <3>3. r[Head0] \in Nat /\ r[Tail0] \in Nat /\ r[Head0] < r[Tail0]
      BY <1>1 DEF Ranked
    <3> QED BY <2>2, <3>1, <3>2, <3>3 DEF Forwards, From, Into, On
  <2>5. Backwards({})' /\ Armed({})' /\ Adding({}, r)' /\ Removing({})'
    BY <1>1, <1>2, <1>5, <2>1 DEF Backwards, Armed, Adding, Removing, Clearing, On
  <2> QED BY <1>5, <2>3, <2>4, <2>5 DEF ListInv
<1>6. CASE op = "clearTail"
  <2>1. /\ op' = "idle" /\ next' = next /\ prev' = [prev EXCEPT ![Tail0] = Head0]
    BY <1>6 DEF ClearLinks
  <2>2. prev'[Tail0] = Head0 /\ \A x \in Nodes \ {Tail0} : prev'[x] = prev[x]
    BY <2>1 DEF TypeOK
  <2>3. L = {} /\ next[Head0] = Tail0
    BY <1>1, <1>6 DEF Removing, Forwards, Fwd, From, Into
  <2>4. Ranked(r)'
    BY <1>1, <1>2, <2>1, <2>2 DEF Ranked
  <2>5. Forwards(L, r)' /\ Armed(L)' /\ Adding(L, r)' /\ Removing(L)'
    BY <1>1, <1>2, <1>6, <2>1 DEF Forwards, Fwd, Armed, Adding, Removing
  <2>6. Backwards(L)'
    BY <1>1, <1>2, <2>1, <2>2, <2>3 DEF Backwards, Clearing, From, Into, On
  <2> QED BY <1>6, <2>4, <2>5, <2>6 DEF ListInv
<1> QED BY <1>4, <1>5, <1>6 DEF ClearLinks

----------------------------------------------------------------------------
(* The operations and the events.                                          *)

\* What an operation leaves as it is, or only lets grow.
Aside ==
  /\ UNCHANGED eventVars
  /\ created \subseteq created' /\ handled \subseteq handled'
  /\ \A e \in Events : stayed'[e] \subseteq stayed[e]
  /\ cut \subseteq cut' /\ grown \subseteq grown'
  /\ emptied => emptied'
  /\ beforeHead => beforeHead'

\* No operation moves an event, and what it remembers of one only grows, but for
\* the contexts that have stayed.
LEMMA OpAside == TypeOK /\ (OpStart \/ OpStep) => Aside
<1> SUFFICES ASSUME TypeOK PROVE OpStart \/ OpStep => Aside
  OBVIOUS
<1> USE DEF Aside
<1>1. ASSUME NEW x \in Contexts, NEW t \in Nodes, AddBefore(t, x) PROVE Aside
  <2>1. beforeHead \in BOOLEAN
    BY DEF TypeOK
  <2> QED BY <1>1, <2>1 DEF AddBefore, StartAdd
<1>2. ASSUME NEW x \in Contexts, Remove(x) PROVE Aside
  BY <1>2 DEF Remove, listVars, Leave
<1>3. ASSUME RemoveFirst PROVE Aside
  BY <1>3, Zenon DEF RemoveFirst, listVars, Leave
<1>4. ASSUME Clear PROVE Aside
  BY <1>4 DEF Clear, Leave
<1>5. ASSUME AddLinkPrev \/ AddLinkNext \/ AddSetHandler PROVE Aside
  BY <1>5 DEF AddLinkPrev, AddLinkNext, AddSetHandler, histVars
<1>6. ASSUME RemoveFirstBypass \/ RemoveFirstDrop \/ RemoveBypass \/ ClearLinks PROVE Aside
  BY <1>6 DEF RemoveFirstBypass, RemoveFirstDrop, RemoveBypass, ClearLinks, histVars
<1>7. ASSUME NEW x \in Contexts, AddLast(x) PROVE Aside
  BY <1>7 DEF AddLast, StartAdd
<1> QED BY <1>1, <1>2, <1>3, <1>4, <1>5, <1>6, <1>7 DEF OpStart, OpStep

\* q orders the contexts that exist as r does.
SameOrder(r, q) == \A x, y \in created : (q[x] < q[y]) = (r[x] < r[y])

\* Then an event is as safe as before, once it has a route again.
LEMMA OpKeeps ==
  ASSUME TypeOK, NEW e \in Events, NEW r \in [Nodes -> Nat], NEW q \in [Nodes -> Nat],
         EventOK(e, r), SameOrder(r, q), Aside, Overlaps(e)',
         \A P \in SUBSET created :
           Route(e, r, P) /\ UnderWay(e) /\ e \notin cut' /\ ~emptied' /\ ~beforeHead'
           => \E Q \in SUBSET created' : Route(e, q, Q)'
  PROVE  EventOK(e, q)'
<1>1. /\ UNCHANGED <<dir, pos, event, hnd, seen, twice, mixed>>
      /\ UnderWay(e)' = UnderWay(e)
      /\ stayed'[e] \subseteq stayed[e] /\ (e \in cut => e \in cut') /\ (e \in grown => e \in grown')
      /\ (emptied => emptied') /\ (beforeHead => beforeHead')
  BY DEF Aside, eventVars, UnderWay
<1>2. Onwards(e, q)'
  <2>1. UnderWay(e) => pos[e] \in created /\ seen[e] \subseteq created
    BY DEF TypeOK
  <2> QED BY <1>1, <2>1 DEF EventOK, Onwards, Prec, SameOrder
<1>3. Routed(e, q)'
  BY <1>1 DEF EventOK, Routed
<1>4. SafeFor(e)'
  BY <1>1 DEF EventOK, SafeFor
<1> QED BY <1>2, <1>3, <1>4 DEF EventOK

\* The old route, if its links are the same, ...
LEMMA SameRoute ==
  ASSUME TypeOK, NEW e \in Events, NEW r \in [Nodes -> Nat], NEW q \in [Nodes -> Nat],
         SameOrder(r, q), Aside, NEW P \in SUBSET created, Route(e, r, P),
         \A x \in P : Link(e, x)' = Link(e, x)
  PROVE  Route(e, q, P)'
<1>1. /\ UNCHANGED <<dir, pos, event, hnd, seen, twice, mixed>>
      /\ stayed'[e] \subseteq stayed[e] /\ (e \in grown => e \in grown')
      /\ handled \subseteq handled'
      /\ Goal(e)' = Goal(e)
  BY DEF Aside, eventVars, Goal
<1>2. \A x, y \in created : Prec(e, q, x, y)' = Prec(e, r, x, y)
  BY <1>1 DEF SameOrder, Prec
<1>3. /\ pos[e] \in P /\ stayed[e] \subseteq created
      /\ \A x \in P \ {Goal(e)} : Link(e, x) \in P
  BY DEF Route, TypeOK
<1>4. \A x \in P \ {Goal(e)} : Link(e, x)' = Link(e, x)
  OBVIOUS
<1>5. e \notin mixed => \A y \in stayed'[e] \ seen'[e] :
        /\ Prec(e, q, pos[e], y)'
        /\ \A x \in P \ {Goal(e)} : ~(Prec(e, q, x, y)' /\ Prec(e, q, y, Link(e, x))')
  BY <1>1, <1>2, <1>3, <1>4 DEF Route
<1> QED BY <1>1, <1>3, <1>4, <1>5 DEF Route

\* ... or if one link now leads to a context between its ends, ...
LEMMA RouteJoins ==
  ASSUME TypeOK, NEW e \in Events, NEW r \in [Nodes -> Nat], Aside,
         NEW P \in SUBSET created, Route(e, r, P), e \in grown,
         NEW u \in created, NEW c \in created, u # Goal(e), u # c,
         Link(e, c) = Link(e, u), Link(e, u)' = c,
         \A x \in created \ {u} : Link(e, x)' = Link(e, x),
         Prec(e, r, u, c), Link(e, u) \in created => Prec(e, r, c, Link(e, u))
  PROVE  \E Q \in SUBSET created' : Route(e, r, Q)'
<1>1. /\ UNCHANGED <<dir, pos, event, hnd, seen, twice, mixed>>
      /\ stayed'[e] \subseteq stayed[e] /\ e \in grown' /\ created \subseteq created'
      /\ Goal(e)' = Goal(e)
  BY DEF Aside, eventVars, Goal
<1>2. \A x, y : Prec(e, r, x, y)' = Prec(e, r, x, y)
  BY <1>1 DEF Prec
<1>3. /\ pos[e] \in P /\ stayed[e] \subseteq created
      /\ \A x \in P \ {Goal(e)} : Link(e, x) \in P
  BY DEF Route, TypeOK
<1>4. ASSUME NEW x \in created, NEW y \in created, NEW z \in created,
             Prec(e, r, x, y), Prec(e, r, y, z)
      PROVE  Prec(e, r, x, z)
  BY <1>4 DEF Prec, TypeOK
<1>5. PICK Q : Q = IF u \in P THEN P \cup {c} ELSE P
  BY Zenon
<1>6. Q \in SUBSET created /\ P \subseteq Q
  BY <1>5
<1>7. \A x \in Q \ {Goal(e)} : Link(e, x)' \in Q
  BY <1>3, <1>5
<1>8. ASSUME e \notin mixed, NEW y \in stayed'[e] \ seen'[e], NEW x \in Q \ {Goal(e)}
      PROVE  ~(Prec(e, r, x, y) /\ Prec(e, r, y, Link(e, x)'))
  <2>1. y \in stayed[e] \ seen[e] /\ y \in created
    BY <1>1, <1>3
  <2>2. \A w \in P \ {Goal(e)} : ~(Prec(e, r, w, y) /\ Prec(e, r, y, Link(e, w)))
    BY <1>8, <2>1 DEF Route
  <2>3. CASE x \in P /\ x # u
    BY <1>8, <2>2, <2>3
  <2>4. CASE u \in P /\ x = u
    BY <1>3, <1>4, <2>1, <2>2, <2>4
  <2>5. CASE u \in P /\ x = c /\ x # u
    BY <1>3, <1>4, <2>1, <2>2, <2>5
  <2> QED BY <1>5, <1>8, <2>3, <2>4, <2>5
<1>9. e \notin mixed => \A y \in stayed'[e] \ seen'[e] :
        /\ Prec(e, r, pos[e], y)'
        /\ \A x \in Q \ {Goal(e)} : ~(Prec(e, r, x, y)' /\ Prec(e, r, y, Link(e, x))')
  BY <1>1, <1>2, <1>8 DEF Route
<1>10. Route(e, r, Q)'
  BY <1>1, <1>3, <1>6, <1>7, <1>9 DEF Route
<1> QED BY <1>1, <1>6, <1>10

\* ... or if one link now leads past a context that does not stay.
LEMMA RouteBypasses ==
  ASSUME TypeOK, NEW e \in Events, NEW r \in [Nodes -> Nat], Ranked(r), Aside,
         NEW P \in SUBSET created, Route(e, r, P),
         NEW u \in created, NEW c \in created, c # Goal(e), c \notin stayed[e],
         Link(e, u) = c, Link(e, u)' = Link(e, c),
         \A x \in created \ {u} : Link(e, x)' = Link(e, x)
  PROVE  Route(e, r, P)'
<1>1. /\ UNCHANGED <<dir, pos, event, hnd, seen, twice, mixed>>
      /\ stayed'[e] \subseteq stayed[e] /\ (e \in grown => e \in grown')
      /\ handled \subseteq handled'
      /\ Goal(e)' = Goal(e)
  BY DEF Aside, eventVars, Goal
<1>2. \A x, y : Prec(e, r, x, y)' = Prec(e, r, x, y)
  BY <1>1 DEF Prec
<1>3. /\ pos[e] \in P /\ stayed[e] \subseteq created
      /\ \A x \in P \ {Goal(e)} : Link(e, x) \in P
  BY DEF Route, TypeOK
<1>4. \A x \in P \ {Goal(e)} : Link(e, x)' \in P
  BY <1>3
<1>5. ASSUME e \notin mixed, NEW y \in stayed'[e] \ seen'[e], NEW x \in P \ {Goal(e)}
      PROVE  ~(Prec(e, r, x, y) /\ Prec(e, r, y, Link(e, x)'))
  <2>1. y \in stayed[e] \ seen[e] /\ y \in created /\ y # c
    BY <1>1, <1>3
  <2>2. \A w \in P \ {Goal(e)} : ~(Prec(e, r, w, y) /\ Prec(e, r, y, Link(e, w)))
    BY <1>5, <2>1 DEF Route
  <2>3. Prec(e, r, y, c) \/ Prec(e, r, c, y)
    <3>1. r[y] \in Nat /\ r[c] \in Nat /\ r[y] # r[c]
      BY <2>1 DEF Ranked, TypeOK
    <3> QED BY <3>1 DEF Prec
  <2>4. CASE x # u
    BY <2>2, <2>4
  <2>5. CASE x = u
    BY <1>3, <2>2, <2>3, <2>5
  <2> QED BY <2>4, <2>5
<1>6. e \notin mixed => \A y \in stayed'[e] \ seen'[e] :
        /\ Prec(e, r, pos[e], y)'
        /\ \A x \in P \ {Goal(e)} : ~(Prec(e, r, x, y)' /\ Prec(e, r, y, Link(e, x))')
  BY <1>1, <1>2, <1>5 DEF Route
<1> QED BY <1>1, <1>3, <1>4, <1>6 DEF Route

\* An operation that cuts leaves no event under way uncut.
LEMMA CutEvents ==
  ASSUME TypeOK, NEW r \in [Nodes -> Nat], NEW e \in Events, EventOK(e, r), Aside,
         RemoveFirst \/ Clear \/ RemoveFirstBypass \/ RemoveFirstDrop \/ ClearLinks
  PROVE  EventOK(e, r)'
<1>1. UnderWay(e)' = UnderWay(e) /\ Overlaps(e)
  BY DEF Aside, eventVars, UnderWay, EventOK
<1>2. UnderWay(e) => e \in cut'
  <2>1. CASE RemoveFirst \/ Clear
    BY <2>1 DEF RemoveFirst, Clear, Overlapped
  <2>2. CASE RemoveFirstBypass \/ RemoveFirstDrop \/ ClearLinks
    <3>1. op \in CuttingOps /\ cut' = cut
      BY <2>2 DEF RemoveFirstBypass, RemoveFirstDrop, ClearLinks, CuttingOps, histVars
    <3> QED BY <1>1, <3>1 DEF Overlaps
  <2> QED BY <2>1, <2>2
<1>3. op' \notin GrowingOps
  BY DEF RemoveFirst, Clear, RemoveFirstBypass, RemoveFirstDrop, ClearLinks, GrowingOps
<1>4. Overlaps(e)'
  BY <1>1, <1>2, <1>3 DEF Overlaps
<1> QED BY <1>2, <1>4, OpKeeps DEF SameOrder

\* A context that starts to be added, or gets its handler, is on no link.
LEMMA AddEvents ==
  ASSUME TypeOK, NEW L \in SUBSET Contexts, NEW r \in [Nodes -> Nat], ListInv(L, r),
         NEW e \in Events, EventOK(e, r), Aside, NEW q \in [Nodes -> Nat], SameOrder(r, q),
         \/ \E x \in Contexts, t \in created : StartAdd(x, t)
         \/ AddSetHandler
         \/ \E x \in Contexts : Remove(x)
  PROVE  EventOK(e, q)'
<1>1. UnderWay(e)' = UnderWay(e) /\ Overlaps(e) /\ dir' = dir
  BY DEF Aside, eventVars, UnderWay, EventOK
<1>2. \A x \in created : next'[x] = next[x] /\ prev'[x] = prev[x]
  <2>1. ASSUME NEW x \in Contexts, NEW t \in created, StartAdd(x, t)
        PROVE  \A y \in created : next'[y] = next[y] /\ prev'[y] = prev[y]
    BY <2>1 DEF StartAdd, TypeOK
  <2> QED BY <2>1, Zenon DEF AddSetHandler, Remove, listVars
<1>3. Overlaps(e)'
  <2>1. \A x, t : StartAdd(x, t) => op' = "linkPrev" /\ (UnderWay(e) => e \in grown')
    BY DEF StartAdd, Overlapped
  <2> QED BY <1>1, <2>1, Zenon DEF Overlaps, AddSetHandler, Remove, CuttingOps, GrowingOps
<1>4. ASSUME NEW P \in SUBSET created, Route(e, r, P) PROVE Route(e, q, P)' /\ P \in SUBSET created'
  <2>1. \A x \in P : Link(e, x)' = Link(e, x)
    BY <1>1, <1>2 DEF Link
  <2> QED BY <1>4, <2>1, SameRoute DEF Aside
<1> QED BY <1>3, <1>4, OpKeeps

\* While a context is linked, an event may pass it in one direction already.
LEMMA LinkEvents ==
  ASSUME TypeOK, NEW L \in SUBSET Contexts, NEW r \in [Nodes -> Nat], ListInv(L, r),
         NEW e \in Events, EventOK(e, r), Aside, AddLinkPrev \/ AddLinkNext
  PROVE  EventOK(e, r)'
<1> USE NodeFacts
<1>1. UnderWay(e)' = UnderWay(e) /\ Overlaps(e) /\ dir' = dir /\ SameOrder(r, r)
  BY DEF Aside, eventVars, UnderWay, EventOK, SameOrder
<1>2. op \in {"linkPrev", "linkNext"} /\ op' \in {"linkNext", "setHandler", "idle"}
      /\ UNCHANGED <<grown, cut, emptied, beforeHead>>
  BY DEF AddLinkPrev, AddLinkNext, histVars
<1>3. Overlaps(e)' /\ (UnderWay(e) => e \in grown)
  BY <1>1, <1>2 DEF Overlaps, CuttingOps, GrowingOps
<1>4. Ranked(r) /\ Adding(L, r) /\ Backwards(L) /\ Forwards(L, r)
  BY DEF ListInv
<1>5. /\ From(L) \subseteq created /\ Into(L) \subseteq created /\ On(L) \subseteq created
      /\ Head0 \notin Into(L) /\ Tail0 \notin From(L) /\ created \subseteq Nodes
      /\ From(L) \subseteq On(L)
  BY ListFacts
<1>6. ctx \in created /\ ctx \in Contexts \ L /\ target \in On(L) /\ next[ctx] = target
      /\ r[ctx] < r[target] /\ (target = Head0 => beforeHead)
      /\ ctx # target /\ ctx # Head0 /\ ctx # Tail0 /\ target \in created
  BY <1>2, <1>4, <1>5 DEF Adding, TypeOK, On
<1>7. ASSUME NEW P \in SUBSET created, Route(e, r, P), UnderWay(e), ~emptied, ~beforeHead
      PROVE  \E Q \in SUBSET created' : Route(e, r, Q)'
  <2>1. CASE AddLinkPrev
    <3>1. op = "linkPrev" /\ prev' = [prev EXCEPT ![target] = ctx] /\ next' = next
      BY <2>1 DEF AddLinkPrev
    <3>2. prev[ctx] = prev[target] /\ target # Head0
      BY <1>4, <1>6, <1>7, <3>1 DEF Adding
    <3>3. PICK u \in created, c \in created : u = target /\ c = ctx
      BY <1>6
    <3>4. prev'[u] = c /\ \A x \in created \ {u} : prev'[x] = prev[x]
      BY <1>5, <1>6, <3>1, <3>3 DEF TypeOK
    <3>5. CASE dir[e] = "in"
      <4>1. \A x \in P : Link(e, x)' = Link(e, x)
        BY <1>1, <3>1, <3>5 DEF Link
      <4> QED BY <1>1, <1>7, <4>1, SameRoute, Zenon DEF Aside
    <3>6. CASE dir[e] # "in"
      <4>1. /\ Link(e, c) = Link(e, u) /\ Link(e, u)' = c
            /\ \A x \in created \ {u} : Link(e, x)' = Link(e, x)
            /\ u # Goal(e)
            /\ Link(e, u) = prev[c]
        BY <1>1, <3>2, <3>3, <3>4, <3>6 DEF Link, Goal
      <4>2. Prec(e, r, u, c) /\ u # c
        BY <1>6, <3>3, <3>6 DEF Prec
      <4>3. Link(e, u) \in created => Prec(e, r, c, Link(e, u))
        <5>1. prev[c] # Nil => r[prev[c]] < r[c]
          BY <1>4, <1>5 DEF Ranked
        <5>2. Nil \notin created
          BY <1>5, NodeFacts
        <5> QED BY <3>6, <4>1, <5>1, <5>2 DEF Prec
      <4> QED BY <1>3, <1>7, <4>1, <4>2, <4>3, RouteJoins
    <3> QED BY <3>5, <3>6
  <2>2. CASE AddLinkNext
    <3>1. op = "linkNext" /\ prev' = prev
      BY <2>2 DEF AddLinkNext
    <3>2. prev[ctx] \in From(L) /\ next[prev[ctx]] = target
      BY <1>4, <1>6, <1>7, <3>1 DEF Adding, TypeOK
    <3>3. PICK a \in created : a = prev[ctx]
      BY <1>5, <3>2
    <3>4. next' = [next EXCEPT ![a] = ctx] /\ a # Nil /\ a # Tail0
      BY <1>5, <2>2, <3>2, <3>3, NodeFacts DEF AddLinkNext
    <3>5. r[a] < r[ctx] /\ a # ctx /\ next[a] = target
      BY <1>4, <1>5, <1>6, <3>2, <3>3, <3>4 DEF Ranked, From
    <3>6. next'[a] = ctx /\ \A x \in created \ {a} : next'[x] = next[x]
      BY <1>5, <3>3, <3>4 DEF TypeOK
    <3>7. CASE dir[e] # "in"
      <4>1. \A x \in P : Link(e, x)' = Link(e, x)
        BY <1>1, <3>1, <3>7 DEF Link
      <4> QED BY <1>1, <1>7, <4>1, SameRoute, Zenon DEF Aside
    <3>8. CASE dir[e] = "in"
      <4>1. /\ Link(e, ctx) = Link(e, a) /\ Link(e, a)' = ctx
            /\ \A x \in created \ {a} : Link(e, x)' = Link(e, x)
            /\ a # Goal(e)
            /\ Link(e, a) = target
        BY <1>1, <1>6, <3>4, <3>5, <3>6, <3>8 DEF Link, Goal
      <4>2. Prec(e, r, a, ctx) /\ Prec(e, r, ctx, target)
        BY <1>6, <3>5, <3>8 DEF Prec
      <4> QED BY <1>3, <1>6, <1>7, <3>3, <3>5, <4>1, <4>2, RouteJoins
    <3> QED BY <3>7, <3>8
  <2> QED BY <2>1, <2>2
<1>8. \A P \in SUBSET created :
        Route(e, r, P) /\ UnderWay(e) /\ e \notin cut' /\ ~emptied' /\ ~beforeHead'
        => \E Q \in SUBSET created' : Route(e, r, Q)'
  BY <1>2, <1>7
<1> QED BY <1>1, <1>3, <1>8, OpKeeps

\* An event that is about to come to a removed context, or in it, goes on.
LEMMA BypassEvents ==
  ASSUME TypeOK, TypeOK', NEW L \in SUBSET Contexts, NEW r \in [Nodes -> Nat], ListInv(L, r),
         NEW e \in Events, EventOK(e, r), Aside, RemoveBypass
  PROVE  EventOK(e, r)'
<1> USE NodeFacts
<1>1. UnderWay(e)' = UnderWay(e) /\ Overlaps(e) /\ dir' = dir /\ SameOrder(r, r)
  BY DEF Aside, eventVars, UnderWay, EventOK, SameOrder
<1>2. op \in {"bypassPrev", "bypassNext"} /\ op' \in {"bypassNext", "idle"}
  BY DEF RemoveBypass
<1>3. Overlaps(e)'
  BY <1>2 DEF Overlaps, CuttingOps, GrowingOps
<1>4. Ranked(r) /\ ctx \in L /\ ctx \notin stayed[e]
  BY <1>2 DEF ListInv, Removing
<1>5. /\ From(L) \subseteq created /\ Into(L) \subseteq created /\ created \subseteq Nodes
      /\ ctx \in created /\ ctx # Head0 /\ ctx # Tail0
  <2>1. /\ On(L) \subseteq created /\ created \subseteq Nodes
        /\ From(L) \subseteq On(L) /\ Into(L) \subseteq On(L)
    BY ListFacts, Zenon
  <2> QED BY <1>4, <2>1, NodeFacts DEF On
<1>6. ctx # Goal(e)
  BY <1>5 DEF Goal
<1>7. ASSUME NEW P \in SUBSET created, Route(e, r, P)
      PROVE  Route(e, r, P)' /\ P \in SUBSET created'
  <2>1. CASE op = "bypassPrev"
    <3>1. PICK u \in created : u = next[ctx]
      BY <1>5, <2>1, BypassPrevList, Zenon
    <3>2. prev' = [prev EXCEPT ![u] = prev[ctx]] /\ prev[u] = ctx /\ next' = next
      BY <2>1, <3>1, BypassPrevList, Zenon DEF RemoveBypass
    <3>3. prev'[u] = prev[ctx] /\ \A x \in created \ {u} : prev'[x] = prev[x]
      BY <1>5, <3>2 DEF TypeOK
    <3>4. CASE dir[e] = "in"
      <4>1. \A x \in P : Link(e, x)' = Link(e, x)
        BY <1>1, <3>2, <3>4 DEF Link
      <4> QED BY <1>1, <1>7, <4>1, SameRoute, Zenon DEF Aside
    <3>5. CASE dir[e] # "in"
      <4>1. /\ Link(e, u) = ctx /\ Link(e, u)' = Link(e, ctx)
            /\ \A x \in created \ {u} : Link(e, x)' = Link(e, x)
        BY <1>1, <3>2, <3>3, <3>5 DEF Link
      <4> QED BY <1>4, <1>5, <1>6, <1>7, <4>1, RouteBypasses, Zenon DEF Aside
    <3> QED BY <3>4, <3>5
  <2>2. CASE op = "bypassNext"
    <3>1. PICK a : a = prev[ctx]
      OBVIOUS
    <3>2. a \in created /\ next[a] = ctx /\ next' = [next EXCEPT ![a] = next[ctx]] /\ prev' = prev
      BY <1>5, <2>2, <3>1, BypassNextList, Zenon DEF RemoveBypass
    <3>3. next'[a] = next[ctx] /\ \A x \in created \ {a} : next'[x] = next[x]
      BY <1>5, <3>2 DEF TypeOK
    <3>4. CASE dir[e] # "in"
      <4>1. \A x \in P : Link(e, x)' = Link(e, x)
        BY <1>1, <3>2, <3>4 DEF Link
      <4> QED BY <1>1, <1>7, <4>1, SameRoute, Zenon DEF Aside
    <3>5. CASE dir[e] = "in"
      <4>1. /\ Link(e, a) = ctx /\ Link(e, a)' = Link(e, ctx)
            /\ \A x \in created \ {a} : Link(e, x)' = Link(e, x)
        BY <1>1, <3>2, <3>3, <3>5 DEF Link
      <4> QED BY <1>4, <1>5, <1>6, <1>7, <3>2, <4>1, RouteBypasses, Zenon DEF Aside
    <3> QED BY <3>4, <3>5
  <2> QED BY <1>2, <2>1, <2>2
<1> QED BY <1>1, <1>3, <1>7, OpKeeps

----------------------------------------------------------------------------
(* The theorems.                                                           *)

\* The invariant, with what concerns one event put together.
LEMMA InvIs ==
  IInv <=> /\ TypeOK
           /\ \E L \in SUBSET Contexts, r \in [Nodes -> Nat] :
                ListInv(L, r) /\ \A e \in Events : EventOK(e, r)
BY DEF IInv, RemoveIsSafe, SafeFor, EventInv, EventOK

\* The same of the next state.
LEMMA InvThen ==
  TypeOK' /\ (\E L \in SUBSET Contexts, r \in [Nodes -> Nat] :
                ListInv(L, r)' /\ \A e \in Events : EventOK(e, r)')
  => IInv'
BY DEF IInv, RemoveIsSafe, SafeFor, EventInv, EventOK

\* It holds of a new pipeline: nothing is listed, and no event fired.
LEMMA InitInv == Init => IInv
<1> SUFFICES ASSUME Init PROVE IInv
  OBVIOUS
<1> USE NodeFacts
<1>1. TypeOK
  BY InitType
<1>2. PICK r \in [Nodes -> Nat] :
        r = [x \in Nodes |-> IF x = Head0 THEN 0 ELSE IF x = Tail0 THEN 1 ELSE 2]
  BY Zenon
<1>3. r[Head0] = 0 /\ r[Tail0] = 1
  BY <1>2
<1>4. next[Head0] = Tail0 /\ next[Tail0] = Nil /\ prev[Tail0] = Head0 /\ prev[Head0] = Nil
      /\ \A x \in Contexts : next[x] = Nil /\ prev[x] = Nil
  BY DEF Init
<1>5. created = {Head0, Tail0} /\ handled = {Head0, Tail0} /\ op = "idle"
      /\ \A e \in Events : stayed[e] = {} /\ event[e] = "idle" /\ seen[e] = {}
      /\ twice = {}
  BY DEF Init
<1>6. Ranked(r)
  BY <1>3, <1>4, <1>5 DEF Ranked
<1>7. Forwards({}, r)
  BY <1>3, <1>4, <1>5 DEF Forwards, Fwd, From, Into, On
<1>8. Backwards({})
  BY <1>4, <1>5 DEF Backwards, From, Into, On
<1>9. Armed({}) /\ Adding({}, r) /\ Removing({})
  BY <1>5 DEF Armed, Adding, Removing, On
<1>10. \A e \in Events : EventOK(e, r)
  BY <1>5 DEF EventOK, Overlaps, Onwards, Routed, SafeFor, UnderWay
<1> QED BY <1>1, <1>2, <1>6, <1>7, <1>8, <1>9, <1>10, InvIs DEF ListInv

\* It survives every step of an event, ...
LEMMA EventInvStep ==
  ASSUME TypeOK, TypeOK', NEW L \in SUBSET Contexts, NEW r \in [Nodes -> Nat], ListInv(L, r),
         \A f \in Events : EventOK(f, r), NEW e \in Events, Fire(e) \/ EventStep(e)
  PROVE  ListInv(L, r)' /\ \A f \in Events : EventOK(f, r)'
<1>1. \A f \in Events \ {e} : EventOK(f, r)'
  BY StepElsewhere, OtherEvents
<1>2. EventOK(e, r)'
  BY FireOn, LinkReads, CallOn DEF EventStep
<1>3. ListInv(L, r)'
  <2>1. UNCHANGED <<listVars, opVars, emptied, broken, beforeHead>>
        /\ \A f \in Events : \A x \in stayed'[f] : x \in stayed[f] \/ (x \in L /\ (op # "idle" => x # ctx))
    <3>1. CASE Fire(e)
      <4>1. Contexts \cap PathSet(next, Head0) \subseteq L
        BY PathListed, NodeFacts, Zenon DEF ListInv, On
      <4> QED BY <3>1, <4>1 DEF Fire, TypeOK
    <3>2. CASE EventStep(e)
      BY <3>2 DEF EventStep, CheckLink, DeferErrorCaught, PickHandler, CallHandler, histVars
    <3> QED BY <3>1, <3>2
  <2>2. Forwards(L, r)' /\ Backwards(L)' /\ Armed(L)' /\ Adding(L, r)'
    BY <2>1 DEF ListInv, Forwards, Backwards, Armed, Adding, Fwd, Loose, listVars, opVars
  <2>3. Ranked(r)'
    BY <2>1 DEF ListInv, Ranked, Forwards, listVars
  <2>4. Removing(L)'
    BY <2>1 DEF ListInv, Removing, listVars, opVars
  <2> QED BY <2>2, <2>3, <2>4 DEF ListInv
<1> QED BY <1>1, <1>2, <1>3

\* ... and every step of an operation, which may change L and r.
LEMMA OpInvStep ==
  ASSUME TypeOK, TypeOK', NEW L \in SUBSET Contexts, NEW r \in [Nodes -> Nat], ListInv(L, r),
         \A e \in Events : EventOK(e, r), OpStart \/ OpStep
  PROVE  \E M \in SUBSET Contexts, q \in [Nodes -> Nat] :
           ListInv(M, q)' /\ \A e \in Events : EventOK(e, q)'
<1>1. Aside /\ SameOrder(r, r)
  BY OpAside DEF SameOrder
<1>2. ASSUME NEW x \in Contexts, NEW t \in On(L), StartAdd(x, t), handled' = handled, stayed' = stayed,
             emptied' = emptied, broken' = broken, beforeHead' = (beforeHead \/ t = Head0)
      PROVE  \E q \in [Nodes -> Nat] : ListInv(L, q)' /\ \A e \in Events : EventOK(e, q)'
  <2>1. PICK q : q = Shifted(r, x, t)
    OBVIOUS
  <2>2. ListInv(L, q)'
    BY <1>2, <2>1, StartAddList
  <2>3. t \in created /\ x \notin created /\ created \subseteq Nodes
    BY <1>2, ListFacts DEF StartAdd
  <2>4. q \in [Nodes -> Nat] /\ \A y, z \in Nodes \ {x} : (q[y] < q[z]) = (r[y] < r[z])
    BY <2>1, <2>3, NodeFacts, ShiftedRank
  <2>5. SameOrder(r, q)
    BY <2>3, <2>4 DEF SameOrder
  <2>6. \A e \in Events : EventOK(e, q)'
    BY <1>1, <1>2, <2>3, <2>4, <2>5, AddEvents
  <2> QED BY <2>2, <2>4, <2>6
<1>3. ASSUME NEW x \in Contexts, AddLast(x)
      PROVE  \E q \in [Nodes -> Nat] : ListInv(L, q)' /\ \A e \in Events : EventOK(e, q)'
  <2>1. Tail0 \in On(L) /\ beforeHead' = (beforeHead \/ Tail0 = Head0)
    BY <1>3, NodeFacts DEF AddLast, On, TypeOK
  <2> QED BY <1>2, <1>3, <2>1 DEF AddLast
<1>4. ASSUME NEW x \in Contexts, NEW t \in Nodes, AddBefore(t, x)
      PROVE  \E q \in [Nodes -> Nat] : ListInv(L, q)' /\ \A e \in Events : EventOK(e, q)'
  <2>1. t \in On(L)
    BY <1>4, PathListed DEF AddBefore, ListInv, On
  <2> QED BY <1>2, <1>4, <2>1 DEF AddBefore
<1>5. CASE AddLinkPrev
  <2>1. ListInv(L, r)'
    BY <1>5, AddLinkPrevList
  <2>2. \A e \in Events : EventOK(e, r)'
    BY <1>1, <1>5, LinkEvents
  <2> QED BY <2>1, <2>2
<1>6. CASE AddLinkNext
  <2>1. \A e \in Events : EventOK(e, r)'
    BY <1>1, <1>6, LinkEvents
  <2>2. CASE prev[ctx] \in From(L)
    <3>1. PICK M : M = L \cup {ctx}
      BY Zenon
    <3>2. ListInv(M, r)' /\ M \in SUBSET Contexts
      BY <1>6, <2>2, <3>1, AddLinkNextJoins
    <3> QED BY <2>1, <3>2
  <2>3. CASE prev[ctx] \notin From(L)
    BY <1>6, <2>1, <2>3, AddLinkNextMisses
  <2> QED BY <2>2, <2>3
<1>7. CASE AddSetHandler
  <2>1. ListInv(L, r)'
    BY <1>7, AddSetHandlerList
  <2>2. \A e \in Events : EventOK(e, r)'
    BY <1>1, <1>7, AddEvents
  <2> QED BY <2>1, <2>2
<1>8. CASE \E x \in Contexts : Remove(x)
  <2>1. ListInv(L, r)'
    BY <1>8, RemoveList
  <2>2. \A e \in Events : EventOK(e, r)'
    BY <1>1, <1>8, AddEvents
  <2> QED BY <2>1, <2>2
<1>9. CASE RemoveBypass
  <2>1. \A e \in Events : EventOK(e, r)'
    BY <1>1, <1>9, BypassEvents
  <2>2. PICK a, M : a = prev[ctx] /\ M = L \ {ctx}
    BY Zenon
  <2>3. ListInv(L, r)' \/ ListInv(M, r)'
    <3>1. CASE op = "bypassPrev"
      BY <1>9, <2>2, <3>1, BypassPrevList
    <3>2. CASE op = "bypassNext"
      BY <1>9, <2>2, <3>2, BypassNextList
    <3> QED BY <1>9, <3>1, <3>2 DEF RemoveBypass
  <2> QED BY <2>1, <2>2, <2>3
<1>10. CASE RemoveFirstBypass
  <2>1. \A e \in Events : EventOK(e, r)'
    BY <1>1, <1>10, CutEvents
  <2>2. PICK M : M = L \ {ctx}
    BY Zenon
  <2>3. ListInv(L, r)' \/ ListInv(M, r)'
    <3>1. CASE op = "firstPrev"
      BY <1>10, <3>1, BypassPrevList
    <3>2. CASE op = "firstNext"
      BY <1>10, <2>2, <3>2, BypassNextList
    <3> QED BY <1>10, <3>1, <3>2 DEF RemoveFirstBypass
  <2> QED BY <2>1, <2>2, <2>3
<1>11. CASE RemoveFirst \/ Clear \/ RemoveFirstDrop
  <2>1. \A e \in Events : EventOK(e, r)'
    BY <1>1, <1>11, CutEvents
  <2>2. ListInv(L, r)'
    BY <1>11, RemoveList, ClearList, DropList, Zenon
  <2> QED BY <2>1, <2>2
<1>12. CASE ClearLinks
  <2>1. \A e \in Events : EventOK(e, r)'
    BY <1>1, <1>12, CutEvents
  <2>2. PICK M \in SUBSET Contexts : M = IF op = "clearHead" THEN {} ELSE L
    BY Zenon
  <2>3. ListInv(M, r)'
    BY <1>12, <2>2, ClearLinksList
  <2> QED BY <2>1, <2>3
<1> QED BY <1>3, <1>4, <1>5, <1>6, <1>7, <1>8, <1>9, <1>10, <1>11, <1>12 DEF OpStart, OpStep

\* A step that changes nothing keeps it too.
LEMMA StepInv == IInv /\ [Next]_vars => IInv'
<1> SUFFICES ASSUME IInv, [Next]_vars PROVE IInv'
  OBVIOUS
<1>1. TypeOK
  BY InvIs
<1>2. PICK L \in SUBSET Contexts, r \in [Nodes -> Nat] :
        ListInv(L, r) /\ \A e \in Events : EventOK(e, r)
  BY InvIs
<1>3. ASSUME NEW e \in Events, Fire(e) \/ EventStep(e) PROVE IInv'
  <2>1. TypeOK'
    BY <1>1, <1>3, EventType
  <2>2. ListInv(L, r)' /\ \A f \in Events : EventOK(f, r)'
    BY <1>1, <1>2, <1>3, <2>1, EventInvStep
  <2> QED BY <2>1, <2>2, InvThen
<1>4. ASSUME OpStart \/ OpStep PROVE IInv'
  <2>1. TypeOK'
    BY <1>1, <1>4, AddType, RemoveType DEF OpStart, OpStep
  <2>2. \E M \in SUBSET Contexts, q \in [Nodes -> Nat] :
           ListInv(M, q)' /\ \A e \in Events : EventOK(e, q)'
    BY <1>1, <1>2, <1>4, <2>1, OpInvStep, Zenon
  <2> QED BY <2>1, <2>2, InvThen
<1>5. ASSUME UNCHANGED vars PROVE IInv'
  <2>1. TypeOK'
    BY <1>1, <1>5 DEF TypeOK, UnderWay, vars
  <2>2. ListInv(L, r)'
    BY <1>2, <1>5 DEF ListInv, Ranked, Forwards, Fwd, Backwards, Loose, Armed, Adding, Removing, vars
  <2>3. \A e \in Events : EventOK(e, r)'
    BY <1>2, <1>5, OtherEvents DEF Elsewhere, vars, listVars, opVars
  <2> QED BY <2>1, <2>2, <2>3, InvThen
<1> QED BY <1>3, <1>4, <1>5 DEF Next

\* The invariant holds in every state.
THEOREM Invariance == Spec => []IInv
<1>1. Init => IInv
  BY InitInv
<1>2. IInv /\ [Next]_vars => IInv'
  BY StepInv
<1> QED BY <1>1, <1>2, PTL DEF Spec

\* Whatever operations change the pipeline while events walk it: an event stops
\* short of its goal only if RemoveFirst or Clear cut off the context it was in,
\* panics only if that happened or a context was being added, skips no handler
\* that was listed all the time, and passes no handler twice, unless a handler was
\* called with the context of another (handlercontext.go:77).
THEOREM RemovalIsSafe == Spec => []RemoveIsSafe
<1>1. IInv => RemoveIsSafe
  BY DEF IInv
<1> QED BY <1>1, Invariance, PTL
=============================================================================
