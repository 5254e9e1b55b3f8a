------------------------ MODULE WriteAndRouteProofs ------------------------
(***************************************************************************)
(* Proofs about two components that share nothing but the requests they    *)
(* serve: WritePath, on which the answer goes out, and Routes, in which    *)
(* the handler is found.                                                   *)
(*                                                                         *)
(* WritePath, for every set of calls and every number of connects.  The    *)
(* argument rests on five facts that every step keeps:                     *)
(*   - Ownership: writeS is 1 exactly while one flusher owns it;           *)
(*   - NoStrandedWrite: a non-empty buffer has somebody to come for it;    *)
(*   - QueueOrder: the buffer is what is left of pushed, the held write    *)
(*     comes just before it, and what is on the wire before that;          *)
(*   - Accounting: an unresolved future is with its caller, in the buffer, *)
(*     in the hands of the owner, or dropped;                              *)
(*   - Placed: a write is at one place on its way from the caller over the *)
(*     buffer and the owner to the wire, and answered only at its end.     *)
(* With them every step of WritePath is a step of WriteContract.           *)
(*                                                                         *)
(* Routes, for every set of patterns, names, paths and of what calls give. *)
(* The argument:                                                           *)
(*   - TableInv: a table is a tree below its root, a group has no task,    *)
(*     and a node has what the last call that changed it gave it;          *)
(*   - Walking, Arrived: a call walks along its pattern and changes the    *)
(*     table as it goes; turn by turn it gives to one node, as its last    *)
(*     deed, and disturbs nothing that an earlier call has given;          *)
(*   - LookupFinds: segment by segment, the lookup of a node's own names   *)
(*     stands at the node they lead to, whatever the kinds of the nodes on *)
(*     the way, but for a recursive one.                                   *)
(* A walk is a function on 0..n that is defined step by step.  Nothing is  *)
(* known of its values beforehand, so that it exists is shown one step at  *)
(* a time (WalkExists, LookExists), by NatSetInduction.                    *)
(***************************************************************************)
EXTENDS WritePath, Routes, Integers, FiniteSetTheorems, SequenceTheorems, TLAPS

-----------------------------------------------------------------------------
(* The write path.                                                         *)

\* writeS is 1 exactly while some flusher owns it, and only one does.
Ownership ==
  /\ writeS = 0 => \A f \in Calls : fpc[f] \notin Owning
  /\ writeS = 1 => \E f \in Calls : fpc[f] \in Owning
  /\ SingleFlusher

\* How many futures have left the buffer.
Popped == Len(pushed) - Len(buffer)

\* The buffer is the end of pushed.
BufferIsSuffix ==
  /\ Len(buffer) <= Len(pushed)
  /\ \A i \in 1..Len(buffer) : buffer[i] = pushed[Popped + i]

\* The write in the hands of a flusher is the last one popped.
HeldIsLastPopped ==
  \A f \in Calls : fpc[f] = "write" =>
    /\ Popped \in 1..Len(pushed)
    /\ cur[f] = pushed[Popped]

\* What is on the wire was popped before it.
WireBeforeHeld ==
  \A i \in DOMAIN wire :
    \E m \in 1..Len(pushed) :
      /\ m <= Popped
      /\ pushed[m] = wire[i]
      /\ \A f \in Calls : fpc[f] = "write" => m < Popped

QueueOrder == BufferIsSuffix /\ HeldIsLastPopped /\ WireBeforeHeld /\ WireOrder

\* Flusher f has popped the future of c and not resolved it.
Holds(f, c) == fpc[f] \in {"write", "ack", "fail", "failed"} /\ cur[f] = c
Buffered(c) == \E i \in 1..Len(buffer) : buffer[i] = c
Early(c) == pc[c] \in {"idle", "push", "check"}

\* No unresolved future is forgotten, except those of dropped calls ...
Accounted ==
  \A c \in Calls : res[c] = "pending" =>
    Early(c) \/ c \in dropped \/ Buffered(c) \/ \E f \in Calls : Holds(f, c)

\* ... which nobody has, just as those of the calls that are not there yet.
Unclaimed ==
  \A c \in Calls : Early(c) \/ c \in dropped =>
    /\ res[c] = "pending"
    /\ ~Buffered(c)
    /\ \A f \in Calls : ~Holds(f, c)

EarlyNotDropped == \A c \in dropped : ~Early(c)

Accounting == Accounted /\ Unclaimed /\ EarlyNotDropped


----------------------------------------------------------------------------
(* Type correctness.                                                       *)

\* The initial state has the types TypeOK states.
LEMMA TypeInit == Init => TypeOK
<1> SUFFICES ASSUME Init PROVE TypeOK
  OBVIOUS
<1>1. /\ pc \in [Calls -> CallStates] /\ fpc \in [Calls -> FlusherStates]
      /\ cur \in [Calls -> Calls] /\ res \in [Calls -> Results]
  BY DEF Init, CallStates, FlusherStates, Results
<1>2. buffer \in Seq(Calls) /\ wire \in Seq(Calls) /\ pushed \in Seq(Calls)
  BY DEF Init
<1>3. /\ writeS \in {0, 1} /\ alive \in {"nil", "live", "done", "failed"}
      /\ connects \in Nat /\ dropped \subseteq Calls
  BY DEF Init
<1>4. connecting \in BOOLEAN /\ teardown \in BOOLEAN /\ closeDone \in BOOLEAN
  BY Zenon DEF Init
<1> QED BY <1>1, <1>2, <1>3, <1>4 DEF TypeOK

\* Every step keeps the types, the queues included.
LEMMA TypeStep == TypeOK /\ [Next]_vars => TypeOK'
<1> SUFFICES ASSUME TypeOK, [Next]_vars PROVE TypeOK'
  OBVIOUS
<1> USE DEF TypeOK, CallStates, FlusherStates, Results, callVars, flushVars,
            lifeVars, GoTo, FlushTo, Resolve
<1>1. ASSUME NEW c \in Calls, CallStep(c) PROVE TypeOK'
  <2>1. CASE Enter(c) BY <2>1, Zenon DEF Enter
  <2>2. CASE Push(c) BY <2>2 DEF Push
  <2>3. CASE Recheck(c) BY <2>3 DEF Recheck
  <2>4. CASE Kick(c) BY <2>4, Zenon DEF Kick
  <2> QED BY <1>1, <2>1, <2>2, <2>3, <2>4 DEF CallStep
<1>2. ASSUME NEW f \in Calls, FlushStep(f) PROVE TypeOK'
  <2>1. CASE LoopTest(f) BY <2>1 DEF LoopTest
  <2>2. CASE Pop(f)
    <3>1. CASE buffer = <<>> BY <2>2, <3>1 DEF Pop
    <3>2. CASE buffer # <<>>
      <4>1. Head(buffer) \in Calls /\ Tail(buffer) \in Seq(Calls)
        BY <3>2
      <4>2. /\ cur' = [cur EXCEPT ![f] = Head(buffer)] /\ buffer' = Tail(buffer)
            /\ fpc' = [fpc EXCEPT ![f] = "write"]
            /\ UNCHANGED <<callVars, wire, lifeVars, writeS, res>>
        BY <2>2, <3>2, Zenon DEF Pop
      <4> QED BY <4>1, <4>2
    <3> QED BY <3>1, <3>2
  <2>3. CASE UnsafeWrite(f)
    <3>1. Append(wire, cur[f]) \in Seq(Calls)
      OBVIOUS
    <3> QED BY <2>3, <3>1, Zenon DEF UnsafeWrite
  <2>4. CASE Ack(f) BY <2>4 DEF Ack
  <2>5. CASE FailChannel(f) BY <2>5 DEF FailChannel, InactiveChannel
  <2>6. CASE FailFuture(f) BY <2>6 DEF FailFuture
  <2>7. CASE TailTest(f) BY <2>7 DEF TailTest
  <2>8. CASE DrainLock(f) BY <2>8 DEF DrainLock
  <2>9. CASE Drain(f)
    <3>1. CASE buffer = <<>> BY <2>9, <3>1 DEF Drain
    <3>2. CASE buffer # <<>>
      <4>1. Head(buffer) \in Calls /\ Tail(buffer) \in Seq(Calls)
        BY <3>2
      <4> QED BY <2>9, <3>2, <4>1, Zenon DEF Drain
    <3> QED BY <3>1, <3>2
  <2>10. CASE ResetState(f) BY <2>10 DEF ResetState
  <2>11. CASE LenTest(f) BY <2>11 DEF LenTest
  <2>12. CASE WriteAgain(f) BY <2>12, Zenon DEF WriteAgain
  <2> QED
    BY <1>2, <2>1, <2>2, <2>3, <2>4, <2>5, <2>6, <2>7, <2>8, <2>9, <2>10,
       <2>11, <2>12, Zenon DEF FlushStep
<1>3. CASE LifeStep
  <2>1. CASE StartConnect BY <2>1 DEF StartConnect
  <2>2. CASE EndConnect BY <2>2, Zenon DEF EndConnect, InactiveChannel
  <2>3. CASE Inactivate BY <2>3 DEF Inactivate, InactiveChannel
  <2>4. CASE Teardown BY <2>4, Zenon DEF Teardown
  <2> QED BY <1>3, <2>1, <2>2, <2>3, <2>4 DEF LifeStep
<1>4. CASE UNCHANGED vars BY <1>4 DEF vars
<1> QED BY <1>1, <1>2, <1>3, <1>4 DEF Next, Terminated

\* TypeOK holds in every reachable state, for any calls and connects.
THEOREM TypeCorrect == Spec => []TypeOK
BY TypeInit, TypeStep, PTL DEF Spec

----------------------------------------------------------------------------
(* One flusher at a time.                                                  *)

\* The steps of a flusher while it owns writeS and keeps it.
OwnedStep(f) ==
  \/ LoopTest(f) \/ Pop(f) \/ UnsafeWrite(f) \/ Ack(f) \/ FailChannel(f)
  \/ FailFuture(f) \/ TailTest(f) \/ DrainLock(f) \/ Drain(f)

\* Such a step begins and ends as the owner, and leaves the callers alone.
LEMMA OwnedStepKeeps ==
  ASSUME TypeOK, NEW f \in Calls, OwnedStep(f)
  PROVE  /\ fpc[f] \in Owning
         /\ \E s \in Owning : fpc' = [fpc EXCEPT ![f] = s]
         /\ UNCHANGED <<pc, writeS, pushed, dropped>>
<1>a. fpc \in [Calls -> FlusherStates]
  BY DEF TypeOK
<1> USE <1>a DEF Owning, FlusherStates, callVars, flushVars, lifeVars, FlushTo
<1>1. CASE LoopTest(f) BY <1>1, Zenon DEF LoopTest
<1>2. CASE Pop(f) BY <1>2 DEF Pop
<1>3. CASE UnsafeWrite(f) BY <1>3 DEF UnsafeWrite
<1>4. CASE Ack(f) BY <1>4 DEF Ack
<1>5. CASE FailChannel(f) BY <1>5 DEF FailChannel
<1>6. CASE FailFuture(f) BY <1>6 DEF FailFuture
<1>7. CASE TailTest(f) BY <1>7, Zenon DEF TailTest
<1>8. CASE DrainLock(f) BY <1>8 DEF DrainLock
<1>9. CASE Drain(f)
  <2>1. fpc' = [fpc EXCEPT ![f] = "draining"] \/ fpc' = [fpc EXCEPT ![f] = "reset"]
    BY <1>9 DEF Drain
  <2> QED BY <1>9, <2>1 DEF Drain
<1> QED BY <1>1, <1>2, <1>3, <1>4, <1>5, <1>6, <1>7, <1>8, <1>9 DEF OwnedStep

\* The steps that do not touch flushers and writeS.
LEMMA QuietStep ==
  ASSUME NEW c \in Calls,
         \/ Enter(c) \/ Push(c) \/ Recheck(c) \/ LifeStep \/ UNCHANGED vars
  PROVE  UNCHANGED <<fpc, cur, wire, writeS>>
BY DEF Enter, Push, Recheck, LifeStep, StartConnect, EndConnect, Inactivate,
       Teardown, flushVars, vars

\* markState and resetState keep exactly one owner while writeS is 1.
LEMMA OwnershipStep == TypeOK /\ Ownership /\ [Next]_vars => Ownership'
<1> SUFFICES ASSUME TypeOK, Ownership, [Next]_vars PROVE Ownership'
  OBVIOUS
<1>a. fpc \in [Calls -> FlusherStates] /\ writeS \in {0, 1}
  BY DEF TypeOK
<1> USE <1>a DEF Ownership, SingleFlusher
<1>1. ASSUME UNCHANGED <<fpc, writeS>> PROVE Ownership'
  BY <1>1
<1>2. ASSUME NEW f \in Calls, OwnedStep(f) PROVE Ownership'
  <2>1. PICK s \in Owning : fpc' = [fpc EXCEPT ![f] = s]
    BY <1>2, OwnedStepKeeps
  <2>2. fpc[f] \in Owning /\ UNCHANGED writeS
    BY <1>2, OwnedStepKeeps
  <2> QED BY <2>1, <2>2
<1>3. ASSUME NEW c \in Calls, Kick(c) PROVE Ownership'
  BY <1>3 DEF Kick, MarkState, FlushTo, Owning
<1>4. ASSUME NEW f \in Calls, ResetState(f) PROVE Ownership'
  BY <1>4 DEF ResetState, FlushTo, Owning
<1>5. ASSUME NEW f \in Calls, LenTest(f) PROVE Ownership'
  BY <1>5 DEF LenTest, FlushTo, Owning
<1>6. ASSUME NEW f \in Calls, WriteAgain(f) PROVE Ownership'
  BY <1>6 DEF WriteAgain, MarkState, FlushTo, Owning
<1>7. ASSUME NEW c \in Calls, CallStep(c) PROVE Ownership'
  BY <1>1, <1>3, <1>7, QuietStep DEF CallStep
<1>8. ASSUME NEW f \in Calls, FlushStep(f) PROVE Ownership'
  BY <1>2, <1>4, <1>5, <1>6, <1>8 DEF FlushStep, OwnedStep
<1>9. CASE LifeStep \/ UNCHANGED vars
  BY <1>1, <1>9 DEF LifeStep, StartConnect, EndConnect, Inactivate, Teardown,
                    flushVars, vars
<1> QED BY <1>7, <1>8, <1>9 DEF Next, Terminated

\* At most one flusher is between markState and resetState.
THEOREM OneFlusher == Spec => []SingleFlusher
<1>1. Init => Ownership
  BY DEF Init, Ownership, SingleFlusher, Owning
<1> QED BY <1>1, TypeCorrect, OwnershipStep, PTL DEF Spec, Ownership

----------------------------------------------------------------------------
(* No write is stranded in the buffer.                                     *)

\* Whoever stops watching the buffer leaves somebody else watching it.
LEMMA StrandedStep ==
  TypeOK /\ Ownership /\ NoStrandedWrite /\ [Next]_vars => NoStrandedWrite'
<1> SUFFICES ASSUME TypeOK, Ownership, NoStrandedWrite, [Next]_vars
             PROVE  NoStrandedWrite'
  OBVIOUS
<1>a. /\ fpc \in [Calls -> FlusherStates] /\ pc \in [Calls -> CallStates]
      /\ writeS \in {0, 1}
  BY DEF TypeOK
<1>1. ASSUME NEW c \in Calls, CallStep(c) PROVE NoStrandedWrite'
  <2>1. CASE Enter(c)
    BY <1>a, <2>1 DEF Enter, GoTo, NoStrandedWrite, flushVars
  <2>2. CASE Push(c)
    BY <1>a, <2>2 DEF Push, GoTo, NoStrandedWrite, flushVars
  <2>3. CASE Recheck(c)
    BY <1>a, <2>3 DEF Recheck, GoTo, NoStrandedWrite, flushVars
  <2>4. CASE Kick(c)
    <3>1. writeS' = 1
      BY <1>a, <2>4 DEF Kick, MarkState
    <3> QED BY <3>1 DEF NoStrandedWrite
  <2> QED BY <1>1, <2>1, <2>2, <2>3, <2>4 DEF CallStep
<1>2. ASSUME NEW f \in Calls, OwnedStep(f) PROVE NoStrandedWrite'
  <2>1. fpc[f] \in Owning /\ UNCHANGED writeS
    BY <1>2, OwnedStepKeeps
  <2>2. writeS = 1
    BY <1>a, <2>1 DEF Ownership
  <2> QED BY <2>1, <2>2 DEF NoStrandedWrite
<1>3. ASSUME NEW f \in Calls, ResetState(f) PROVE NoStrandedWrite'
  <2>1. fpc'[f] = "len"
    BY <1>a, <1>3 DEF ResetState, FlushTo
  <2> QED BY <2>1 DEF NoStrandedWrite
<1>4. ASSUME NEW f \in Calls, LenTest(f) PROVE NoStrandedWrite'
  <2>1. buffer' = buffer /\ (buffer # <<>> => fpc'[f] = "again")
    BY <1>a, <1>4 DEF LenTest, FlushTo
  <2> QED BY <2>1 DEF NoStrandedWrite
<1>5. ASSUME NEW f \in Calls, WriteAgain(f) PROVE NoStrandedWrite'
  <2>1. writeS' = 1
    BY <1>a, <1>5 DEF WriteAgain, MarkState
  <2> QED BY <2>1 DEF NoStrandedWrite
<1>6. CASE LifeStep \/ UNCHANGED vars
  <2>1. UNCHANGED <<pc, fpc, writeS, buffer>>
    BY <1>6 DEF LifeStep, StartConnect, EndConnect, Inactivate, Teardown,
                callVars, flushVars, vars
  <2> QED BY <2>1 DEF NoStrandedWrite
<1> QED
  BY <1>1, <1>2, <1>3, <1>4, <1>5, <1>6
  DEF Next, FlushStep, OwnedStep, Terminated

\* A queued write always has somebody who will come for it.
THEOREM NothingStranded == Spec => []NoStrandedWrite
<1>1. Init => Ownership /\ NoStrandedWrite
  BY DEF Init, Ownership, SingleFlusher, Owning, NoStrandedWrite
<1> QED BY <1>1, TypeCorrect, OwnershipStep, StrandedStep, PTL DEF Spec

----------------------------------------------------------------------------
(* The order of writes.                                                    *)

\* What Head and Tail are made of.
LEMMA TailFacts ==
  ASSUME NEW S, NEW s \in Seq(S), s # <<>>
  PROVE  /\ Tail(s) \in Seq(S) /\ Len(Tail(s)) = Len(s) - 1
         /\ Len(s) \in Nat /\ Len(s) >= 1
         /\ Head(s) = s[1] /\ s[1] \in S
         /\ \A i \in 1..Len(Tail(s)) : Tail(s)[i] = s[i + 1]
OBVIOUS

\* What Append is made of.
LEMMA AppendFacts ==
  ASSUME NEW S, NEW s \in Seq(S), NEW e \in S
  PROVE  /\ Append(s, e) \in Seq(S)
         /\ Len(s) \in Nat /\ Len(Append(s, e)) = Len(s) + 1
         /\ DOMAIN s = 1..Len(s) /\ DOMAIN Append(s, e) = 1..(Len(s) + 1)
         /\ \A i \in 1..Len(s) : Append(s, e)[i] = s[i]
         /\ Append(s, e)[Len(s) + 1] = e
OBVIOUS

\* A step that keeps the queues and starts no write keeps the order.
LEMMA OrderKept ==
  ASSUME QueueOrder, UNCHANGED <<buffer, pushed, wire>>,
         \A f \in Calls : fpc'[f] = "write" => fpc[f] = "write" /\ cur'[f] = cur[f]
  PROVE  QueueOrder'
<1> USE DEF QueueOrder, Popped
<1>1. BufferIsSuffix' BY DEF BufferIsSuffix
<1>2. HeldIsLastPopped' BY DEF HeldIsLastPopped
<1>3. WireBeforeHeld' BY DEF WireBeforeHeld
<1>4. WireOrder' BY DEF WireOrder
<1> QED BY <1>1, <1>2, <1>3, <1>4

\* A push extends the buffer and pushed alike.
LEMMA OrderPush ==
  ASSUME TypeOK, QueueOrder, NEW c \in Calls, Push(c)
  PROVE  QueueOrder'
<1>a. /\ buffer \in Seq(Calls) /\ pushed \in Seq(Calls)
      /\ buffer' = Append(buffer, c) /\ pushed' = Append(pushed, c)
      /\ UNCHANGED <<fpc, cur, wire>>
  BY DEF TypeOK, Push, flushVars
<1>b. /\ Len(buffer) \in Nat /\ Len(pushed) \in Nat
      /\ Len(buffer') = Len(buffer) + 1 /\ Len(pushed') = Len(pushed) + 1
      /\ \A i \in 1..Len(pushed) : pushed'[i] = pushed[i]
      /\ \A i \in 1..Len(buffer) : buffer'[i] = buffer[i]
      /\ pushed'[Len(pushed) + 1] = c /\ buffer'[Len(buffer) + 1] = c
  BY <1>a, AppendFacts
<1>c. Popped' = Popped /\ Popped \in Int
  BY <1>b DEF Popped
<1>d. DOMAIN pushed = 1..Len(pushed) /\ DOMAIN pushed' = 1..(Len(pushed) + 1)
  BY <1>a
<1> USE DEF QueueOrder
<1>1. BufferIsSuffix'
  <2>1. Len(buffer') <= Len(pushed')
    BY <1>b DEF BufferIsSuffix
  <2>2. ASSUME NEW i \in 1..Len(buffer') PROVE buffer'[i] = pushed'[Popped' + i]
    <3>1. CASE i \in 1..Len(buffer)
      BY <1>b, <1>c, <3>1 DEF BufferIsSuffix, Popped
    <3>2. CASE i = Len(buffer) + 1
      BY <1>b, <1>c, <3>2 DEF Popped
    <3> QED BY <1>b, <3>1, <3>2
  <2> QED BY <2>1, <2>2 DEF BufferIsSuffix
<1>2. HeldIsLastPopped'
  BY <1>a, <1>b, <1>c DEF HeldIsLastPopped
<1>3. WireBeforeHeld'
  BY <1>a, <1>b, <1>c DEF WireBeforeHeld
<1>4. WireOrder'
  BY <1>a, <1>b, <1>d DEF WireOrder
<1> QED BY <1>1, <1>2, <1>3, <1>4

\* A future that leaves the buffer is the one after those that left before.
LEMMA OrderPopped ==
  ASSUME TypeOK, QueueOrder, buffer # <<>>, buffer' = Tail(buffer),
         UNCHANGED pushed
  PROVE  /\ Popped' = Popped + 1 /\ Popped \in 0..Len(pushed)
         /\ Popped' \in 1..Len(pushed)
         /\ Head(buffer) = pushed[Popped']
         /\ BufferIsSuffix'
<1>a. buffer \in Seq(Calls) /\ pushed \in Seq(Calls)
  BY DEF TypeOK
<1>b. /\ Len(buffer) \in Nat /\ Len(buffer) >= 1 /\ Len(buffer') = Len(buffer) - 1
      /\ Head(buffer) = buffer[1]
      /\ \A i \in 1..Len(buffer') : buffer'[i] = buffer[i + 1]
  BY <1>a, TailFacts
<1>c. Len(pushed) \in Nat /\ Len(buffer) <= Len(pushed)
  BY <1>a DEF QueueOrder, BufferIsSuffix
<1>1. /\ Popped' = Popped + 1 /\ Popped \in 0..Len(pushed)
      /\ Popped' \in 1..Len(pushed)
  BY <1>b, <1>c DEF Popped
<1>2. Head(buffer) = pushed[Popped']
  BY <1>1, <1>b DEF QueueOrder, BufferIsSuffix
<1>3. BufferIsSuffix'
  <2>1. ASSUME NEW i \in 1..Len(buffer') PROVE buffer'[i] = pushed'[Popped' + i]
    <3>1. buffer'[i] = buffer[i + 1] /\ i + 1 \in 1..Len(buffer)
      BY <1>b
    <3>2. buffer[i + 1] = pushed[Popped + (i + 1)]
      BY <3>1 DEF QueueOrder, BufferIsSuffix
    <3>3. Popped + (i + 1) = Popped' + i
      BY <1>1, <1>b
    <3> QED BY <3>1, <3>2, <3>3
  <2> QED BY <1>b, <1>c, <2>1 DEF BufferIsSuffix
<1> QED BY <1>1, <1>2, <1>3

\* The owner pops: no other flusher holds a write.
LEMMA OrderPop ==
  ASSUME TypeOK, Ownership, QueueOrder, NEW f \in Calls, Pop(f)
  PROVE  QueueOrder'
<1>a. fpc \in [Calls -> FlusherStates] /\ cur \in [Calls -> Calls]
  BY DEF TypeOK
<1>1. CASE buffer = <<>>
  <2>1. UNCHANGED <<buffer, pushed, wire, cur>> /\ fpc' = [fpc EXCEPT ![f] = "tail"]
    BY <1>1 DEF Pop, callVars, FlushTo
  <2> QED BY <1>a, <2>1, OrderKept
<1>2. CASE buffer # <<>>
  <2>1. /\ buffer' = Tail(buffer) /\ UNCHANGED <<pushed, wire>>
        /\ cur' = [cur EXCEPT ![f] = Head(buffer)]
        /\ fpc' = [fpc EXCEPT ![f] = "write"] /\ fpc[f] = "pop"
    BY <1>2 DEF Pop, callVars, FlushTo
  <2>2. \A g \in Calls : fpc'[g] = "write" => g = f
    BY <1>a, <2>1 DEF Ownership, SingleFlusher, Owning
  <2>3. /\ Popped' = Popped + 1 /\ Popped \in 0..Len(pushed)
        /\ Popped' \in 1..Len(pushed)
        /\ Head(buffer) = pushed[Popped']
        /\ BufferIsSuffix'
    BY <1>2, <2>1, OrderPopped
  <2>4. HeldIsLastPopped'
    BY <1>a, <2>1, <2>2, <2>3 DEF HeldIsLastPopped
  <2>5. WireBeforeHeld'
    <3>1. ASSUME NEW i \in DOMAIN wire
          PROVE  \E m \in 1..Len(pushed) : /\ m <= Popped' /\ pushed[m] = wire[i]
                                           /\ m < Popped'
      BY <2>3 DEF QueueOrder, WireBeforeHeld
    <3> QED BY <2>1, <3>1 DEF WireBeforeHeld
  <2>6. WireOrder'
    BY <2>1 DEF QueueOrder, WireOrder
  <2> QED BY <2>3, <2>4, <2>5, <2>6 DEF QueueOrder
<1> QED BY <1>1, <1>2

\* The held write goes on the wire behind everything popped before it.
LEMMA OrderWrite ==
  ASSUME TypeOK, Ownership, QueueOrder, NEW f \in Calls, UnsafeWrite(f)
  PROVE  QueueOrder'
<1>a. /\ fpc \in [Calls -> FlusherStates] /\ cur \in [Calls -> Calls]
      /\ wire \in Seq(Calls) /\ pushed \in Seq(Calls) /\ buffer \in Seq(Calls)
  BY DEF TypeOK
<1>b. UNCHANGED <<buffer, pushed, cur>> /\ fpc[f] = "write"
  BY DEF UnsafeWrite, callVars
<1>1. CASE UNCHANGED wire /\ fpc' = [fpc EXCEPT ![f] = "fail"]
  BY <1>a, <1>b, <1>1, OrderKept
<1>2. CASE wire' = Append(wire, cur[f]) /\ fpc' = [fpc EXCEPT ![f] = "ack"]
  <2>1. \A g \in Calls : fpc'[g] # "write"
    BY <1>a, <1>b, <1>2 DEF Ownership, SingleFlusher, Owning
  <2>2. /\ Len(wire) \in Nat /\ DOMAIN wire = 1..Len(wire)
        /\ DOMAIN wire' = 1..(Len(wire) + 1)
        /\ \A i \in 1..Len(wire) : wire'[i] = wire[i]
        /\ wire'[Len(wire) + 1] = cur[f]
    BY <1>a, <1>2, AppendFacts
  <2>3. Popped \in 1..Len(pushed) /\ cur[f] = pushed[Popped]
    BY <1>b DEF QueueOrder, HeldIsLastPopped
  <2>4. BufferIsSuffix' /\ Popped' = Popped
    BY <1>b DEF QueueOrder, BufferIsSuffix, Popped
  <2>5. HeldIsLastPopped'
    BY <2>1 DEF HeldIsLastPopped
  <2>6. WireBeforeHeld'
    <3>1. ASSUME NEW i \in DOMAIN wire'
          PROVE  \E m \in 1..Len(pushed) : m <= Popped /\ pushed[m] = wire'[i]
      <4>1. CASE i \in DOMAIN wire
        BY <2>2, <4>1 DEF QueueOrder, WireBeforeHeld
      <4>2. CASE i = Len(wire) + 1
        BY <2>2, <2>3, <4>2
      <4> QED BY <2>2, <4>1, <4>2
    <3> QED BY <1>b, <2>1, <2>4, <3>1 DEF WireBeforeHeld
  <2>7. WireOrder'
    <3> SUFFICES ASSUME NEW i \in DOMAIN wire', NEW j \in DOMAIN wire', i < j
                 PROVE  \E m, n \in DOMAIN pushed :
                          m < n /\ pushed[m] = wire'[i] /\ pushed[n] = wire'[j]
      BY <1>b DEF WireOrder
    <3>1. CASE j \in DOMAIN wire
      <4>1. i \in DOMAIN wire /\ wire'[i] = wire[i] /\ wire'[j] = wire[j]
        BY <2>2, <3>1
      <4> QED BY <3>1, <4>1 DEF QueueOrder, WireOrder
    <3>2. CASE j = Len(wire) + 1
      <4>1. i \in DOMAIN wire /\ wire'[i] = wire[i] /\ wire'[j] = pushed[Popped]
        BY <2>2, <2>3, <3>2
      <4>2. PICK m \in 1..Len(pushed) : m < Popped /\ pushed[m] = wire[i]
        BY <1>b, <4>1 DEF QueueOrder, WireBeforeHeld
      <4>3. DOMAIN pushed = 1..Len(pushed)
        BY <1>a
      <4> QED BY <2>3, <4>1, <4>2, <4>3
    <3> QED BY <2>2, <3>1, <3>2
  <2> QED BY <2>4, <2>5, <2>6, <2>7 DEF QueueOrder
<1> QED BY <1>1, <1>2 DEF UnsafeWrite, FlushTo

\* The owner drains: what it fails never reaches the wire.
LEMMA OrderDrain ==
  ASSUME TypeOK, Ownership, QueueOrder, NEW f \in Calls, Drain(f)
  PROVE  QueueOrder'
<1>a. fpc \in [Calls -> FlusherStates] /\ fpc[f] = "draining"
  BY DEF TypeOK, Drain
<1>b. UNCHANGED <<cur, wire, pushed>>
  BY DEF Drain, callVars
<1>1. CASE buffer = <<>>
  <2>1. UNCHANGED buffer /\ fpc' = [fpc EXCEPT ![f] = "reset"]
    BY <1>1 DEF Drain, FlushTo
  <2> QED BY <1>a, <1>b, <2>1, OrderKept
<1>2. CASE buffer # <<>>
  <2>1. buffer' = Tail(buffer) /\ UNCHANGED fpc
    BY <1>2 DEF Drain
  <2>2. \A g \in Calls : fpc'[g] # "write"
    BY <1>a, <2>1 DEF Ownership, SingleFlusher, Owning
  <2>3. Popped' = Popped + 1 /\ Popped \in 0..Len(pushed) /\ BufferIsSuffix'
    BY <1>2, <1>b, <2>1, OrderPopped
  <2>4. HeldIsLastPopped'
    BY <2>2 DEF HeldIsLastPopped
  <2>5. WireBeforeHeld'
    BY <1>b, <2>2, <2>3 DEF QueueOrder, WireBeforeHeld
  <2>6. WireOrder'
    BY <1>b DEF QueueOrder, WireOrder
  <2> QED BY <2>3, <2>4, <2>5, <2>6 DEF QueueOrder
<1> QED BY <1>1, <1>2

\* Every step keeps the order of the queues.
LEMMA OrderStep ==
  TypeOK /\ Ownership /\ QueueOrder /\ [Next]_vars => QueueOrder'
<1> SUFFICES ASSUME TypeOK, Ownership, QueueOrder, [Next]_vars PROVE QueueOrder'
  OBVIOUS
<1>a. fpc \in [Calls -> FlusherStates] /\ pc \in [Calls -> CallStates]
  BY DEF TypeOK
<1> USE DEF callVars, flushVars, lifeVars, FlushTo
<1>1. ASSUME NEW c \in Calls, CallStep(c) PROVE QueueOrder'
  <2>1. CASE Enter(c) BY <2>1, OrderKept DEF Enter
  <2>2. CASE Push(c) BY <2>2, OrderPush
  <2>3. CASE Recheck(c) BY <2>3, OrderKept DEF Recheck
  <2>4. CASE Kick(c) BY <1>a, <2>4, OrderKept DEF Kick
  <2> QED BY <1>1, <2>1, <2>2, <2>3, <2>4 DEF CallStep
<1>2. ASSUME NEW f \in Calls, FlushStep(f) PROVE QueueOrder'
  <2>1. CASE LoopTest(f) BY <1>a, <2>1, OrderKept DEF LoopTest
  <2>2. CASE Pop(f) BY <2>2, OrderPop
  <2>3. CASE UnsafeWrite(f) BY <2>3, OrderWrite
  <2>4. CASE Ack(f) BY <1>a, <2>4, OrderKept DEF Ack
  <2>5. CASE FailChannel(f) BY <1>a, <2>5, OrderKept DEF FailChannel
  <2>6. CASE FailFuture(f) BY <1>a, <2>6, OrderKept DEF FailFuture
  <2>7. CASE TailTest(f) BY <1>a, <2>7, OrderKept DEF TailTest
  <2>8. CASE DrainLock(f) BY <1>a, <2>8, OrderKept DEF DrainLock
  <2>9. CASE Drain(f) BY <2>9, OrderDrain
  <2>10. CASE ResetState(f) BY <1>a, <2>10, OrderKept DEF ResetState
  <2>11. CASE LenTest(f) BY <1>a, <2>11, OrderKept DEF LenTest
  <2>12. CASE WriteAgain(f) BY <1>a, <2>12, OrderKept DEF WriteAgain
  <2> QED
    BY <1>2, <2>1, <2>2, <2>3, <2>4, <2>5, <2>6, <2>7, <2>8, <2>9, <2>10,
       <2>11, <2>12 DEF FlushStep
<1>3. CASE LifeStep \/ UNCHANGED vars
  BY <1>3, OrderKept DEF LifeStep, StartConnect, EndConnect, Inactivate,
                         Teardown, vars
<1> QED BY <1>1, <1>2, <1>3 DEF Next, Terminated

\* Initially all queues are empty.
LEMMA OrderInit == Init => QueueOrder
BY DEF Init, QueueOrder, BufferIsSuffix, HeldIsLastPopped, WireBeforeHeld,
       WireOrder, Popped

\* The transport receives the writes in the order in which they were queued.
THEOREM WrittenInOrder == Spec => []WireOrder
<1>1. Init => Ownership
  BY DEF Init, Ownership, SingleFlusher, Owning
<1> QED
  BY <1>1, OrderInit, TypeCorrect, OwnershipStep, OrderStep, PTL DEF Spec, QueueOrder

----------------------------------------------------------------------------
(* Nothing but a dropped call is forgotten.                                *)

\* A step that leaves the buffer and the held futures alone.
LEMMA HandsKept ==
  ASSUME UNCHANGED <<buffer, cur>>,
         \A f \in Calls : fpc'[f] \in {"write", "ack", "fail", "failed"}
                          <=> fpc[f] \in {"write", "ack", "fail", "failed"}
  PROVE  /\ \A c : Buffered(c)' <=> Buffered(c)
         /\ \A f \in Calls : \A c : Holds(f, c)' <=> Holds(f, c)
BY DEF Buffered, Holds

\* The steps of a caller: a future stays with its caller until it is
\* resolved, queued or dropped.
LEMMA AccountCall ==
  ASSUME TypeOK, Ownership, Accounting, NEW c \in Calls, CallStep(c)
  PROVE  Accounting'
<1>a. /\ pc \in [Calls -> CallStates] /\ fpc \in [Calls -> FlusherStates]
      /\ res \in [Calls -> Results] /\ dropped \subseteq Calls
      /\ buffer \in Seq(Calls)
  BY DEF TypeOK
<1> USE DEF Accounting, GoTo, flushVars, callVars
<1>1. CASE Enter(c)
  <2>1. UNCHANGED <<buffer, fpc, cur, dropped>>
    BY <1>1 DEF Enter
  <2>2. /\ \A d : Buffered(d)' <=> Buffered(d)
        /\ \A f \in Calls : \A d : Holds(f, d)' <=> Holds(f, d)
    BY <2>1, HandsKept
  <2>3. /\ pc[c] = "idle" /\ \A d \in Calls : d # c => pc'[d] = pc[d] /\ res'[d] = res[d]
        /\ \/ res' = res /\ pc'[c] \in {"push", "check"}
           \/ res'[c] = "success" /\ pc'[c] = "kick"
    BY <1>a, <1>1 DEF Enter, Resolve, Unclaimed, Early
  <2>4. Accounted' BY <2>1, <2>2, <2>3 DEF Accounted, Early
  <2>5. Unclaimed' BY <2>1, <2>2, <2>3 DEF Unclaimed, EarlyNotDropped, Early
  <2>6. EarlyNotDropped' BY <1>a, <2>1, <2>3 DEF EarlyNotDropped, Early
  <2> QED BY <2>4, <2>5, <2>6
<1>2. CASE Push(c)
  <2>1. /\ UNCHANGED <<fpc, cur, dropped, res>> /\ buffer' = Append(buffer, c)
        /\ pc[c] = "push" /\ pc' = [pc EXCEPT ![c] = "kick"]
    BY <1>2 DEF Push
  <2>2. \A d : Buffered(d)' <=> Buffered(d) \/ d = c
    <3>1. /\ Len(buffer) \in Nat /\ Len(buffer') = Len(buffer) + 1
          /\ \A i \in 1..Len(buffer) : buffer'[i] = buffer[i]
          /\ buffer'[Len(buffer) + 1] = c
      BY <1>a, <2>1, AppendFacts
    <3> QED BY <3>1 DEF Buffered
  <2>3. \A f \in Calls : \A d : Holds(f, d)' <=> Holds(f, d)
    BY <2>1 DEF Holds
  <2>4. Accounted' BY <1>a, <2>1, <2>2, <2>3 DEF Accounted, Early
  <2>5. Unclaimed' BY <1>a, <2>1, <2>2, <2>3 DEF Unclaimed, EarlyNotDropped, Early
  <2>6. EarlyNotDropped' BY <1>a, <2>1 DEF EarlyNotDropped, Early
  <2> QED BY <2>4, <2>5, <2>6
<1>3. CASE Recheck(c)
  <2>1. UNCHANGED <<buffer, fpc, cur>> /\ pc[c] = "check"
    BY <1>3 DEF Recheck
  <2>2. /\ \A d : Buffered(d)' <=> Buffered(d)
        /\ \A f \in Calls : \A d : Holds(f, d)' <=> Holds(f, d)
    BY <2>1, HandsKept
  <2>3. /\ \A d \in Calls : d # c => pc'[d] = pc[d] /\ res'[d] = res[d]
        /\ \/ dropped' = dropped /\ res'[c] = "notActive" /\ pc'[c] = "returned"
           \/ dropped' = dropped \cup {c} /\ res' = res /\ pc'[c] = "kick"
    BY <1>a, <1>3, <2>1 DEF Recheck, Resolve, Unclaimed, Early
  <2>4. Accounted' BY <2>1, <2>2, <2>3 DEF Accounted, Early
  <2>5. Unclaimed' BY <2>1, <2>2, <2>3 DEF Unclaimed, EarlyNotDropped, Early
  <2>6. EarlyNotDropped' BY <1>a, <2>1, <2>3 DEF EarlyNotDropped, Early
  <2> QED BY <2>4, <2>5, <2>6
<1>4. CASE Kick(c)
  <2>1. /\ UNCHANGED <<buffer, cur, dropped, res>>
        /\ pc[c] = "kick" /\ pc' = [pc EXCEPT ![c] = "returned"]
    BY <1>4 DEF Kick
  <2>2. fpc' = fpc \/ fpc' = [fpc EXCEPT ![c] = "loop"]
    BY <1>4 DEF Kick, FlushTo
  <2>3. fpc' = [fpc EXCEPT ![c] = "loop"] => fpc[c] \notin Owning \/ fpc' = fpc
    BY <1>4, <1>a DEF Kick, MarkState, Ownership
  <2>4. \A f \in Calls : fpc'[f] \in {"write", "ack", "fail", "failed"}
                         <=> fpc[f] \in {"write", "ack", "fail", "failed"}
    BY <1>a, <2>2, <2>3 DEF Owning
  <2>5. /\ \A d : Buffered(d)' <=> Buffered(d)
        /\ \A f \in Calls : \A d : Holds(f, d)' <=> Holds(f, d)
    BY <2>1, <2>4, HandsKept
  <2>6. Accounted' BY <1>a, <2>1, <2>5 DEF Accounted, Early
  <2>7. Unclaimed' BY <1>a, <2>1, <2>5 DEF Unclaimed, Early
  <2>8. EarlyNotDropped' BY <1>a, <2>1 DEF EarlyNotDropped, Early
  <2> QED BY <2>6, <2>7, <2>8
<1> QED BY <1>1, <1>2, <1>3, <1>4 DEF CallStep

\* A future that leaves the buffer is its head; the others stay.
LEMMA BufferedTail ==
  ASSUME TypeOK, buffer # <<>>, buffer' = Tail(buffer)
  PROVE  /\ Head(buffer) \in Calls /\ Buffered(Head(buffer))
         /\ \A d : Buffered(d) <=> Buffered(d)' \/ d = Head(buffer)
<1>1. /\ Len(buffer) \in Nat /\ Len(buffer) >= 1 /\ Len(buffer') = Len(buffer) - 1
      /\ Head(buffer) = buffer[1] /\ buffer[1] \in Calls
      /\ \A i \in 1..Len(buffer') : buffer'[i] = buffer[i + 1]
  BY TailFacts DEF TypeOK
<1>2. Buffered(Head(buffer))
  BY <1>1 DEF Buffered
<1>3. ASSUME NEW d, Buffered(d) PROVE Buffered(d)' \/ d = Head(buffer)
  <2>1. PICK i \in 1..Len(buffer) : buffer[i] = d
    BY <1>3 DEF Buffered
  <2>2. CASE i = 1 BY <1>1, <2>1, <2>2
  <2>3. CASE i # 1
    <3>1. i - 1 \in 1..Len(buffer') /\ buffer'[i - 1] = d
      BY <1>1, <2>1, <2>3
    <3> QED BY <3>1, Zenon DEF Buffered
  <2> QED BY <2>2, <2>3
<1>4. ASSUME NEW d, Buffered(d)' PROVE Buffered(d)
  BY <1>1, <1>4 DEF Buffered
<1> QED BY <1>1, <1>2, <1>3, <1>4

\* The steps of a flusher that hand no future over.
LEMMA AccountQuiet ==
  ASSUME Accounting, UNCHANGED <<pc, res, dropped, buffer, cur>>,
         \A f \in Calls : fpc'[f] \in {"write", "ack", "fail", "failed"}
                          <=> fpc[f] \in {"write", "ack", "fail", "failed"}
  PROVE  Accounting'
<1>1. /\ \A d : Buffered(d)' <=> Buffered(d)
      /\ \A f \in Calls : \A d : Holds(f, d)' <=> Holds(f, d)
  BY HandsKept
<1>2. Accounted' BY <1>1 DEF Accounting, Accounted, Early
<1>3. Unclaimed' BY <1>1 DEF Accounting, Unclaimed, Early
<1>4. EarlyNotDropped' BY DEF Accounting, EarlyNotDropped, Early
<1> QED BY <1>2, <1>3, <1>4 DEF Accounting

\* A flusher resolves the future it holds and lets go of it.
LEMMA AccountResolve ==
  ASSUME TypeOK, Accounting, NEW f \in Calls, NEW r \in Results \ {"pending"},
         fpc[f] \in {"ack", "failed"}, fpc' = [fpc EXCEPT ![f] = "loop"],
         Resolve(cur[f], r), UNCHANGED <<pc, cur, buffer, dropped>>
  PROVE  Accounting'
<1>a. /\ fpc \in [Calls -> FlusherStates] /\ cur \in [Calls -> Calls]
      /\ res \in [Calls -> Results] /\ dropped \subseteq Calls
  BY DEF TypeOK
<1>1. /\ \A d \in Calls : d # cur[f] => res'[d] = res[d]
      /\ res'[cur[f]] # "pending"
  BY <1>a DEF Resolve
<1>2. \A d : Buffered(d)' <=> Buffered(d)
  BY DEF Buffered
<1>3. \A g \in Calls : \A d : Holds(g, d) <=> Holds(g, d)' \/ (g = f /\ d = cur[f])
  BY <1>a DEF Holds
<1>4. Accounted' BY <1>1, <1>2, <1>3 DEF Accounting, Accounted, Early
<1>5. Unclaimed' BY <1>1, <1>2, <1>3 DEF Accounting, Unclaimed, Early
<1>6. EarlyNotDropped' BY DEF Accounting, EarlyNotDropped, Early
<1> QED BY <1>4, <1>5, <1>6 DEF Accounting

\* The steps of a flusher: a future passes from the buffer to the flusher
\* and is resolved before the flusher lets go of it.
LEMMA AccountFlush ==
  ASSUME TypeOK, Ownership, Accounting, NEW f \in Calls, FlushStep(f)
  PROVE  Accounting'
<1>a. /\ fpc \in [Calls -> FlusherStates] /\ cur \in [Calls -> Calls]
      /\ res \in [Calls -> Results] /\ dropped \subseteq Calls
  BY DEF TypeOK
<1> USE DEF FlushTo, callVars
<1>1. CASE LoopTest(f) BY <1>a, <1>1, AccountQuiet DEF LoopTest
<1>2. CASE Pop(f)
  <2>1. CASE buffer = <<>>
    BY <1>a, <1>2, <2>1, AccountQuiet DEF Pop
  <2>2. CASE buffer # <<>>
    <3>1. /\ buffer' = Tail(buffer) /\ cur' = [cur EXCEPT ![f] = Head(buffer)]
          /\ fpc[f] = "pop" /\ fpc' = [fpc EXCEPT ![f] = "write"]
          /\ UNCHANGED <<pc, res, dropped>>
      BY <1>2, <2>2 DEF Pop
    <3>2. /\ Head(buffer) \in Calls /\ Buffered(Head(buffer))
          /\ \A d : Buffered(d) <=> Buffered(d)' \/ d = Head(buffer)
      BY <2>2, <3>1, BufferedTail
    <3>3. \A g \in Calls : \A d :
            Holds(g, d)' <=> Holds(g, d) \/ (g = f /\ d = Head(buffer))
      BY <1>a, <3>1, <3>2 DEF Holds
    <3>4. Accounted' BY <3>1, <3>2, <3>3 DEF Accounting, Accounted, Early
    <3>5. Unclaimed' BY <3>1, <3>2, <3>3 DEF Accounting, Unclaimed, Early
    <3>6. EarlyNotDropped' BY <3>1 DEF Accounting, EarlyNotDropped, Early
    <3> QED BY <3>4, <3>5, <3>6 DEF Accounting
  <2> QED BY <2>1, <2>2
<1>3. CASE UnsafeWrite(f) BY <1>a, <1>3, AccountQuiet DEF UnsafeWrite
<1>4. CASE Ack(f) BY <1>a, <1>4, AccountResolve, Zenon DEF Ack, Results
<1>5. CASE FailChannel(f) BY <1>a, <1>5, AccountQuiet DEF FailChannel
<1>6. CASE FailFuture(f) BY <1>a, <1>6, AccountResolve, Zenon DEF FailFuture, Results
<1>7. CASE TailTest(f) BY <1>a, <1>7, AccountQuiet DEF TailTest
<1>8. CASE DrainLock(f) BY <1>a, <1>8, AccountQuiet DEF DrainLock
<1>9. CASE Drain(f)
  <2>1. CASE buffer = <<>>
    BY <1>a, <1>9, <2>1, AccountQuiet DEF Drain
  <2>2. CASE buffer # <<>>
    <3>1. buffer' = Tail(buffer) /\ UNCHANGED <<pc, fpc, cur, dropped>>
      BY <1>9, <2>2 DEF Drain
    <3>2. /\ Head(buffer) \in Calls /\ Buffered(Head(buffer))
          /\ \A d : Buffered(d) <=> Buffered(d)' \/ d = Head(buffer)
      BY <2>2, <3>1, BufferedTail
    <3>3. /\ \A d \in Calls : d # Head(buffer) => res'[d] = res[d]
          /\ res'[Head(buffer)] # "pending"
      BY <1>a, <1>9, <2>2, <3>2 DEF Drain, Resolve
    <3>4. \A g \in Calls : \A d : Holds(g, d)' <=> Holds(g, d)
      BY <3>1 DEF Holds
    <3>5. Accounted' BY <3>1, <3>2, <3>3, <3>4 DEF Accounting, Accounted, Early
    <3>6. Unclaimed' BY <3>1, <3>2, <3>3, <3>4 DEF Accounting, Unclaimed, Early
    <3>7. EarlyNotDropped' BY <3>1 DEF Accounting, EarlyNotDropped, Early
    <3> QED BY <3>5, <3>6, <3>7 DEF Accounting
  <2> QED BY <2>1, <2>2
<1>10. CASE ResetState(f) BY <1>a, <1>10, AccountQuiet DEF ResetState
<1>11. CASE LenTest(f) BY <1>a, <1>11, AccountQuiet DEF LenTest
<1>12. CASE WriteAgain(f) BY <1>a, <1>12, AccountQuiet DEF WriteAgain
<1> QED
  BY <1>1, <1>2, <1>3, <1>4, <1>5, <1>6, <1>7, <1>8, <1>9, <1>10, <1>11, <1>12
  DEF FlushStep

\* Every step keeps the account.
LEMMA AccountStep ==
  TypeOK /\ Ownership /\ Accounting /\ [Next]_vars => Accounting'
<1> SUFFICES ASSUME TypeOK, Ownership, Accounting, [Next]_vars PROVE Accounting'
  OBVIOUS
<1>1. CASE LifeStep \/ UNCHANGED vars
  BY <1>1, AccountQuiet DEF LifeStep, StartConnect, EndConnect, Inactivate,
                            Teardown, callVars, flushVars, vars
<1> QED BY <1>1, AccountCall, AccountFlush DEF Next, Terminated

\* At rest, with every goroutine done, the buffer is empty and the unresolved
\* futures are exactly those of dropped calls.
LEMMA AtRest ==
  TypeOK /\ Ownership /\ NoStrandedWrite /\ Accounting => QuiescentResolved
<1> SUFFICES ASSUME TypeOK, Ownership, NoStrandedWrite, Accounting, Quiescent
             PROVE  /\ buffer = <<>>
                    /\ \A c \in Calls : res[c] = "pending" <=> c \in dropped
  BY DEF QuiescentResolved
<1>1. writeS = 0
  BY DEF TypeOK, Ownership, Quiescent, Owning
<1>2. buffer = <<>>
  BY <1>1 DEF NoStrandedWrite, Quiescent
<1>3. \A c : ~Buffered(c)
  BY <1>2 DEF Buffered
<1>4. \A f \in Calls : \A c : ~Holds(f, c)
  BY DEF Quiescent, Holds
<1>5. \A c \in Calls : ~Early(c)
  BY DEF Quiescent, Early
<1> QED BY <1>2, <1>3, <1>4, <1>5 DEF Accounting, Accounted, Unclaimed

\* Once every goroutine is done, only dropped calls are left unanswered.
THEOREM AllAnswered == Spec => []QuiescentResolved
<1>1. Init => Ownership /\ NoStrandedWrite
  BY DEF Init, Ownership, SingleFlusher, Owning, NoStrandedWrite
<1>2. Init => Accounting
  BY DEF Init, Accounting, Accounted, Unclaimed, EarlyNotDropped, Early,
         Buffered, Holds
<1> QED
  BY <1>1, <1>2, TypeCorrect, OwnershipStep, StrandedStep, AccountStep, AtRest,
     PTL DEF Spec

----------------------------------------------------------------------------
(* The write path implements its contract.                                 *)

\* c was handed to the transport.
Sent(c) == \E i \in DOMAIN wire : wire[i] = c

\* A call that has not queued its write, or never will, sent nothing.
EarlyUnsent == \A c \in Calls : Early(c) \/ c \in dropped => ~Sent(c)

\* A write of nil is never queued.
NilNotQueued == \A c \in NilCalls : pc[c] \notin {"push", "check"}

\* A write is unanswered as long as it is in the buffer or in a flusher's hands,
\* and it is in one place.
ClaimedPending ==
  /\ \A c \in Calls : Buffered(c) => res[c] = "pending"
  /\ \A f, c \in Calls : Holds(f, c) => res[c] = "pending" /\ ~Buffered(c)
BufferedOnce == \A i, j \in 1..Len(buffer) : buffer[i] = buffer[j] => i = j

\* A write that a flusher is about to confirm was sent.
AckSent == \A f \in Calls : fpc[f] = "ack" => Sent(cur[f])

Placed == EarlyUnsent /\ NilNotQueued /\ ClaimedPending /\ BufferedOnce /\ AckSent

\* A step that leaves the buffer, the wire and the held writes alone.
LEMMA PlacedKept ==
  ASSUME Placed, UNCHANGED <<buffer, cur, wire>>,
         \A f \in Calls : /\ fpc'[f] \in {"write", "ack", "fail", "failed"}
                             <=> fpc[f] \in {"write", "ack", "fail", "failed"}
                          /\ fpc'[f] = "ack" => fpc[f] = "ack",
         \A c \in Calls : res'[c] # res[c] => ~Buffered(c) /\ \A f \in Calls : ~Holds(f, c),
         \A c \in Calls : (Early(c) \/ c \in dropped)' => Early(c) \/ c \in dropped,
         NilNotQueued'
  PROVE  Placed'
<1>1. /\ \A c : Buffered(c)' <=> Buffered(c)
      /\ \A f \in Calls : \A c : Holds(f, c)' <=> Holds(f, c)
  BY HandsKept
<1>2. \A c : Sent(c)' <=> Sent(c)
  BY DEF Sent
<1>3. EarlyUnsent' BY <1>2 DEF Placed, EarlyUnsent
<1>4. ClaimedPending' BY <1>1 DEF Placed, ClaimedPending
<1>5. BufferedOnce' BY DEF Placed, BufferedOnce
<1>6. AckSent' BY <1>2 DEF Placed, AckSent
<1> QED BY <1>3, <1>4, <1>5, <1>6 DEF Placed

\* A step of Write keeps each call at its place.
LEMMA PlacedCall ==
  ASSUME TypeOK, Ownership, Accounting, Placed, NEW c \in Calls, CallStep(c)
  PROVE  Placed'
<1>a. /\ pc \in [Calls -> CallStates] /\ fpc \in [Calls -> FlusherStates]
      /\ res \in [Calls -> Results] /\ dropped \subseteq Calls
      /\ buffer \in Seq(Calls) /\ NilCalls \subseteq Calls
  BY CallsAssumption DEF TypeOK
<1> USE DEF GoTo, flushVars, callVars
<1>1. CASE Enter(c)
  <2>1. /\ UNCHANGED <<buffer, fpc, cur, wire, dropped>> /\ pc[c] = "idle"
        /\ c \in NilCalls => pc' = [pc EXCEPT ![c] = "kick"]
        /\ \E s \in CallStates : pc' = [pc EXCEPT ![c] = s]
        /\ \A d \in Calls : d # c => res'[d] = res[d]
    BY <1>a, <1>1 DEF Enter, Resolve, CallStates
  <2>2. ~Buffered(c) /\ \A f \in Calls : ~Holds(f, c)
    BY <2>1 DEF Accounting, Unclaimed, Early
  <2>3. \A d \in Calls : Early(d)' => Early(d)
    BY <1>a, <2>1 DEF Early
  <2>4. NilNotQueued'
    BY <1>a, <2>1 DEF Placed, NilNotQueued
  <2> QED BY <2>1, <2>2, <2>3, <2>4, PlacedKept
<1>2. CASE Push(c)
  <2>1. /\ UNCHANGED <<fpc, cur, wire, dropped, res>> /\ buffer' = Append(buffer, c)
        /\ pc[c] = "push" /\ pc' = [pc EXCEPT ![c] = "kick"]
    BY <1>2 DEF Push
  <2>2. /\ Len(buffer) \in Nat /\ Len(buffer') = Len(buffer) + 1
        /\ \A i \in 1..Len(buffer) : buffer'[i] = buffer[i]
        /\ buffer'[Len(buffer) + 1] = c
    BY <1>a, <2>1, AppendFacts
  <2>3. res[c] = "pending" /\ ~Buffered(c) /\ \A f \in Calls : ~Holds(f, c)
    BY <2>1 DEF Accounting, Unclaimed, Early
  <2>4. \A d : Buffered(d)' => Buffered(d) \/ d = c
    BY <2>2 DEF Buffered
  <2>5. \A f \in Calls : \A d : Holds(f, d)' <=> Holds(f, d)
    BY <2>1 DEF Holds
  <2>6. \A d : Sent(d)' <=> Sent(d)
    BY <2>1 DEF Sent
  <2>7. EarlyUnsent' BY <1>a, <2>1, <2>6 DEF Placed, EarlyUnsent, Early
  <2>8. NilNotQueued' BY <1>a, <2>1 DEF Placed, NilNotQueued
  <2>9. ClaimedPending' BY <2>1, <2>3, <2>4, <2>5 DEF Placed, ClaimedPending
  <2>10. BufferedOnce' BY <2>2, <2>3 DEF Placed, BufferedOnce, Buffered
  <2>11. AckSent' BY <2>1, <2>6 DEF Placed, AckSent
  <2> QED BY <2>7, <2>8, <2>9, <2>10, <2>11 DEF Placed
<1>3. CASE Recheck(c)
  <2>1. /\ UNCHANGED <<buffer, fpc, cur, wire>> /\ pc[c] = "check"
        /\ \E s \in {"returned", "kick"} : pc' = [pc EXCEPT ![c] = s]
        /\ dropped' \subseteq dropped \cup {c}
        /\ \A d \in Calls : d # c => res'[d] = res[d]
    BY <1>a, <1>3 DEF Recheck, Resolve
  <2>2. ~Buffered(c) /\ \A f \in Calls : ~Holds(f, c)
    BY <2>1 DEF Accounting, Unclaimed, Early
  <2>3. \A d \in Calls : (Early(d) \/ d \in dropped)' => Early(d) \/ d \in dropped
    BY <1>a, <2>1 DEF Early
  <2>4. NilNotQueued'
    BY <1>a, <2>1 DEF Placed, NilNotQueued
  <2> QED BY <2>1, <2>2, <2>3, <2>4, PlacedKept
<1>4. CASE Kick(c)
  <2>1. /\ UNCHANGED <<buffer, cur, wire, dropped, res>>
        /\ pc[c] = "kick" /\ pc' = [pc EXCEPT ![c] = "returned"]
    BY <1>4 DEF Kick
  <2>2. fpc' = fpc \/ (fpc' = [fpc EXCEPT ![c] = "loop"] /\ fpc[c] \notin Owning)
    BY <1>4, <1>a DEF Kick, FlushTo, MarkState, Ownership
  <2>3. \A f \in Calls : /\ fpc'[f] \in {"write", "ack", "fail", "failed"}
                            <=> fpc[f] \in {"write", "ack", "fail", "failed"}
                         /\ fpc'[f] = "ack" => fpc[f] = "ack"
    BY <1>a, <2>2 DEF Owning
  <2>4. \A d \in Calls : Early(d)' => Early(d)
    BY <1>a, <2>1 DEF Early
  <2>5. NilNotQueued'
    BY <1>a, <2>1 DEF Placed, NilNotQueued
  <2> QED BY <2>1, <2>3, <2>4, <2>5, PlacedKept
<1> QED BY <1>1, <1>2, <1>3, <1>4 DEF CallStep

\* A flusher resolves the future it holds and lets go of it.
LEMMA PlacedResolve ==
  ASSUME TypeOK, Ownership, Placed, NEW f \in Calls, NEW r \in Results,
         fpc[f] \in {"ack", "failed"}, fpc' = [fpc EXCEPT ![f] = "loop"],
         Resolve(cur[f], r), UNCHANGED <<callVars, cur, wire, buffer>>
  PROVE  Placed'
<1>a. /\ fpc \in [Calls -> FlusherStates] /\ cur \in [Calls -> Calls]
      /\ res \in [Calls -> Results]
  BY DEF TypeOK
<1>1. \A d \in Calls : d # cur[f] => res'[d] = res[d]
  BY <1>a DEF Resolve
<1>2. \A d : (Buffered(d)' <=> Buffered(d)) /\ (Sent(d)' <=> Sent(d))
  BY DEF Buffered, Sent
<1>3. \A g \in Calls : \A d : Holds(g, d)' => Holds(g, d) /\ g # f
  BY <1>a DEF Holds
<1>4. \A g \in Calls : \A d : Holds(g, d) /\ g # f => d # cur[f] \/ ~Holds(f, d)
  BY <1>a DEF Ownership, SingleFlusher, Owning, Holds
<1>5. Holds(f, cur[f]) /\ ~Buffered(cur[f])
  BY <1>a DEF Holds, Placed, ClaimedPending
<1>6. EarlyUnsent' BY <1>2 DEF Placed, EarlyUnsent, Early, callVars
<1>7. NilNotQueued' BY DEF Placed, NilNotQueued, callVars
<1>8. ClaimedPending' BY <1>1, <1>2, <1>3, <1>4, <1>5 DEF Placed, ClaimedPending
<1>9. BufferedOnce' BY DEF Placed, BufferedOnce
<1>10. AckSent' BY <1>a, <1>2 DEF Placed, AckSent
<1> QED BY <1>6, <1>7, <1>8, <1>9, <1>10 DEF Placed

\* What leaves the buffer is not in it any more.
LEMMA OnceTail ==
  ASSUME TypeOK, BufferedOnce, buffer # <<>>, buffer' = Tail(buffer),
         NEW h, h = Head(buffer)
  PROVE  BufferedOnce' /\ ~Buffered(h)'
<1>1. /\ Len(buffer) \in Nat /\ Len(buffer) >= 1 /\ Len(buffer') = Len(buffer) - 1
      /\ Head(buffer) = buffer[1]
      /\ \A i \in 1..Len(buffer') : buffer'[i] = buffer[i + 1]
  BY TailFacts DEF TypeOK
<1>2. \A i \in 1..Len(buffer') : i + 1 \in 1..Len(buffer) /\ i + 1 # 1
  BY <1>1
<1>3. BufferedOnce' BY <1>1, <1>2 DEF BufferedOnce
<1>4. ~Buffered(h)' BY <1>1, <1>2 DEF BufferedOnce, Buffered
<1> QED BY <1>3, <1>4

\* A step of a flusher keeps each call at its place.
LEMMA PlacedFlush ==
  ASSUME TypeOK, Ownership, Accounting, Placed, NEW f \in Calls, FlushStep(f)
  PROVE  Placed'
<1>a. /\ fpc \in [Calls -> FlusherStates] /\ cur \in [Calls -> Calls]
      /\ res \in [Calls -> Results] /\ buffer \in Seq(Calls) /\ wire \in Seq(Calls)
  BY DEF TypeOK
<1> DEFINE Held == {"write", "ack", "fail", "failed"}
\* Most steps only take the flusher from one place to another.
<1>b. ASSUME UNCHANGED <<callVars, cur, wire, buffer, res>>,
             NEW s \in FlusherStates, fpc' = [fpc EXCEPT ![f] = s],
             s \in Held <=> fpc[f] \in Held, s # "ack"
      PROVE  Placed'
  <2>1. NilNotQueued' /\ \A d \in Calls : (Early(d) \/ d \in dropped)' => Early(d) \/ d \in dropped
    BY <1>b DEF Placed, NilNotQueued, Early, callVars
  <2>2. \A g \in Calls : (fpc'[g] \in Held <=> fpc[g] \in Held) /\ (fpc'[g] = "ack" => fpc[g] = "ack")
    BY <1>a, <1>b
  <2> QED BY <1>b, <2>1, <2>2, PlacedKept
<1> USE DEF FlushTo, FlusherStates
<1>1. CASE LoopTest(f) BY <1>1, <1>b, Zenon DEF LoopTest
<1>2. CASE Pop(f)
  <2>1. CASE buffer = <<>> BY <1>2, <1>b, <2>1 DEF Pop
  <2>2. CASE buffer # <<>>
    <3>0. PICK h : h = Head(buffer)
      OBVIOUS
    <3>1. /\ buffer' = Tail(buffer) /\ cur' = [cur EXCEPT ![f] = h]
          /\ fpc[f] = "pop" /\ fpc' = [fpc EXCEPT ![f] = "write"]
          /\ UNCHANGED <<pc, res, dropped, wire>>
      BY <1>2, <2>2, <3>0 DEF Pop, callVars
    <3>2. /\ h \in Calls /\ Buffered(h)
          /\ \A d : Buffered(d) <=> Buffered(d)' \/ d = h
      BY <2>2, <3>0, <3>1, BufferedTail
    <3>3. BufferedOnce' /\ ~Buffered(h)'
      BY <2>2, <3>0, <3>1, OnceTail DEF Placed
    <3>4. \A g \in Calls : \A d : Holds(g, d)' <=> Holds(g, d) \/ (g = f /\ d = h)
      BY <1>a, <3>1, <3>2 DEF Holds
    <3>5. \A d : Sent(d)' <=> Sent(d)
      BY <3>1 DEF Sent
    <3>6. EarlyUnsent' BY <3>1, <3>5 DEF Placed, EarlyUnsent, Early
    <3>7. NilNotQueued' BY <3>1 DEF Placed, NilNotQueued
    <3>8. ClaimedPending' BY <3>1, <3>2, <3>3, <3>4 DEF Placed, ClaimedPending
    <3>9. AckSent' BY <1>a, <3>1, <3>5 DEF Placed, AckSent
    <3> QED BY <3>3, <3>6, <3>7, <3>8, <3>9 DEF Placed
  <2> QED BY <2>1, <2>2
<1>3. CASE UnsafeWrite(f)
  <2>1. CASE fpc' = [fpc EXCEPT ![f] = "fail"] /\ UNCHANGED wire
    BY <1>3, <1>b, <2>1 DEF UnsafeWrite
  <2>2. CASE fpc' = [fpc EXCEPT ![f] = "ack"] /\ wire' = Append(wire, cur[f])
    <3>1. fpc[f] = "write" /\ UNCHANGED <<pc, dropped, cur, buffer, res>>
      BY <1>3 DEF UnsafeWrite, callVars
    <3>2. \A d : Sent(d)' <=> Sent(d) \/ d = cur[f]
      <4>1. cur[f] \in Calls
        BY <1>a
      <4>2. /\ Len(wire) \in Nat /\ DOMAIN wire = 1..Len(wire)
            /\ DOMAIN wire' = 1..(Len(wire) + 1)
            /\ \A i \in 1..Len(wire) : wire'[i] = wire[i]
            /\ wire'[Len(wire) + 1] = cur[f]
        BY <1>a, <2>2, <4>1, AppendFacts
      <4> QED BY <4>2 DEF Sent
    <3>3. /\ \A d : Buffered(d)' <=> Buffered(d)
          /\ \A g \in Calls : \A d : Holds(g, d)' <=> Holds(g, d)
      <4>1. \A g \in Calls : fpc'[g] \in Held <=> fpc[g] \in Held
        BY <1>a, <2>2, <3>1
      <4> QED BY <3>1, <4>1, HandsKept
    <3>4. Holds(f, cur[f]) BY <3>1 DEF Holds
    <3>5. EarlyUnsent'
      BY <1>a, <3>1, <3>2, <3>4 DEF Placed, EarlyUnsent, Early, Accounting, Unclaimed
    <3>6. NilNotQueued' BY <3>1 DEF Placed, NilNotQueued
    <3>7. ClaimedPending' BY <3>1, <3>3 DEF Placed, ClaimedPending
    <3>8. BufferedOnce' BY <3>1 DEF Placed, BufferedOnce
    <3>9. AckSent' BY <1>a, <2>2, <3>1, <3>2 DEF Placed, AckSent
    <3> QED BY <3>5, <3>6, <3>7, <3>8, <3>9 DEF Placed
  <2> QED BY <1>3, <2>1, <2>2 DEF UnsafeWrite
<1>4. CASE Ack(f) BY <1>4, PlacedResolve, Zenon DEF Ack, Results
<1>5. CASE FailChannel(f) BY <1>5, <1>b DEF FailChannel
<1>6. CASE FailFuture(f) BY <1>6, PlacedResolve, Zenon DEF FailFuture, Results
<1>7. CASE TailTest(f) BY <1>7, <1>b, Zenon DEF TailTest
<1>8. CASE DrainLock(f) BY <1>8, <1>b DEF DrainLock
<1>9. CASE Drain(f)
  <2>1. CASE buffer = <<>> BY <1>9, <1>b, <2>1 DEF Drain
  <2>2. CASE buffer # <<>>
    <3>0. PICK h : h = Head(buffer)
      OBVIOUS
    <3>1. buffer' = Tail(buffer) /\ UNCHANGED <<pc, fpc, cur, dropped, wire>>
      BY <1>9, <2>2 DEF Drain, callVars
    <3>2. /\ h \in Calls /\ Buffered(h)
          /\ \A d : Buffered(d) <=> Buffered(d)' \/ d = h
      BY <2>2, <3>0, <3>1, BufferedTail
    <3>3. \A d \in Calls : d # h => res'[d] = res[d]
      BY <1>a, <1>9, <2>2, <3>0, <3>2 DEF Drain, Resolve
    <3>4. BufferedOnce' /\ ~Buffered(h)'
      BY <2>2, <3>0, <3>1, OnceTail DEF Placed
    <3>5. \A g \in Calls : \A d : Holds(g, d)' <=> Holds(g, d)
      BY <3>1 DEF Holds
    <3>6. \A d : Sent(d)' <=> Sent(d)
      BY <3>1 DEF Sent
    <3>7. EarlyUnsent' BY <3>1, <3>6 DEF Placed, EarlyUnsent, Early
    <3>8. NilNotQueued' BY <3>1 DEF Placed, NilNotQueued
    <3>9. ClaimedPending' BY <3>2, <3>3, <3>4, <3>5 DEF Placed, ClaimedPending
    <3>10. AckSent' BY <3>1, <3>6 DEF Placed, AckSent
    <3> QED BY <3>4, <3>7, <3>8, <3>9, <3>10 DEF Placed
  <2> QED BY <2>1, <2>2
<1>10. CASE ResetState(f) BY <1>10, <1>b DEF ResetState
<1>11. CASE LenTest(f) BY <1>11, <1>b, Zenon DEF LenTest
<1>12. CASE WriteAgain(f) BY <1>12, <1>b DEF WriteAgain
<1> QED
  BY <1>1, <1>2, <1>3, <1>4, <1>5, <1>6, <1>7, <1>8, <1>9, <1>10, <1>11, <1>12
  DEF FlushStep

\* Every step keeps each call at its place.
LEMMA PlacedStep ==
  TypeOK /\ Ownership /\ Accounting /\ Placed /\ [Next]_vars => Placed'
<1> SUFFICES ASSUME TypeOK, Ownership, Accounting, Placed, [Next]_vars PROVE Placed'
  OBVIOUS
<1>1. CASE LifeStep \/ UNCHANGED vars
  <2>1. UNCHANGED <<buffer, cur, wire, fpc, res, pc, dropped>>
    BY <1>1 DEF LifeStep, StartConnect, EndConnect, Inactivate, Teardown, callVars,
                flushVars, vars
  <2>2. NilNotQueued' /\ \A d \in Calls : (Early(d) \/ d \in dropped)' => Early(d) \/ d \in dropped
    BY <2>1 DEF Placed, NilNotQueued, Early
  <2> QED BY <2>1, <2>2, PlacedKept
<1> QED BY <1>1, PlacedCall, PlacedFlush DEF Next, Terminated

\* The contract's queue, and its outcomes.
Queue == InFlight \o buffer
Outcomes == [c \in Calls |-> Outcome(res[c])]

\* The only write in flight is the one that the owner holds.
LEMMA InFlightIs ==
  /\ Holding = {} => InFlight = <<>>
  /\ \A f \in Calls : Holding = {f} => InFlight = <<cur[f]>>
  /\ Holding' = {} => InFlight' = <<>>
  /\ \A f \in Calls : Holding' = {f} => InFlight' = <<cur'[f]>>
<1>1. \A f \in Calls : (CHOOSE g \in {f} : TRUE) = f
  OBVIOUS
<1> QED BY <1>1 DEF InFlight

\* Of the flushers only the owner of the buffer can hold a write.
LEMMA HoldingIs ==
  ASSUME TypeOK, Ownership, NEW f \in Calls, fpc[f] \in Owning
  PROVE  Holding = IF fpc[f] \in {"write", "fail", "failed"} THEN {f} ELSE {}
BY DEF Holding, Ownership, SingleFlusher, Owning

\* A write in front of a sequence, and none.
LEMMA FrontFacts ==
  ASSUME NEW S, NEW s \in Seq(S), NEW x \in S
  PROVE  /\ <<>> \o s = s
         /\ <<x>> \o s # <<>> /\ Head(<<x>> \o s) = x /\ Tail(<<x>> \o s) = s
         /\ s # <<>> => s = <<Head(s)>> \o Tail(s)
         /\ \A y \in S : /\ <<>> \o Append(s, y) = Append(<<>> \o s, y)
                         /\ <<x>> \o Append(s, y) = Append(<<x>> \o s, y)
         /\ DOMAIN (<<x>> \o s) = 1..(Len(s) + 1)
         /\ \A i \in 1..Len(s) : (<<x>> \o s)[i + 1] = s[i]
<1>1. <<x>> \o s \in Seq(S) /\ Len(<<x>> \o s) = Len(s) + 1 /\ Len(s) \in Nat
  OBVIOUS
<1>2. (<<x>> \o s)[1] = x /\ \A i \in 1..Len(s) : (<<x>> \o s)[i + 1] = s[i]
  OBVIOUS
<1>3. <<>> \o s = s
  OBVIOUS
<1>4. <<x>> \o s # <<>> /\ Head(<<x>> \o s) = x
  BY <1>1, <1>2
<1>5. Tail(<<x>> \o s) = s
  BY <1>1, <1>2
<1>6. s # <<>> => s = <<Head(s)>> \o Tail(s)
  OBVIOUS
<1>7. ASSUME NEW y \in S
      PROVE  /\ <<>> \o Append(s, y) = Append(<<>> \o s, y)
             /\ <<x>> \o Append(s, y) = Append(<<x>> \o s, y)
  OBVIOUS
<1> QED BY <1>1, <1>2, <1>3, <1>4, <1>5, <1>6, <1>7

\* Who is in the contract's queue, and on its way out.
LEMMA QueueHas ==
  ASSUME TypeOK, Ownership, NEW c \in Calls
  PROVE  /\ c \in Contract!Elements(Queue) =>
              Buffered(c) \/ \E f \in Calls : Holds(f, c)
         /\ c \in Contract!Elements(wire) <=> Sent(c)
<1>1. c \in Contract!Elements(wire) <=> Sent(c)
  BY DEF Contract!Elements, Sent
<1>2. CASE Holding = {}
  <2>1. Queue = buffer
    BY <1>2, InFlightIs, FrontFacts DEF Queue, TypeOK
  <2> QED BY <1>1, <2>1 DEF Contract!Elements, Buffered, TypeOK
<1>3. CASE Holding # {}
  <2>1. PICK f \in Calls : fpc[f] \in {"write", "fail", "failed"}
    BY <1>3 DEF Holding
  <2>2. Queue = <<cur[f]>> \o buffer
    BY <2>1, InFlightIs, HoldingIs, Zenon DEF Queue, Owning
  <2>3. cur[f] \in Calls /\ buffer \in Seq(Calls) /\ Len(buffer) \in Nat
    BY DEF TypeOK
  <2>4. /\ DOMAIN Queue = 1..(Len(buffer) + 1) /\ Queue[1] = cur[f]
        /\ \A i \in 1..Len(buffer) : Queue[i + 1] = buffer[i]
    BY <2>2, <2>3, FrontFacts
  <2>5. \A i \in DOMAIN Queue : i = 1 \/ (i - 1 \in 1..Len(buffer) /\ Queue[i] = buffer[i - 1])
    <3>1. ASSUME NEW i \in DOMAIN Queue, i # 1
          PROVE  i - 1 \in 1..Len(buffer) /\ (i - 1) + 1 = i
      BY <2>3, <2>4, <3>1
    <3> QED BY <2>4, <3>1
  <2> QED BY <1>1, <2>1, <2>4, <2>5 DEF Contract!Elements, Buffered, Holds
<1> QED BY <1>2, <1>3

\* A step that leaves the queue, the wire and the futures alone is a stutter.
LEMMA StutterMaps ==
  ASSUME UNCHANGED <<cur, buffer, wire, res>>, Holding' = Holding
  PROVE  UNCHANGED Contract!cvars
BY DEF InFlight, Contract!cvars

\* A resolved future is an outcome of the contract.
LEMMA OutcomeMaps ==
  ASSUME TypeOK, NEW c \in Calls, NEW r \in Results, res[c] = "pending", Resolve(c, r)
  PROVE  Outcomes' = [Outcomes EXCEPT ![c] = Outcome(r)]
BY Zenon DEF TypeOK, Resolve, Outcomes

\* A call that has not queued its write is unanswered, and new to the contract.
LEMMA FreshMaps ==
  ASSUME TypeOK, Ownership, Accounting, Placed, NEW c \in Calls, Early(c)
  PROVE  res[c] = "pending" /\ Contract!Fresh(c)
<1>1. res[c] = "pending" /\ ~Buffered(c) /\ \A f \in Calls : ~Holds(f, c)
  BY DEF Accounting, Unclaimed
<1>2. ~Sent(c)
  BY DEF Placed, EarlyUnsent
<1>3. c \notin Contract!Elements(Queue) \cup Contract!Elements(wire)
  BY <1>1, <1>2, QueueHas
<1> QED BY <1>1, <1>3 DEF Contract!Fresh, Queue, Outcome

\* A step of Write is a step of the contract: a write of nil is its Ping, Push
\* its Accept, a Recheck that answers its Reject, and the rest it does not see.
LEMMA CallMaps ==
  ASSUME TypeOK, Ownership, Accounting, Placed, NEW c \in Calls, CallStep(c)
  PROVE  [Contract!Next]_Contract!cvars
<1>a. /\ fpc \in [Calls -> FlusherStates] /\ buffer \in Seq(Calls) /\ cur \in [Calls -> Calls]
  BY DEF TypeOK
<1> USE DEF GoTo, flushVars, callVars
<1>b. ASSUME UNCHANGED <<fpc, cur>>
      PROVE  UNCHANGED Holding /\ UNCHANGED InFlight
  BY <1>b DEF Holding, InFlight
<1>1. CASE Enter(c)
  <2>1. pc[c] = "idle" /\ Early(c) /\ UNCHANGED <<fpc, cur, buffer, wire>>
    BY <1>1 DEF Enter, Early
  <2>2. CASE c \in NilCalls
    <3>1. Resolve(c, "success")
      BY <1>1, <2>2 DEF Enter
    <3>2. res[c] = "pending" /\ Contract!Fresh(c)
      BY <2>1, FreshMaps
    <3>3. Outcomes' = [Outcomes EXCEPT ![c] = "success"]
      BY <3>1, <3>2, OutcomeMaps DEF Outcome, Results
    <3>4. Contract!Ping(c)
      BY <1>b, <2>1, <2>2, <3>2, <3>3 DEF Contract!Ping, Outcomes
    <3> QED BY <3>4 DEF Contract!Next
  <2>3. CASE c \notin NilCalls
    BY <1>1, <1>b, <2>1, <2>3, StutterMaps DEF Enter
  <2> QED BY <2>2, <2>3
<1>2. CASE Push(c)
  <2>1. /\ pc[c] = "push" /\ Early(c) /\ UNCHANGED <<fpc, cur, wire, res>>
        /\ buffer' = Append(buffer, c)
    BY <1>2 DEF Push, Early
  <2>2. Contract!Fresh(c) /\ c \notin NilCalls
    BY <2>1, FreshMaps DEF Placed, NilNotQueued
  <2>3. InFlight = <<>> \/ \E x \in Calls : InFlight = <<x>>
    BY <1>a, Zenon DEF InFlight, Holding
  <2>4. (InFlight \o buffer)' = Append(InFlight \o buffer, c)
    BY <1>a, <1>b, <2>1, <2>3, FrontFacts
  <2>5. Contract!Accept(c)
    BY <2>1, <2>2, <2>4 DEF Contract!Accept
  <2> QED BY <2>5 DEF Contract!Next
<1>3. CASE Recheck(c)
  <2>1. pc[c] = "check" /\ Early(c) /\ UNCHANGED <<fpc, cur, buffer, wire>>
    BY <1>3 DEF Recheck, Early
  <2>2. CASE Resolve(c, "notActive")
    <3>1. res[c] = "pending" /\ Contract!Fresh(c) /\ c \notin NilCalls
      BY <2>1, FreshMaps DEF Placed, NilNotQueued
    <3>2. Outcomes' = [Outcomes EXCEPT ![c] = "failed"]
      BY <2>2, <3>1, OutcomeMaps DEF Outcome, Results
    <3>3. Contract!Reject(c)
      BY <1>b, <2>1, <3>1, <3>2 DEF Contract!Reject, Outcomes
    <3> QED BY <3>3 DEF Contract!Next
  <2>3. CASE UNCHANGED res
    BY <1>b, <2>1, <2>3, StutterMaps
  <2> QED BY <1>3, <2>2, <2>3 DEF Recheck
<1>4. CASE Kick(c)
  <2>1. fpc' = fpc \/ (fpc' = [fpc EXCEPT ![c] = "loop"] /\ fpc[c] \notin Owning)
    BY <1>4, <1>a DEF Kick, FlushTo, MarkState, Ownership
  <2>2. Holding' = Holding
    BY <1>a, <2>1 DEF Holding, Owning
  <2> QED BY <1>4, <2>2, StutterMaps DEF Kick
<1> QED BY <1>1, <1>2, <1>3, <1>4 DEF CallStep

\* A flusher that holds a write has it at the head of the contract's queue.
LEMMA HeadMaps ==
  ASSUME TypeOK, Ownership, Placed, NEW f \in Calls,
         fpc[f] \in {"write", "fail", "failed"}
  PROVE  /\ InFlight \o buffer # <<>> /\ Head(InFlight \o buffer) = cur[f]
         /\ Tail(InFlight \o buffer) = buffer /\ cur[f] \in Calls /\ res[cur[f]] = "pending"
<1>1. InFlight = <<cur[f]>>
  BY InFlightIs, HoldingIs DEF Owning
<1>2. cur[f] \in Calls /\ buffer \in Seq(Calls)
  BY DEF TypeOK
<1>3. res[cur[f]] = "pending"
  BY <1>2 DEF Placed, ClaimedPending, Holds
<1> QED BY <1>1, <1>2, <1>3, FrontFacts

\* A step of a flusher is a step of the contract: UnsafeWrite is its Deliver, the
\* acknowledgement its Confirm, FailFuture and Drain its Refuse, and the rest it
\* does not see.
LEMMA FlushMaps ==
  ASSUME TypeOK, Ownership, Accounting, Placed, NEW f \in Calls, FlushStep(f)
  PROVE  [Contract!Next]_Contract!cvars
<1>a. /\ fpc \in [Calls -> FlusherStates] /\ buffer \in Seq(Calls) /\ cur \in [Calls -> Calls]
  BY DEF TypeOK
<1> DEFINE Holds3 == {"write", "fail", "failed"}
<1>b. ASSUME NEW s, fpc' = [fpc EXCEPT ![f] = s], s \in Holds3 <=> fpc[f] \in Holds3
      PROVE  Holding' = Holding
  BY <1>a, <1>b DEF Holding
<1>c. ASSUME \A g \in Calls : g # f => fpc'[g] = fpc[g], fpc[f] \in Owning
      PROVE  Holding' = IF fpc'[f] \in Holds3 THEN {f} ELSE {}
  BY <1>a, <1>c DEF Holding, Ownership, SingleFlusher, Owning
<1> USE DEF FlushTo
<1>1. CASE LoopTest(f) BY <1>1, <1>b, StutterMaps, Zenon DEF LoopTest
<1>2. CASE Pop(f)
  <2>1. CASE buffer = <<>> BY <1>2, <1>b, <2>1, StutterMaps DEF Pop
  <2>2. CASE buffer # <<>>
    <3>1. /\ buffer' = Tail(buffer) /\ cur' = [cur EXCEPT ![f] = Head(buffer)]
          /\ fpc[f] = "pop" /\ fpc' = [fpc EXCEPT ![f] = "write"]
          /\ UNCHANGED <<res, wire>>
      BY <1>2, <2>2 DEF Pop
    <3>2. Holding = {} /\ Holding' = {f}
      BY <1>a, <1>c, <3>1, HoldingIs DEF Owning
    <3>3. InFlight = <<>> /\ InFlight' = <<Head(buffer)>>
      BY <1>a, <3>1, <3>2, InFlightIs
    <3>4. UNCHANGED (InFlight \o buffer)
      BY <1>a, <2>2, <3>1, <3>3, FrontFacts
    <3> QED BY <3>1, <3>4, Zenon DEF Contract!cvars
  <2> QED BY <2>1, <2>2
<1>3. CASE UnsafeWrite(f)
  <2>1. CASE fpc' = [fpc EXCEPT ![f] = "fail"] /\ UNCHANGED wire
    BY <1>3, <1>b, <2>1, StutterMaps, Zenon DEF UnsafeWrite
  <2>2. CASE fpc' = [fpc EXCEPT ![f] = "ack"] /\ wire' = Append(wire, cur[f])
    <3>1. fpc[f] = "write" /\ UNCHANGED <<cur, buffer, res>>
      BY <1>3 DEF UnsafeWrite
    <3>2. Holding' = {}
      BY <1>a, <1>c, <2>2, <3>1 DEF Owning
    <3>3. (InFlight \o buffer)' = buffer
      BY <1>a, <3>1, <3>2, InFlightIs, FrontFacts
    <3>4. Contract!Deliver
      BY <2>2, <3>1, <3>3, HeadMaps, Zenon DEF Contract!Deliver
    <3> QED BY <3>4 DEF Contract!Next
  <2> QED BY <1>3, <2>1, <2>2 DEF UnsafeWrite
<1>4. CASE Ack(f)
  <2>1. /\ fpc[f] = "ack" /\ fpc' = [fpc EXCEPT ![f] = "loop"]
        /\ Resolve(cur[f], "success") /\ UNCHANGED <<cur, buffer, wire>>
    BY <1>4 DEF Ack
  <2>2. UNCHANGED InFlight
    <3>1. Holding' = Holding
      BY <1>b, <2>1, Zenon
    <3> QED BY <2>1, <3>1 DEF InFlight
  <2>3. cur[f] \in Calls /\ res[cur[f]] = "pending" /\ cur[f] \in Contract!Elements(wire)
    BY <1>a, <2>1, QueueHas DEF Placed, AckSent, ClaimedPending, Holds
  <2>4. Outcomes' = [Outcomes EXCEPT ![cur[f]] = "success"]
    BY <2>1, <2>3, OutcomeMaps DEF Outcome, Results
  <2>5. Contract!Confirm(cur[f])
    BY <2>1, <2>2, <2>3, <2>4 DEF Contract!Confirm, Outcomes, Outcome
  <2> QED BY <2>3, <2>5 DEF Contract!Next
<1>5. CASE FailChannel(f) BY <1>5, <1>b, StutterMaps, Zenon DEF FailChannel
<1>6. CASE FailFuture(f)
  <2>1. /\ fpc[f] = "failed" /\ fpc' = [fpc EXCEPT ![f] = "loop"]
        /\ Resolve(cur[f], "error") /\ UNCHANGED <<cur, buffer, wire>>
    BY <1>6 DEF FailFuture
  <2>2. Holding' = {}
    BY <1>a, <1>c, <2>1 DEF Owning
  <2>3. (InFlight \o buffer)' = buffer
    BY <1>a, <2>1, <2>2, InFlightIs, FrontFacts
  <2>4. Outcomes' = [Outcomes EXCEPT ![cur[f]] = "failed"]
    BY <2>1, HeadMaps, OutcomeMaps DEF Outcome, Results
  <2>5. Contract!Refuse
    BY <2>1, <2>3, <2>4, HeadMaps, Zenon DEF Contract!Refuse, Outcomes, Outcome
  <2> QED BY <2>5 DEF Contract!Next
<1>7. CASE TailTest(f) BY <1>7, <1>b, StutterMaps, Zenon DEF TailTest
<1>8. CASE DrainLock(f) BY <1>8, <1>b, StutterMaps, Zenon DEF DrainLock
<1>9. CASE Drain(f)
  <2>1. CASE buffer = <<>> BY <1>9, <1>b, <2>1, StutterMaps DEF Drain
  <2>2. CASE buffer # <<>>
    <3>1. /\ buffer' = Tail(buffer) /\ fpc[f] = "draining"
          /\ UNCHANGED <<fpc, cur, wire>>
          /\ \E r \in {"closed", "notActive"} : Resolve(Head(buffer), r)
      BY <1>9, <2>2 DEF Drain
    <3>2. InFlight = <<>> /\ UNCHANGED InFlight
      BY <3>1, InFlightIs, HoldingIs DEF Owning, InFlight, Holding
    <3>3. InFlight \o buffer = buffer /\ (InFlight \o buffer)' = Tail(buffer)
      BY <1>a, <3>1, <3>2, TailFacts, FrontFacts
    <3>4. Head(buffer) \in Calls /\ res[Head(buffer)] = "pending"
      BY <2>2, <3>1, BufferedTail DEF Placed, ClaimedPending
    <3>5. Outcomes' = [Outcomes EXCEPT ![Head(buffer)] = "failed"]
      BY <3>1, <3>4, OutcomeMaps DEF Outcome, Results
    <3>6. Contract!Refuse
      BY <2>2, <3>1, <3>3, <3>4, <3>5 DEF Contract!Refuse, Outcomes, Outcome
    <3> QED BY <3>6 DEF Contract!Next
  <2> QED BY <2>1, <2>2
<1>10. CASE ResetState(f) BY <1>10, <1>b, StutterMaps, Zenon DEF ResetState
<1>11. CASE LenTest(f) BY <1>11, <1>b, StutterMaps, Zenon DEF LenTest
<1>12. CASE WriteAgain(f) BY <1>12, <1>b, StutterMaps DEF WriteAgain
<1> QED
  BY <1>1, <1>2, <1>3, <1>4, <1>5, <1>6, <1>7, <1>8, <1>9, <1>10, <1>11, <1>12
  DEF FlushStep

\* Goroutines, locks and flags are invisible to the callers: the write path does
\* what its contract allows (WriteContract), and nothing else.
THEOREM Implements == Spec => ImplementsContract
<1>1. Init => Contract!Init
  <2> SUFFICES ASSUME Init PROVE Contract!Init
    OBVIOUS
  <2>1. InFlight = <<>> /\ <<>> \o <<>> = <<>>
    BY DEF Init, InFlight, Holding
  <2> QED BY <2>1 DEF Init, Contract!Init, Outcome
<1>2. Init => Ownership /\ Accounting /\ Placed
  <2> SUFFICES ASSUME Init PROVE Ownership /\ Accounting /\ Placed
    OBVIOUS
  <2>1. Ownership
    BY DEF Init, Ownership, SingleFlusher, Owning
  <2>2. /\ \A c \in Calls : ~Buffered(c) /\ ~Sent(c) /\ Early(c)
        /\ \A f, c \in Calls : ~Holds(f, c)
    BY DEF Init, Buffered, Sent, Holds, Early
  <2>3. Accounting
    BY <2>2 DEF Init, Accounting, Accounted, Unclaimed, EarlyNotDropped
  <2>4. Placed
    BY <2>2, CallsAssumption DEF Init, Placed, EarlyUnsent, NilNotQueued, ClaimedPending,
                                 BufferedOnce, AckSent
  <2> QED BY <2>1, <2>3, <2>4
<1>3. TypeOK /\ Ownership /\ Accounting /\ Placed /\ [Next]_vars
        => [Contract!Next]_Contract!cvars
  <2> SUFFICES ASSUME TypeOK, Ownership, Accounting, Placed, [Next]_vars
               PROVE  [Contract!Next]_Contract!cvars
    OBVIOUS
  <2>1. CASE LifeStep \/ UNCHANGED vars
    <3>1. UNCHANGED <<fpc, cur, buffer, wire, res>>
      BY <2>1 DEF LifeStep, StartConnect, EndConnect, Inactivate, Teardown, callVars,
                  flushVars, vars
    <3>2. Holding' = Holding
      BY <3>1 DEF Holding
    <3> QED BY <3>1, <3>2, StutterMaps
  <2> QED BY <2>1, CallMaps, FlushMaps DEF Next, Terminated
<1> QED
  BY <1>1, <1>2, <1>3, TypeCorrect, OwnershipStep, AccountStep, PlacedStep,
     PTL DEF Spec, ImplementsContract, Contract!Spec

-----------------------------------------------------------------------------
(* Counting.                                                               *)

\* A set that holds 0 and the successor of each of its numbers holds them all:
\* a least number outside it would let 0..n be mapped one-to-one into less.
LEMMA NatSetInduction ==
  ASSUME NEW S, 0 \in S, \A n \in Nat : n \in S => n + 1 \in S
  PROVE  Nat \subseteq S
<1> SUFFICES ASSUME NEW n \in Nat, n \notin S PROVE FALSE
  OBVIOUS
<1> DEFINE T == {i \in 0..n : i \in S}
<1>1. IsFiniteSet(T)
  <2>1. IsFiniteSet(0..n) /\ T \in SUBSET (0..n)
    BY FS_Interval
  <2> QED BY <2>1, FS_Subset
<1>2. 0 \in T
  OBVIOUS
<1>3. IsFiniteSet(T \ {0}) /\ Cardinality(T \ {0}) < Cardinality(T)
  <2> HIDE DEF T
  <2>1. Cardinality(T) \in Nat
    BY <1>1, FS_CardinalityType
  <2>2. IsFiniteSet(T \ {0}) /\ Cardinality(T \ {0}) = Cardinality(T) - 1
    BY <1>1, <1>2, FS_RemoveElement, Zenon
  <2> QED BY <2>1, <2>2
<1> DEFINE f == [i \in T |-> i + 1]
<1>4. f \in [T -> T \ {0}]
  OBVIOUS
<1>5. \A x, y \in T : f[x] = f[y] => x = y
  OBVIOUS
<1> HIDE DEF T, f
<1> QED BY <1>1, <1>3, <1>4, <1>5, FS_PigeonHole

-----------------------------------------------------------------------------
(* The routes.  Names are the segments that nodes can have.                *)

Segments == Names \cup {p.text : p \in Parts} \cup {Wild}
Kinds == {"root", "endpoint", "group", "recursive"}
Tasks == {g.task : g \in Given} \cup {None}
Acceptances == {g.accs : g \in Given} \cup {{}}
NodeType == [kind : Kinds, task : Tasks, accs : Acceptances]

\* A table has its root, and with a node the nodes above it.
IsTable(T) ==
  /\ T \in [DOMAIN T -> NodeType]
  /\ Root \in DOMAIN T /\ DOMAIN T \subseteq Seq(Segments)
  /\ \A n \in DOMAIN T : \A i \in 0..Len(n) : SubSeq(n, 1, i) \in DOMAIN T

\* A group has no task, one that gets a task being an endpoint by then; the root
\* is never a group.
GroupsIdle(T) ==
  /\ T[Root].kind # "group"
  /\ \A n \in DOMAIN T : T[n].kind = "group" => T[n].task = None

\* A node has what the last call gave it.
Agrees(T, n) == T[n].task = placed[n].task /\ T[n].accs = placed[n].accs

TableInv ==
  /\ IsTable(tree) /\ GroupsIdle(tree)
  /\ DOMAIN placed \subseteq DOMAIN tree
  /\ \A n \in DOMAIN placed : Agrees(tree, n)

\* A node more, below one that is there.
LEMMA AddedNode ==
  ASSUME NEW T, IsTable(T), GroupsIdle(T), NEW n \in DOMAIN T, NEW x \in Segments,
         NEW v \in NodeType, v.kind = "group" => v.task = None,
         NEW c, c = Child(n, x), NEW U, U = With(T, c, v)
  PROVE  /\ IsTable(U) /\ GroupsIdle(U)
         /\ DOMAIN U = DOMAIN T \cup {c} /\ U[c] = v
         /\ \A m \in DOMAIN T : m # c => U[m] = T[m]
<1>1. /\ DOMAIN U = DOMAIN T \cup {c} /\ U[c] = v
      /\ \A m \in DOMAIN T : m # c => U[m] = T[m]
  BY DEF With
<1>2. n \in Seq(Segments) /\ c \in Seq(Segments) /\ Len(c) = Len(n) + 1 /\ Len(n) \in Nat
  BY DEF Child, IsTable
<1>3. U \in [DOMAIN U -> NodeType]
  BY DEF IsTable, With
<1>4. ASSUME NEW i \in 0..Len(c)
      PROVE  SubSeq(c, 1, i) \in DOMAIN U
  <2>1. CASE i = Len(c)
    <3>1. SubSeq(c, 1, i) = c
      BY <1>2, <2>1
    <3> QED BY <1>1, <3>1
  <2>2. CASE i \in 0..Len(n)
    <3>1. SubSeq(c, 1, i) = SubSeq(n, 1, i)
      BY <1>2, <2>2 DEF Child
    <3>2. SubSeq(n, 1, i) \in DOMAIN T
      BY <2>2 DEF IsTable
    <3> QED BY <1>1, <3>1, <3>2, Zenon
  <2> QED BY <1>2, <2>1, <2>2
<1>5. IsTable(U)
  <2>1. Root \in DOMAIN U /\ DOMAIN U \subseteq Seq(Segments)
    BY <1>1, <1>2 DEF IsTable
  <2>2. \A m \in DOMAIN U : \A i \in 0..Len(m) : SubSeq(m, 1, i) \in DOMAIN U
    <3> SUFFICES ASSUME NEW m \in DOMAIN U, NEW i \in 0..Len(m)
                 PROVE  SubSeq(m, 1, i) \in DOMAIN U
      OBVIOUS
    <3>1. CASE m = c
      BY <1>4, <3>1
    <3>2. CASE m \in DOMAIN T
      BY <1>1, <3>2 DEF IsTable
    <3> QED BY <1>1, <3>1, <3>2
  <2> QED BY <1>3, <2>1, <2>2 DEF IsTable
<1>6. GroupsIdle(U)
  BY <1>1, <1>2 DEF GroupsIdle, IsTable, Root
<1> QED BY <1>1, <1>5, <1>6

\* Another content of a node.
LEMMA ChangedNode ==
  ASSUME NEW T, IsTable(T), GroupsIdle(T), NEW n \in DOMAIN T,
         NEW v \in NodeType, v.kind # "group",
         NEW U, U = [T EXCEPT ![n] = v]
  PROVE  /\ IsTable(U) /\ GroupsIdle(U)
         /\ DOMAIN U = DOMAIN T /\ U[n] = v
         /\ \A m \in DOMAIN T : m # n => U[m] = T[m]
BY DEF IsTable, GroupsIdle

\* Without a node and those below it, a table keeps its shape.
LEMMA PrunedTable ==
  ASSUME NEW T, IsTable(T), GroupsIdle(T), NEW c, c # Root,
         NEW kept, kept = {n \in DOMAIN T : c \notin Line(n)},
         NEW U, U = [n \in kept |-> T[n]]
  PROVE  /\ IsTable(U) /\ GroupsIdle(U)
         /\ DOMAIN U = kept /\ \A m \in kept : U[m] = T[m]
<1>1. DOMAIN U = kept /\ \A m \in kept : U[m] = T[m]
  OBVIOUS
<1>2. Root \in kept
  BY DEF Line, IsTable, Root
<1>3. ASSUME NEW n \in kept, NEW i \in 0..Len(n)
      PROVE  SubSeq(n, 1, i) \in kept
  <2>1. n \in Seq(Segments) /\ SubSeq(n, 1, i) \in DOMAIN T /\ Len(n) \in Nat
    BY DEF IsTable
  <2>2. Len(SubSeq(n, 1, i)) = i
    BY <2>1
  <2>3. ASSUME NEW j \in 0..i PROVE SubSeq(SubSeq(n, 1, i), 1, j) = SubSeq(n, 1, j)
    BY <2>1
  <2>4. Line(SubSeq(n, 1, i)) \subseteq Line(n)
    BY <2>1, <2>2, <2>3 DEF Line
  <2> QED BY <2>1, <2>4
<1>4. U \in [DOMAIN U -> NodeType] /\ kept \subseteq DOMAIN T
  BY DEF IsTable
<1>5. IsTable(U)
  BY <1>1, <1>2, <1>3, <1>4 DEF IsTable
<1>6. GroupsIdle(U)
  BY <1>1, <1>2, <1>4 DEF GroupsIdle
<1> QED BY <1>1, <1>5, <1>6

-----------------------------------------------------------------------------
(* A walk of a call along its pattern.                                     *)

CallType == {call \in [group : BOOLEAN, task : Tasks, accs : Acceptances] :
               call.group => call.task = None}

WalkOf(at, T, ks, p, o) == [at |-> at, tree |-> T, keys |-> ks, put |-> p, over |-> o]
IsWalk(w) == w = WalkOf(w.at, w.tree, w.keys, w.put, w.over)

\* A walk under way has added nodes and made endpoints of others, but changed
\* nothing that a call gave to a node.
Walking(w) ==
  /\ IsWalk(w) /\ IsTable(w.tree) /\ GroupsIdle(w.tree)
  /\ w.over = FALSE /\ w.put = <<>>
  /\ w.at \in DOMAIN w.tree
  /\ DOMAIN placed \subseteq DOMAIN w.tree
  /\ \A n \in DOMAIN placed : Agrees(w.tree, n)

\* When it ends it may have given the task to one node.
Arrived(w, call) ==
  /\ IsTable(w.tree) /\ GroupsIdle(w.tree)
  /\ \/ w.put = <<>>
     \/ \E p \in DOMAIN w.tree :
          /\ w.put = <<p>>
          /\ w.tree[p].task = call.task /\ w.tree[p].accs = call.accs
  /\ \A n \in DOMAIN placed \cap DOMAIN w.tree : w.put = <<n>> \/ Agrees(w.tree, n)

\* Every text of a pattern may name a node.
LEMMA PartsNamed ==
  ASSUME NEW part \in Parts
  PROVE  part.text \in Segments
BY DEF Segments

\* The fields of a walk.
LEMMA WalkFields ==
  ASSUME NEW at, NEW T, NEW ks, NEW p, NEW o, NEW w, w = WalkOf(at, T, ks, p, o)
  PROVE  w.at = at /\ w.tree = T /\ w.keys = ks /\ w.put = p /\ w.over = o /\ IsWalk(w)
<1>1. w.at = at /\ w.tree = T /\ w.keys = ks /\ w.put = p /\ w.over = o
  BY DEF WalkOf
<1> QED BY <1>1 DEF IsWalk

\* A walk begins in the table as it is.
LEMMA StartWalks == TableInv => Walking(Start)
<1>0. PICK e, no : e = <<>> /\ no = FALSE
  BY Zenon
<1>1. Start = WalkOf(Root, tree, e, e, no)
  BY <1>0, Zenon DEF Start, WalkOf
<1>2. /\ Start.at = Root /\ Start.tree = tree /\ Start.put = e /\ Start.over = no
      /\ IsWalk(Start)
  BY <1>1, WalkFields
<1> QED BY <1>0, <1>2 DEF TableInv, Walking, IsTable, Agrees

\* A walk under way may end.
LEMMA WalkingArrives ==
  ASSUME NEW w, NEW call, Walking(w)
  PROVE  Arrived(w, call)
BY DEF Walking, Arrived

\* A walk that goes on to a node that is there.
LEMMA GoOn ==
  ASSUME NEW w, Walking(w), NEW c \in DOMAIN w.tree
  PROVE  Walking([w EXCEPT !.at = c])
<1>1. [w EXCEPT !.at = c] = WalkOf(c, w.tree, w.keys, w.put, w.over)
  BY DEF Walking, IsWalk, WalkOf
<1>2. PICK v : v = [w EXCEPT !.at = c]
  BY Zenon
<1>3. /\ v.at = c /\ v.tree = w.tree /\ v.keys = w.keys /\ v.put = w.put /\ v.over = w.over
      /\ IsWalk(v)
  BY <1>1, <1>2, WalkFields
<1>4. Walking(v)
  BY <1>3 DEF Walking, Agrees
<1> QED BY <1>2, <1>4

\* A walk that makes a node of a name: it ends there if it gives it the task.
LEMMA MakeNode ==
  ASSUME NEW w, Walking(w), NEW x \in Segments, NEW call, NEW ks,
         NEW z \in NodeType, z.kind = "group" => z.task = None,
         NEW c, c = Child(w.at, x), c \notin DOMAIN w.tree,
         NEW p, \/ p = <<>>
                \/ p = <<c>> /\ z.task = call.task /\ z.accs = call.accs,
         NEW no, no = FALSE,
         NEW v, v = WalkOf(c, With(w.tree, c, z), ks, p, no)
  PROVE  Arrived(v, call) /\ (p = <<>> => Walking(v))
<1>0. /\ IsTable(w.tree) /\ GroupsIdle(w.tree) /\ w.at \in DOMAIN w.tree
  BY DEF Walking
<1>1. PICK T, n, U : T = w.tree /\ n = w.at /\ U = With(T, c, z)
  OBVIOUS
<1>2. /\ IsTable(U) /\ GroupsIdle(U)
      /\ DOMAIN U = DOMAIN T \cup {c} /\ U[c] = z
      /\ \A m \in DOMAIN T : m # c => U[m] = T[m]
  <2>1. IsTable(T) /\ GroupsIdle(T) /\ n \in DOMAIN T /\ c = Child(n, x) /\ U = With(T, c, z)
    BY <1>0, <1>1
  <2>2. x \in Segments /\ z \in NodeType /\ (z.kind = "group" => z.task = None)
    OBVIOUS
  <2> QED BY ONLY <2>1, <2>2, AddedNode
<1>3. v.at = c /\ v.tree = U /\ v.over = no /\ v.put = p /\ IsWalk(v)
  BY <1>1, WalkFields
<1>4. DOMAIN placed \subseteq DOMAIN T /\ \A m \in DOMAIN placed : Agrees(v.tree, m)
  BY <1>1, <1>2, <1>3 DEF Walking, Agrees
<1>5. Arrived(v, call)
  BY <1>2, <1>3, <1>4 DEF Arrived
<1>6. p = <<>> => Walking(v)
  BY <1>2, <1>3, <1>4 DEF Walking
<1> QED BY <1>5, <1>6

\* A placeholder: an endpoint of the node, with the task if it is the last.
LEMMA ParamWalks ==
  ASSUME NEW w, Walking(w), NEW part, NEW last \in BOOLEAN, NEW call \in CallType
  PROVE  LET v == MeetParam(w, part, last, call.task, call.accs)
         IN Arrived(v, call) /\ (last \/ Walking(v))
<1>1. PICK e : e = IF last THEN Node("endpoint", call.task, call.accs)
                   ELSE [w.tree[w.at] EXCEPT !.kind = "endpoint"]
  BY Zenon
<1>2. w.at \in DOMAIN w.tree /\ w.tree[w.at] \in NodeType
  BY DEF Walking, IsTable
<1>3. /\ e \in NodeType /\ e.kind = "endpoint"
      /\ last => e.task = call.task /\ e.accs = call.accs
      /\ ~last => e.task = w.tree[w.at].task /\ e.accs = w.tree[w.at].accs
  BY <1>1, <1>2 DEF Node, NodeType, Kinds, CallType
<1>4. PICK U : U = [w.tree EXCEPT ![w.at] = e]
  BY Zenon
<1>5. /\ IsTable(U) /\ GroupsIdle(U)
      /\ DOMAIN U = DOMAIN w.tree /\ U[w.at] = e
      /\ \A m \in DOMAIN w.tree : m # w.at => U[m] = w.tree[m]
  BY <1>2, <1>3, <1>4, ChangedNode DEF Walking
<1>6. PICK v : v = MeetParam(w, part, last, call.task, call.accs)
  OBVIOUS
<1>7. PICK ks : ks = IF part.kind = "colon" THEN w.keys
                     ELSE With(w.keys, NameOf(w.at), ParamKey(w.keys, NameOf(w.at), part))
  OBVIOUS
<1>8. PICK p : p = IF last THEN <<w.at>> ELSE <<>>
  BY Zenon
<1>0. PICK no : no = FALSE
  BY Zenon
<1>9. v = WalkOf(w.at, U, ks, p, no)
  BY <1>0, <1>1, <1>4, <1>6, <1>7, <1>8, Zenon DEF MeetParam, Walking, IsWalk, WalkOf
<1>10. /\ v.at = w.at /\ v.tree = U /\ v.over = no /\ v.put = p /\ IsWalk(v)
  BY <1>9, WalkFields
<1>11. \A n \in DOMAIN placed : (last /\ n = w.at) \/ Agrees(v.tree, n)
  BY <1>3, <1>5, <1>10 DEF Walking, Agrees
<1>12. CASE last
  <2>1. /\ IsTable(v.tree) /\ GroupsIdle(v.tree)
        /\ w.at \in DOMAIN v.tree /\ v.put = <<w.at>>
        /\ v.tree[w.at].task = call.task /\ v.tree[w.at].accs = call.accs
    BY <1>2, <1>3, <1>5, <1>8, <1>10, <1>12
  <2>2. \A n \in DOMAIN placed : v.put = <<n>> \/ Agrees(v.tree, n)
    BY <1>11, <2>1
  <2>3. Arrived(v, call)
    BY <2>1, <2>2 DEF Arrived
  <2> QED BY <1>6, <1>12, <2>3, Zenon
<1>13. CASE ~last
  <2>1. /\ IsTable(v.tree) /\ GroupsIdle(v.tree) /\ IsWalk(v)
        /\ v.at \in DOMAIN v.tree /\ v.put = <<>> /\ v.over = FALSE
        /\ DOMAIN placed \subseteq DOMAIN v.tree
        /\ \A n \in DOMAIN placed : Agrees(v.tree, n)
    BY <1>2, <1>5, <1>0, <1>8, <1>10, <1>11, <1>13 DEF Walking
  <2>2. Walking(v)
    BY <2>1 DEF Walking
  <2> QED BY <1>6, <2>2, WalkingArrives
<1> QED BY <1>6, <1>12, <1>13

\* The asterisk: a node with the task, and none below it.
LEMMA WildWalks ==
  ASSUME NEW w, Walking(w), NEW call \in CallType
  PROVE  LET v == MeetWild(w, call.task, call.accs)
         IN Arrived(v, call) /\ v.over
<1>1. PICK T, n, c : T = w.tree /\ n = w.at /\ c = Child(w.at, Wild)
  OBVIOUS
<1>2. IsTable(T) /\ GroupsIdle(T) /\ n \in DOMAIN T /\ c = Child(n, Wild) /\ Wild \in Segments
  BY <1>1 DEF Walking, Segments
<1>3. n \in Seq(Segments) /\ c # Root /\ Len(c) = Len(n) + 1 /\ Len(n) \in Nat
  BY <1>2 DEF IsTable, Child, Root
<1>4. PICK kept, S : kept = {m \in DOMAIN T : c \notin Line(m)} /\ S = [m \in kept |-> T[m]]
  BY Zenon
<1>5. /\ IsTable(S) /\ GroupsIdle(S)
      /\ DOMAIN S = kept /\ \A m \in kept : S[m] = T[m]
  <2>1. /\ IsTable(T) /\ GroupsIdle(T) /\ c # Root
        /\ kept = {m \in DOMAIN T : c \notin Line(m)} /\ S = [m \in kept |-> T[m]]
    BY <1>2, <1>3, <1>4
  <2> QED BY ONLY <2>1, PrunedTable
<1>6. n \in DOMAIN S
  <2>1. \A i \in 0..Len(n) : Len(SubSeq(n, 1, i)) = i
    BY <1>3
  <2>2. c \notin Line(n)
    BY <1>3, <2>1 DEF Line
  <2> QED BY <1>2, <1>4, <1>5, <2>2
<1>0. PICK z : z = Node("recursive", call.task, call.accs)
  OBVIOUS
<1>7. /\ z \in NodeType
      /\ z.kind # "group" /\ z.task = call.task /\ z.accs = call.accs
  BY <1>0 DEF Node, NodeType, Kinds, CallType
<1>8. PICK U : U = With(S, c, z)
  OBVIOUS
<1>9. /\ IsTable(U) /\ GroupsIdle(U)
      /\ DOMAIN U = DOMAIN S \cup {c} /\ U[c] = z
      /\ \A m \in DOMAIN S : m # c => U[m] = S[m]
  <2>1. /\ IsTable(S) /\ GroupsIdle(S) /\ n \in DOMAIN S /\ Wild \in Segments
        /\ z \in NodeType /\ (z.kind = "group" => z.task = None)
        /\ c = Child(n, Wild) /\ U = With(S, c, z)
    BY <1>2, <1>5, <1>6, <1>7, <1>8
  <2> QED BY ONLY <2>1, AddedNode
<1>10. PICK v, p, yes : /\ v = MeetWild(w, call.task, call.accs)
                        /\ p = <<c>> /\ yes = TRUE
  BY Zenon
<1>11. v = WalkOf(n, U, w.keys, p, yes)
  BY <1>0, <1>1, <1>4, <1>8, <1>10, Zenon DEF MeetWild, Walking, IsWalk, WalkOf
<1>12. v.tree = U /\ v.put = p /\ v.over = yes
  BY <1>11, WalkFields
<1>13. \A m \in DOMAIN placed \cap DOMAIN U : v.put = <<m>> \/ Agrees(U, m)
  BY <1>1, <1>4, <1>5, <1>9, <1>10, <1>12 DEF Walking, Agrees
<1>14. Arrived(v, call)
  BY <1>7, <1>9, <1>10, <1>12, <1>13 DEF Arrived
<1> QED BY <1>10, <1>12, <1>14

\* A name, of an endpoint: a node that is there is passed, another is made.
LEMMA NameWalks ==
  ASSUME NEW w, Walking(w), NEW x \in Segments, NEW last \in BOOLEAN, NEW call \in CallType
  PROVE  LET v == MeetName(w, x, last, call.task, call.accs)
         IN Arrived(v, call) /\ (last \/ Walking(v))
<1>1. PICK v, c : v = MeetName(w, x, last, call.task, call.accs) /\ c = Child(w.at, x)
  OBVIOUS
<1>2. CASE c \in DOMAIN w.tree
  <2>1. v = [w EXCEPT !.at = c]
    BY <1>1, <1>2 DEF MeetName
  <2>2. Walking(v)
    BY <2>1, <1>2, GoOn
  <2> QED BY <1>1, <2>2, WalkingArrives
<1>3. CASE c \notin DOMAIN w.tree
  <2>1. PICK z : z = IF last THEN Node("endpoint", call.task, call.accs)
                     ELSE Node("group", None, {})
    OBVIOUS
  <2>2. /\ z \in NodeType /\ (z.kind = "group" => z.task = None)
        /\ last => z.task = call.task /\ z.accs = call.accs
    BY <2>1 DEF Node, NodeType, Kinds, CallType, Tasks, Acceptances
  <2>3. PICK p, no : p = (IF last THEN <<c>> ELSE <<>>) /\ no = FALSE
    BY Zenon
  <2>4. v = WalkOf(c, With(w.tree, c, z), w.keys, p, no)
    BY <1>1, <1>3, <2>1, <2>3, Zenon DEF MeetName, Walking, IsWalk, WalkOf
  <2>5. Arrived(v, call) /\ (p = <<>> => Walking(v))
    <3>1. /\ Walking(w) /\ x \in Segments /\ c = Child(w.at, x) /\ c \notin DOMAIN w.tree
          /\ \/ p = <<>>
             \/ p = <<c>> /\ z.task = call.task /\ z.accs = call.accs
      BY <1>1, <1>3, <2>2, <2>3
    <3> QED BY ONLY <2>2, <2>3, <2>4, <3>1, MakeNode, Zenon
  <2> QED BY <1>1, <2>3, <2>5
<1> QED BY <1>1, <1>2, <1>3

\* The same of a group.
LEMMA GroupWalks ==
  ASSUME NEW w, Walking(w), NEW part, part.text \in Segments, NEW last \in BOOLEAN,
         NEW call \in CallType, call.group
  PROVE  LET v == MeetGroup(w, part, last, call.accs)
         IN Arrived(v, call) /\ (last \/ Walking(v))
<1>1. PICK v, x, c : /\ v = MeetGroup(w, part, last, call.accs)
                     /\ x = part.text /\ c = Child(w.at, x)
  OBVIOUS
<1>2. CASE Placeholder(part)
  <2>1. v = w
    BY <1>1, <1>2 DEF MeetGroup
  <2> QED BY <1>1, <2>1, WalkingArrives
<1>3. CASE ~Placeholder(part) /\ c \in DOMAIN w.tree
  <2>1. v = [w EXCEPT !.at = c]
    BY <1>1, <1>3 DEF MeetGroup
  <2>2. Walking(v)
    BY <2>1, <1>3, GoOn
  <2> QED BY <1>1, <2>2, WalkingArrives
<1>4. CASE ~Placeholder(part) /\ c \notin DOMAIN w.tree
  <2>1. PICK z : z = Node("group", None, IF last THEN call.accs ELSE {})
    OBVIOUS
  <2>2. /\ z \in NodeType /\ z.task = None
        /\ last => z.task = call.task /\ z.accs = call.accs
    BY <2>1 DEF Node, NodeType, Kinds, CallType, Tasks, Acceptances
  <2>3. PICK p, no : p = (IF last THEN <<c>> ELSE <<>>) /\ no = FALSE
    BY Zenon
  <2>4. v = WalkOf(c, With(w.tree, c, z), w.keys, p, no)
    BY <1>1, <1>4, <2>1, <2>3, Zenon DEF MeetGroup, Walking, IsWalk, WalkOf
  <2>5. Arrived(v, call) /\ (p = <<>> => Walking(v))
    <3>1. /\ Walking(w) /\ x \in Segments /\ c = Child(w.at, x) /\ c \notin DOMAIN w.tree
          /\ \/ p = <<>>
             \/ p = <<c>> /\ z.task = call.task /\ z.accs = call.accs
      BY <1>1, <1>4, <2>2, <2>3
    <3> QED BY ONLY <2>2, <2>3, <2>4, <3>1, MakeNode, Zenon
  <2> QED BY <1>1, <2>3, <2>5
<1> QED BY <1>1, <1>2, <1>3, <1>4


\* A turn of the loop, of a walk under way ...
LEMMA MeetStep ==
  ASSUME NEW w, Walking(w), NEW part \in Parts, NEW last \in BOOLEAN, NEW call \in CallType
  PROVE  LET v == Meet(w, part, last, call)
         IN Arrived(v, call) /\ (last \/ v.over \/ Walking(v))
<1>1. PICK v : v = Meet(w, part, last, call)
  OBVIOUS
<1>2. ~w.over /\ part.text \in Segments
  BY PartsNamed DEF Walking
<1>3. CASE call.group
  <2>1. v = MeetGroup(w, part, last, call.accs)
    BY <1>1, <1>2, <1>3 DEF Meet
  <2> QED BY <1>1, <1>2, <1>3, <2>1, GroupWalks
<1>4. CASE ~call.group
  <2>1. v = MeetEndpoint(w, part, last, call.task, call.accs)
    BY <1>1, <1>2, <1>4 DEF Meet
  <2>2. CASE Placeholder(part)
    <3>1. v = MeetParam(w, part, last, call.task, call.accs)
      BY <2>1, <2>2 DEF MeetEndpoint, Placeholder
    <3> QED BY <1>1, <3>1, ParamWalks
  <2>3. CASE ~Placeholder(part) /\ part.kind = "wild"
    <3>1. v = MeetWild(w, call.task, call.accs)
      BY <2>1, <2>3 DEF MeetEndpoint
    <3> QED BY <1>1, <3>1, WildWalks
  <2>4. CASE ~Placeholder(part) /\ part.kind # "wild"
    <3>1. v = MeetName(w, part.text, last, call.task, call.accs)
      BY <2>1, <2>4 DEF MeetEndpoint
    <3> QED BY <1>1, <1>2, <3>1, NameWalks
  <2> QED BY <2>2, <2>3, <2>4
<1> QED BY <1>3, <1>4

\* ... and of one that is over.
LEMMA MeetOver ==
  ASSUME NEW w, w.over, NEW part, NEW last, NEW call
  PROVE  Meet(w, part, last, call) = w
BY DEF Meet

\* The walk of a call exists, turn by turn.
LEMMA WalkExists ==
  ASSUME NEW pattern, NEW call, Len(pattern) \in Nat
  PROVE  \E f : /\ f[0] = Start /\ WalkAlong(pattern, call) = f[Len(pattern)]
                /\ \A i \in 1..Len(pattern) :
                     f[i] = Meet(f[i - 1], pattern[i], i = Len(pattern), call)
<1> DEFINE m == Len(pattern)
           Turn(w, i) == Meet(w, pattern[i], i = m, call)
           Is(f, k) == f = [i \in 0..k |-> IF i = 0 THEN Start ELSE Turn(f[i - 1], i)]
           K == {k \in Nat : \E f : Is(f, k)}
<1> HIDE DEF Turn
<1>1. 0 \in K
  <2>1. Is([i \in 0..0 |-> Start], 0)
    OBVIOUS
  <2> QED BY <2>1, Zenon
<1>2. ASSUME NEW k \in Nat, k \in K PROVE k + 1 \in K
  <2>1. PICK f : Is(f, k)
    BY <1>2
  <2>2. PICK g : g = [i \in 0..(k + 1) |-> IF i = k + 1 THEN Turn(f[k], i) ELSE f[i]]
    BY Zenon
  <2>3. ASSUME NEW i \in 0..(k + 1)
        PROVE  g[i] = IF i = 0 THEN Start ELSE Turn(g[i - 1], i)
    <3>1. CASE i = k + 1
      <4>1. g[i] = Turn(f[k], i) /\ g[i - 1] = f[k]
        BY <2>2, <3>1
      <4> QED BY <3>1, <4>1
    <3>2. CASE i \in 1..k
      <4>1. g[i] = f[i] /\ g[i - 1] = f[i - 1]
        BY <2>2, <3>2
      <4>2. f[i] = Turn(f[i - 1], i)
        BY <2>1, <3>2
      <4> QED BY <3>2, <4>1, <4>2
    <3>3. CASE i = 0
      BY <2>1, <2>2, <3>3
    <3> QED BY <3>1, <3>2, <3>3
  <2>4. Is(g, k + 1)
    BY <2>2, <2>3
  <2> QED BY <2>4
<1>3. m \in K
  <2> HIDE DEF K
  <2> QED BY <1>1, <1>2, NatSetInduction
<1>4. PICK f : f = CHOOSE h : Is(h, m)
  OBVIOUS
<1>5. Is(f, m)
  <2>1. \E h : Is(h, m)
    BY <1>3
  <2> HIDE DEF Is
  <2> QED BY <1>4, <2>1, Zenon
<1>6. f[0] = Start /\ \A i \in 1..m : f[i] = Turn(f[i - 1], i)
  BY <1>5
<1>7. WalkAlong(pattern, call) = f[m]
  BY <1>4 DEF WalkAlong, Turn
<1> QED BY <1>6, <1>7 DEF Turn

\* The walk of a call arrives.
LEMMA WalkArrives ==
  ASSUME TableInv, NEW pattern \in Patterns, NEW call \in CallType
  PROVE  Arrived(WalkAlong(pattern, call), call)
<1>1. /\ pattern \in Seq(Parts) /\ Len(pattern) \in Nat \ {0}
      /\ \A i \in 1..Len(pattern) : pattern[i] \in Parts
  <2>1. pattern \in Seq(Parts) /\ pattern # <<>>
    BY PatternsAssumption
  <2> QED BY <2>1
<1>2. PICK f : /\ f[0] = Start /\ WalkAlong(pattern, call) = f[Len(pattern)]
               /\ \A i \in 1..Len(pattern) :
                    f[i] = Meet(f[i - 1], pattern[i], i = Len(pattern), call)
  BY <1>1, WalkExists
<1>3. PICK m : m = Len(pattern)
  BY Zenon
<1> DEFINE Good(k) == Arrived(f[k], call) /\ (k < m => f[k].over \/ Walking(f[k]))
           K == {k \in Nat : k <= m => Good(k)}
<1>4. 0 \in K
  BY <1>2, StartWalks, WalkingArrives
<1>5. ASSUME NEW k \in Nat, k \in K PROVE k + 1 \in K
  <2> SUFFICES ASSUME k + 1 <= m PROVE Good(k + 1)
    OBVIOUS
  <2>1. /\ k < m /\ k <= m /\ k + 1 \in 1..m /\ k + 1 - 1 = k
        /\ k + 1 < m => k + 1 # m
    BY <1>1, <1>3
  <2>2. Arrived(f[k], call) /\ (f[k].over \/ Walking(f[k]))
    BY <1>5, <2>1
  <2>3. PICK last, part, w, v : /\ last = (k + 1 = m) /\ part = pattern[k + 1]
                                /\ w = f[k] /\ v = f[k + 1]
    OBVIOUS
  <2>4. v = Meet(w, part, last, call) /\ part \in Parts /\ last \in BOOLEAN
    BY <1>1, <1>2, <1>3, <2>1, <2>3
  <2>5. CASE w.over
    <3>1. v = w
      BY <2>4, <2>5, MeetOver
    <3> QED BY <2>2, <2>3, <2>5, <3>1
  <2>6. CASE Walking(w)
    <3>1. Arrived(v, call) /\ (last \/ v.over \/ Walking(v))
      BY <2>4, <2>6, MeetStep
    <3> QED BY <2>1, <2>3, <3>1, Zenon
  <2> QED BY <2>2, <2>3, <2>5, <2>6
<1>6. m \in K
  <2> HIDE DEF K
  <2> QED BY <1>1, <1>3, <1>4, <1>5, NatSetInduction
<1> QED BY <1>1, <1>2, <1>3, <1>6

\* A call that walked along its pattern leaves a table that agrees with it.
LEMMA BuildKeeps ==
  ASSUME TableInv, NEW pattern \in Patterns, NEW call \in CallType,
         Build(WalkAlong(pattern, call), call)
  PROVE  TableInv'
<1>1. PICK w : w = WalkAlong(pattern, call)
  OBVIOUS
<1>2. Arrived(w, call) /\ tree' = w.tree
  BY <1>1, WalkArrives DEF Build
<1>3. PICK kept : kept = [n \in DOMAIN placed \cap DOMAIN w.tree |-> placed[n]]
  BY Zenon
<1>4. CASE w.put = <<>>
  <2>1. placed' = kept
    BY <1>1, <1>3, <1>4 DEF Build
  <2> QED BY <1>2, <1>3, <1>4, <2>1 DEF TableInv, Arrived, Agrees
<1>5. CASE w.put # <<>>
  <2>1. PICK p \in DOMAIN w.tree :
           w.put = <<p>> /\ w.tree[p].task = call.task /\ w.tree[p].accs = call.accs
    BY <1>2, <1>5 DEF Arrived
  <2>2. PICK g : g = [task |-> call.task, accs |-> call.accs]
    BY Zenon
  <2>3. placed' = With(kept, p, g)
    BY <1>1, <1>3, <1>5, <2>1, <2>2 DEF Build
  <2>4. /\ DOMAIN placed' = (DOMAIN placed \cap DOMAIN w.tree) \cup {p} /\ placed'[p] = g
        /\ \A n \in DOMAIN placed' : n # p => placed'[n] = placed[n]
    BY <1>3, <2>3 DEF With
  <2>5. \A n \in DOMAIN placed' : Agrees(tree, n)'
    BY <1>2, <2>1, <2>2, <2>4 DEF Arrived, Agrees
  <2> QED BY <1>2, <2>1, <2>4, <2>5 DEF TableInv, Arrived
<1> QED BY <1>4, <1>5

\* A node given something else, by a call that goes to it.
LEMMA GivenNode ==
  ASSUME TableInv, NEW n, NEW T, T = tree', IsTable(T), GroupsIdle(T), n \in DOMAIN T,
         DOMAIN tree \subseteq DOMAIN T,
         \A m \in DOMAIN tree : m # n => T[m] = tree[m],
         NEW g, g.task = T[n].task, g.accs = T[n].accs, placed' = With(placed, n, g)
  PROVE  TableInv'
<1>1. /\ DOMAIN placed' = DOMAIN placed \cup {n} /\ placed'[n] = g
      /\ \A m \in DOMAIN placed : m # n => placed'[m] = placed[m]
  BY DEF With
<1>2. \A m \in DOMAIN placed' : Agrees(tree, m)'
  BY <1>1 DEF TableInv, Agrees
<1> QED BY <1>1, <1>2 DEF TableInv

\* The root of a table is given something else.
LEMMA GivenRoot ==
  ASSUME TableInv, NEW t \in Tasks, NEW as \in Acceptances,
         tree' = [tree EXCEPT ![Root].task = t, ![Root].accs = as],
         placed' = With(placed, Root, [task |-> t, accs |-> as])
  PROVE  TableInv'
<1>1. PICK S, T, v, r : /\ S = tree /\ T = tree' /\ r = Root
                        /\ v = [tree[Root] EXCEPT !.task = t, !.accs = as]
  BY Zenon
<1>2. IsTable(S) /\ GroupsIdle(S) /\ r \in DOMAIN S /\ S[r] \in NodeType
  BY <1>1 DEF TableInv, IsTable
<1>3. v \in NodeType /\ v.kind # "group" /\ v.task = t /\ v.accs = as
  BY <1>1, <1>2 DEF NodeType, GroupsIdle
<1>4. T = [S EXCEPT ![r] = v]
  BY <1>1, <1>2, Zenon
<1>5. /\ IsTable(T) /\ GroupsIdle(T)
      /\ DOMAIN T = DOMAIN S /\ T[r] = v
      /\ \A m \in DOMAIN S : m # r => T[m] = S[m]
  BY ONLY <1>2, <1>3, <1>4, ChangedNode, Zenon
<1>6. PICK g : g = [task |-> t, accs |-> as]
  BY Zenon
<1>7. g.task = T[r].task /\ g.accs = T[r].accs /\ placed' = With(placed, r, g)
  BY <1>1, <1>3, <1>5, <1>6, Zenon
<1>8. /\ TableInv /\ T = tree' /\ r \in DOMAIN T /\ DOMAIN tree \subseteq DOMAIN T
      /\ \A m \in DOMAIN tree : m # r => T[m] = tree[m]
  BY <1>1, <1>2, <1>5
<1> QED BY ONLY <1>5, <1>7, <1>8, GivenNode

\* A node is added to a DefaultRoute.
LEMMA AddNodeKeeps ==
  ASSUME TableInv, NEW n \in DOMAIN tree, NEW x \in Names,
         NEW k \in {"endpoint", "group", "recursive"},
         NEW t \in Tasks, NEW as \in Acceptances, AddNode(n, x, k, t, as)
  PROVE  TableInv'
<1>1. PICK S, T, c, z : /\ S = tree /\ T = tree' /\ c = Child(n, x)
                        /\ z = Node(k, IF k = "group" THEN None ELSE t, as)
  BY Zenon
<1>2. /\ z \in NodeType /\ (z.kind = "group" => z.task = None)
      /\ z.task = (IF k = "group" THEN None ELSE t) /\ z.accs = as
  BY <1>1, Zenon DEF Node, NodeType, Kinds, Tasks
<1>3. /\ IsTable(S) /\ GroupsIdle(S) /\ n \in DOMAIN S /\ x \in Segments
      /\ c = Child(n, x) /\ c \notin DOMAIN S /\ T = With(S, c, z)
  BY <1>1 DEF TableInv, Segments, AddNode
<1>4. /\ IsTable(T) /\ GroupsIdle(T)
      /\ DOMAIN T = DOMAIN S \cup {c} /\ T[c] = z
      /\ \A m \in DOMAIN S : m # c => T[m] = S[m]
  BY ONLY <1>2, <1>3, AddedNode
<1>5. PICK g : g = [task |-> IF k = "group" THEN None ELSE t, accs |-> as]
  BY Zenon
<1>6. g.task = T[c].task /\ g.accs = T[c].accs /\ placed' = With(placed, c, g)
  BY <1>1, <1>2, <1>4, <1>5, Zenon DEF AddNode
<1> QED BY <1>1, <1>4, <1>6, GivenNode, Zenon

\* A DefaultRoute gets a new root.
LEMMA ReplaceRootKeeps ==
  ASSUME NEW t \in Tasks, NEW as \in Acceptances, ReplaceRoot(t, as)
  PROVE  TableInv'
<1>1. PICK T, z, r : T = tree' /\ z = Node("root", t, as) /\ r = Root
  BY Zenon
<1>2. z \in NodeType /\ z.kind = "root" /\ z.task = t /\ z.accs = as
  BY <1>1, Zenon DEF Node, NodeType, Kinds
<1>3. DOMAIN T = {r} /\ T[r] = z /\ T \in [{r} -> NodeType]
  BY <1>1, <1>2, Zenon DEF ReplaceRoot
<1>4. r \in Seq(Segments) /\ Len(r) = 0 /\ \A i \in 0..0 : SubSeq(r, 1, i) = r
  BY <1>1 DEF Root
<1>5. IsTable(T)
  BY <1>1, <1>3, <1>4 DEF IsTable
<1>6. GroupsIdle(T)
  BY <1>1, <1>2, <1>3, Zenon DEF GroupsIdle
<1>7. placed' = [n \in {r} |-> [task |-> t, accs |-> as]]
  BY <1>1 DEF ReplaceRoot
<1> QED BY <1>1, <1>2, <1>3, <1>5, <1>6, <1>7, Zenon DEF TableInv, Agrees

\* The table has the nodes above each of its nodes, no task in a group, and in
\* every node what the last effective call gave it.
THEOREM TableInvHolds == RoutesSpec => []TableInv
<1>1. RoutesInit => TableInv
  <2> SUFFICES ASSUME RoutesInit PROVE TableInv
    OBVIOUS
  <2>1. PICK z, r : z = Node("root", None, {}) /\ r = Root
    OBVIOUS
  <2>2. z \in NodeType /\ z.kind = "root"
    BY <2>1 DEF Node, NodeType, Kinds, Tasks, Acceptances
  <2>3. DOMAIN tree = {r} /\ tree[r] = z /\ tree \in [{r} -> NodeType] /\ DOMAIN placed = {}
    BY <2>1, <2>2 DEF RoutesInit
  <2>4. r \in Seq(Segments) /\ Len(r) = 0 /\ \A i \in 0..0 : SubSeq(r, 1, i) = r
    BY <2>1 DEF Root
  <2>5. IsTable(tree)
    BY <2>1, <2>3, <2>4 DEF IsTable
  <2> QED BY <2>1, <2>2, <2>3, <2>5 DEF TableInv, GroupsIdle
<1>2. TableInv /\ [RoutesNext]_routesVars => TableInv'
  <2> SUFFICES ASSUME TableInv, [RoutesNext]_routesVars PROVE TableInv'
    OBVIOUS
  <2>1. CASE UNCHANGED routesVars
    BY <2>1 DEF routesVars, TableInv, IsTable, GroupsIdle, Agrees
  <2>2. ASSUME NEW g \in Given, SetRoot(g.task, g.accs) PROVE TableInv'
    BY <2>2, GivenRoot, Zenon DEF SetRoot, Tasks, Acceptances
  <2>3. ASSUME NEW g \in Given, SetRootGroup(g.accs) PROVE TableInv'
    <3>1. PICK t, as, r : t = tree[Root].task /\ as = g.accs /\ r = Root
      OBVIOUS
    <3>2. t \in Tasks /\ as \in Acceptances /\ r \in DOMAIN tree /\ tree[r] \in NodeType
      BY <3>1 DEF TableInv, IsTable, NodeType, Acceptances
    <3>3. tree' = [tree EXCEPT ![Root].task = t, ![Root].accs = as]
      BY <2>3, <3>1, <3>2, Zenon DEF SetRootGroup, NodeType
    <3>4. placed' = With(placed, Root, [task |-> t, accs |-> as])
      BY <2>3, <3>1 DEF SetRootGroup
    <3> QED BY <3>2, <3>3, <3>4, GivenRoot, Zenon
  <2>4. ASSUME NEW g \in Given, NEW p \in Patterns, SetEndpoint(p, g.task, g.accs)
        PROVE  TableInv'
    <3>1. PICK call : call = [group |-> FALSE, task |-> g.task, accs |-> g.accs]
      BY Zenon
    <3>2. call \in CallType
      BY <3>1 DEF CallType, Tasks, Acceptances
    <3>3. Build(WalkAlong(p, call), call)
      BY <2>4, <3>1 DEF SetEndpoint
    <3> QED BY <3>2, <3>3, BuildKeeps
  <2>5. ASSUME NEW g \in Given, NEW p \in Patterns, SetGroup(p, g.accs) PROVE TableInv'
    <3>1. PICK call : call = [group |-> TRUE, task |-> None, accs |-> g.accs]
      BY Zenon
    <3>2. call \in CallType
      BY <3>1 DEF CallType, Tasks, Acceptances
    <3>3. Build(WalkAlong(p, call), call)
      BY <2>5, <3>1 DEF SetGroup
    <3> QED BY <3>2, <3>3, BuildKeeps
  <2>6. ASSUME NEW g \in Given, ReplaceRoot(g.task, g.accs) PROVE TableInv'
    BY <2>6, ReplaceRootKeeps DEF Tasks, Acceptances
  <2>7. ASSUME NEW g \in Given, NEW x \in Names, NEW k \in {"endpoint", "group", "recursive"},
               NEW n \in DOMAIN tree, AddNode(n, x, k, g.task, g.accs)
        PROVE  TableInv'
    BY <2>7, AddNodeKeeps DEF Tasks, Acceptances
  <2>8. Root \in DOMAIN tree
    BY DEF TableInv, IsTable
  <2> QED BY <2>1, <2>2, <2>3, <2>4, <2>5, <2>6, <2>7, <2>8 DEF RoutesNext, AddToRoute
<1> QED BY <1>1, <1>2, PTL DEF RoutesSpec

\* Acceptances given to a node stand before every endpoint below it.
THEOREM GuardsApplyHolds == RoutesSpec => []GuardsApply
<1>1. TableInv => GuardsApply
  <2> SUFFICES ASSUME TableInv, NEW n, NEW m \in Line(n) \cap DOMAIN placed
               PROVE  placed[m].accs \subseteq AggregatedAcceptances(n)
    BY Zenon DEF GuardsApply
  <2>1. placed[m].accs = tree[m].accs
    BY DEF TableInv, Agrees
  <2> QED BY <2>1 DEF AggregatedAcceptances
<1> QED BY <1>1, TableInvHolds, PTL

-----------------------------------------------------------------------------
(* A lookup of the names that lead to a node.                              *)

\* It is at a node, with no parameters so far; or it has ended at one.
StandsAt(n) == [cur |-> n, ps |-> {}]
EndsAt(n) == [res |-> Found(n, {}, TRUE)]

\* A segment of them leads on to the node of that name.
LEMMA LookGoesOn ==
  ASSUME IsTable(tree), NEW n \in DOMAIN tree, NEW i \in 1..Len(n), NEW wildcards,
         tree[SubSeq(n, 1, i - 1)].kind # "recursive"
  PROVE  LET v == Look(StandsAt(SubSeq(n, 1, i - 1)), n, i, wildcards)
         IN v = StandsAt(SubSeq(n, 1, i)) \/ (i = Len(n) /\ v = EndsAt(SubSeq(n, 1, i)))
<1>0. PICK m, c, s, v : /\ m = SubSeq(n, 1, i - 1) /\ c = SubSeq(n, 1, i)
                        /\ s = StandsAt(m) /\ v = Look(s, n, i, wildcards)
  BY Zenon
<1>1. n \in Seq(Segments) /\ Len(n) \in Nat /\ c \in DOMAIN tree /\ m \in DOMAIN tree
  <2>1. n \in Seq(Segments) /\ Len(n) \in Nat /\ i \in 0..Len(n) /\ i - 1 \in 0..Len(n)
    BY DEF IsTable
  <2> QED BY <1>0, <2>1 DEF IsTable
<1>2. c = Child(m, n[i])
  BY <1>0, <1>1 DEF Child
<1>3. tree[m].kind \in Kinds /\ tree[m].kind # "recursive"
  BY <1>0, <1>1 DEF IsTable, NodeType
<1>4. s.cur = m /\ s.ps = {} /\ "res" \notin DOMAIN s
  BY <1>0 DEF StandsAt
<1>5. CASE tree[m].kind \in {"root", "endpoint"}
  <2>1. v = AtEndpoint(m, n, i, {})
    BY <1>0, <1>4, <1>5, Zenon DEF Look
  <2> QED BY <1>0, <1>1, <1>2, <2>1, Zenon DEF AtEndpoint, StandsAt, EndsAt
<1>6. CASE tree[m].kind = "group"
  <2>1. v = AtGroup(m, n, i, {}, wildcards)
    BY <1>0, <1>4, <1>6, Zenon DEF Look
  <2> QED BY <1>0, <1>1, <1>2, <2>1, Zenon DEF AtGroup, StandsAt
<1> QED BY <1>0, <1>3, <1>5, <1>6 DEF Kinds

\* The walk of a lookup exists, segment by segment.
LEMMA LookExists ==
  ASSUME NEW path, NEW wildcards, Len(path) \in Nat
  PROVE  \E f : /\ f[0] = StandsAt(Root) /\ Lookup(path, wildcards) = f[Len(path)]
                /\ \A i \in 1..Len(path) : f[i] = Look(f[i - 1], path, i, wildcards)
<1> DEFINE m == Len(path)
           Turn(s, i) == Look(s, path, i, wildcards)
           Is(f, k) == f = [i \in 0..k |-> IF i = 0 THEN StandsAt(Root) ELSE Turn(f[i - 1], i)]
           K == {k \in Nat : \E f : Is(f, k)}
<1> HIDE DEF Turn
<1>1. 0 \in K
  <2>1. Is([i \in 0..0 |-> StandsAt(Root)], 0)
    OBVIOUS
  <2> QED BY <2>1, Zenon
<1>2. ASSUME NEW k \in Nat, k \in K PROVE k + 1 \in K
  <2>1. PICK f : Is(f, k)
    BY <1>2
  <2>2. PICK g : g = [i \in 0..(k + 1) |-> IF i = k + 1 THEN Turn(f[k], i) ELSE f[i]]
    BY Zenon
  <2>3. ASSUME NEW i \in 0..(k + 1)
        PROVE  g[i] = IF i = 0 THEN StandsAt(Root) ELSE Turn(g[i - 1], i)
    <3>1. CASE i = k + 1
      <4>1. g[i] = Turn(f[k], i) /\ g[i - 1] = f[k]
        BY <2>2, <3>1
      <4> QED BY <3>1, <4>1
    <3>2. CASE i \in 1..k
      <4>1. g[i] = f[i] /\ g[i - 1] = f[i - 1]
        BY <2>2, <3>2
      <4>2. f[i] = Turn(f[i - 1], i)
        BY <2>1, <3>2
      <4> QED BY <3>2, <4>1, <4>2
    <3>3. CASE i = 0
      BY <2>1, <2>2, <3>3
    <3> QED BY <3>1, <3>2, <3>3
  <2>4. Is(g, k + 1)
    BY <2>2, <2>3
  <2> QED BY <2>4
<1>3. m \in K
  <2> HIDE DEF K
  <2> QED BY <1>1, <1>2, NatSetInduction
<1>4. PICK f : f = CHOOSE h : Is(h, m)
  OBVIOUS
<1>5. Is(f, m)
  <2>1. \E h : Is(h, m)
    BY <1>3
  <2> HIDE DEF Is
  <2> QED BY <1>4, <2>1, Zenon
<1>6. f[0] = StandsAt(Root) /\ \A i \in 1..m : f[i] = Turn(f[i - 1], i)
  BY <1>5
<1>7. Lookup(path, wildcards) = f[m]
  BY <1>4 DEF Lookup, Turn, StandsAt
<1> QED BY <1>6, <1>7 DEF Turn

\* Unless a recursive endpoint stands before it, a node is where the lookup of its
\* names ends.
LEMMA LookupFinds ==
  ASSUME IsTable(tree), NEW n \in DOMAIN tree, NEW wildcards,
         \A m \in Line(n) \ {n} : tree[m].kind # "recursive"
  PROVE  \/ Lookup(n, wildcards) = StandsAt(n)
         \/ Lookup(n, wildcards) = EndsAt(n)
<1>1. /\ n \in Seq(Segments) /\ Len(n) \in Nat /\ 0 \in Nat
      /\ SubSeq(n, 1, 0) = Root /\ SubSeq(n, 1, Len(n)) = n
  <2>1. n \in Seq(Segments)
    BY DEF IsTable
  <2> QED BY <2>1 DEF Root
<1>2. PICK m : m = Len(n)
  BY Zenon
<1>3. PICK f : /\ f[0] = StandsAt(Root) /\ Lookup(n, wildcards) = f[m]
               /\ \A i \in 1..m : f[i] = Look(f[i - 1], n, i, wildcards)
  BY <1>1, <1>2, LookExists
<1> DEFINE At(k) == f[k] = StandsAt(SubSeq(n, 1, k))
           Done(k) == k = m /\ f[k] = EndsAt(n)
           K == {k \in Nat : k <= m => At(k) \/ Done(k)}
<1>4. 0 \in K
  <2>1. SubSeq(n, 1, 0) = Root /\ f[0] = StandsAt(Root)
    BY <1>1, <1>3
  <2>2. At(0)
    BY ONLY <2>1, Zenon
  <2> QED BY <1>1, <2>2, Zenon
<1>5. ASSUME NEW k \in Nat, k \in K PROVE k + 1 \in K
  <2> SUFFICES ASSUME k + 1 <= m PROVE At(k + 1) \/ Done(k + 1)
    <3>1. k + 1 \in Nat
      OBVIOUS
    <3> QED BY <3>1, Zenon
  <2>1. k < m /\ k <= m /\ k # m /\ k + 1 \in 1..Len(n) /\ k + 1 - 1 = k /\ k \in 0..Len(n)
    <3>1. m \in Nat /\ m = Len(n) /\ k \in Nat /\ k + 1 <= m
      BY <1>1, <1>2
    <3> QED BY ONLY <3>1
  <2>2. At(k)
    BY <1>5, <2>1, Zenon
  <2>3. PICK b, c, i : /\ b = SubSeq(n, 1, k) /\ i = k + 1
                       /\ c = SubSeq(n, 1, i)
    BY Zenon
  <2>4. tree[b].kind # "recursive"
    <3>1. b \in Line(n)
      BY <2>1, <2>3 DEF Line
    <3>2. Len(b) = k
      BY <1>1, <2>1, <2>3
    <3>3. b # n
      BY <1>2, <2>1, <3>2
    <3> QED BY <3>1, <3>3
  <2>5. /\ IsTable(tree) /\ n \in DOMAIN tree /\ i \in 1..Len(n)
        /\ b = SubSeq(n, 1, i - 1) /\ c = SubSeq(n, 1, i) /\ c = SubSeq(n, 1, k + 1)
        /\ f[k + 1] = Look(StandsAt(b), n, i, wildcards)
    BY <1>2, <1>3, <2>1, <2>2, <2>3
  <2>6. \/ f[k + 1] = StandsAt(c)
        \/ i = Len(n) /\ f[k + 1] = EndsAt(c)
    BY ONLY <2>4, <2>5, LookGoesOn, Zenon
  <2>7. i = Len(n) => k + 1 = m /\ c = n
    BY <1>1, <1>2, <2>3, Zenon
  <2> QED BY <2>5, <2>6, <2>7, Zenon
<1>6. m \in K
  <2> HIDE DEF K
  <2> QED BY <1>1, <1>2, <1>4, <1>5, NatSetInduction
<1>7. At(m) \/ f[m] = EndsAt(n)
  BY <1>6
<1> HIDE DEF K, Done
<1> QED BY <1>1, <1>2, <1>3, <1>7, Zenon

\* An endpoint that a call has put in the table is found under its names, with
\* its task, whatever calls follow.
THEOREM EndpointsStayHolds == RoutesSpec => []EndpointsStay
<1>1. TableInv => EndpointsStay
  <2> SUFFICES ASSUME TableInv, NEW n \in DOMAIN placed, placed[n].task # None,
                      \A m \in Line(n) \ {n} : tree[m].kind # "recursive",
                      NEW r, r = Answer(n)
               PROVE  r.node = <<n>> /\ r.isLast /\ tree[n].task = placed[n].task
    BY DEF EndpointsStay
  <2>1. /\ IsTable(tree) /\ n \in DOMAIN tree /\ tree[n].task = placed[n].task
        /\ tree[n].kind # "group"
    BY DEF TableInv, Agrees, GroupsIdle
  <2>2. /\ StandsAt(n).cur = n /\ StandsAt(n).ps = {} /\ "res" \notin DOMAIN StandsAt(n)
        /\ EndsAt(n).res = Found(n, {}, TRUE) /\ "res" \in DOMAIN EndsAt(n)
    BY DEF StandsAt, EndsAt
  <2>3. r = Found(n, {}, TRUE)
    <3>1. CASE flavour = "simple"
      <4>1. PICK s : s = Lookup(n, TRUE)
        BY Zenon
      <4>2. s = StandsAt(n) \/ s = EndsAt(n)
        BY <2>1, <4>1, LookupFinds, Zenon
      <4> QED BY <2>1, <2>2, <3>1, <4>1, <4>2, Zenon DEF Answer, RouteNode
    <3>2. CASE flavour # "simple"
      <4>1. PICK s : s = Lookup(n, FALSE)
        BY Zenon
      <4>2. s = StandsAt(n) \/ s = EndsAt(n)
        BY <2>1, <4>1, LookupFinds, Zenon
      <4> QED BY <2>1, <2>2, <3>2, <4>1, <4>2, Zenon DEF Answer, DefaultRouteNode
    <3> QED BY <3>1, <3>2, Zenon
  <2> QED BY <2>1, <2>3 DEF Found
<1> QED BY <1>1, TableInvHolds, PTL
=============================================================================
