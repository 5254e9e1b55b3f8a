----------------------------- MODULE WritePath -----------------------------
(***************************************************************************)
(* The outbound path of a channel: DefaultUnsafe.Write and the flusher     *)
(* goroutine it spawns (channel/unsafe.go), against the part of the        *)
(* channel's life they observe: the alive future (channel/channel.go) and  *)
(* the close future.                                                       *)
(*                                                                         *)
(* Every element of Calls is one call of Write, made by some goroutine at  *)
(* some time.  A call either queues its future and kicks the flusher, or   *)
(* resolves the future itself.  The flusher that call c spawns is named c  *)
(* too: a call spawns at most one, and the flusher a finished flusher      *)
(* spawns through its own Write(nil, nil) takes over the name, since the   *)
(* spawning goroutine does nothing afterwards.                             *)
(***************************************************************************)
EXTENDS Naturals, Sequences, FiniteSets

CONSTANTS Calls,        \* the calls of Write(obj, future)
          NilCalls,     \* the calls whose obj is nil
          MaxConnects   \* bound: attempts of Connect that get past its guard

ASSUME CallsAssumption == NilCalls \subseteq Calls
ASSUME MaxConnectsAssumption == MaxConnects \in Nat

VARIABLES
  pc,         \* pc[c]: where call c is in Write
  fpc,        \* fpc[c]: where the flusher goroutine spawned by c is
  cur,        \* cur[f]: the future flusher f has popped (its local `future`)
  writeS,     \* writeS: 1 while a flusher owns the write side
  buffer,     \* writeBuffer: the queue of futures
  res,        \* res[c]: how the future of call c was resolved
  alive,      \* alive: "nil", "live", "done" (completed), "failed"
  connecting, \* a Connect has passed its guard and not yet returned
  connects,   \* how many Connects have passed their guard
  teardown,   \* alive was completed and its Then callback has not run yet
  closeDone,  \* CloseFuture().IsDone()
  wire,       \* history: what UnsafeWrite has handed to the transport
  pushed,     \* history: the order in which futures entered the buffer
  dropped     \* history: calls that saw inactive at line 90, active at 99

callVars == <<pc, pushed, dropped>>
flushVars == <<fpc, cur, wire>>
lifeVars == <<alive, connecting, connects, teardown, closeDone>>
vars == <<pc, fpc, cur, writeS, buffer, res, alive, connecting, connects,
          teardown, closeDone, wire, pushed, dropped>>

Results == {"pending", "success", "notActive", "closed", "error"}
CallStates == {"idle", "push", "check", "kick", "returned"}
FlusherStates == {"off", "loop", "pop", "write", "ack", "fail", "failed",
                  "tail", "drain", "draining", "reset", "len", "again"}

\* The stretch in which a flusher owns writeS.
Owning == {"loop", "pop", "write", "ack", "fail", "failed", "tail", "drain",
           "draining", "reset"}

Init ==
  /\ pc = [c \in Calls |-> "idle"]
  /\ fpc = [c \in Calls |-> "off"]
  /\ cur = [c \in Calls |-> c]
  /\ writeS = 0
  /\ buffer = <<>>
  /\ res = [c \in Calls |-> "pending"]
  /\ alive = "nil"
  /\ connecting = FALSE
  /\ connects = 0
  /\ teardown = FALSE
  /\ closeDone = FALSE
  /\ wire = <<>>
  /\ pushed = <<>>
  /\ dropped = {}

IsActive == alive = "live"

\* writeBufferMu is held across steps only by a flusher that drains.
Locked == \E f \in Calls : fpc[f] = "draining"

\* Mutant of MarkState: the flag is stored without being compared first.
MarkStateUnguarded == TRUE

\* markState(&writeS): the compare-and-swap succeeds.
MarkState == writeS = 0

\* A future is resolved by the first completion only.
Resolve(c, r) ==
  res' = IF res[c] = "pending" THEN [res EXCEPT ![c] = r] ELSE res

GoTo(c, s) == pc' = [pc EXCEPT ![c] = s]
FlushTo(f, s) == fpc' = [fpc EXCEPT ![f] = s]

----------------------------------------------------------------------------
(* Write, in the caller's goroutine.                                       *)

\* The first look at IsActive; a nil obj succeeds on the spot.
Enter(c) ==
  /\ pc[c] = "idle"
  /\ \/ /\ c \notin NilCalls /\ IsActive
        /\ GoTo(c, "push")
        /\ UNCHANGED res
     \/ /\ c \notin NilCalls /\ ~IsActive
        /\ GoTo(c, "check")
        /\ UNCHANGED res
     \/ /\ c \in NilCalls
        /\ Resolve(c, "success")
        /\ GoTo(c, "kick")
  /\ UNCHANGED <<flushVars, lifeVars, writeS, buffer, pushed, dropped>>

\* The push under writeBufferMu.
Push(c) ==
  /\ pc[c] = "push"
  /\ ~Locked
  /\ buffer' = Append(buffer, c)
  /\ pushed' = Append(pushed, c)
  /\ GoTo(c, "kick")
  /\ UNCHANGED <<flushVars, lifeVars, writeS, res, dropped>>

\* The second look at IsActive: still inactive fails the future; a channel
\* activated since the first look leaves the future neither queued nor failed.
Recheck(c) ==
  /\ pc[c] = "check"
  /\ \/ /\ ~IsActive
        /\ Resolve(c, "notActive")
        /\ GoTo(c, "returned")
        /\ UNCHANGED dropped
     \/ /\ IsActive
        /\ dropped' = dropped \cup {c}
        /\ GoTo(c, "kick")
        /\ UNCHANGED res
  /\ UNCHANGED <<flushVars, lifeVars, writeS, buffer, pushed>>

\* Spawns the flusher unless another one owns writeS.
Kick(c) ==
  /\ pc[c] = "kick"
  /\ \/ /\ MarkState
        /\ writeS' = 1
        /\ FlushTo(c, "loop")
     \/ /\ ~MarkState
        /\ UNCHANGED <<writeS, fpc>>
  /\ GoTo(c, "returned")
  /\ UNCHANGED <<cur, wire, lifeVars, buffer, res, pushed, dropped>>

----------------------------------------------------------------------------
(* The flusher goroutine.                                                  *)

LoopTest(f) ==
  /\ fpc[f] = "loop"
  /\ FlushTo(f, IF IsActive THEN "pop" ELSE "tail")
  /\ UNCHANGED <<callVars, cur, wire, lifeVars, writeS, buffer, res>>

Pop(f) ==
  /\ fpc[f] = "pop"
  /\ ~Locked
  /\ \/ /\ buffer = <<>>
        /\ FlushTo(f, "tail")
        /\ UNCHANGED <<cur, buffer>>
     \/ /\ buffer # <<>>
        /\ cur' = [cur EXCEPT ![f] = Head(buffer)]
        /\ buffer' = Tail(buffer)
        /\ FlushTo(f, "write")
  /\ UNCHANGED <<callVars, wire, lifeVars, writeS, res>>

\* UnsafeWrite, external to the channel: the transport takes it or not.
UnsafeWrite(f) ==
  /\ fpc[f] = "write"
  /\ \/ /\ wire' = Append(wire, cur[f])
        /\ FlushTo(f, "ack")
     \/ /\ FlushTo(f, "fail")
        /\ UNCHANGED wire
  /\ UNCHANGED <<callVars, cur, lifeVars, writeS, buffer, res>>

Ack(f) ==
  /\ fpc[f] = "ack"
  /\ Resolve(cur[f], "success")
  /\ FlushTo(f, "loop")
  /\ UNCHANGED <<callVars, cur, wire, lifeVars, writeS, buffer>>

\* What inactiveChannel does to the alive future; the Then callback, which
\* completes the close future, is the action Teardown.
InactiveChannel ==
  /\ alive' = CASE alive = "nil" -> "failed"
                [] alive = "live" -> "done"
                [] OTHER -> alive
  /\ teardown' = (teardown \/ alive = "live")
  /\ UNCHANGED closeDone

\* An error of UnsafeWrite takes the channel down first ...
FailChannel(f) ==
  /\ fpc[f] = "fail"
  /\ InactiveChannel
  /\ FlushTo(f, "failed")
  /\ UNCHANGED <<callVars, cur, wire, connecting, connects, writeS, buffer, res>>

\* Mutant of FailFuture: the failed write is reported as sent.
FailFutureSucceeds(f) ==
  /\ fpc[f] = "failed"
  /\ Resolve(cur[f], "success")
  /\ FlushTo(f, "loop")
  /\ UNCHANGED <<callVars, cur, wire, lifeVars, writeS, buffer>>

\* ... and then fails the future.
FailFuture(f) ==
  /\ fpc[f] = "failed"
  /\ Resolve(cur[f], "error")
  /\ FlushTo(f, "loop")
  /\ UNCHANGED <<callVars, cur, wire, lifeVars, writeS, buffer>>

TailTest(f) ==
  /\ fpc[f] = "tail"
  /\ FlushTo(f, IF IsActive THEN "reset" ELSE "drain")
  /\ UNCHANGED <<callVars, cur, wire, lifeVars, writeS, buffer, res>>

DrainLock(f) ==
  /\ fpc[f] = "drain"
  /\ ~Locked
  /\ FlushTo(f, "draining")
  /\ UNCHANGED <<callVars, cur, wire, lifeVars, writeS, buffer, res>>

\* Mutant of Drain: the buffer is emptied and its futures are forgotten.
DrainDiscards(f) ==
  /\ fpc[f] = "draining"
  /\ buffer' = <<>>
  /\ FlushTo(f, "reset")
  /\ UNCHANGED <<callVars, cur, wire, lifeVars, writeS, res>>

\* Mutant of Drain: writeBufferMu is not unlocked.
DrainKeepsLock(f) ==
  /\ fpc[f] = "draining"
  /\ buffer # <<>>
  /\ Resolve(Head(buffer), IF closeDone THEN "closed" ELSE "notActive")
  /\ buffer' = Tail(buffer)
  /\ UNCHANGED <<callVars, flushVars, lifeVars, writeS>>

\* One iteration of the drain loop, or its end and the unlock.
Drain(f) ==
  /\ fpc[f] = "draining"
  /\ \/ /\ buffer # <<>>
        /\ Resolve(Head(buffer), IF closeDone THEN "closed" ELSE "notActive")
        /\ buffer' = Tail(buffer)
        /\ UNCHANGED fpc
     \/ /\ buffer = <<>>
        /\ FlushTo(f, "reset")
        /\ UNCHANGED <<buffer, res>>
  /\ UNCHANGED <<callVars, cur, wire, lifeVars, writeS>>

\* Mutant of ResetState: the flusher leaves without resetState.
ResetStateMissing(f) ==
  /\ fpc[f] = "reset"
  /\ FlushTo(f, "len")
  /\ UNCHANGED <<callVars, cur, wire, lifeVars, writeS, buffer, res>>

ResetState(f) ==
  /\ fpc[f] = "reset"
  /\ writeS' = 0
  /\ FlushTo(f, "len")
  /\ UNCHANGED <<callVars, cur, wire, lifeVars, buffer, res>>

\* Mutant of LenTest: nobody looks at the buffer after resetState.
LenTestMissing(f) ==
  /\ fpc[f] = "len"
  /\ ~Locked
  /\ FlushTo(f, "off")
  /\ UNCHANGED <<callVars, cur, wire, lifeVars, writeS, buffer, res>>

\* Writes buffered while this flusher was leaving ...
LenTest(f) ==
  /\ fpc[f] = "len"
  /\ ~Locked
  /\ FlushTo(f, IF buffer # <<>> THEN "again" ELSE "off")
  /\ UNCHANGED <<callVars, cur, wire, lifeVars, writeS, buffer, res>>

\* ... are picked up by Write(nil, nil).
WriteAgain(f) ==
  /\ fpc[f] = "again"
  /\ \/ /\ MarkState
        /\ writeS' = 1
        /\ FlushTo(f, "loop")
     \/ /\ ~MarkState
        /\ FlushTo(f, "off")
        /\ UNCHANGED writeS
  /\ UNCHANGED <<callVars, cur, wire, lifeVars, buffer, res>>

----------------------------------------------------------------------------
(* The channel's life, as the write path observes it.                      *)

\* Connect passes markState(&connectS) and the test of the close future.
StartConnect ==
  /\ ~connecting /\ ~closeDone
  /\ connects < MaxConnects
  /\ connecting' = TRUE
  /\ connects' = connects + 1
  /\ UNCHANGED <<callVars, flushVars, writeS, buffer, res, alive, teardown, closeDone>>

\* UnsafeConnect returned: activeChannel, or inactiveChannel on an error.
EndConnect ==
  /\ connecting
  /\ connecting' = FALSE
  /\ \/ alive' = "live" /\ UNCHANGED <<teardown, closeDone>>
     \/ InactiveChannel
  /\ UNCHANGED <<callVars, flushVars, writeS, buffer, res, connects>>

\* A failed read, Disconnect or Deregister, from any goroutine.
Inactivate ==
  /\ alive \in {"nil", "live"}
  /\ InactiveChannel
  /\ UNCHANGED <<callVars, flushVars, writeS, buffer, res, connecting, connects>>

\* The Then callback of a completed alive future.
Teardown ==
  /\ teardown
  /\ teardown' = FALSE
  /\ closeDone' = TRUE
  /\ UNCHANGED <<callVars, flushVars, writeS, buffer, res, alive, connecting, connects>>

----------------------------------------------------------------------------
\* Every call has returned and no flusher runs.
Quiescent == \A c \in Calls : pc[c] = "returned" /\ fpc[c] = "off"

Terminated == Quiescent /\ UNCHANGED vars

CallStep(c) == Enter(c) \/ Push(c) \/ Recheck(c) \/ Kick(c)

FlushStep(f) ==
  \/ LoopTest(f) \/ Pop(f) \/ UnsafeWrite(f) \/ Ack(f)
  \/ FailChannel(f) \/ FailFuture(f) \/ TailTest(f)
  \/ DrainLock(f) \/ Drain(f) \/ ResetState(f)
  \/ LenTest(f) \/ WriteAgain(f)

LifeStep == StartConnect \/ EndConnect \/ Inactivate \/ Teardown

Next ==
  \/ \E c \in Calls : CallStep(c) \/ FlushStep(c)
  \/ LifeStep
  \/ Terminated

Spec == Init /\ [][Next]_vars

\* The Go scheduler runs every runnable goroutine.  A transport write returns:
\* it carries a deadline.  A drain is finite, so writeBufferMu is released and
\* weak fairness of the steps that wait for it suffices.
FairSpec ==
  /\ Spec
  /\ \A c \in Calls : WF_vars(CallStep(c)) /\ WF_vars(FlushStep(c))

----------------------------------------------------------------------------
(* Properties.                                                             *)

TypeOK ==
  /\ pc \in [Calls -> CallStates]
  /\ fpc \in [Calls -> FlusherStates]
  /\ cur \in [Calls -> Calls]
  /\ writeS \in {0, 1}
  /\ buffer \in Seq(Calls)
  /\ res \in [Calls -> Results]
  /\ alive \in {"nil", "live", "done", "failed"}
  /\ connecting \in BOOLEAN
  /\ connects \in Nat
  /\ teardown \in BOOLEAN
  /\ closeDone \in BOOLEAN
  /\ wire \in Seq(Calls)
  /\ pushed \in Seq(Calls)
  /\ dropped \subseteq Calls

\* writeS admits one flusher to the buffer and the transport at a time,
\* although a leaving flusher overlaps with the one a caller spawns.
SingleFlusher ==
  \A f, g \in Calls : fpc[f] \in Owning /\ fpc[g] \in Owning => f = g

\* The transport receives writes in the order in which they were queued,
\* across flushers, failed writes, drains and reconnects.
WireOrder ==
  \A i, j \in DOMAIN wire : i < j =>
    \E m, n \in DOMAIN pushed :
      m < n /\ pushed[m] = wire[i] /\ pushed[n] = wire[j]

\* A queued write always has someone who will come for it: the owner of
\* writeS, a caller about to kick, or a leaving flusher that looks again.
NoStrandedWrite ==
  buffer # <<>> =>
    \/ writeS = 1
    \/ \E c \in Calls : pc[c] = "kick" \/ fpc[c] \in {"len", "again"}

\* Once every goroutine is done, the only unresolved futures are those of
\* the calls that saw the channel inactive at line 90 and active at line 99.
QuiescentResolved ==
  Quiescent => /\ buffer = <<>>
               /\ \A c \in Calls : res[c] = "pending" <=> c \in dropped

\* A queued write is eventually answered, whatever happens to the channel.
QueuedIsAnswered ==
  \A c \in Calls :
    (c \in {pushed[i] : i \in DOMAIN pushed}) ~> (res[c] # "pending")

\* Every call of Write returns, the ones that wait for writeBufferMu too.
WriteReturns == \A c \in Calls : (pc[c] # "idle") ~> (pc[c] = "returned")

----------------------------------------------------------------------------
(* The write path implements WriteContract.                                *)

\* The write a flusher has popped and neither transmitted nor failed.
Holding == {f \in Calls : fpc[f] \in {"write", "fail", "failed"}}
InFlight == IF Holding = {} THEN <<>> ELSE <<cur[CHOOSE f \in Holding : TRUE]>>

Outcome(r) == IF r \in {"pending", "success"} THEN r ELSE "failed"

Contract ==
  INSTANCE WriteContract WITH
    queue <- InFlight \o buffer,
    sent <- wire,
    outcome <- [c \in Calls |-> Outcome(res[c])]

\* Write, its flushers and their drains promise what the contract states.
ImplementsContract == Contract!Spec
============================================================================
