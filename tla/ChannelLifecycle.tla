-------------------------- MODULE ChannelLifecycle --------------------------
(***************************************************************************)
(* The life of one client channel over a connection: Connect, Disconnect,  *)
(* Deregister and Read (channel/unsafe.go), activeChannel, inactiveChannel *)
(* and the callback that tears the channel down (channel/channel.go,       *)
(* channel/netchannel.go), the reader goroutine, and the wrapped           *)
(* connections (channel/conn.go), each named by the Connect that made it.  *)
(*                                                                         *)
(* Every call is an actor of its own: the calls come from any goroutine,   *)
(* handlers included, at any time, and the work they start runs in a       *)
(* goroutine.  A flusher whose transport write fails (see WritePath) goes  *)
(* on like a Deregister: inactiveChannel, then resolve a future.           *)
(***************************************************************************)
EXTENDS Naturals, FiniteSets

CONSTANTS Connects,     \* calls of Connect
          Disconnects,  \* calls of Disconnect
          Deregisters,  \* calls of Deregister, and flushers whose write failed
          Reads,        \* calls of Read made by the user
          MaxData       \* bound: messages the peer sends

Reader == "reader"      \* the goroutine Unsafe.Read spawns
NoConn == "none"        \* a nil connection
Ops == Connects \cup Disconnects \cup Deregisters \cup Reads
Procs == Ops \cup {Reader}

ASSUME OpsDisjoint ==
  /\ Connects \cap (Disconnects \cup Deregisters \cup Reads) = {}
  /\ Disconnects \cap (Deregisters \cup Reads) = {}
  /\ Deregisters \cap Reads = {}
  /\ Reader \notin Ops
  /\ NoConn \notin Connects
ASSUME ConnectsFinite == IsFiniteSet(Connects)
ASSUME MaxDataAssumption == MaxData \in Nat

VARIABLES
  pc,          \* pc[p]: where goroutine p is
  future,      \* future[o]: "pending", "success", "failed"
  alive,       \* "nil", "live", "done" (completed), "failed"
  gen,         \* which alive future it is: activations so far
  callback,    \* callback[g]: progress of the Then callback of activation g
  closeDone,   \* CloseFuture().IsDone()
  connectS, disconnectS, readS,  \* the state flags of DefaultUnsafe
  lastObjRead, \* the reader's local flag
  cur,         \* DefaultNetChannel.conn
  connActive,  \* DefaultConn.active of each connection
  sock,        \* the socket under it: "none", "open", "closed"
  peerOpen,    \* the remote end has not closed it
  rconn,       \* the connection that the reader reads from
  data,        \* messages the peer has sent so far
  events,      \* history: how often each pipeline event was fired
  replaced,    \* history: live alive futures overwritten by activeChannel
  readStuck,   \* history: Read marked readS and found the channel inactive
  ioError,     \* history: connections whose active an I/O error cleared
  overwritten, \* history: connections that a Connect replaced while in use
  clean        \* clean[d]: no Connect overlapped Disconnect d or followed it

opVars == <<future, connectS, disconnectS, readS>>
lifeVars == <<alive, gen, callback, closeDone>>
connVars == <<cur, connActive, sock, peerOpen, rconn, data>>
histVars == <<replaced, readStuck, ioError, overwritten>>

vars == <<pc, future, alive, gen, callback, closeDone, connectS, disconnectS,
          readS, lastObjRead, cur, connActive, sock, peerOpen, rconn, data, events,
          replaced, readStuck, ioError, overwritten, clean>>

Gens == 1..Cardinality(Connects)
EventKinds == {"Active", "Inactive", "Unregistered", "Read", "ReadCompleted"}

Init ==
  /\ pc = [p \in Procs |-> IF p = Reader THEN "off" ELSE "idle"]
  /\ future = [o \in Ops |-> "pending"]
  /\ alive = "nil"
  /\ gen = 0
  /\ callback = [g \in Gens |-> "none"]
  /\ closeDone = FALSE
  /\ connectS = 0 /\ disconnectS = 0 /\ readS = 0
  /\ lastObjRead = FALSE
  /\ cur = NoConn /\ rconn = NoConn
  /\ connActive = [c \in Connects |-> FALSE]
  /\ sock = [c \in Connects |-> "none"]
  /\ peerOpen = [c \in Connects |-> FALSE]
  /\ data = 0
  /\ events = [k \in EventKinds |-> 0]
  /\ replaced = 0
  /\ readStuck = FALSE
  /\ ioError = {} /\ overwritten = {}
  /\ clean = [d \in Disconnects |-> FALSE]

IsActive == alive = "live"

\* Conn().IsActive().
ConnActive == cur # NoConn /\ connActive[cur]

GoTo(p, s) == pc' = [pc EXCEPT ![p] = s]
Fire(k) == events' = [events EXCEPT ![k] = @ + 1]
Resolve(o, r) == future' = [future EXCEPT ![o] = r]

\* Connect calls that have passed their guard and not returned.
Connecting ==
  {o \in Connects : pc[o] \notin {"idle", "ignored", "returned"}}

----------------------------------------------------------------------------
(* inactiveChannel, run by goroutine p from pc "inactive" to pc "after".   *)

\* Mutant of InactiveChannel: the callback is registered by every caller,
\* whether or not its Complete was the first.
InactiveChannelUnchecked(p) ==
  /\ pc[p] = "inactive"
  /\ \/ /\ alive \in {"live", "done"}
        /\ alive' = "done"
        /\ callback' = [callback EXCEPT ![gen] = "inactive"]
        /\ GoTo(p, "unsafeDisconnect")
     \/ /\ alive \in {"nil", "failed"}
        /\ alive' = "failed"
        /\ GoTo(p, "after")
        /\ UNCHANGED callback
  /\ UNCHANGED <<opVars, connVars, histVars, gen, closeDone, events, clean, lastObjRead>>

\* Under aliveMu: the first to complete a live alive future registers the
\* callback; a channel that was never activated gets a failed alive future.
InactiveChannel(p) ==
  /\ pc[p] = "inactive"
  /\ \/ /\ alive = "live"
        /\ alive' = "done"
        /\ callback' = [callback EXCEPT ![gen] = "inactive"]
        /\ GoTo(p, "unsafeDisconnect")
     \/ /\ alive = "nil"
        /\ alive' = "failed"
        /\ GoTo(p, "unregistered")
        /\ UNCHANGED callback
     \/ /\ alive \in {"done", "failed"}
        /\ GoTo(p, "after")
        /\ UNCHANGED <<alive, callback>>
  /\ UNCHANGED <<opVars, connVars, histVars, gen, closeDone, events, clean,
                 lastObjRead>>

FireUnregistered(p) ==
  /\ pc[p] = "unregistered"
  /\ Fire("Unregistered")
  /\ GoTo(p, "after")
  /\ UNCHANGED <<opVars, lifeVars, connVars, histVars, clean, lastObjRead>>

\* UnsafeDisconnect: closes the connection that the channel has by now, unless an
\* I/O error or an earlier Close has cleared its active flag; the socket then stays
\* as it is.
CloseConn ==
  /\ IF ConnActive
     THEN /\ connActive' = [connActive EXCEPT ![cur] = FALSE]
          /\ sock' = [sock EXCEPT ![cur] = "closed"]
     ELSE UNCHANGED <<connActive, sock>>
  /\ UNCHANGED <<cur, peerOpen, rconn, data>>

\* Mutant of DisconnectWinner: inactiveChannel leaves the connection open.
DisconnectWinnerSkips(p) ==
  /\ pc[p] = "unsafeDisconnect"
  /\ GoTo(p, "after")
  /\ UNCHANGED <<opVars, lifeVars, connVars, histVars, events, clean, lastObjRead>>

\* The winner of inactiveChannel on a net channel also disconnects.
DisconnectWinner(p) ==
  /\ pc[p] = "unsafeDisconnect"
  /\ CloseConn
  /\ GoTo(p, "after")
  /\ UNCHANGED <<opVars, lifeVars, histVars, events, clean, lastObjRead>>

\* Mutant of Callback: the close future is forgotten.
CallbackNeverCloses(g) ==
  /\ callback[g] = "inactive"
  /\ events' = [events EXCEPT !["Inactive"] = @ + 1, !["Unregistered"] = @ + 1]
  /\ callback' = [callback EXCEPT ![g] = "done"]
  /\ UNCHANGED <<pc, opVars, alive, gen, closeDone, connVars, histVars, clean, lastObjRead>>

\* The Then callback of activation g: fireInactive, fireUnregistered, and
\* completion of the close future.
Callback(g) ==
  \/ /\ callback[g] = "inactive"
     /\ Fire("Inactive")
     /\ callback' = [callback EXCEPT ![g] = "unregistered"]
     /\ UNCHANGED <<pc, opVars, alive, gen, closeDone, connVars, histVars, clean,
                    lastObjRead>>
  \/ /\ callback[g] = "unregistered"
     /\ Fire("Unregistered")
     /\ callback' = [callback EXCEPT ![g] = "close"]
     /\ UNCHANGED <<pc, opVars, alive, gen, closeDone, connVars, histVars, clean,
                    lastObjRead>>
  \/ /\ callback[g] = "close"
     /\ closeDone' = TRUE
     /\ callback' = [callback EXCEPT ![g] = "done"]
     /\ UNCHANGED <<pc, opVars, alive, gen, events, connVars, histVars, clean,
                    lastObjRead>>

----------------------------------------------------------------------------
(* Read and the reader goroutine.                                          *)

\* Unsafe.Read: marks readS first and looks at IsActive second.
StartRead(p, s) ==
  \/ /\ readS = 0 /\ IsActive
     /\ readS' = 1
     /\ pc' = [pc EXCEPT ![Reader] = "loop", ![p] = s]
     /\ lastObjRead' = FALSE
     /\ UNCHANGED readStuck
  \/ /\ readS = 0 /\ ~IsActive
     /\ readS' = 1
     /\ readStuck' = TRUE
     /\ GoTo(p, s)
     /\ UNCHANGED lastObjRead
  \/ /\ readS = 1
     /\ GoTo(p, s)
     /\ UNCHANGED <<readS, readStuck, lastObjRead>>

\* A call of Read by the user or by a handler.
Read(o) ==
  /\ pc[o] = "idle"
  /\ StartRead(o, "returned")
  /\ UNCHANGED <<future, connectS, disconnectS, lifeVars, connVars, events,
                 replaced, ioError, overwritten, clean>>

ReadLoop ==
  /\ pc[Reader] = "loop"
  /\ GoTo(Reader, IF IsActive THEN "read" ELSE "reset")
  /\ UNCHANGED <<opVars, lifeVars, connVars, histVars, events, clean, lastObjRead>>

\* UnsafeRead looks at IsActive again before it blocks in the connection, which
\* stays the one it reads from when a Connect replaces it.
UnsafeRead ==
  /\ pc[Reader] = "read"
  /\ GoTo(Reader, IF IsActive THEN "receive" ELSE "inactive")
  /\ rconn' = IF IsActive THEN cur ELSE NoConn
  /\ UNCHANGED <<opVars, lifeVars, cur, connActive, sock, peerOpen, data, histVars, events,
                 lastObjRead, clean>>

\* Read or Write of a wrapped connection fails, and clears its active flag.
ConnFails(c) ==
  /\ connActive' = [connActive EXCEPT ![c] = FALSE]
  /\ ioError' = IF connActive[c] THEN ioError \cup {c} ELSE ioError

\* Mutant of Receive: every error is skipped like the deadline.
ReceiveSkipsErrors ==
  /\ pc[Reader] = "receive"
  /\ GoTo(Reader, "skip")
  /\ UNCHANGED <<opVars, lifeVars, connVars, histVars, events, lastObjRead, clean>>

\* The connection's Read: a message, the read deadline (skipped while the
\* connection that the channel has by now is active), or an error.
Receive ==
  /\ pc[Reader] = "receive"
  /\ \/ /\ sock[rconn] = "open" /\ data < MaxData
        /\ data' = data + 1
        /\ GoTo(Reader, "fire")
        /\ UNCHANGED <<connActive, ioError>>
     \/ /\ sock[rconn] = "open" /\ peerOpen[rconn]
        /\ GoTo(Reader, IF ConnActive THEN "skip" ELSE "inactive")
        /\ UNCHANGED <<connActive, data, ioError>>
     \/ /\ sock[rconn] = "closed" \/ ~peerOpen[rconn]
        /\ ConnFails(rconn)
        /\ GoTo(Reader, "inactive")
        /\ UNCHANGED data
  /\ rconn' = NoConn
  /\ UNCHANGED <<opVars, lifeVars, cur, sock, peerOpen, events, replaced, readStuck,
                 overwritten, lastObjRead, clean>>

\* ErrSkip after at least one message completes the read.
SkipRead ==
  /\ pc[Reader] = "skip"
  /\ \/ /\ IsActive /\ lastObjRead
        /\ Fire("ReadCompleted")
        /\ lastObjRead' = FALSE
     \/ /\ ~(IsActive /\ lastObjRead)
        /\ UNCHANGED <<events, lastObjRead>>
  /\ GoTo(Reader, "loop")
  /\ UNCHANGED <<opVars, lifeVars, connVars, histVars, clean>>

FireRead ==
  /\ pc[Reader] = "fire"
  /\ Fire("Read")
  /\ lastObjRead' = TRUE
  /\ GoTo(Reader, "loop")
  /\ UNCHANGED <<opVars, lifeVars, connVars, histVars, clean>>

\* The loop has ended (after inactiveChannel, or on an inactive channel).
EndRead ==
  /\ pc[Reader] \in {"after", "reset"}
  /\ readS' = 0
  /\ GoTo(Reader, "off")
  /\ UNCHANGED <<future, connectS, disconnectS, lifeVars, connVars, histVars,
                 events, clean, lastObjRead>>

----------------------------------------------------------------------------
(* Connect.                                                                *)

\* A call that loses markState, or finds the close future done, is ignored:
\* its future is never resolved, and in the second case connectS stays set.
Connect(o) ==
  /\ pc[o] = "idle"
  /\ \/ /\ connectS = 0 /\ ~closeDone
        /\ connectS' = 1
        /\ clean' = [d \in Disconnects |-> FALSE]
        /\ GoTo(o, "dial")
        /\ UNCHANGED future
     \/ /\ connectS = 1 \/ closeDone
        /\ connectS' = 1
        /\ GoTo(o, "ignored")
        /\ UNCHANGED <<future, clean>>
     \/ /\ Resolve(o, "failed")   \* remoteAddr is nil
        /\ GoTo(o, "returned")
        /\ UNCHANGED <<connectS, clean>>
  /\ UNCHANGED <<disconnectS, readS, lifeVars, connVars, histVars, events, lastObjRead>>

\* The new connection takes the place of the old one, which is not closed.
UnsafeConnect(o) ==
  /\ pc[o] = "dial"
  /\ \/ /\ cur' = o
        /\ connActive' = [connActive EXCEPT ![o] = TRUE]
        /\ sock' = [sock EXCEPT ![o] = "open"]
        /\ peerOpen' = [peerOpen EXCEPT ![o] = TRUE]
        /\ overwritten' = IF ConnActive THEN overwritten \cup {cur} ELSE overwritten
        /\ GoTo(o, "activate")
     \/ /\ GoTo(o, "inactive")
        /\ UNCHANGED <<cur, connActive, sock, peerOpen, overwritten>>
  /\ UNCHANGED <<opVars, lifeVars, rconn, data, events, replaced, readStuck, ioError, clean,
                 lastObjRead>>

\* activeChannel: a new alive future, whatever the old one was, ...
ActiveChannel(o) ==
  /\ pc[o] = "activate"
  /\ alive' = "live"
  /\ gen' = gen + 1
  /\ replaced' = IF alive = "live" THEN replaced + 1 ELSE replaced
  /\ GoTo(o, "fireActive")
  /\ UNCHANGED <<opVars, callback, closeDone, connVars, events, readStuck,
                 ioError, overwritten, clean, lastObjRead>>

\* ... then fireActive, ...
FireActive(o) ==
  /\ pc[o] = "fireActive"
  /\ Fire("Active")
  /\ GoTo(o, "startRead")
  /\ UNCHANGED <<opVars, lifeVars, connVars, histVars, clean, lastObjRead>>

\* ... then Read.
ActiveRead(o) ==
  /\ pc[o] = "startRead"
  /\ StartRead(o, "connected")
  /\ UNCHANGED <<future, connectS, disconnectS, lifeVars, connVars, events,
                 replaced, ioError, overwritten, clean>>

\* The future is resolved before the deferred resetState.
EndConnect(o) ==
  /\ o \in Connects
  /\ pc[o] \in {"connected", "after"}
  /\ Resolve(o, IF pc[o] = "connected" THEN "success" ELSE "failed")
  /\ GoTo(o, "reset")
  /\ UNCHANGED <<connectS, disconnectS, readS, lifeVars, connVars, histVars,
                 events, clean, lastObjRead>>

ResetConnect(o) ==
  /\ o \in Connects
  /\ pc[o] = "reset"
  /\ connectS' = 0
  /\ GoTo(o, "returned")
  /\ UNCHANGED <<future, disconnectS, readS, lifeVars, connVars, histVars, events,
                 clean, lastObjRead>>

----------------------------------------------------------------------------
(* Disconnect and Deregister.                                              *)

Disconnect(o) ==
  /\ pc[o] = "idle"
  /\ disconnectS' = 1
  /\ GoTo(o, IF disconnectS = 0 /\ ~closeDone THEN "inactive" ELSE "ignored")
  /\ clean' = [clean EXCEPT ![o] = Connecting = {}]
  /\ UNCHANGED <<future, connectS, readS, lifeVars, connVars, histVars, events,
                 lastObjRead>>

\* Mutant of DisconnectConn: only the winner of inactiveChannel disconnects.
DisconnectConnSkips(o) ==
  /\ o \in Disconnects
  /\ pc[o] = "after"
  /\ GoTo(o, "disconnected")
  /\ UNCHANGED <<opVars, lifeVars, connVars, histVars, events, clean, lastObjRead>>

\* UnsafeDisconnect after inactiveChannel, also by a call that did not win it.
DisconnectConn(o) ==
  /\ o \in Disconnects
  /\ pc[o] = "after"
  /\ CloseConn
  /\ GoTo(o, "disconnected")
  /\ UNCHANGED <<opVars, lifeVars, histVars, events, clean, lastObjRead>>

EndDisconnect(o) ==
  /\ pc[o] = "disconnected"
  /\ Resolve(o, "success")
  /\ GoTo(o, "reset")
  /\ UNCHANGED <<connectS, disconnectS, readS, lifeVars, connVars, histVars,
                 events, clean, lastObjRead>>

ResetDisconnect(o) ==
  /\ o \in Disconnects
  /\ pc[o] = "reset"
  /\ disconnectS' = 0
  /\ GoTo(o, "returned")
  /\ UNCHANGED <<future, connectS, readS, lifeVars, connVars, histVars, events,
                 clean, lastObjRead>>

\* Deregister has no guard: the tail handler calls inactiveChannel.
Deregister(o) ==
  /\ pc[o] = "idle"
  /\ GoTo(o, "inactive")
  /\ UNCHANGED <<opVars, lifeVars, connVars, histVars, events, clean, lastObjRead>>

\* A flusher's transport write failed: at the deadline or on a connection already
\* closed, or with an error that clears the active flag of the connection that the
\* flusher wrote to, which may have been replaced meanwhile.
WriteFail(o) ==
  /\ pc[o] = "idle"
  /\ IsActive
  /\ \/ UNCHANGED <<connActive, ioError>>
     \/ \E c \in Connects : connActive[c] /\ ConnFails(c)
  /\ GoTo(o, "inactive")
  /\ UNCHANGED <<opVars, lifeVars, cur, sock, peerOpen, rconn, data, events, replaced,
                 readStuck, overwritten, clean, lastObjRead>>

EndDeregister(o) ==
  /\ o \in Deregisters
  /\ pc[o] = "after"
  /\ Resolve(o, "success")
  /\ GoTo(o, "returned")
  /\ UNCHANGED <<connectS, disconnectS, readS, lifeVars, connVars, histVars,
                 events, clean, lastObjRead>>

----------------------------------------------------------------------------
\* The peer closes its end of a connection that somebody may read from.
PeerClose ==
  /\ \E c \in {cur, rconn} \ {NoConn} :
       /\ sock[c] = "open" /\ peerOpen[c]
       /\ peerOpen' = [peerOpen EXCEPT ![c] = FALSE]
  /\ UNCHANGED <<pc, opVars, lifeVars, cur, connActive, sock, rconn, data, histVars, events,
                 clean, lastObjRead>>

\* Nothing is left to do for any goroutine.
Quiescent ==
  /\ \A o \in Ops : pc[o] \in {"ignored", "returned"}
  /\ pc[Reader] = "off"
  /\ \A g \in Gens : callback[g] \in {"none", "done"}

Terminated == Quiescent /\ UNCHANGED vars

Inactivating(p) == InactiveChannel(p) \/ FireUnregistered(p) \/ DisconnectWinner(p)

ReaderStep ==
  \/ ReadLoop \/ UnsafeRead \/ Receive \/ SkipRead \/ FireRead \/ EndRead
  \/ Inactivating(Reader)

ConnectStep(o) ==
  \/ Connect(o) \/ UnsafeConnect(o) \/ ActiveChannel(o) \/ FireActive(o)
  \/ ActiveRead(o) \/ EndConnect(o) \/ ResetConnect(o) \/ Inactivating(o)

DisconnectStep(o) ==
  \/ Disconnect(o) \/ DisconnectConn(o) \/ EndDisconnect(o) \/ ResetDisconnect(o)
  \/ Inactivating(o)

DeregisterStep(o) ==
  \/ Deregister(o) \/ WriteFail(o) \/ EndDeregister(o) \/ Inactivating(o)

Next ==
  \/ \E o \in Connects : ConnectStep(o)
  \/ \E o \in Disconnects : DisconnectStep(o)
  \/ \E o \in Deregisters : DeregisterStep(o)
  \/ \E o \in Reads : Read(o)
  \/ ReaderStep
  \/ \E g \in Gens : Callback(g)
  \/ PeerClose
  \/ Terminated

Spec == Init /\ [][Next]_vars

\* Calls are made when their caller pleases; what they start is then run to
\* its end by the scheduler.  Dial, Read and Close of a connection return:
\* reads carry a deadline and dialling is bounded by the operating system.
FairSpec ==
  /\ Spec
  /\ \A o \in Connects : WF_vars(pc[o] # "idle" /\ ConnectStep(o))
  /\ \A o \in Disconnects : WF_vars(pc[o] # "idle" /\ DisconnectStep(o))
  /\ \A o \in Deregisters : WF_vars(pc[o] # "idle" /\ DeregisterStep(o))
  /\ WF_vars(ReaderStep)
  /\ \A g \in Gens : WF_vars(Callback(g))

----------------------------------------------------------------------------
(* Properties.                                                             *)

\* Of all the goroutines that call inactiveChannel on one activation, one
\* tears it down: every activation but the live one and those overwritten
\* by a second Connect yields exactly one Inactive event, fired or to come.
OneTeardownPerActivation ==
  gen = events["Inactive"] + Cardinality({g \in Gens : callback[g] = "inactive"})
        + replaced + (IF IsActive THEN 1 ELSE 0)

\* A Disconnect that no Connect overlaps has, when its future succeeds, left
\* the channel inactive and its connection out of use, whoever raced with it.
DisconnectTakesEffect ==
  \A d \in Disconnects :
    future[d] = "success" /\ clean[d] => ~IsActive /\ ~ConnActive

\* When all is done on a channel that is not active, whether or not it was torn
\* down, its connection is out of use, and every socket that it ever opened is
\* closed, but for two kinds: those whose flag, by which UnsafeDisconnect decides to
\* close, an I/O error had cleared; and those of connections that were in use when
\* another Connect put its own in their place, which nobody closes.
ConnectionReleased ==
  Quiescent /\ ~IsActive =>
    /\ ~ConnActive
    /\ \A c \in Connects \ overwritten :
         ~connActive[c] /\ (sock[c] = "open" => c \in ioError)

\* A channel that has gone down completes its close future.
DownIsClosed == (alive = "done") ~> closeDone

\* A connection whose peer has gone is noticed: an active channel has a reader
\* or gets one.  Not if an earlier Read marked readS on an inactive channel;
\* and a channel connected again during its teardown may have none, since the
\* new activation's Read loses to the old reader, which then leaves.
DeadPeerNoticed ==
  (IsActive /\ cur # NoConn /\ ~peerOpen[cur]) ~> (~IsActive \/ gen > 1 \/ readStuck)
============================================================================
