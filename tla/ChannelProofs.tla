---------------------------- MODULE ChannelProofs ----------------------------
(***************************************************************************)
(* Proofs about the life of one channel (ChannelLifecycle), for every      *)
(* finite set of Connects and every set of Disconnects, Deregisters and    *)
(* Reads.  The argument:                                                   *)
(*   - GenBound: an activation belongs to a Connect of its own, so that    *)
(*     there is a callback for each;                                       *)
(*   - Teardowns: the live activation has no callback yet, and each of the *)
(*     others has fired Inactive, is about to, or was overwritten;         *)
(*   - Effective: what a Disconnect that no Connect overlaps has achieved  *)
(*     by each of its steps;                                               *)
(*   - Released: the channel's connection in use belongs to a live         *)
(*     channel, or to a goroutine that activates or disconnects; any other *)
(*     one in use was overwritten.                                         *)
(* And about the channels of the UDP server (UdpServer), for every set of  *)
(* clients, children and buffers.  The argument:                           *)
(*   - BuffersApart: a buffer that somebody reads into or has read is not  *)
(*     in the pool, and nobody else's;                                     *)
(*   - Own: a datagram on its way to a child's pipeline is of its client;  *)
(*   - Apart, Counted: a datagram that arrived is at one place at a time,  *)
(*     and every step but an arrival moves datagrams from place to place;  *)
(*   - GivenOnce: no pipeline got a datagram twice.                        *)
(***************************************************************************)
EXTENDS ChannelLifecycle, UdpServer, Integers, FiniteSetTheorems, SequenceTheorems, TLAPS

----------------------------------------------------------------------------
(* The life of one channel.                                                *)

Places == {"off", "idle", "ignored", "returned", "inactive", "unregistered", "unsafeDisconnect",
           "after", "loop", "read", "receive", "skip", "fire", "reset", "dial", "activate",
           "fireActive", "startRead", "connected", "disconnected"}

TypeOK ==
  /\ pc \in [Procs -> Places]
  /\ future \in [Ops -> {"pending", "success", "failed"}]
  /\ alive \in {"nil", "live", "done", "failed"}
  /\ gen \in Nat
  /\ callback \in [Gens -> {"none", "inactive", "unregistered", "close", "done"}]
  /\ closeDone \in BOOLEAN
  /\ connectS \in {0, 1} /\ disconnectS \in {0, 1} /\ readS \in {0, 1}
  /\ lastObjRead \in BOOLEAN
  /\ cur \in Connects \cup {NoConn} /\ rconn \in Connects \cup {NoConn}
  /\ connActive \in [Connects -> BOOLEAN]
  /\ sock \in [Connects -> {"none", "open", "closed"}]
  /\ peerOpen \in [Connects -> BOOLEAN]
  /\ data \in Nat
  /\ events \in [EventKinds -> Nat]
  /\ replaced \in Nat
  /\ readStuck \in BOOLEAN
  /\ ioError \subseteq Connects \cup {NoConn} /\ overwritten \subseteq Connects
  /\ clean \in [Disconnects -> BOOLEAN]

\* Connects that may still activate the channel.
Ahead == {o \in Connects : pc[o] \in {"idle", "dial", "activate"}}
GenBound == gen + Cardinality(Ahead) <= Cardinality(Connects)

FiringInactive == {g \in Gens : callback[g] = "inactive"}

\* The live activation, and those to come, have no callback.
NoneYet ==
  /\ alive = "live" => gen \in Gens /\ callback[gen] = "none"
  /\ \A g \in Gens : g > gen => callback[g] = "none"

Teardowns == GenBound /\ NoneYet /\ OneTeardownPerActivation

\* No Connect overlaps d or follows it.
Undisturbed == \A d \in Disconnects : clean[d] => Connecting = {}

\* What a Disconnect has achieved by each of its steps: it, or another, has made
\* the channel inactive, and it has put the connection out of use.
Effective ==
  \A d \in Disconnects :
    /\ future[d] = "success" => pc[d] \in {"reset", "returned"}
    /\ pc[d] \in {"idle", "ignored", "inactive", "unregistered", "unsafeDisconnect", "after",
                  "disconnected", "reset", "returned"}
    /\ clean[d] /\ pc[d] \notin {"idle", "ignored", "inactive"} => ~IsActive
    /\ clean[d] /\ pc[d] \in {"disconnected", "reset", "returned"} => ~ConnActive

\* The reader runs only while readS is marked.
ReaderMarked == pc[Reader] # "off" => readS = 1

\* Who has the connection in use, and why others may be, or an open socket left.
Released ==
  /\ ConnActive => \/ IsActive
                   \/ \E p \in Procs : pc[p] = "unsafeDisconnect"
                   \/ \E o \in Connects : pc[o] = "activate"
  /\ \A c \in Connects : /\ connActive[c] => c = cur \/ c \in overwritten
                         /\ sock[c] = "open" => connActive[c] \/ c \in ioError

IInv == TypeOK /\ Teardowns /\ Undisturbed /\ Effective /\ ReaderMarked /\ Released

-----------------------------------------------------------------------------
(* Type correctness.                                                       *)

\* There is a callback for each activation, of which there are finitely many.
LEMMA GensFinite ==
  /\ Cardinality(Connects) \in Nat
  /\ IsFiniteSet(Gens) /\ \A g \in Gens : g \in Nat
<1>1. Cardinality(Connects) \in Nat
  BY ConnectsFinite, FS_CardinalityType
<1> QED BY <1>1, FS_Interval DEF Gens

\* The initial state has the types TypeOK states.
LEMMA TypeInit == Init => TypeOK
<1> SUFFICES ASSUME Init PROVE TypeOK
  OBVIOUS
<1>1. /\ pc \in [Procs -> Places] /\ future \in [Ops -> {"pending", "success", "failed"}]
      /\ callback \in [Gens -> {"none", "inactive", "unregistered", "close", "done"}]
      /\ events \in [EventKinds -> Nat] /\ clean \in [Disconnects -> BOOLEAN]
      /\ connActive \in [Connects -> BOOLEAN] /\ peerOpen \in [Connects -> BOOLEAN]
      /\ sock \in [Connects -> {"none", "open", "closed"}]
  BY DEF Init, Places
<1>2. /\ alive = "nil" /\ gen = 0 /\ closeDone = FALSE /\ connectS = 0 /\ disconnectS = 0
      /\ readS = 0 /\ lastObjRead = FALSE /\ cur = NoConn /\ rconn = NoConn
      /\ data = 0 /\ replaced = 0 /\ readStuck = FALSE /\ ioError = {} /\ overwritten = {}
  BY DEF Init
<1> QED BY <1>1, <1>2, Zenon DEF TypeOK

\* What StartRead writes keeps its types.
LEMMA StartReadType ==
  ASSUME TypeOK, NEW p \in Procs, NEW s \in Places, StartRead(p, s)
  PROVE  /\ pc' \in [Procs -> Places] /\ readS' \in {0, 1}
         /\ readStuck' \in BOOLEAN /\ lastObjRead' \in BOOLEAN
BY DEF TypeOK, StartRead, GoTo, Places, Procs

\* So do the writes of CloseConn.
LEMMA CloseConnType ==
  ASSUME TypeOK, NEW p \in Procs, NEW s \in Places, CloseConn, GoTo(p, s)
  PROVE  /\ pc' \in [Procs -> Places] /\ connActive' \in [Connects -> BOOLEAN]
         /\ sock' \in [Connects -> {"none", "open", "closed"}]
         /\ UNCHANGED <<cur, peerOpen, rconn, data>>
BY DEF TypeOK, CloseConn, GoTo, Procs

\* The steps of inactiveChannel keep the types.
LEMMA InactivatingType ==
  ASSUME TypeOK, NoneYet, NEW p \in Procs, Inactivating(p)
  PROVE  TypeOK'
<1> USE DEF TypeOK, NoneYet, opVars, lifeVars, connVars, histVars, GoTo, Fire
<1>1. CASE InactiveChannel(p)
  <2>1. pc' \in [Procs -> Places] /\ alive' \in {"nil", "live", "done", "failed"}
    BY <1>1 DEF InactiveChannel, Places
  <2>2. callback' \in [Gens -> {"none", "inactive", "unregistered", "close", "done"}]
    BY <1>1 DEF InactiveChannel
  <2> QED BY <1>1, <2>1, <2>2 DEF InactiveChannel
<1>2. CASE FireUnregistered(p)
  BY <1>2 DEF FireUnregistered, Places, EventKinds
<1>3. CASE DisconnectWinner(p)
  <2>1. "after" \in Places
    BY DEF Places
  <2>2. /\ pc' \in [Procs -> Places] /\ connActive' \in [Connects -> BOOLEAN]
        /\ sock' \in [Connects -> {"none", "open", "closed"}]
        /\ UNCHANGED <<cur, peerOpen, rconn, data>>
    BY <1>3, <2>1, CloseConnType, Zenon DEF DisconnectWinner
  <2> QED BY <1>3, <2>2 DEF DisconnectWinner
<1> QED BY <1>1, <1>2, <1>3 DEF Inactivating

\* Every step of a call, the reader, a callback or the peer keeps the types.
LEMMA TypeStep == TypeOK /\ NoneYet /\ [Next]_vars => TypeOK'
<1> SUFFICES ASSUME TypeOK, NoneYet, [Next]_vars PROVE TypeOK'
  OBVIOUS
<1> USE DEF opVars, lifeVars, connVars, histVars, GoTo, Fire, Resolve
<1>r. Reader \in Procs
  BY DEF Procs
<1>1. ASSUME NEW o \in Connects, ConnectStep(o) PROVE TypeOK'
  <2>o. o \in Ops /\ o \in Procs
    BY DEF Ops, Procs
  <2>1. CASE Connect(o)
    <3>1. pc' \in [Procs -> Places] /\ connectS' \in {0, 1}
      BY <2>1, <2>o DEF TypeOK, Connect, Places
    <3>2. /\ future' \in [Ops -> {"pending", "success", "failed"}]
          /\ clean' \in [Disconnects -> BOOLEAN]
      BY <2>1, <2>o DEF TypeOK, Connect
    <3> QED BY <2>1, <3>1, <3>2 DEF TypeOK, Connect
  <2>2. CASE UnsafeConnect(o)
    <3>1. pc' \in [Procs -> Places]
      BY <2>2, <2>o DEF TypeOK, UnsafeConnect, Places
    <3>2. /\ connActive' \in [Connects -> BOOLEAN] /\ peerOpen' \in [Connects -> BOOLEAN]
          /\ sock' \in [Connects -> {"none", "open", "closed"}]
          /\ cur' \in Connects \cup {NoConn} /\ overwritten' \subseteq Connects
      BY <2>2 DEF TypeOK, UnsafeConnect, ConnActive
    <3> QED BY <2>2, <3>1, <3>2 DEF TypeOK, UnsafeConnect
  <2>3. CASE ActiveChannel(o) BY <2>3, <2>o DEF TypeOK, ActiveChannel, Places
  <2>4. CASE FireActive(o) BY <2>4, <2>o DEF TypeOK, FireActive, Places, EventKinds
  <2>5. CASE ActiveRead(o)
    <3>1. "connected" \in Places
      BY DEF Places
    <3>2. /\ pc' \in [Procs -> Places] /\ readS' \in {0, 1}
          /\ readStuck' \in BOOLEAN /\ lastObjRead' \in BOOLEAN
      BY <2>5, <2>o, <3>1, StartReadType DEF ActiveRead
    <3> QED BY <2>5, <3>2 DEF TypeOK, ActiveRead
  <2>6. CASE EndConnect(o) BY <2>6, <2>o DEF TypeOK, EndConnect, Places
  <2>7. CASE ResetConnect(o) BY <2>7, <2>o DEF TypeOK, ResetConnect, Places
  <2> QED
    BY <1>1, <2>o, <2>1, <2>2, <2>3, <2>4, <2>5, <2>6, <2>7, InactivatingType DEF ConnectStep
<1>2. ASSUME NEW o \in Disconnects, DisconnectStep(o) PROVE TypeOK'
  <2>o. o \in Ops /\ o \in Procs
    BY DEF Ops, Procs
  <2>1. CASE Disconnect(o)
    <3>1. clean' \in [Disconnects -> BOOLEAN]
      BY <2>1 DEF TypeOK, Disconnect
    <3>2. pc' \in [Procs -> Places] /\ disconnectS' \in {0, 1}
      BY <2>1, <2>o DEF TypeOK, Disconnect, Places
    <3> QED BY <2>1, <3>1, <3>2 DEF TypeOK, Disconnect
  <2>2. CASE DisconnectConn(o)
    <3>1. "disconnected" \in Places
      BY DEF Places
    <3>2. /\ pc' \in [Procs -> Places] /\ connActive' \in [Connects -> BOOLEAN]
          /\ sock' \in [Connects -> {"none", "open", "closed"}]
          /\ UNCHANGED <<cur, peerOpen, rconn, data>>
      BY <2>2, <2>o, <3>1, CloseConnType, Zenon DEF DisconnectConn
    <3> QED BY <2>2, <3>2 DEF TypeOK, DisconnectConn
  <2>3. CASE EndDisconnect(o) BY <2>3, <2>o DEF TypeOK, EndDisconnect, Places
  <2>4. CASE ResetDisconnect(o) BY <2>4, <2>o DEF TypeOK, ResetDisconnect, Places
  <2> QED BY <1>2, <2>o, <2>1, <2>2, <2>3, <2>4, InactivatingType DEF DisconnectStep
<1>3. ASSUME NEW o \in Deregisters, DeregisterStep(o) PROVE TypeOK'
  <2>o. o \in Ops /\ o \in Procs
    BY DEF Ops, Procs
  <2>1. CASE Deregister(o) BY <2>1, <2>o DEF TypeOK, Deregister, Places
  <2>2. CASE WriteFail(o)
    <3>1. pc' \in [Procs -> Places]
      BY <2>2, <2>o DEF TypeOK, WriteFail, Places
    <3>2. connActive' \in [Connects -> BOOLEAN] /\ ioError' \subseteq Connects \cup {NoConn}
      BY <2>2 DEF TypeOK, WriteFail, ConnFails
    <3> QED BY <2>2, <3>1, <3>2 DEF TypeOK, WriteFail
  <2>3. CASE EndDeregister(o) BY <2>3, <2>o DEF TypeOK, EndDeregister, Places
  <2> QED BY <1>3, <2>o, <2>1, <2>2, <2>3, InactivatingType DEF DeregisterStep
<1>4. ASSUME NEW o \in Reads, Read(o) PROVE TypeOK'
  <2>1. o \in Procs /\ "returned" \in Places
    BY DEF Ops, Procs, Places
  <2>2. /\ pc' \in [Procs -> Places] /\ readS' \in {0, 1}
        /\ readStuck' \in BOOLEAN /\ lastObjRead' \in BOOLEAN
    BY <1>4, <2>1, StartReadType DEF Read
  <2> QED BY <1>4, <2>2 DEF TypeOK, Read
<1>5. CASE ReaderStep
  <2>1. CASE ReadLoop BY <2>1, <1>r DEF TypeOK, ReadLoop, Places
  <2>2. CASE UnsafeRead BY <2>2, <1>r DEF TypeOK, UnsafeRead, Places
  <2>3. CASE Receive
    <3>1. \E s \in Places : pc' = [pc EXCEPT ![Reader] = s]
      BY <2>3 DEF Receive, Places
    <3>2. pc' \in [Procs -> Places]
      BY <3>1, <1>r DEF TypeOK
    <3>3. data' \in Nat
      BY <2>3 DEF TypeOK, Receive
    <3>4. connActive' \in [Connects -> BOOLEAN] /\ ioError' \subseteq Connects \cup {NoConn}
      BY <2>3 DEF TypeOK, Receive, ConnFails
    <3> QED BY <2>3, <3>2, <3>3, <3>4 DEF TypeOK, Receive
  <2>4. CASE SkipRead
    <3>1. pc' \in [Procs -> Places] /\ lastObjRead' \in BOOLEAN
      BY <2>4, <1>r, Zenon DEF TypeOK, SkipRead, Places
    <3>2. events' \in [EventKinds -> Nat]
      BY <2>4 DEF TypeOK, SkipRead, EventKinds
    <3> QED BY <2>4, <3>1, <3>2 DEF TypeOK, SkipRead
  <2>5. CASE FireRead BY <2>5, <1>r DEF TypeOK, FireRead, Places, EventKinds
  <2>6. CASE EndRead BY <2>6, <1>r DEF TypeOK, EndRead, Places
  <2> QED
    BY <1>5, <1>r, <2>1, <2>2, <2>3, <2>4, <2>5, <2>6, InactivatingType DEF ReaderStep
<1>6. ASSUME NEW g \in Gens, Callback(g) PROVE TypeOK'
  <2>1. callback' \in [Gens -> {"none", "inactive", "unregistered", "close", "done"}]
    BY <1>6 DEF TypeOK, Callback
  <2>2. events' \in [EventKinds -> Nat]
    BY <1>6 DEF TypeOK, Callback, EventKinds
  <2>3. closeDone' \in BOOLEAN
    BY <1>6, Zenon DEF TypeOK, Callback
  <2>4. UNCHANGED <<pc, opVars, alive, gen, connVars, histVars, clean, lastObjRead>>
    BY <1>6 DEF Callback
  <2> QED BY <2>1, <2>2, <2>3, <2>4 DEF TypeOK
<1>7. CASE PeerClose
  <2>1. /\ peerOpen' \in [Connects -> BOOLEAN]
        /\ UNCHANGED <<cur, connActive, sock, rconn, data, opVars, lifeVars, histVars, events,
                       clean, lastObjRead, pc>>
    BY <1>7 DEF TypeOK, PeerClose
  <2> QED BY <2>1 DEF TypeOK
<1>8. CASE UNCHANGED vars
  <2>1. /\ UNCHANGED <<pc, future, alive, gen, callback, connectS, disconnectS, readS>>
        /\ UNCHANGED <<sock, data, events, replaced, clean, cur, rconn, overwritten>>
    BY <1>8 DEF vars
  <2>2. UNCHANGED <<closeDone, lastObjRead, connActive, peerOpen, readStuck, ioError>>
    BY <1>8 DEF vars
  <2> QED BY <2>1, <2>2 DEF TypeOK
<1> QED BY <1>1, <1>2, <1>3, <1>4, <1>5, <1>6, <1>7, <1>8 DEF Next, Terminated

-----------------------------------------------------------------------------
(* How the goroutines move.                                                *)

\* The steps inactiveChannel takes for p are steps of p alone.
LEMMA InactivatingMoves ==
  ASSUME TypeOK, NEW p \in Procs, Inactivating(p)
  PROVE  /\ pc[p] \in {"inactive", "unregistered", "unsafeDisconnect"}
         /\ pc'[p] \in {"unregistered", "unsafeDisconnect", "after"}
         /\ \A q \in Procs : q # p => pc'[q] = pc[q]
         /\ UNCHANGED <<opVars, gen, replaced, readStuck, clean>>
BY DEF TypeOK, Inactivating, InactiveChannel, FireUnregistered, DisconnectWinner, CloseConn,
       GoTo, lifeVars, connVars, histVars

\* A Connect dials once, activates the channel at most once, and is over when it
\* has returned; as it begins to dial it disturbs every Disconnect.
ConnectMove(o) ==
  \/ pc'[o] = pc[o]
  \/ pc[o] = "idle" /\ pc'[o] = "dial" /\ \A d \in Disconnects : ~clean'[d]
  \/ pc[o] = "idle" /\ pc'[o] \in {"ignored", "returned"}
  \/ pc[o] = "dial" /\ pc'[o] \in {"activate", "inactive"}
  \/ pc[o] = "activate" /\ pc'[o] = "fireActive"
  \/ /\ pc[o] \notin {"idle", "ignored", "returned", "dial", "activate"}
     /\ pc'[o] \notin {"idle", "dial", "activate"}

\* How a step moves a Connect.
LEMMA ConnectMoves ==
  ASSUME TypeOK, [Next]_vars, NEW o \in Connects
  PROVE  ConnectMove(o)
<1> USE DEF opVars, lifeVars, connVars, histVars, GoTo, ConnectMove
<1>o. o \in Procs /\ o # Reader /\ o \notin Disconnects /\ o \notin Deregisters /\ o \notin Reads
  BY OpsDisjoint DEF Ops, Procs
<1>t. pc \in [Procs -> Places] /\ clean \in [Disconnects -> BOOLEAN]
  BY DEF TypeOK
<1>1. ASSUME NEW q \in Connects, ConnectStep(q) PROVE ConnectMove(o)
  <2>q. q \in Procs /\ q # Reader
    BY OpsDisjoint DEF Ops, Procs
  <2>1. CASE Connect(q) BY <2>1, <1>o, <1>t, <2>q DEF Connect
  <2>2. CASE UnsafeConnect(q) BY <2>2, <1>o, <1>t, <2>q DEF UnsafeConnect
  <2>3. CASE ActiveChannel(q) BY <2>3, <1>o, <1>t, <2>q DEF ActiveChannel
  <2>4. CASE FireActive(q) BY <2>4, <1>o, <1>t, <2>q DEF FireActive
  <2>5. CASE ActiveRead(q) BY <2>5, <1>o, <1>t, <2>q DEF ActiveRead, StartRead
  <2>6. CASE EndConnect(q) BY <2>6, <1>o, <1>t, <2>q DEF EndConnect
  <2>7. CASE ResetConnect(q) BY <2>7, <1>o, <1>t, <2>q DEF ResetConnect
  <2>8. CASE Inactivating(q) BY <2>8, <1>o, <2>q, InactivatingMoves
  <2> QED BY <1>1, <2>1, <2>2, <2>3, <2>4, <2>5, <2>6, <2>7, <2>8 DEF ConnectStep
<1>2. ASSUME NEW q \in Disconnects, DisconnectStep(q) PROVE pc'[o] = pc[o]
  <2>q. q \in Procs /\ q # o
    BY <1>o DEF Ops, Procs
  <2> QED
    BY <1>2, <1>o, <1>t, <2>q, InactivatingMoves
    DEF DisconnectStep, Disconnect, DisconnectConn, EndDisconnect, ResetDisconnect
<1>3. ASSUME NEW q \in Deregisters, DeregisterStep(q) PROVE pc'[o] = pc[o]
  <2>q. q \in Procs /\ q # o
    BY <1>o DEF Ops, Procs
  <2> QED
    BY <1>3, <1>o, <1>t, <2>q, InactivatingMoves
    DEF DeregisterStep, Deregister, WriteFail, EndDeregister
<1>4. ASSUME NEW q \in Reads, Read(q) PROVE pc'[o] = pc[o]
  BY <1>4, <1>o, <1>t DEF Read, StartRead, Ops, Procs
<1>5. CASE ReaderStep
  <2>1. Reader \in Procs
    BY DEF Procs
  <2> QED
    BY <1>5, <1>o, <1>t, <2>1, InactivatingMoves
    DEF ReaderStep, ReadLoop, UnsafeRead, Receive, SkipRead, FireRead, EndRead
<1>6. ASSUME NEW g \in Gens, Callback(g) PROVE pc'[o] = pc[o]
  BY <1>6 DEF Callback
<1>7. CASE PeerClose \/ Terminated \/ UNCHANGED vars
  BY <1>7 DEF PeerClose, Terminated, vars
<1> QED BY <1>1, <1>2, <1>3, <1>4, <1>5, <1>6, <1>7 DEF Next

\* Only Connect, inactiveChannel and the callbacks touch the alive futures and
\* what is known of them.
Still == /\ UNCHANGED <<alive, gen, callback, replaced>>
         /\ events'["Inactive"] = events["Inactive"]

\* Only an activation, a teardown or its callback changes the life of a channel.
LEMMA LifeMoves ==
  ASSUME TypeOK, [Next]_vars
  PROVE  \/ Still
         \/ \E o \in Connects : ActiveChannel(o)
         \/ \E p \in Procs : InactiveChannel(p)
         \/ \E g \in Gens : Callback(g)
<1> USE DEF opVars, lifeVars, connVars, histVars, Fire, Still
<1>t. events \in [EventKinds -> Nat]
  BY DEF TypeOK
<1>i. ASSUME NEW p \in Procs, FireUnregistered(p) \/ DisconnectWinner(p) PROVE Still
  BY <1>i, <1>t DEF FireUnregistered, DisconnectWinner, CloseConn, EventKinds
<1>1. ASSUME NEW o \in Connects, ConnectStep(o), ~ActiveChannel(o), ~InactiveChannel(o)
      PROVE  Still
  <2>1. o \in Procs
    BY DEF Ops, Procs
  <2> QED
    BY <1>1, <1>t, <1>i, <2>1
    DEF ConnectStep, Connect, UnsafeConnect, FireActive, ActiveRead, EndConnect, ResetConnect,
        Inactivating, EventKinds
<1>2. ASSUME NEW o \in Disconnects, DisconnectStep(o), ~InactiveChannel(o) PROVE Still
  <2>1. o \in Procs
    BY DEF Ops, Procs
  <2> QED
    BY <1>2, <1>i, <2>1
    DEF DisconnectStep, Disconnect, DisconnectConn, CloseConn, EndDisconnect, ResetDisconnect,
        Inactivating
<1>3. ASSUME NEW o \in Deregisters, DeregisterStep(o), ~InactiveChannel(o) PROVE Still
  <2>1. o \in Procs
    BY DEF Ops, Procs
  <2> QED
    BY <1>3, <1>i, <2>1
    DEF DeregisterStep, Deregister, WriteFail, EndDeregister, Inactivating
<1>4. ASSUME NEW o \in Reads, Read(o) PROVE Still
  BY <1>4 DEF Read
<1>5. ASSUME ReaderStep, ~InactiveChannel(Reader) PROVE Still
  <2>1. Reader \in Procs
    BY DEF Procs
  <2> QED
    BY <1>5, <1>t, <1>i, <2>1
    DEF ReaderStep, ReadLoop, UnsafeRead, Receive, SkipRead, FireRead, EndRead, Inactivating,
        EventKinds
<1>6. CASE PeerClose \/ Terminated \/ UNCHANGED vars
  BY <1>6 DEF PeerClose, Terminated, vars
<1>p. Connects \subseteq Procs /\ Disconnects \subseteq Procs /\ Deregisters \subseteq Procs
      /\ Reader \in Procs
  BY DEF Ops, Procs
<1> QED BY <1>p, <1>1, <1>2, <1>3, <1>4, <1>5, <1>6 DEF Next

-----------------------------------------------------------------------------
(* One teardown for each activation.                                       *)

\* At first every Connect is ahead and no activation has a callback.
LEMMA TeardownsInit == Init => Teardowns
<1> SUFFICES ASSUME Init PROVE Teardowns
  OBVIOUS
<1>1. Ahead \subseteq Connects /\ gen = 0
  BY DEF Init, Ahead
<1>2. Cardinality(Ahead) <= Cardinality(Connects) /\ Cardinality(Ahead) \in Nat
  BY <1>1, ConnectsFinite, FS_Subset, FS_CardinalityType
<1>3. FiringInactive = {}
  BY DEF Init, FiringInactive
<1>4. Cardinality({g \in Gens : callback[g] = "inactive"}) = 0
  BY <1>3, FS_EmptySet DEF FiringInactive
<1>5. OneTeardownPerActivation
  BY <1>4 DEF Init, OneTeardownPerActivation, IsActive, EventKinds
<1>6. GenBound
  BY <1>1, <1>2, GensFinite DEF GenBound
<1> QED BY <1>5, <1>6 DEF Init, Teardowns, NoneYet

\* An activation uses up one of the Connects that were ahead.
LEMMA GenBoundStep == TypeOK /\ GenBound /\ [Next]_vars => GenBound'
<1> SUFFICES ASSUME TypeOK, GenBound, [Next]_vars PROVE GenBound'
  OBVIOUS
<1>a. Ahead' \subseteq Ahead
  BY ConnectMoves DEF Ahead, ConnectMove
<1>f. IsFiniteSet(Ahead) /\ Cardinality(Ahead) \in Nat /\ gen \in Nat
      /\ Cardinality(Connects) \in Nat
  BY ConnectsFinite, FS_Subset, FS_CardinalityType DEF Ahead, TypeOK
<1>g. Cardinality(Ahead') <= Cardinality(Ahead) /\ Cardinality(Ahead') \in Nat
  BY <1>a, <1>f, FS_Subset, FS_CardinalityType
<1>1. CASE UNCHANGED gen
  BY <1>1, <1>f, <1>g DEF GenBound
<1>2. ASSUME NEW o \in Connects, ActiveChannel(o) PROVE GenBound'
  <2>1. o \in Ahead /\ o \notin Ahead' /\ gen' = gen + 1
    BY <1>2 DEF ActiveChannel, Ahead, GoTo, TypeOK, Ops, Procs
  <2>2. Ahead' \subseteq Ahead \ {o}
    BY <1>a, <2>1
  <2>3. IsFiniteSet(Ahead \ {o}) /\ Cardinality(Ahead \ {o}) = Cardinality(Ahead) - 1
    BY <1>f, <2>1, FS_RemoveElement
  <2>4. Cardinality(Ahead') <= Cardinality(Ahead) - 1
    BY <2>2, <2>3, FS_Subset
  <2> QED BY <1>f, <1>g, <2>1, <2>4 DEF GenBound
<1>3. CASE ~UNCHANGED gen
  <2>1. \E o \in Connects : ActiveChannel(o)
    BY <1>3, LifeMoves, Zenon DEF Still, InactiveChannel, lifeVars, Callback
  <2> QED BY <2>1, <1>2
<1> QED BY <1>1, <1>3

\* Whoever completes a live alive future finds no callback, and registers the one.
LEMMA TeardownsStep == TypeOK /\ Teardowns /\ [Next]_vars => Teardowns'
<1> SUFFICES ASSUME TypeOK, Teardowns, [Next]_vars PROVE Teardowns'
  OBVIOUS
<1>b. GenBound'
  BY GenBoundStep DEF Teardowns
<1>t. /\ gen \in Nat /\ replaced \in Nat /\ events["Inactive"] \in Nat
      /\ callback \in [Gens -> {"none", "inactive", "unregistered", "close", "done"}]
      /\ alive \in {"nil", "live", "done", "failed"}
  BY DEF TypeOK, EventKinds
<1>f. IsFiniteSet(FiringInactive) /\ Cardinality(FiringInactive) \in Nat
  BY GensFinite, FS_Subset, FS_CardinalityType DEF FiringInactive
<1>n. NoneYet /\ OneTeardownPerActivation
  BY DEF Teardowns
<1>c. gen = events["Inactive"] + Cardinality(FiringInactive) + replaced
            + (IF alive = "live" THEN 1 ELSE 0)
  BY <1>n DEF OneTeardownPerActivation, FiringInactive, IsActive
<1>s. SUFFICES ASSUME TRUE
      PROVE /\ NoneYet'
            /\ gen' = events'["Inactive"] + Cardinality(FiringInactive') + replaced'
                      + (IF alive' = "live" THEN 1 ELSE 0)
  BY <1>b DEF Teardowns, OneTeardownPerActivation, FiringInactive, IsActive
<1> DEFINE Goal == /\ NoneYet'
                   /\ gen' = events'["Inactive"] + Cardinality(FiringInactive') + replaced'
                             + (IF alive' = "live" THEN 1 ELSE 0)
<1>1. CASE Still
  <2>1. FiringInactive' = FiringInactive
    BY <1>1 DEF Still, FiringInactive
  <2> QED BY <1>1, <1>c, <1>n, <2>1 DEF Still, NoneYet
<1>2. ASSUME NEW o \in Connects, ActiveChannel(o) PROVE Goal
  <2>1. /\ alive' = "live" /\ gen' = gen + 1 /\ UNCHANGED <<callback, events>>
        /\ replaced' = IF alive = "live" THEN replaced + 1 ELSE replaced
    BY <1>2 DEF ActiveChannel
  <2>2. FiringInactive' = FiringInactive
    BY <2>1 DEF FiringInactive
  <2>3. gen' \in Gens
    <3>1. gen' + Cardinality(Ahead') <= Cardinality(Connects)
      BY <1>b DEF GenBound
    <3>2. Cardinality(Ahead') \in Nat
      <4>1. Ahead' \subseteq Connects
        BY DEF Ahead
      <4> QED BY <4>1, ConnectsFinite, FS_Subset, FS_CardinalityType
    <3> QED BY <1>t, <2>1, <3>1, <3>2, GensFinite DEF Gens
  <2>4. NoneYet'
    BY <1>n, <1>t, <2>1, <2>3, GensFinite DEF NoneYet
  <2>5. gen' = events'["Inactive"] + Cardinality(FiringInactive') + replaced'
               + (IF alive' = "live" THEN 1 ELSE 0)
    BY <1>c, <1>f, <1>t, <2>1, <2>2
  <2> QED BY <2>4, <2>5
<1>3. ASSUME NEW p \in Procs, InactiveChannel(p) PROVE Goal
  <2>1. UNCHANGED <<gen, replaced, events>>
    BY <1>3 DEF InactiveChannel, histVars
  <2>2. CASE alive = "live"
    <3>1. alive' = "done" /\ callback' = [callback EXCEPT ![gen] = "inactive"]
      BY <1>3, <2>2 DEF InactiveChannel
    <3>2. gen \in Gens /\ callback[gen] = "none"
      BY <1>n, <2>2 DEF NoneYet
    <3>3. FiringInactive' = FiringInactive \cup {gen} /\ gen \notin FiringInactive
      BY <3>1, <3>2, <1>t DEF FiringInactive
    <3>4. Cardinality(FiringInactive') = Cardinality(FiringInactive) + 1
      BY <3>3, <1>f, FS_AddElement
    <3>5. NoneYet'
      BY <1>n, <1>t, <2>1, <3>1 DEF NoneYet
    <3> QED BY <1>c, <1>f, <1>t, <2>1, <2>2, <3>1, <3>4, <3>5
  <2>3. CASE alive # "live"
    <3>1. UNCHANGED callback /\ alive' # "live"
      BY <1>3, <2>3, <1>t DEF InactiveChannel
    <3>2. FiringInactive' = FiringInactive
      BY <3>1 DEF FiringInactive
    <3> QED BY <1>c, <1>n, <2>1, <2>3, <3>1, <3>2 DEF NoneYet
  <2> QED BY <2>2, <2>3
<1>4. ASSUME NEW g \in Gens, Callback(g) PROVE Goal
  <2>1. UNCHANGED <<alive, gen, replaced>> /\ callback[g] # "none"
    BY <1>4 DEF Callback, histVars
  <2>2. \A h \in Gens : h # g => callback'[h] = callback[h]
    BY <1>4, <1>t DEF Callback
  <2>3. NoneYet'
    BY <1>n, <2>1, <2>2 DEF NoneYet
  <2>4. CASE callback[g] = "inactive"
    <3>1. events'["Inactive"] = events["Inactive"] + 1 /\ callback'[g] = "unregistered"
      BY <1>4, <2>4, <1>t DEF Callback, Fire, TypeOK, EventKinds
    <3>2. FiringInactive' = FiringInactive \ {g} /\ g \in FiringInactive
      BY <2>2, <2>4, <3>1 DEF FiringInactive
    <3>3. Cardinality(FiringInactive') = Cardinality(FiringInactive) - 1
      BY <3>2, <1>f, FS_RemoveElement
    <3> QED BY <1>c, <1>f, <1>t, <2>1, <2>3, <3>1, <3>3
  <2>5. CASE callback[g] # "inactive"
    <3>1. events'["Inactive"] = events["Inactive"] /\ callback'[g] # "inactive"
      BY <1>4, <2>5, <1>t DEF Callback, Fire, TypeOK, EventKinds
    <3>2. FiringInactive' = FiringInactive
      BY <2>2, <2>5, <3>1 DEF FiringInactive
    <3> QED BY <1>c, <2>1, <2>3, <3>1, <3>2
  <2> QED BY <2>4, <2>5
<1> QED BY <1>1, <1>2, <1>3, <1>4, LifeMoves

-----------------------------------------------------------------------------
(* What a Disconnect achieves.                                             *)

\* What steps of others may do to a Disconnect, and to what it relies on.
Elsewhere(d) ==
  /\ pc'[d] = pc[d] /\ future'[d] = future[d]
  /\ clean'[d] => clean[d]
  /\ IsActive' => IsActive \/ Connecting # {}
  /\ ConnActive' => ConnActive \/ Connecting # {}

\* The steps of inactiveChannel leave futures and clean alone, and activate nothing.
LEMMA InactivatingUse ==
  ASSUME TypeOK, NEW p \in Procs, Inactivating(p)
  PROVE  /\ UNCHANGED <<future, clean>>
         /\ alive' = "live" => alive = "live" /\ pc'[p] = "after"
         /\ ConnActive' => ConnActive
BY DEF TypeOK, Inactivating, InactiveChannel, FireUnregistered, DisconnectWinner, CloseConn,
       ConnActive, GoTo, opVars, lifeVars, connVars, histVars

\* A step of anybody but Disconnect d does no more than that to it.
LEMMA ElsewhereStep ==
  ASSUME TypeOK, [Next]_vars, NEW d \in Disconnects, ~DisconnectStep(d)
  PROVE  Elsewhere(d)
<1> USE DEF opVars, lifeVars, connVars, histVars, GoTo, Elsewhere, IsActive, ConnActive, Resolve
<1>d. d \in Procs /\ d \in Ops /\ d # Reader /\ d \notin Connects /\ d \notin Deregisters
      /\ d \notin Reads
  BY OpsDisjoint DEF Ops, Procs
<1>t. /\ pc \in [Procs -> Places] /\ clean \in [Disconnects -> BOOLEAN]
      /\ future \in [Ops -> {"pending", "success", "failed"}]
      /\ connActive \in [Connects -> BOOLEAN] /\ cur \in Connects \cup {NoConn}
  BY DEF TypeOK
<1>1. ASSUME NEW o \in Connects, ConnectStep(o) PROVE Elsewhere(d)
  <2>o. o \in Procs /\ o \in Ops /\ o # d
    BY <1>d DEF Ops, Procs
  <2>1. CASE Connect(o) BY <2>1, <1>d, <1>t, <2>o DEF Connect
  <2>2. CASE UnsafeConnect(o)
    <3>1. o \in Connecting
      BY <2>2 DEF UnsafeConnect, Connecting
    <3> QED BY <2>2, <3>1, <1>d, <1>t, <2>o DEF UnsafeConnect
  <2>3. CASE ActiveChannel(o)
    <3>1. o \in Connecting
      BY <2>3 DEF ActiveChannel, Connecting
    <3> QED BY <2>3, <3>1, <1>d, <1>t, <2>o DEF ActiveChannel
  <2>4. CASE FireActive(o) BY <2>4, <1>d, <1>t, <2>o DEF FireActive
  <2>5. CASE ActiveRead(o) BY <2>5, <1>d, <1>t, <2>o DEF ActiveRead, StartRead
  <2>6. CASE EndConnect(o) BY <2>6, <1>d, <1>t, <2>o DEF EndConnect
  <2>7. CASE ResetConnect(o) BY <2>7, <1>d, <1>t, <2>o DEF ResetConnect
  <2>8. CASE Inactivating(o) BY <2>8, <1>d, <2>o, InactivatingMoves, InactivatingUse
  <2> QED BY <1>1, <2>1, <2>2, <2>3, <2>4, <2>5, <2>6, <2>7, <2>8 DEF ConnectStep
<1>2. ASSUME NEW o \in Disconnects, DisconnectStep(o) PROVE Elsewhere(d)
  <2>o. o \in Procs /\ o \in Ops /\ o # d
    BY <1>2 DEF Ops, Procs
  <2>1. CASE Disconnect(o) BY <2>1, <1>d, <1>t, <2>o DEF Disconnect
  <2>2. CASE DisconnectConn(o) BY <2>2, <1>d, <1>t, <2>o DEF DisconnectConn, CloseConn
  <2>3. CASE EndDisconnect(o) BY <2>3, <1>d, <1>t, <2>o DEF EndDisconnect
  <2>4. CASE ResetDisconnect(o) BY <2>4, <1>d, <1>t, <2>o DEF ResetDisconnect
  <2>5. CASE Inactivating(o) BY <2>5, <1>d, <2>o, InactivatingMoves, InactivatingUse
  <2> QED BY <1>2, <2>1, <2>2, <2>3, <2>4, <2>5 DEF DisconnectStep
<1>3. ASSUME NEW o \in Deregisters, DeregisterStep(o) PROVE Elsewhere(d)
  <2>o. o \in Procs /\ o \in Ops /\ o # d
    BY <1>d DEF Ops, Procs
  <2>1. CASE Deregister(o) BY <2>1, <1>d, <1>t, <2>o DEF Deregister
  <2>2. CASE WriteFail(o)
    <3>1. ConnActive' => ConnActive
      BY <2>2, <1>t DEF WriteFail, ConnFails
    <3> QED BY <2>2, <3>1, <1>d, <1>t, <2>o DEF WriteFail
  <2>3. CASE EndDeregister(o) BY <2>3, <1>d, <1>t, <2>o DEF EndDeregister
  <2>4. CASE Inactivating(o) BY <2>4, <1>d, <2>o, InactivatingMoves, InactivatingUse
  <2> QED BY <1>3, <2>1, <2>2, <2>3, <2>4 DEF DeregisterStep
<1>4. ASSUME NEW o \in Reads, Read(o) PROVE Elsewhere(d)
  BY <1>4, <1>d, <1>t DEF Read, StartRead, Ops, Procs
<1>5. CASE ReaderStep
  <2>r. Reader \in Procs
    BY DEF Procs
  <2>1. CASE ReadLoop BY <2>1, <1>d, <1>t, <2>r DEF ReadLoop
  <2>2. CASE UnsafeRead BY <2>2, <1>d, <1>t, <2>r DEF UnsafeRead
  <2>3. CASE Receive
    <3>1. ConnActive' => ConnActive
      BY <2>3, <1>t DEF Receive, ConnFails
    <3>2. UNCHANGED <<future, clean, alive>> /\ pc'[d] = pc[d]
      BY <2>3, <1>d, <1>t, <2>r DEF Receive
    <3> QED BY <3>1, <3>2
  <2>4. CASE SkipRead BY <2>4, <1>d, <1>t, <2>r DEF SkipRead
  <2>5. CASE FireRead BY <2>5, <1>d, <1>t, <2>r DEF FireRead
  <2>6. CASE EndRead BY <2>6, <1>d, <1>t, <2>r DEF EndRead
  <2>7. CASE Inactivating(Reader) BY <2>7, <1>d, <2>r, InactivatingMoves, InactivatingUse
  <2> QED BY <1>5, <2>1, <2>2, <2>3, <2>4, <2>5, <2>6, <2>7 DEF ReaderStep
<1>6. ASSUME NEW g \in Gens, Callback(g) PROVE Elsewhere(d)
  BY <1>6 DEF Callback
<1>7. CASE PeerClose \/ Terminated \/ UNCHANGED vars
  BY <1>7 DEF PeerClose, Terminated, vars
<1> QED BY <1>1, <1>2, <1>3, <1>4, <1>5, <1>6, <1>7 DEF Next

\* What a clean Disconnect has achieved by each step is not undone.
LEMMA EffectiveStep == TypeOK /\ Undisturbed /\ Effective /\ [Next]_vars => Effective'
<1> SUFFICES ASSUME TypeOK, Undisturbed, Effective, [Next]_vars PROVE Effective'
  OBVIOUS
<1> DEFINE
  Good(d) ==
    /\ future[d] = "success" => pc[d] \in {"reset", "returned"}
    /\ pc[d] \in {"idle", "ignored", "inactive", "unregistered", "unsafeDisconnect", "after",
                  "disconnected", "reset", "returned"}
    /\ clean[d] /\ pc[d] \notin {"idle", "ignored", "inactive"} => ~IsActive
    /\ clean[d] /\ pc[d] \in {"disconnected", "reset", "returned"} => ~ConnActive
<1> SUFFICES ASSUME NEW d \in Disconnects PROVE Good(d)'
  BY DEF Effective
<1>g. Good(d) /\ (clean[d] => Connecting = {})
  BY DEF Effective, Undisturbed
<1>1. CASE ~DisconnectStep(d)
  BY <1>1, <1>g, ElsewhereStep DEF Elsewhere
<1>2. CASE DisconnectStep(d)
  <2> USE DEF opVars, lifeVars, connVars, histVars, GoTo, IsActive, ConnActive, Resolve
  <2>d. d \in Procs /\ d \in Ops
    BY DEF Ops, Procs
  <2>t. /\ pc \in [Procs -> Places] /\ clean \in [Disconnects -> BOOLEAN]
        /\ future \in [Ops -> {"pending", "success", "failed"}]
        /\ alive \in {"nil", "live", "done", "failed"}
        /\ connActive \in [Connects -> BOOLEAN] /\ cur \in Connects \cup {NoConn}
    BY DEF TypeOK
  <2>1. CASE Disconnect(d) BY <2>1, <1>g, <2>d, <2>t DEF Disconnect
  <2>2. CASE DisconnectConn(d) BY <2>2, <1>g, <2>d, <2>t DEF DisconnectConn, CloseConn
  <2>3. CASE EndDisconnect(d) BY <2>3, <1>g, <2>d, <2>t DEF EndDisconnect
  <2>4. CASE ResetDisconnect(d) BY <2>4, <1>g, <2>d, <2>t DEF ResetDisconnect
  <2>5. CASE InactiveChannel(d) BY <2>5, <1>g, <2>d, <2>t DEF InactiveChannel
  <2>6. CASE FireUnregistered(d) BY <2>6, <1>g, <2>d, <2>t DEF FireUnregistered
  <2>7. CASE DisconnectWinner(d) BY <2>7, <1>g, <2>d, <2>t DEF DisconnectWinner, CloseConn
  <2> QED BY <1>2, <2>1, <2>2, <2>3, <2>4, <2>5, <2>6, <2>7 DEF DisconnectStep, Inactivating
<1> QED BY <1>1, <1>2

\* A Connect that begins disturbs every Disconnect.
LEMMA UndisturbedStep == TypeOK /\ Undisturbed /\ [Next]_vars => Undisturbed'
<1> SUFFICES ASSUME TypeOK, Undisturbed, [Next]_vars,
                    NEW d \in Disconnects, clean'[d], NEW o \in Connecting'
             PROVE  FALSE
  BY DEF Undisturbed
<1>1. clean[d] \/ Connecting = {}
  <2>1. CASE ~DisconnectStep(d)
    BY <2>1, ElsewhereStep DEF Elsewhere
  <2>2. CASE DisconnectStep(d)
    <3>1. d \in Procs
      BY DEF Ops, Procs
    <3> QED
      BY <2>2, <3>1, InactivatingUse
      DEF DisconnectStep, Disconnect, DisconnectConn, EndDisconnect, ResetDisconnect, TypeOK
  <2> QED BY <2>1, <2>2
<1>2. Connecting = {}
  BY <1>1 DEF Undisturbed
<1>3. o \in Connects /\ pc'[o] \notin {"idle", "ignored", "returned"}
  BY DEF Connecting
<1>4. pc[o] \in {"idle", "ignored", "returned"}
  BY <1>2, <1>3 DEF Connecting
<1> QED BY <1>3, <1>4, ConnectMoves DEF ConnectMove

-----------------------------------------------------------------------------
(* The reader and the connection.                                          *)

\* Read marks readS before the reader runs, and the reader unmarks it as it ends.
LEMMA ReaderMarkedStep == TypeOK /\ ReaderMarked /\ [Next]_vars => ReaderMarked'
<1> SUFFICES ASSUME TypeOK, ReaderMarked, [Next]_vars PROVE ReaderMarked'
  OBVIOUS
<1> USE DEF ReaderMarked, opVars, lifeVars, connVars, histVars, GoTo
<1>r. Reader \in Procs /\ Reader \notin Ops /\ pc \in [Procs -> Places]
  BY OpsDisjoint DEF Procs, TypeOK
<1>i. ASSUME NEW p \in Procs, Inactivating(p) PROVE ReaderMarked'
  BY <1>i, <1>r, InactivatingMoves
<1>1. ASSUME NEW o \in Connects, ConnectStep(o) PROVE ReaderMarked'
  <2>o. o \in Procs /\ o # Reader
    BY <1>r DEF Ops, Procs
  <2>1. CASE ActiveRead(o) BY <2>1, <2>o, <1>r DEF ActiveRead, StartRead
  <2> QED
    BY <1>1, <2>1, <2>o, <1>r, <1>i
    DEF ConnectStep, Connect, UnsafeConnect, ActiveChannel, FireActive, EndConnect, ResetConnect
<1>2. ASSUME NEW o \in Disconnects, DisconnectStep(o) PROVE ReaderMarked'
  <2>o. o \in Procs /\ o # Reader
    BY <1>r DEF Ops, Procs
  <2> QED
    BY <1>2, <2>o, <1>r, <1>i
    DEF DisconnectStep, Disconnect, DisconnectConn, EndDisconnect, ResetDisconnect
<1>3. ASSUME NEW o \in Deregisters, DeregisterStep(o) PROVE ReaderMarked'
  <2>o. o \in Procs /\ o # Reader
    BY <1>r DEF Ops, Procs
  <2> QED
    BY <1>3, <2>o, <1>r, <1>i DEF DeregisterStep, Deregister, WriteFail, EndDeregister
<1>4. ASSUME NEW o \in Reads, Read(o) PROVE ReaderMarked'
  <2>o. o \in Procs /\ o # Reader
    BY <1>r DEF Ops, Procs
  <2> QED BY <1>4, <2>o, <1>r DEF Read, StartRead
<1>5. CASE ReaderStep
  BY <1>5, <1>r, <1>i
  DEF ReaderStep, ReadLoop, UnsafeRead, Receive, SkipRead, FireRead, EndRead
<1>6. ASSUME NEW g \in Gens, Callback(g) PROVE ReaderMarked'
  BY <1>6 DEF Callback
<1>7. CASE PeerClose \/ Terminated \/ UNCHANGED vars
  BY <1>7 DEF PeerClose, Terminated, vars
<1> QED BY <1>1, <1>2, <1>3, <1>4, <1>5, <1>6, <1>7 DEF Next

\* What a step may do to connections without taking a new one: an I/O error clears
\* a flag, and is remembered.
Kept ==
  /\ UNCHANGED <<cur, sock, overwritten>>
  /\ \A c \in Connects : /\ connActive'[c] => connActive[c]
                         /\ connActive[c] => connActive'[c] \/ c \in ioError'
                         /\ c \in ioError => c \in ioError'

\* A step that leaves all connections as they are keeps them so.
LEMMA KeptAll ==
  ASSUME UNCHANGED <<cur, connActive, sock, overwritten, ioError>>
  PROVE  Kept
BY DEF Kept

\* A connection stays in use while its channel is live, or somebody that has yet
\* to activate or to disconnect it stays where it is.
LEMMA StillUsed ==
  ASSUME TypeOK, Released, Kept, IsActive => IsActive',
         \A p \in Procs : pc[p] \in {"unsafeDisconnect", "activate"} => pc'[p] = pc[p]
  PROVE  Released'
<1>1. ConnActive' => ConnActive
  BY DEF TypeOK, Kept, ConnActive
<1> QED BY <1>1 DEF Released, Kept, Ops, Procs

\* Closing the connection ends its use.
LEMMA CloseReleases ==
  ASSUME TypeOK, Released, CloseConn, UNCHANGED histVars
  PROVE  Released'
BY DEF TypeOK, Released, CloseConn, ConnActive, histVars

\* The one that completes the alive future disconnects; nothing else takes the
\* connection out of use but an I/O error.
LEMMA ReleasedStep == TypeOK /\ ReaderMarked /\ Released /\ [Next]_vars => Released'
<1> SUFFICES ASSUME TypeOK, ReaderMarked, Released, [Next]_vars PROVE Released'
  OBVIOUS
<1> USE DEF opVars, lifeVars, connVars, histVars, GoTo, IsActive
<1>t. pc \in [Procs -> Places] /\ readS \in {0, 1}
      /\ alive \in {"nil", "live", "done", "failed"}
      /\ connActive \in [Connects -> BOOLEAN]
      /\ sock \in [Connects -> {"none", "open", "closed"}]
  BY DEF TypeOK
<1>n. NoConn \notin Connects
  BY OpsDisjoint
<1>p. Connects \subseteq Procs /\ Disconnects \subseteq Procs /\ Deregisters \subseteq Procs
      /\ Reads \subseteq Procs /\ Reader \in Procs /\ Reader \notin Ops
  BY OpsDisjoint DEF Ops, Procs
<1>i. ASSUME NEW p \in Procs, Inactivating(p) PROVE Released'
  <2>1. CASE InactiveChannel(p)
    <3>1. CASE alive = "live"
      <4>1. pc'[p] = "unsafeDisconnect"
        BY <2>1, <3>1, <1>t DEF InactiveChannel
      <4>2. UNCHANGED <<cur, connActive, sock, overwritten, ioError>>
        BY <2>1 DEF InactiveChannel
      <4> QED BY <4>1, <4>2 DEF Released, ConnActive
    <3>2. CASE alive # "live"
      BY <2>1, <3>2, <1>t, KeptAll, StillUsed DEF InactiveChannel
    <3> QED BY <3>1, <3>2
  <2>2. CASE FireUnregistered(p)
    BY <2>2, <1>t, KeptAll, StillUsed DEF FireUnregistered
  <2>3. CASE DisconnectWinner(p)
    BY <2>3, CloseReleases DEF DisconnectWinner
  <2> QED BY <1>i, <2>1, <2>2, <2>3 DEF Inactivating
<1>s. ASSUME NEW p \in Procs, NEW s, StartRead(p, s),
             pc[p] \notin {"unsafeDisconnect", "activate"}, UNCHANGED <<lifeVars, connVars, ioError, overwritten>>
      PROVE  Released'
  <2>1. pc[Reader] # "off" => readS # 0
    BY DEF ReaderMarked
  <2>2. \A q \in Procs : pc[q] \in {"unsafeDisconnect", "activate"} => pc'[q] = pc[q]
    BY <1>s, <1>t, <1>p, <2>1 DEF StartRead
  <2> QED BY <1>s, <2>2, KeptAll, StillUsed
<1>1. ASSUME NEW o \in Connects, ConnectStep(o) PROVE Released'
  <2>o. o \in Procs
    BY <1>p
  <2>1. CASE Connect(o) BY <2>1, <2>o, <1>t, KeptAll, StillUsed DEF Connect
  <2>2. CASE UnsafeConnect(o)
    <3>1. CASE /\ pc'[o] = "activate" /\ cur' = o
               /\ connActive' = [connActive EXCEPT ![o] = TRUE]
               /\ sock' = [sock EXCEPT ![o] = "open"]
               /\ overwritten' = IF ConnActive THEN overwritten \cup {cur} ELSE overwritten
      <4>1. UNCHANGED ioError
        BY <2>2 DEF UnsafeConnect
      <4>2. \A c \in Connects : /\ connActive'[c] => c = o \/ connActive[c]
                               /\ sock'[c] = "open" => c = o \/ sock[c] = "open"
        BY <3>1, <1>t
      <4>3. \A c \in Connects : connActive[c] => c \in overwritten'
        BY <3>1, <1>n DEF Released, ConnActive
      <4>4. connActive'[o] /\ \A c \in Connects : connActive[c] => connActive'[c]
        BY <3>1, <1>t
      <4> QED BY <3>1, <4>1, <4>2, <4>3, <4>4 DEF Released
    <3>2. CASE UNCHANGED <<connVars, overwritten, ioError>> /\ pc' = [pc EXCEPT ![o] = "inactive"]
      BY <2>2, <3>2, <2>o, <1>t, KeptAll, StillUsed DEF UnsafeConnect
    <3> QED BY <2>2, <2>o, <1>t, <3>1, <3>2, Zenon DEF UnsafeConnect
  <2>3. CASE ActiveChannel(o) BY <2>3 DEF ActiveChannel, Released, ConnActive
  <2>4. CASE FireActive(o) BY <2>4, <2>o, <1>t, KeptAll, StillUsed DEF FireActive
  <2>5. CASE ActiveRead(o) BY <2>5, <2>o, <1>s DEF ActiveRead
  <2>6. CASE EndConnect(o) BY <2>6, <2>o, <1>t, KeptAll, StillUsed DEF EndConnect
  <2>7. CASE ResetConnect(o) BY <2>7, <2>o, <1>t, KeptAll, StillUsed DEF ResetConnect
  <2> QED BY <1>1, <2>o, <1>i, <2>1, <2>2, <2>3, <2>4, <2>5, <2>6, <2>7 DEF ConnectStep
<1>2. ASSUME NEW o \in Disconnects, DisconnectStep(o) PROVE Released'
  <2>o. o \in Procs
    BY <1>p
  <2>1. CASE Disconnect(o) BY <2>1, <2>o, <1>t, KeptAll, StillUsed DEF Disconnect
  <2>2. CASE DisconnectConn(o) BY <2>2, CloseReleases DEF DisconnectConn
  <2>3. CASE EndDisconnect(o) BY <2>3, <2>o, <1>t, KeptAll, StillUsed DEF EndDisconnect
  <2>4. CASE ResetDisconnect(o) BY <2>4, <2>o, <1>t, KeptAll, StillUsed DEF ResetDisconnect
  <2> QED BY <1>2, <2>o, <1>i, <2>1, <2>2, <2>3, <2>4 DEF DisconnectStep
<1>3. ASSUME NEW o \in Deregisters, DeregisterStep(o) PROVE Released'
  <2>o. o \in Procs
    BY <1>p
  <2>1. CASE Deregister(o) BY <2>1, <2>o, <1>t, KeptAll, StillUsed DEF Deregister
  <2>2. CASE WriteFail(o)
    <3>1. Kept
      BY <2>2, <1>t DEF WriteFail, ConnFails, Kept
    <3> QED BY <2>2, <3>1, <2>o, <1>t, StillUsed DEF WriteFail
  <2>3. CASE EndDeregister(o) BY <2>3, <2>o, <1>t, KeptAll, StillUsed DEF EndDeregister
  <2> QED BY <1>3, <2>o, <1>i, <2>1, <2>2, <2>3 DEF DeregisterStep
<1>4. ASSUME NEW o \in Reads, Read(o) PROVE Released'
  BY <1>4, <1>p, <1>s DEF Read
<1>5. CASE ReaderStep
  <2>1. CASE ReadLoop BY <2>1, <1>p, <1>t, KeptAll, StillUsed DEF ReadLoop
  <2>2. CASE UnsafeRead BY <2>2, <1>p, <1>t, KeptAll, StillUsed DEF UnsafeRead
  <2>3. CASE Receive
    <3>1. Kept
      BY <2>3, <1>t DEF Receive, ConnFails, Kept
    <3>2. \A p \in Procs : pc[p] \in {"unsafeDisconnect", "activate"} => pc'[p] = pc[p]
      BY <2>3, <1>p, <1>t DEF Receive
    <3>3. UNCHANGED alive
      BY <2>3 DEF Receive
    <3> QED BY <3>1, <3>2, <3>3, StillUsed
  <2>4. CASE SkipRead BY <2>4, <1>p, <1>t, KeptAll, StillUsed DEF SkipRead
  <2>5. CASE FireRead BY <2>5, <1>p, <1>t, KeptAll, StillUsed DEF FireRead
  <2>6. CASE EndRead BY <2>6, <1>p, <1>t, KeptAll, StillUsed DEF EndRead
  <2> QED BY <1>5, <1>p, <1>i, <2>1, <2>2, <2>3, <2>4, <2>5, <2>6 DEF ReaderStep
<1>6. ASSUME NEW g \in Gens, Callback(g) PROVE Released'
  BY <1>6, KeptAll, StillUsed DEF Callback
<1>7. CASE PeerClose \/ Terminated \/ UNCHANGED vars
  BY <1>7, KeptAll, StillUsed DEF PeerClose, Terminated, vars
<1> QED BY <1>1, <1>2, <1>3, <1>4, <1>5, <1>6, <1>7 DEF Next

-----------------------------------------------------------------------------
(* The theorems.                                                           *)

\* The initial state satisfies the inductive invariant.
LEMMA InvInit == Init => IInv
<1> SUFFICES ASSUME Init PROVE IInv
  OBVIOUS
<1>1. \A p \in Procs : pc[p] = IF p = Reader THEN "off" ELSE "idle"
  BY DEF Init
<1>2. \A d \in Disconnects : d \in Procs /\ d \in Ops /\ d # Reader
  BY OpsDisjoint DEF Ops, Procs
<1>3. Undisturbed /\ Effective
  BY <1>1, <1>2 DEF Init, Undisturbed, Effective
<1>4. ReaderMarked /\ Released
  BY <1>1 DEF Init, ReaderMarked, Released, ConnActive, Procs
<1> QED BY <1>3, <1>4, TypeInit, TeardownsInit DEF IInv

\* Every step keeps it.
LEMMA InvStep == IInv /\ [Next]_vars => IInv'
<1> SUFFICES ASSUME IInv, [Next]_vars PROVE IInv'
  OBVIOUS
<1>1. TypeOK' /\ Teardowns'
  BY TypeStep, TeardownsStep DEF IInv, Teardowns
<1>2. Undisturbed' /\ Effective'
  BY UndisturbedStep, EffectiveStep DEF IInv
<1>3. ReaderMarked' /\ Released'
  BY ReaderMarkedStep, ReleasedStep DEF IInv
<1> QED BY <1>1, <1>2, <1>3 DEF IInv

\* Every reachable state has it.
LEMMA InvHolds == Spec => []IInv
BY InvInit, InvStep, PTL DEF Spec

\* The calls, the alive futures and the connection keep their types; in
\* particular there is a callback for every activation (activeChannel).
THEOREM LifecycleTyped == Spec => []TypeOK
<1>1. IInv => TypeOK
  BY DEF IInv
<1> QED BY <1>1, InvHolds, PTL

\* However many goroutines call inactiveChannel on an activation, one tears it
\* down: the Inactive events, fired and to come, the overwritten activations and
\* the live one add up to the activations.
THEOREM OneTeardown == Spec => []OneTeardownPerActivation
<1>1. IInv => OneTeardownPerActivation
  BY DEF IInv, Teardowns
<1> QED BY <1>1, InvHolds, PTL

\* A Disconnect that no Connect overlaps has, when its future succeeds, left the
\* channel inactive and its connection out of use (DefaultUnsafe.Disconnect).
THEOREM DisconnectEffective == Spec => []DisconnectTakesEffect
<1>1. IInv => DisconnectTakesEffect
  BY DEF IInv, Effective, DisconnectTakesEffect
<1> QED BY <1>1, InvHolds, PTL

\* When all is done on a channel that is not active its connection is out of use, and
\* every socket that it opened is closed (DefaultConn.Close), but those whose flag an
\* I/O error had cleared and those that a later Connect had overwritten.
THEOREM ConnectionIsReleased == Spec => []ConnectionReleased
<1>1. IInv => ConnectionReleased
  <2> SUFFICES ASSUME IInv, Quiescent, ~IsActive PROVE ConnectionReleased
    BY DEF ConnectionReleased
  <2>1. \A p \in Procs : pc[p] # "unsafeDisconnect" /\ pc[p] # "activate"
    BY DEF Quiescent, Procs
  <2>2. Connects \subseteq Procs /\ NoConn \notin Connects
    BY OpsDisjoint DEF Ops, Procs
  <2>3. ~ConnActive
    BY <2>1, <2>2 DEF IInv, Released
  <2>4. \A c \in Connects \ overwritten : ~connActive[c]
    BY <2>2, <2>3 DEF IInv, Released, ConnActive
  <2> QED BY <2>3, <2>4 DEF IInv, Released, ConnectionReleased
<1> QED BY <1>1, InvHolds, PTL

\* A reader runs only while readS is marked, so that two calls of Read never run
\* two of them (Unsafe.Read).
THEOREM OneReader == Spec => []ReaderMarked
<1>1. IInv => ReaderMarked
  BY DEF IInv
<1> QED BY <1>1, InvHolds, PTL

----------------------------------------------------------------------------
(* The channels of the UDP server.                                         *)

Datagrams == Clients \X Nat

UdpTypeOK ==
  /\ arrived \in Nat /\ socket \subseteq Datagrams /\ dropped \subseteq Datagrams
  /\ bound \in BOOLEAN /\ closing \in BOOLEAN
  /\ pool \subseteq Buffers
  /\ content \in [Buffers -> Datagrams \cup {Clear}]
  /\ accept \in [at : {"loop", "read", "derive", "off"}, buf : Buffers \cup {None}]
  /\ client \in [Children -> Clients \cup {None}]
  /\ first \in [Children -> [data : Datagrams \cup {Clear}, buf : Buffers \cup {None}]]
  /\ firstRead \in [Children -> BOOLEAN]
  /\ active \in [Children -> BOOLEAN]
  /\ reader \in [Children -> [at : {"off", "loop", "read", "fire", "end"},
                              buf : Buffers \cup {None}]]
  /\ got \in [Children -> Seq(Datagrams)]

\* Who has a buffer in use.
Accepting == accept.at \in {"read", "derive"}
Reading(k) == reader[k].at \in {"read", "fire"}

BuffersApart ==
  /\ Accepting => accept.buf \in Buffers \ pool
  /\ \A k \in Children : Reading(k) =>
       /\ reader[k].buf \in Buffers \ pool
       /\ Accepting => reader[k].buf # accept.buf
       /\ \A j \in Children : j # k /\ Reading(j) => reader[j].buf # reader[k].buf

\* A child that waits for its first datagram to be read.
Fresh(k) == client[k] # None /\ FirstLeft(k)

\* What the accept loop, a child that was not read yet and a reader hold.
AcceptHand == IF accept.at = "derive" THEN {content[accept.buf]} ELSE {}
WaitingAt(k) == IF Fresh(k) THEN {first[k].data} ELSE {}
ReaderHand(k) == IF reader[k].at = "fire" THEN {content[reader[k].buf]} ELSE {}

\* Datagrams of a child's client that are not empty.
OwnData(k) == {d \in Datagrams : d[1] = client[k] /\ ~Empty(d)}

OwnOf(k) ==
  /\ reader[k].at # "off" \/ firstRead[k] => client[k] # None
  /\ WaitingAt(k) \cup ReaderHand(k) \cup Given(k) \subseteq OwnData(k)

Own ==
  /\ AcceptHand \subseteq Datagrams
  /\ \A k \in Children : OwnOf(k)

\* The places of datagrams, and what is at each.
InSocket == <<"socket", None>>
InDropped == <<"dropped", None>>
InAccept == <<"accept", None>>
InWaiting(k) == <<"waiting", k>>
InReader(k) == <<"hand", k>>
InGot(k) == <<"given", k>>

UdpPlaces == {InSocket, InDropped, InAccept} \cup ({"waiting", "hand", "given"} \X Children)

At(p) ==
  CASE p[1] = "socket"  -> socket
    [] p[1] = "dropped" -> dropped
    [] p[1] = "accept"  -> AcceptHand
    [] p[1] = "waiting" -> WaitingAt(p[2])
    [] p[1] = "hand"    -> ReaderHand(p[2])
    [] OTHER            -> Given(p[2])

Everywhere == UNION {At(p) : p \in UdpPlaces}

Apart == \A p, q \in UdpPlaces : p # q => At(p) \cap At(q) = {}

Counted ==
  /\ IsFiniteSet(Everywhere) /\ Cardinality(Everywhere) = arrived
  /\ \A d \in Everywhere : d[2] \in Nat /\ d[2] < arrived

GivenOnce ==
  \A k \in Children : IsFiniteSet(Given(k)) /\ Cardinality(Given(k)) = Len(got[k])

UdpInv == UdpTypeOK /\ BuffersApart /\ Own /\ Apart /\ Counted /\ GivenOnce

USE DEF netVars, childVars, Client

----------------------------------------------------------------------------
(* Types.                                                                  *)

\* The server starts in a well-typed state.
LEMMA UdpTypeInit == UdpInit => UdpTypeOK
<1> SUFFICES ASSUME UdpInit
             PROVE  UdpTypeOK
  OBVIOUS
<1>1. first \in [Children -> [data : Datagrams \cup {Clear}, buf : Buffers \cup {None}]]
  BY DEF UdpInit, Nothing
<1>2. /\ content \in [Buffers -> Datagrams \cup {Clear}]
      /\ got \in [Children -> Seq(Datagrams)]
  BY DEF UdpInit
<1>3. /\ accept \in [at : {"loop", "read", "derive", "off"}, buf : Buffers \cup {None}]
      /\ reader \in [Children -> [at : {"off", "loop", "read", "fire", "end"},
                                  buf : Buffers \cup {None}]]
  BY DEF UdpInit
<1> QED
  BY <1>1, <1>2, <1>3, Zenon DEF UdpInit, UdpTypeOK

\* A buffer of the pool is cleared when it is taken.
LEMMA GetKeepsTypes ==
  ASSUME UdpTypeOK, NEW b \in Buffers, GetLargeBuffer(b)
  PROVE  pool' \subseteq Buffers /\ content' \in [Buffers -> Datagrams \cup {Clear}]
BY DEF UdpTypeOK, GetLargeBuffer

\* What the socket gives up goes into the buffer of one that reads.
LEMMA ReadKeepsTypes ==
  ASSUME UdpTypeOK, NEW b, NEW d \in Datagrams \cup {Clear},
         content' = [content EXCEPT ![b] = d]
  PROVE  content' \in [Buffers -> Datagrams \cup {Clear}]
BY Zenon DEF UdpTypeOK

\* A pool gets at most the buffer that is put.
LEMMA PutKeepsTypes ==
  ASSUME UdpTypeOK, NEW k, NEW b \in Buffers, PutLargeBuffer(b) \/ PutBufferForSize(k, b)
  PROVE  pool' \subseteq Buffers /\ pool' \subseteq pool \cup {b}
BY DEF UdpTypeOK, PutLargeBuffer, PutBufferForSize

\* Every step keeps the types.  A buffer that is read holds a datagram, and not
\* what Put left in it, because it is nobody else's and not in the pool.
LEMMA UdpTypeStep == UdpTypeOK /\ BuffersApart /\ Own /\ [UdpNext]_udpVars => UdpTypeOK'
<1> SUFFICES ASSUME UdpTypeOK, BuffersApart, Own, [UdpNext]_udpVars
             PROVE  UdpTypeOK'
  OBVIOUS
<1>1. ASSUME NEW c \in Clients, Arrive(c)
      PROVE  UdpTypeOK'
  BY <1>1 DEF Arrive, UdpTypeOK, Datagrams
<1>2. CASE UnsafeAccept
  <2>1. pool' \subseteq Buffers /\ content' \in [Buffers -> Datagrams \cup {Clear}]
    BY <1>2, GetKeepsTypes DEF UnsafeAccept, UdpTypeOK
  <2>2. accept' \in [at : {"loop", "read", "derive", "off"}, buf : Buffers \cup {None}]
    <3>1. accept' = [at |-> "off", buf |-> None]
            \/ \E b \in Buffers : accept' = [at |-> "read", buf |-> b]
      BY <1>2 DEF UnsafeAccept
    <3> QED
      BY <3>1
  <2> QED
    BY <1>2, <2>1, <2>2 DEF UnsafeAccept, UdpTypeOK
<1>3. CASE AcceptRead
  <2>1. content' \in [Buffers -> Datagrams \cup {Clear}]
    BY <1>3, ReadKeepsTypes, Zenon DEF AcceptRead, UdpTypeOK
  <2> QED
    BY <1>3, <2>1, Zenon DEF AcceptRead, UdpTypeOK
<1>4. CASE AcceptError
  <2>1. pool' \subseteq Buffers
    BY <1>4, PutKeepsTypes DEF AcceptError, BuffersApart, Accepting
  <2> QED
    BY <1>4, <2>1 DEF AcceptError, UdpTypeOK
<1>5. CASE Close
  BY <1>5 DEF Close, UdpTypeOK
<1>6. CASE UnsafeClose
  BY <1>6, Zenon DEF UnsafeClose, UdpTypeOK
<1>7. ASSUME NEW k \in Children, DeriveChild(k)
      PROVE  UdpTypeOK'
  <2>1. pool' \subseteq Buffers
    BY <1>7, PutKeepsTypes DEF DeriveChild, BuffersApart, Accepting
  <2>2. content[accept.buf] \in Datagrams /\ content[accept.buf][1] \in Clients
    BY <1>7 DEF DeriveChild, Own, AcceptHand, Datagrams
  <2>3. client' \in [Children -> Clients \cup {None}]
    BY <1>7, <2>2 DEF DeriveChild, UdpTypeOK
  <2>4. first' \in [Children -> [data : Datagrams \cup {Clear}, buf : Buffers \cup {None}]]
    BY <1>7, <2>2 DEF DeriveChild, UdpTypeOK
  <2>5. dropped' \subseteq Datagrams
    BY <1>7, <2>2 DEF DeriveChild, UdpTypeOK
  <2> QED
    BY <1>7, <2>1, <2>3, <2>4, <2>5 DEF DeriveChild, UdpTypeOK
<1>8. ASSUME NEW k \in Children, ActiveChild(k) \/ ChildDown(k)
      PROVE  UdpTypeOK'
  <2>1. CASE ActiveChild(k)
    BY <2>1, Zenon DEF ActiveChild, UdpTypeOK
  <2>2. CASE ChildDown(k)
    BY <2>2 DEF ChildDown, UdpTypeOK
  <2> QED
    BY <1>8, <2>1, <2>2
<1>9. ASSUME NEW k \in Children, ReaderLoop(k)
      PROVE  UdpTypeOK'
  <2>1. pool' \subseteq Buffers /\ content' \in [Buffers -> Datagrams \cup {Clear}]
    BY <1>9, GetKeepsTypes DEF ReaderLoop, GetBufferForSize, GetWithSize, UdpTypeOK
  <2>2. reader' \in [Children -> [at : {"off", "loop", "read", "fire", "end"},
                                  buf : Buffers \cup {None}]]
    <3>1. CASE reader' = [reader EXCEPT ![k].at = "end"]
      BY <3>1 DEF UdpTypeOK
    <3>2. CASE \E b \in Buffers : reader' = [reader EXCEPT ![k] = [at |-> "read", buf |-> b]]
      BY <3>2 DEF UdpTypeOK
    <3> QED
      BY <1>9, <3>1, <3>2 DEF ReaderLoop
  <2> QED
    BY <1>9, <2>1, <2>2 DEF ReaderLoop, UdpTypeOK
<1>10. ASSUME NEW k \in Children, ReadFirst(k)
       PROVE  UdpTypeOK'
  <2>1. content' \in [Buffers -> Datagrams \cup {Clear}]
    BY <1>10, ReadKeepsTypes, Zenon DEF ReadFirst, FirstData, UdpTypeOK
  <2> QED
    BY <1>10, <2>1 DEF ReadFirst, MarkFirst, UdpTypeOK
<1>11. ASSUME NEW k \in Children, ReadSocket(k)
       PROVE  UdpTypeOK'
  <2>1. content' \in [Buffers -> Datagrams \cup {Clear}]
    BY <1>11, ReadKeepsTypes, Zenon DEF ReadSocket, UdpTypeOK
  <2>2. /\ socket' \subseteq Datagrams /\ dropped' \subseteq Datagrams
        /\ reader' \in [Children -> [at : {"off", "loop", "read", "fire", "end"},
                                     buf : Buffers \cup {None}]]
    <3>1. PICK d \in socket :
            /\ socket' = socket \ {d}
            /\ dropped' \in {dropped, dropped \cup {d}}
            /\ \/ reader' = [reader EXCEPT ![k].at = "fire"]
               \/ reader' = [reader EXCEPT ![k] = [at |-> "loop", buf |-> None]]
               \/ reader' = reader
      BY <1>11 DEF ReadSocket
    <3>2. [reader EXCEPT ![k].at = "fire"] \in
            [Children -> [at : {"off", "loop", "read", "fire", "end"}, buf : Buffers \cup {None}]]
      BY Zenon DEF UdpTypeOK
    <3>3. [reader EXCEPT ![k] = [at |-> "loop", buf |-> None]] \in
            [Children -> [at : {"off", "loop", "read", "fire", "end"}, buf : Buffers \cup {None}]]
      BY DEF UdpTypeOK
    <3> QED
      BY <3>1, <3>2, <3>3 DEF UdpTypeOK
  <2>3. pool' \subseteq Buffers
    BY <1>11, PutKeepsTypes DEF ReadSocket, BuffersApart, Reading, UdpTypeOK
  <2> QED
    BY <1>11, <2>1, <2>2, <2>3 DEF ReadSocket, UdpTypeOK
<1>12. ASSUME NEW k \in Children, ReadError(k)
       PROVE  UdpTypeOK'
  <2>1. pool' \subseteq Buffers
    BY <1>12, PutKeepsTypes DEF ReadError, BuffersApart, Reading
  <2>2. active' \in [Children -> BOOLEAN]
    <3>1. (active[k] /\ bound) \in BOOLEAN
      OBVIOUS
    <3> QED
      BY <1>12, <3>1 DEF ReadError, UdpTypeOK
  <2>3. reader' \in [Children -> [at : {"off", "loop", "read", "fire", "end"},
                                  buf : Buffers \cup {None}]]
    BY <1>12 DEF ReadError, UdpTypeOK
  <2> QED
    BY <1>12, <2>1, <2>2, <2>3 DEF ReadError, UdpTypeOK
<1>13. ASSUME NEW k \in Children, ReaderFires(k)
       PROVE  UdpTypeOK'
  <2>1. pool' \subseteq Buffers
    BY <1>13, PutKeepsTypes DEF ReaderFires, BuffersApart, Reading
  <2>2. got' \in [Children -> Seq(Datagrams)]
    <3>1. content[reader[k].buf] \in Datagrams
      BY <1>13 DEF ReaderFires, Own, OwnOf, ReaderHand, OwnData
    <3>2. Append(got[k], content[reader[k].buf]) \in Seq(Datagrams)
      BY <3>1 DEF UdpTypeOK
    <3> QED
      BY <1>13, <3>2 DEF ReaderFires, UdpTypeOK
  <2> QED
    BY <1>13, <2>1, <2>2 DEF ReaderFires, UdpTypeOK
<1>14. CASE UNCHANGED udpVars
  BY <1>14 DEF udpVars, UdpTypeOK
<1> QED
  BY <1>1, <1>2, <1>3, <1>4, <1>5, <1>6, <1>7, <1>8, <1>9, <1>10, <1>11, <1>12, <1>13, <1>14
     DEF UdpNext

----------------------------------------------------------------------------
(* The buffers.                                                            *)

\* At the start nobody holds a buffer.
LEMMA BuffersInit == UdpInit => BuffersApart
BY DEF UdpInit, BuffersApart, Accepting, Reading

\* The buffer that is taken was nobody's, and its content is of no use.
LEMMA TakenIsFree ==
  ASSUME BuffersApart, NEW b \in Buffers, GetLargeBuffer(b)
  PROVE  /\ pool' = pool \ {b} /\ content' = [content EXCEPT ![b] = Clear]
         /\ Accepting => accept.buf # b
         /\ \A k \in Children : Reading(k) => reader[k].buf # b
BY DEF BuffersApart, GetLargeBuffer, InUse

\* Somebody gives up a buffer, which the pool gets or not.
LEMMA PutWithin ==
  ASSUME NEW k, NEW b, PutLargeBuffer(b) \/ PutBufferForSize(k, b)
  PROVE  pool' \subseteq pool \cup {b}
BY DEF PutLargeBuffer, PutBufferForSize

\* A reader goes on with the buffer it has.
LEMMA ReaderGoesOn ==
  ASSUME UdpTypeOK, NEW k \in Children, NEW l, reader' = [reader EXCEPT ![k].at = l]
  PROVE  /\ reader'[k].at = l
         /\ \A j \in Children : reader'[j].buf = reader[j].buf
         /\ \A j \in Children : j # k => reader'[j].at = reader[j].at
<1>1. \A j \in Children : j # k => reader'[j] = reader[j]
  BY DEF UdpTypeOK
<1>2. reader'[k] = [reader[k] EXCEPT !.at = l]
  BY DEF UdpTypeOK
<1>3. /\ reader[k] \in [at : {"off", "loop", "read", "fire", "end"}, buf : Buffers \cup {None}]
  BY DEF UdpTypeOK
<1>4. reader'[k].at = l /\ reader'[k].buf = reader[k].buf
  BY <1>2, <1>3
<1> QED
  BY <1>1, <1>4

\* Get takes a buffer out of the pool, and Put comes only after its last use.
LEMMA BuffersStep == UdpTypeOK /\ BuffersApart /\ [UdpNext]_udpVars => BuffersApart'
<1> SUFFICES ASSUME UdpTypeOK, BuffersApart, [UdpNext]_udpVars
             PROVE  BuffersApart'
  OBVIOUS
\* Nobody begins or ends to use a buffer.
<1>a. CASE /\ UNCHANGED pool /\ accept'.buf = accept.buf /\ (Accepting' => Accepting)
           /\ \A k \in Children : reader'[k].buf = reader[k].buf /\ (Reading(k)' => Reading(k))
  BY <1>a DEF BuffersApart
\* A reader puts its buffer.
<1>b. ASSUME NEW k \in Children, Reading(k), PutBufferForSize(k, reader[k].buf),
             UNCHANGED accept, ~Reading(k)',
             \A j \in Children : j # k => reader'[j] = reader[j]
      PROVE  BuffersApart'
  <2>1. pool' \subseteq pool \cup {reader[k].buf}
    BY <1>b, PutWithin
  <2> QED
    BY <1>b, <2>1 DEF BuffersApart, Accepting, Reading
\* The accept loop puts its buffer.
<1>c. ASSUME Accepting, PutLargeBuffer(accept.buf), UNCHANGED reader, ~Accepting'
      PROVE  BuffersApart'
  <2>1. pool' \subseteq pool \cup {accept.buf}
    BY <1>c, PutWithin
  <2> QED
    BY <1>c, <2>1 DEF BuffersApart, Accepting, Reading
<1>1. ASSUME NEW c \in Clients, Arrive(c)
      PROVE  BuffersApart'
  BY <1>1, <1>a DEF Arrive, Accepting, Reading
<1>2. CASE UnsafeAccept
  <2>1. CASE UNCHANGED <<pool, content>> /\ accept' = [at |-> "off", buf |-> None]
    BY <1>2, <2>1 DEF UnsafeAccept, BuffersApart, Accepting, Reading
  <2>2. CASE \E b \in Buffers : GetLargeBuffer(b) /\ accept' = [at |-> "read", buf |-> b]
    <3>1. PICK b \in Buffers : GetLargeBuffer(b) /\ accept' = [at |-> "read", buf |-> b]
      BY <2>2
    <3>2. pool' = pool \ {b} /\ \A k \in Children : Reading(k) => reader[k].buf # b
      BY <3>1, TakenIsFree
    <3> QED
      BY <1>2, <3>1, <3>2 DEF UnsafeAccept, BuffersApart, Accepting, Reading
  <2> QED
    BY <1>2, <2>1, <2>2 DEF UnsafeAccept
<1>3. CASE AcceptRead
  BY <1>3, <1>a DEF AcceptRead, Accepting, Reading, UdpTypeOK
<1>4. CASE AcceptError
  BY <1>4, <1>c DEF AcceptError, Accepting
<1>5. CASE Close \/ UnsafeClose
  BY <1>5, <1>a DEF Close, UnsafeClose, Accepting, Reading
<1>6. ASSUME NEW k \in Children, DeriveChild(k)
      PROVE  BuffersApart'
  BY <1>6, <1>c DEF DeriveChild, Accepting
<1>7. ASSUME NEW k \in Children, ActiveChild(k) \/ ChildDown(k)
      PROVE  BuffersApart'
  <2>1. UNCHANGED <<pool, accept>>
    BY <1>7 DEF ActiveChild, ChildDown
  <2>2. reader' = reader \/ reader' = [reader EXCEPT ![k].at = "loop"]
    BY <1>7 DEF ActiveChild, ChildDown
  <2>3. \A j \in Children : reader'[j].buf = reader[j].buf /\ (Reading(j)' => Reading(j))
    BY <2>2, ReaderGoesOn, SMTT(30) DEF Reading
  <2> QED
    BY <1>a, <2>1, <2>3 DEF Accepting
<1>8. ASSUME NEW k \in Children, ReaderLoop(k)
      PROVE  BuffersApart'
  <2>1. CASE reader' = [reader EXCEPT ![k].at = "end"] /\ UNCHANGED pool
    <3>1. \A j \in Children : reader'[j].buf = reader[j].buf /\ (Reading(j)' => Reading(j))
      BY <2>1, ReaderGoesOn DEF Reading
    <3> QED
      BY <1>8, <1>a, <2>1, <3>1 DEF ReaderLoop, Accepting
  <2>2. CASE \E b \in Buffers : /\ GetLargeBuffer(b)
                                /\ reader' = [reader EXCEPT ![k] = [at |-> "read", buf |-> b]]
    <3>1. PICK b \in Buffers : /\ GetLargeBuffer(b)
                               /\ reader' = [reader EXCEPT ![k] = [at |-> "read", buf |-> b]]
      BY <2>2, Zenon
    <3>2. /\ pool' = pool \ {b} /\ (Accepting => accept.buf # b)
          /\ \A j \in Children : Reading(j) => reader[j].buf # b
      BY <3>1, TakenIsFree
    <3>3. reader'[k] = [at |-> "read", buf |-> b] /\ accept' = accept
      BY <1>8, <3>1 DEF ReaderLoop, UdpTypeOK
    <3>4. \A j \in Children : j # k => reader'[j] = reader[j]
      BY <3>1 DEF UdpTypeOK
    <3> QED
      BY <3>2, <3>3, <3>4 DEF BuffersApart, Accepting, Reading
  <2> QED
    BY <1>8, <2>1, <2>2 DEF ReaderLoop, GetBufferForSize, GetWithSize
<1>9. ASSUME NEW k \in Children, ReadFirst(k) \/ ReadSocket(k)
      PROVE  BuffersApart'
  <2>1. reader[k].at = "read" /\ UNCHANGED accept
    BY <1>9 DEF ReadFirst, ReadSocket
  <2>2. CASE /\ UNCHANGED pool
             /\ reader' = reader \/ reader' = [reader EXCEPT ![k].at = "fire"]
    <3>1. \A j \in Children : reader'[j].buf = reader[j].buf /\ (Reading(j)' => Reading(j))
      BY <2>1, <2>2, ReaderGoesOn DEF Reading
    <3> QED
      BY <1>a, <2>1, <2>2, <3>1 DEF Accepting
  \* The datagram was empty.
  <2>3. CASE /\ PutBufferForSize(k, reader[k].buf)
             /\ reader' = [reader EXCEPT ![k] = [at |-> "loop", buf |-> None]]
    <3>1. /\ \A j \in Children : j # k => reader'[j] = reader[j]
          /\ Reading(k) /\ ~Reading(k)'
      BY <2>1, <2>3 DEF Reading, UdpTypeOK
    <3> QED
      BY <1>b, <2>1, <2>3, <3>1
  <2> QED
    BY <1>9, <2>2, <2>3 DEF ReadFirst, ReadSocket
<1>10. ASSUME NEW k \in Children, ReadError(k)
       PROVE  BuffersApart'
  <2>1. \A j \in Children : j # k => reader'[j] = reader[j]
    BY <1>10 DEF ReadError, UdpTypeOK
  <2>2. Reading(k) /\ ~Reading(k)'
    BY <1>10 DEF ReadError, Reading, UdpTypeOK
  <2> QED
    BY <1>10, <1>b, <2>1, <2>2 DEF ReadError
<1>11. ASSUME NEW k \in Children, ReaderFires(k)
       PROVE  BuffersApart'
  <2>1. \A j \in Children : j # k => reader'[j] = reader[j]
    BY <1>11 DEF ReaderFires, UdpTypeOK
  <2>2. Reading(k) /\ ~Reading(k)'
    BY <1>11 DEF ReaderFires, Reading, UdpTypeOK
  <2> QED
    BY <1>11, <1>b, <2>1, <2>2 DEF ReaderFires
<1>12. CASE UNCHANGED udpVars
  BY <1>12, <1>a DEF udpVars, Accepting, Reading
<1> QED
  BY <1>1, <1>2, <1>3, <1>4, <1>5, <1>6, <1>7, <1>8, <1>9, <1>10, <1>11, <1>12 DEF UdpNext

----------------------------------------------------------------------------
(* Datagrams move from place to place.                                     *)

\* What is at each place.
LEMMA AtEach ==
  /\ At(InSocket) = socket /\ At(InDropped) = dropped /\ At(InAccept) = AcceptHand
  /\ \A k \in Children : /\ At(InWaiting(k)) = WaitingAt(k)
                         /\ At(InReader(k)) = ReaderHand(k)
                         /\ At(InGot(k)) = Given(k)
BY DEF At, InSocket, InDropped, InAccept, InWaiting, InReader, InGot

\* What is at each place after a step.
LEMMA AtEachNext ==
  /\ At(InSocket)' = socket' /\ At(InDropped)' = dropped' /\ At(InAccept)' = AcceptHand'
  /\ \A k \in Children : /\ At(InWaiting(k))' = WaitingAt(k)'
                         /\ At(InReader(k))' = ReaderHand(k)'
                         /\ At(InGot(k))' = Given(k)'
BY DEF At, InSocket, InDropped, InAccept, InWaiting, InReader, InGot

\* The places differ.
LEMMA PlacesDiffer ==
  /\ {InSocket, InDropped, InAccept} \subseteq UdpPlaces
  /\ InSocket # InDropped /\ InSocket # InAccept /\ InAccept # InDropped
  /\ \A k \in Children : /\ {InWaiting(k), InReader(k), InGot(k)} \subseteq UdpPlaces
                         /\ InAccept # InWaiting(k) /\ InWaiting(k) # InReader(k)
                         /\ InSocket # InReader(k) /\ InReader(k) # InGot(k)
  /\ \A p \in UdpPlaces :
       \/ p \in {InSocket, InDropped, InAccept}
       \/ \E k \in Children : p \in {InWaiting(k), InReader(k), InGot(k)}
BY DEF UdpPlaces, InSocket, InDropped, InAccept, InWaiting, InReader, InGot

\* The datagrams of D go from place l to place m.
Moves(l, m, D) ==
  /\ D \subseteq At(l) /\ At(l)' = At(l) \ D /\ At(m)' = At(m) \cup D
  /\ \A p \in UdpPlaces \ {l, m} : At(p)' = At(p)
  /\ UNCHANGED arrived

\* The places but l and m are as they were.
LEMMA ElsewhereStays ==
  ASSUME NEW l, NEW m,
         InSocket \in {l, m} \/ UNCHANGED socket,
         InDropped \in {l, m} \/ UNCHANGED dropped,
         InAccept \in {l, m} \/ UNCHANGED AcceptHand,
         \A k \in Children : /\ InWaiting(k) \in {l, m} \/ WaitingAt(k)' = WaitingAt(k)
                             /\ InReader(k) \in {l, m} \/ ReaderHand(k)' = ReaderHand(k)
                             /\ InGot(k) \in {l, m} \/ Given(k)' = Given(k)
  PROVE  \A p \in UdpPlaces \ {l, m} : At(p)' = At(p)
<1> SUFFICES ASSUME NEW p \in UdpPlaces, p \notin {l, m}
             PROVE  At(p)' = At(p)
  OBVIOUS
<1>1. CASE p \in {InSocket, InDropped, InAccept}
  BY <1>1, AtEach, AtEachNext
<1>2. CASE \E k \in Children : p \in {InWaiting(k), InReader(k), InGot(k)}
  BY <1>2, AtEach, AtEachNext
<1> QED
  BY <1>1, <1>2, PlacesDiffer

\* Such a step keeps every datagram at one place, and all of them.
LEMMA MovesKeep ==
  ASSUME NEW l \in UdpPlaces, NEW m \in UdpPlaces, l # m, NEW D, Moves(l, m, D), Apart, Counted
  PROVE  Apart' /\ Counted'
<1> DEFINE H(p) == At(p)
           G(p) == At(p)'
<1>1. /\ D \subseteq H(l) /\ G(l) = H(l) \ D /\ G(m) = H(m) \cup D
      /\ \A p \in UdpPlaces : p \notin {l, m} => G(p) = H(p)
      /\ arrived' = arrived
  BY DEF Moves
<1>2. \A p, q \in UdpPlaces : p # q => H(p) \cap H(q) = {}
  BY DEF Apart
<1>3. Everywhere = UNION {H(p) : p \in UdpPlaces} /\ Everywhere' = UNION {G(p) : p \in UdpPlaces}
  BY DEF Everywhere
<1>4. Apart' <=> \A p, q \in UdpPlaces : p # q => G(p) \cap G(q) = {}
  BY DEF Apart
<1> HIDE DEF H, G
<1>5. \A p, q \in UdpPlaces : p # q => G(p) \cap G(q) = {}
  <2> SUFFICES ASSUME NEW p \in UdpPlaces, NEW q \in UdpPlaces, p # q, NEW d \in G(p), d \in G(q)
               PROVE  FALSE
    OBVIOUS
  <2>1. CASE d \in D
    <3>1. \A o \in UdpPlaces : d \in G(o) => o = m
      BY <1>1, <1>2, <2>1
    <3> QED
      BY <3>1
  <2>2. CASE d \notin D
    <3>1. \A o \in UdpPlaces : d \in G(o) => d \in H(o)
      BY <1>1, <2>2
    <3> QED
      BY <1>2, <3>1
  <2> QED
    BY <2>1, <2>2
<1>6. \A d : (\E p \in UdpPlaces : d \in G(p)) <=> (\E p \in UdpPlaces : d \in H(p))
  BY <1>1
<1>7. Everywhere' = Everywhere
  BY <1>3, <1>6
<1> QED
  BY <1>1, <1>4, <1>5, <1>7 DEF Counted

\* An arrival adds one datagram, whose number is new.
LEMMA ArrivalKeeps ==
  ASSUME UdpTypeOK, Apart, Counted, NEW c \in Clients,
         socket' = socket \cup {<<c, arrived>>}, arrived' = arrived + 1,
         \A p \in UdpPlaces \ {InSocket} : At(p)' = At(p)
  PROVE  Apart' /\ Counted'
<1> DEFINE H(p) == At(p)
           G(p) == At(p)'
           new == <<c, arrived>>
<1>1. /\ G(InSocket) = H(InSocket) \cup {new}
      /\ \A p \in UdpPlaces : p # InSocket => G(p) = H(p)
  BY AtEach, AtEachNext
<1>2. \A p, q \in UdpPlaces : p # q => H(p) \cap H(q) = {}
  BY DEF Apart
<1>3. Everywhere = UNION {H(p) : p \in UdpPlaces} /\ Everywhere' = UNION {G(p) : p \in UdpPlaces}
  BY DEF Everywhere
<1>4. Apart' <=> \A p, q \in UdpPlaces : p # q => G(p) \cap G(q) = {}
  BY DEF Apart
<1>5. new \notin Everywhere /\ new[2] = arrived
  BY DEF Counted, UdpTypeOK
<1> HIDE DEF H, G, new
<1>6. \A p \in UdpPlaces : new \notin H(p)
  BY <1>3, <1>5
<1>7. \A p, q \in UdpPlaces : p # q => G(p) \cap G(q) = {}
  BY <1>1, <1>2, <1>6
<1>8. Everywhere' = Everywhere \cup {new}
  BY <1>1, <1>3, PlacesDiffer
<1>9. IsFiniteSet(Everywhere') /\ Cardinality(Everywhere') = arrived + 1
  BY <1>5, <1>8, FS_AddElement DEF Counted
<1>10. \A d \in Everywhere' : d[2] \in Nat /\ d[2] < arrived'
  BY <1>5, <1>8 DEF Counted, UdpTypeOK
<1> QED
  BY <1>4, <1>7, <1>9, <1>10 DEF Counted

\* A reader that nothing happens to keeps what it holds, unless its buffer is
\* written.
LEMMA HandKept ==
  ASSUME UdpTypeOK, BuffersApart, NEW k \in Children, UNCHANGED reader[k],
         \/ UNCHANGED content
         \/ \E b, x : /\ content' = [content EXCEPT ![b] = x]
                      /\ Reading(k) => reader[k].buf # b
  PROVE  ReaderHand(k)' = ReaderHand(k)
<1>1. CASE reader[k].at = "fire"
  <2>1. Reading(k) /\ reader[k].buf \in Buffers
    BY <1>1 DEF Reading, BuffersApart
  <2>2. content'[reader[k].buf] = content[reader[k].buf]
    BY <2>1 DEF UdpTypeOK
  <2> QED
    BY <2>2 DEF ReaderHand
<1> QED
  BY <1>1 DEF ReaderHand

\* Nothing at all happens at the places.
AllStay ==
  /\ UNCHANGED <<socket, dropped, arrived, AcceptHand>>
  /\ \A k \in Children : /\ WaitingAt(k)' = WaitingAt(k)
                         /\ ReaderHand(k)' = ReaderHand(k)
                         /\ Given(k)' = Given(k)

\* A step that touches no datagram moves the empty set.
LEMMA StillMoves == AllStay => Moves(InSocket, InDropped, {})
<1> SUFFICES ASSUME AllStay
             PROVE  Moves(InSocket, InDropped, {})
  OBVIOUS
<1>1. \A p \in UdpPlaces \ {InSocket, InDropped} : At(p)' = At(p)
  BY ElsewhereStays, Zenon DEF AllStay
<1> QED
  BY <1>1, AtEach, AtEachNext DEF Moves, AllStay

\* The steps that move nothing.
LEMMA StillSteps ==
  ASSUME UdpTypeOK, BuffersApart, Own,
         \/ UnsafeAccept \/ AcceptError \/ Close
         \/ \E k \in Children : ActiveChild(k) \/ ChildDown(k) \/ ReaderLoop(k) \/ ReadError(k)
         \/ UNCHANGED udpVars
  PROVE  AllStay /\ UNCHANGED <<client, firstRead, got>>
<1>a. ASSUME UNCHANGED <<client, first, firstRead, got>>
      PROVE  \A k \in Children : WaitingAt(k)' = WaitingAt(k) /\ Given(k)' = Given(k)
  BY <1>a DEF WaitingAt, Fresh, FirstLeft, Empty, Given
<1>1. CASE UnsafeAccept
  <2>1. AcceptHand = {} /\ AcceptHand' = {}
    BY <1>1 DEF UnsafeAccept, AcceptHand
  <2>2. \A k \in Children : ReaderHand(k)' = ReaderHand(k)
    BY <1>1, HandKept, TakenIsFree, Zenon DEF UnsafeAccept
  <2> QED
    BY <1>1, <1>a, <2>1, <2>2 DEF UnsafeAccept, AllStay
<1>2. CASE AcceptError \/ Close \/ UNCHANGED udpVars
  <2>1. AcceptHand' = AcceptHand
    BY <1>2 DEF AcceptError, Close, udpVars, AcceptHand
  <2>2. \A k \in Children : ReaderHand(k)' = ReaderHand(k)
    BY <1>2 DEF AcceptError, Close, udpVars, ReaderHand
  <2> QED
    BY <1>2, <1>a, <2>1, <2>2 DEF AcceptError, Close, udpVars, AllStay
<1>3. ASSUME NEW k \in Children, ActiveChild(k) \/ ChildDown(k)
      PROVE  AllStay /\ UNCHANGED <<client, firstRead, got>>
  <2>1. AcceptHand' = AcceptHand
    BY <1>3 DEF ActiveChild, ChildDown, AcceptHand
  <2>2. \A j \in Children : ReaderHand(j)' = ReaderHand(j)
    <3>1. content' = content
      BY <1>3 DEF ActiveChild, ChildDown
    <3>2. CASE reader' = reader
      BY <3>1, <3>2 DEF ReaderHand
    <3>3. CASE reader' = [reader EXCEPT ![k].at = "loop"] /\ reader[k].at = "off"
      BY <3>1, <3>3, ReaderGoesOn DEF ReaderHand
    <3> QED
      BY <1>3, <3>2, <3>3 DEF ActiveChild, ChildDown
  <2> QED
    BY <1>3, <1>a, <2>1, <2>2 DEF ActiveChild, ChildDown, AllStay
<1>4. ASSUME NEW k \in Children, ReaderLoop(k)
      PROVE  AllStay /\ UNCHANGED <<client, firstRead, got>>
  <2>1. /\ reader[k].at = "loop" /\ reader'[k].at # "fire"
        /\ \A j \in Children : j # k => reader'[j] = reader[j]
    BY <1>4, ReaderGoesOn DEF ReaderLoop, UdpTypeOK
  <2>2. \/ UNCHANGED content
        \/ \E b \in Buffers : GetLargeBuffer(b)
    BY <1>4 DEF ReaderLoop, GetBufferForSize, GetWithSize
  <2>3. \A j \in Children : ReaderHand(j)' = ReaderHand(j)
    <3>1. ReaderHand(k) = {} /\ ReaderHand(k)' = {}
      BY <2>1 DEF ReaderHand
    <3>2. \A j \in Children : j # k => ReaderHand(j)' = ReaderHand(j)
      BY <2>1, <2>2, HandKept, TakenIsFree
    <3> QED
      BY <3>1, <3>2
  <2>4. AcceptHand' = AcceptHand
    <3>1. CASE accept.at = "derive"
      <4>1. Accepting /\ accept.buf \in Buffers
        BY <3>1 DEF Accepting, BuffersApart
      <4>2. content'[accept.buf] = content[accept.buf]
        BY <2>2, <4>1, TakenIsFree DEF UdpTypeOK
      <4> QED
        BY <1>4, <4>2 DEF ReaderLoop, AcceptHand
    <3> QED
      BY <1>4, <3>1 DEF ReaderLoop, AcceptHand
  <2> QED
    BY <1>4, <1>a, <2>3, <2>4 DEF ReaderLoop, AllStay
<1>5. ASSUME NEW k \in Children, ReadError(k)
      PROVE  AllStay /\ UNCHANGED <<client, firstRead, got>>
  <2>1. /\ reader[k].at = "read" /\ reader'[k].at # "fire"
        /\ \A j \in Children : j # k => reader'[j] = reader[j]
    BY <1>5 DEF ReadError, UdpTypeOK
  <2>2. UNCHANGED <<content, accept>>
    BY <1>5 DEF ReadError
  <2>3. \A j \in Children : ReaderHand(j)' = ReaderHand(j)
    BY <2>1, <2>2 DEF ReaderHand
  <2>4. AcceptHand' = AcceptHand
    BY <2>2 DEF AcceptHand
  <2> QED
    BY <1>5, <1>a, <2>3, <2>4 DEF ReadError, AllStay
<1> QED
  BY <1>1, <1>2, <1>3, <1>4, <1>5

\* The steps that move datagrams: the accept loop reads one, ...
LEMMA AcceptReadMoves ==
  ASSUME UdpTypeOK, BuffersApart, AcceptRead
  PROVE  /\ \E D : Moves(InSocket, InAccept, D) /\ AcceptHand' \subseteq Datagrams
         /\ UNCHANGED <<client, firstRead, got>>
         /\ \A k \in Children : /\ WaitingAt(k)' = WaitingAt(k)
                                /\ ReaderHand(k)' = ReaderHand(k)
                                /\ Given(k)' = Given(k)
<1>1. PICK d \in socket : /\ socket' = socket \ {d}
                          /\ content' = [content EXCEPT ![accept.buf] = d]
  BY Zenon DEF AcceptRead
<1>2. accept.at = "read" /\ accept' = [accept EXCEPT !.at = "derive"]
      /\ UNCHANGED <<arrived, client, first, firstRead, reader, got, dropped>>
  BY DEF AcceptRead
<1>3. Accepting /\ accept.buf \in Buffers
  BY <1>2 DEF Accepting, BuffersApart
<1>4. accept'.at = "derive" /\ accept'.buf = accept.buf /\ content'[accept.buf] = d
  BY <1>1, <1>2, <1>3 DEF UdpTypeOK
<1>5. AcceptHand = {} /\ AcceptHand' = {d}
  BY <1>2, <1>4 DEF AcceptHand
<1>6. \A k \in Children : /\ WaitingAt(k)' = WaitingAt(k)
                          /\ ReaderHand(k)' = ReaderHand(k)
                          /\ Given(k)' = Given(k)
  <2>1. \A k \in Children : Reading(k) => reader[k].buf # accept.buf
    BY <1>3 DEF BuffersApart
  <2> QED
    BY <1>1, <1>2, <2>1, HandKept, Zenon DEF WaitingAt, Fresh, FirstLeft, Empty, Given
<1>7. \A p \in UdpPlaces \ {InSocket, InAccept} : At(p)' = At(p)
  BY <1>2, <1>6, ElsewhereStays
<1>8. Moves(InSocket, InAccept, {d})
  BY <1>1, <1>2, <1>5, <1>7, AtEach, AtEachNext DEF Moves
<1> QED
  BY <1>1, <1>2, <1>5, <1>6, <1>8 DEF UdpTypeOK

\* ... makes a child of it, which loses it if it is empty, ...
LEMMA DeriveMoves ==
  ASSUME UdpTypeOK, BuffersApart, Own, NEW k \in Children, DeriveChild(k)
  PROVE  /\ \E D, m : m \in {InWaiting(k), InDropped} /\ Moves(InAccept, m, D)
         /\ AcceptHand' = {} /\ UNCHANGED <<firstRead, got>>
         /\ client'[k] # None /\ WaitingAt(k)' \subseteq OwnData(k)'
         /\ ReaderHand(k)' = {} /\ Given(k)' = {}
         /\ \A j \in Children : j # k => /\ client'[j] = client[j]
                                         /\ WaitingAt(j)' = WaitingAt(j)
         /\ \A j \in Children : ReaderHand(j)' = ReaderHand(j)
         /\ \A j \in Children : Given(j)' = Given(j)
         /\ UNCHANGED reader
<1> DEFINE d == content[accept.buf]
<1>1. accept.at = "derive" /\ accept'.at = "loop" /\ client[k] = None
      /\ client' = [client EXCEPT ![k] = d[1]]
      /\ first' = [first EXCEPT ![k] = [data |-> d, buf |-> accept.buf]]
      /\ dropped' = dropped \cup {e \in {d} : Empty(e)}
      /\ UNCHANGED <<socket, arrived, content, firstRead, reader, got>>
  BY DEF DeriveChild
<1>2. AcceptHand = {d} /\ AcceptHand' = {} /\ d \in Datagrams
  BY <1>1 DEF AcceptHand, Own
<1>3. d[1] \in Clients /\ d[1] # None
  BY <1>2, ClientsAssumption DEF Datagrams, None
<1> HIDE DEF d
<1>4. client'[k] = d[1] /\ first'[k].data = d
  BY <1>1 DEF UdpTypeOK
<1>5. OwnData(k) = {}
  BY <1>1, ClientsAssumption DEF OwnData, Datagrams, None
<1>6. ~firstRead[k] /\ WaitingAt(k) = {} /\ ReaderHand(k) = {} /\ Given(k) = {}
  BY <1>1, <1>5 DEF Own, OwnOf, UdpTypeOK
<1>7. /\ Empty(d) => WaitingAt(k)' = {}
      /\ ~Empty(d) => WaitingAt(k)' = {d} /\ d \in OwnData(k)'
  BY <1>1, <1>2, <1>3, <1>4, <1>6 DEF WaitingAt, Fresh, FirstLeft, Empty, OwnData
<1>8. \A j \in Children : ReaderHand(j)' = ReaderHand(j) /\ Given(j)' = Given(j)
  BY <1>1 DEF ReaderHand, Given
<1>9. \A j \in Children : j # k => client'[j] = client[j] /\ WaitingAt(j)' = WaitingAt(j)
  BY <1>1 DEF WaitingAt, Fresh, FirstLeft, Empty, UdpTypeOK
<1>10. CASE Empty(d)
  <2>1. /\ dropped' = dropped \cup {d}
        /\ \A j \in Children : WaitingAt(j)' = WaitingAt(j)
    BY <1>1, <1>6, <1>7, <1>9, <1>10
  <2>2. \A p \in UdpPlaces \ {InAccept, InDropped} : At(p)' = At(p)
    BY <1>1, <1>8, <2>1, ElsewhereStays
  <2>3. Moves(InAccept, InDropped, {d})
    BY <1>1, <1>2, <2>1, <2>2, AtEach, AtEachNext DEF Moves
  <2> QED
    BY <1>1, <1>2, <1>3, <1>4, <1>6, <1>7, <1>8, <1>9, <1>10, <2>3
<1>11. CASE ~Empty(d)
  <2>1. dropped' = dropped
    BY <1>1, <1>11
  <2>2. \A p \in UdpPlaces \ {InAccept, InWaiting(k)} : At(p)' = At(p)
    BY <1>1, <1>8, <1>9, <2>1, ElsewhereStays
  <2>3. Moves(InAccept, InWaiting(k), {d})
    BY <1>1, <1>2, <1>6, <1>7, <1>11, <2>2, AtEach, AtEachNext DEF Moves
  <2> QED
    BY <1>1, <1>2, <1>3, <1>4, <1>6, <1>7, <1>8, <1>9, <1>11, <2>3
<1> QED
  BY <1>10, <1>11

\* ... the child's first read returns it, ...
LEMMA FirstMoves ==
  ASSUME UdpTypeOK, BuffersApart, Own, NEW k \in Children, ReadFirst(k)
  PROVE  /\ \E D : Moves(InWaiting(k), InReader(k), D)
         /\ UNCHANGED <<client, got, AcceptHand>>
         /\ client[k] # None /\ WaitingAt(k)' = {} /\ ReaderHand(k)' \subseteq OwnData(k)
         /\ \A j \in Children : j # k => /\ reader'[j] = reader[j]
                                         /\ firstRead'[j] = firstRead[j]
                                         /\ WaitingAt(j)' = WaitingAt(j)
                                         /\ ReaderHand(j)' = ReaderHand(j)
         /\ \A j \in Children : Given(j)' = Given(j)
<1> DEFINE d == first[k].data
           b == reader[k].buf
<1>1. reader[k].at = "read" /\ FirstLeft(k)
      /\ firstRead' = [firstRead EXCEPT ![k] = TRUE]
      /\ content' = [content EXCEPT ![b] = d]
      /\ reader' = [reader EXCEPT ![k].at = "fire"]
      /\ UNCHANGED <<socket, arrived, accept, client, first, got, dropped>>
  BY DEF ReadFirst, MarkFirst, FirstData
<1> HIDE DEF d, b
<1>2. Reading(k) /\ b \in Buffers /\ client[k] # None
  BY <1>1 DEF Reading, BuffersApart, Own, OwnOf, b
<1>3. reader'[k].at = "fire" /\ reader'[k].buf = b /\ content'[b] = d
  BY <1>1, <1>2, ReaderGoesOn DEF UdpTypeOK, b
<1>4. WaitingAt(k) = {d} /\ WaitingAt(k)' = {}
  BY <1>1, <1>2 DEF WaitingAt, Fresh, FirstLeft, Empty, UdpTypeOK, d
<1>5. ReaderHand(k) = {} /\ ReaderHand(k)' = {d}
  BY <1>1, <1>3 DEF ReaderHand
<1>6. d \in OwnData(k)
  BY <1>4 DEF Own, OwnOf
<1>7. \A j \in Children : j # k => reader'[j] = reader[j] /\ firstRead'[j] = firstRead[j]
  BY <1>1 DEF UdpTypeOK
<1>8. \A j \in Children : j # k => /\ WaitingAt(j)' = WaitingAt(j)
                                   /\ ReaderHand(j)' = ReaderHand(j)
  <2>1. \A j \in Children : j # k /\ Reading(j) => reader[j].buf # b
    BY <1>2 DEF BuffersApart, b
  <2> QED
    BY <1>1, <1>7, <2>1, HandKept, Zenon DEF WaitingAt, Fresh, FirstLeft, Empty
<1>9. AcceptHand' = AcceptHand
  <2>1. CASE accept.at = "derive"
    <3>1. accept.buf \in Buffers /\ accept.buf # b
      BY <1>2, <2>1 DEF BuffersApart, Accepting, b
    <3> QED
      BY <1>1, <3>1 DEF AcceptHand, UdpTypeOK
  <2> QED
    BY <1>1, <2>1 DEF AcceptHand
<1>10. \A j \in Children : Given(j)' = Given(j)
  BY <1>1 DEF Given
<1>11. \A p \in UdpPlaces \ {InWaiting(k), InReader(k)} : At(p)' = At(p)
  BY <1>1, <1>8, <1>9, <1>10, ElsewhereStays
<1>12. Moves(InWaiting(k), InReader(k), {d})
  BY <1>1, <1>4, <1>5, <1>11, AtEach, AtEachNext DEF Moves
<1> QED
  BY <1>1, <1>2, <1>4, <1>5, <1>6, <1>7, <1>8, <1>9, <1>10, <1>12

\* ... later reads take one from the socket, to fire it or to drop it, ...
LEMMA SocketMoves ==
  ASSUME UdpTypeOK, BuffersApart, Own, NEW k \in Children, ReadSocket(k)
  PROVE  /\ \E D, m : m \in {InReader(k), InDropped} /\ Moves(InSocket, m, D)
         /\ UNCHANGED <<client, firstRead, got, AcceptHand>>
         /\ client[k] # None /\ ReaderHand(k)' \subseteq OwnData(k)
         /\ \A j \in Children : j # k => /\ reader'[j] = reader[j]
                                         /\ ReaderHand(j)' = ReaderHand(j)
         /\ \A j \in Children : WaitingAt(j)' = WaitingAt(j) /\ Given(j)' = Given(j)
<1> DEFINE b == reader[k].buf
<1>1. PICK d \in socket :
        /\ socket' = socket \ {d} /\ content' = [content EXCEPT ![b] = d]
        /\ \/ /\ d[1] = client[k] /\ ~Empty(d) /\ dropped' = dropped
              /\ reader' = [reader EXCEPT ![k].at = "fire"]
           \/ /\ dropped' = dropped \cup {d}
              /\ reader' \in {reader, [reader EXCEPT ![k] = [at |-> "loop", buf |-> None]]}
  BY DEF ReadSocket, FromClient
<1>2. /\ reader[k].at = "read"
      /\ UNCHANGED <<arrived, accept, client, first, firstRead, got>>
  BY DEF ReadSocket
<1> HIDE DEF b
<1>3. Reading(k) /\ b \in Buffers /\ client[k] # None /\ d \in Datagrams
  BY <1>1, <1>2 DEF Reading, BuffersApart, Own, OwnOf, UdpTypeOK, b
<1>4. ReaderHand(k) = {}
  BY <1>2 DEF ReaderHand
<1>5. \A j \in Children : WaitingAt(j)' = WaitingAt(j) /\ Given(j)' = Given(j)
  BY <1>2 DEF WaitingAt, Fresh, FirstLeft, Empty, Given
<1>6. \A j \in Children : j # k => reader'[j] = reader[j]
  BY <1>1 DEF UdpTypeOK
<1>7. \A j \in Children : j # k => ReaderHand(j)' = ReaderHand(j)
  <2>1. \A j \in Children : j # k /\ Reading(j) => reader[j].buf # b
    BY <1>3 DEF BuffersApart, b
  <2> QED
    BY <1>1, <1>6, <2>1, HandKept, Zenon
<1>8. AcceptHand' = AcceptHand
  <2>1. CASE accept.at = "derive"
    <3>1. accept.buf \in Buffers /\ accept.buf # b
      BY <1>3, <2>1 DEF BuffersApart, Accepting, b
    <3> QED
      BY <1>1, <1>2, <3>1 DEF AcceptHand, UdpTypeOK
  <2> QED
    BY <1>2, <2>1 DEF AcceptHand
<1>9. CASE /\ d[1] = client[k] /\ ~Empty(d) /\ dropped' = dropped
           /\ reader' = [reader EXCEPT ![k].at = "fire"]
  <2>1. reader'[k].at = "fire" /\ reader'[k].buf = b /\ content'[b] = d
    BY <1>1, <1>3, <1>9, ReaderGoesOn DEF UdpTypeOK, b
  <2>2. ReaderHand(k)' = {d} /\ d \in OwnData(k)
    BY <1>3, <1>9, <2>1 DEF ReaderHand, OwnData
  <2>3. \A p \in UdpPlaces \ {InSocket, InReader(k)} : At(p)' = At(p)
    BY <1>5, <1>7, <1>8, <1>9, ElsewhereStays
  <2>4. Moves(InSocket, InReader(k), {d})
    BY <1>1, <1>2, <1>4, <2>2, <2>3, AtEach, AtEachNext DEF Moves
  <2> QED
    BY <1>2, <1>3, <1>5, <1>6, <1>7, <1>8, <2>2, <2>4
<1>10. CASE /\ dropped' = dropped \cup {d}
            /\ reader' \in {reader, [reader EXCEPT ![k] = [at |-> "loop", buf |-> None]]}
  <2>1. ReaderHand(k)' = {}
    BY <1>2, <1>10 DEF ReaderHand, UdpTypeOK
  <2>2. \A j \in Children : ReaderHand(j)' = ReaderHand(j)
    BY <1>4, <1>7, <2>1
  <2>3. \A p \in UdpPlaces \ {InSocket, InDropped} : At(p)' = At(p)
    BY <1>5, <1>8, <2>2, ElsewhereStays
  <2>4. Moves(InSocket, InDropped, {d})
    BY <1>1, <1>2, <1>10, <2>3, AtEach, AtEachNext DEF Moves
  <2> QED
    BY <1>2, <1>3, <1>5, <1>6, <1>7, <1>8, <2>1, <2>4
<1> QED
  BY <1>1, <1>9, <1>10

\* ... and the pipeline gets it.
LEMMA FireMoves ==
  ASSUME UdpTypeOK, BuffersApart, Own, NEW k \in Children, ReaderFires(k)
  PROVE  /\ \E d : /\ Moves(InReader(k), InGot(k), {d})
                   /\ Given(k)' = Given(k) \cup {d} /\ ReaderHand(k) = {d}
                   /\ Len(got[k]) \in Nat /\ Len(got'[k]) = Len(got[k]) + 1
                   /\ d \in OwnData(k)
         /\ UNCHANGED <<client, firstRead, AcceptHand>>
         /\ client[k] # None /\ ReaderHand(k)' = {}
         /\ \A j \in Children : j # k => /\ reader'[j] = reader[j] /\ got'[j] = got[j]
                                         /\ ReaderHand(j)' = ReaderHand(j)
                                         /\ Given(j)' = Given(j)
         /\ \A j \in Children : WaitingAt(j)' = WaitingAt(j)
<1> DEFINE d == content[reader[k].buf]
           s == got[k]
<1>1. /\ reader[k].at = "fire" /\ got' = [got EXCEPT ![k] = Append(s, d)]
      /\ reader' = [reader EXCEPT ![k] = [at |-> "loop", buf |-> None]]
      /\ UNCHANGED <<socket, arrived, content, accept, client, first, firstRead, dropped>>
  BY DEF ReaderFires
<1>2. ReaderHand(k) = {d} /\ d \in OwnData(k) /\ client[k] # None
  BY <1>1 DEF ReaderHand, Own, OwnOf
<1>3. ReaderHand(k)' = {}
  BY <1>1 DEF ReaderHand, UdpTypeOK
<1> HIDE DEF d, s
<1>4. \A j \in Children : j # k => reader'[j] = reader[j] /\ got'[j] = got[j]
  BY <1>1 DEF UdpTypeOK
<1>5. s \in Seq(Datagrams) /\ d \in Datagrams /\ got'[k] = Append(s, d)
  BY <1>1, <1>2 DEF UdpTypeOK, OwnData, s
<1>6. /\ Len(s) \in Nat /\ Len(got'[k]) = Len(s) + 1 /\ got'[k][Len(s) + 1] = d
      /\ \A i \in 1..Len(s) : got'[k][i] = s[i]
  BY <1>5
<1>7. Given(k)' = Given(k) \cup {d}
  <2>1. Given(k)' = {got'[k][i] : i \in 1..(Len(s) + 1)}
    BY <1>6 DEF Given
  <2>2. Given(k) = {s[i] : i \in 1..Len(s)}
    BY DEF Given, s
  <2>3. 1..(Len(s) + 1) = 1..Len(s) \cup {Len(s) + 1}
    BY <1>6
  <2> QED
    BY <1>6, <2>1, <2>2, <2>3
<1>8. AcceptHand' = AcceptHand
  BY <1>1 DEF AcceptHand
<1>9. \A j \in Children : j # k => ReaderHand(j)' = ReaderHand(j) /\ Given(j)' = Given(j)
  BY <1>1, <1>4 DEF ReaderHand, Given
<1>10. \A j \in Children : WaitingAt(j)' = WaitingAt(j)
  BY <1>1 DEF WaitingAt, Fresh, FirstLeft, Empty
<1>11. \A p \in UdpPlaces \ {InReader(k), InGot(k)} : At(p)' = At(p)
  BY <1>1, <1>8, <1>9, <1>10, ElsewhereStays
<1>12. Moves(InReader(k), InGot(k), {d})
  BY <1>1, <1>2, <1>3, <1>7, <1>11, AtEach, AtEachNext DEF Moves
<1>13. Len(got[k]) = Len(s)
  BY DEF s
<1> QED
  BY <1>1, <1>2, <1>3, <1>4, <1>6, <1>7, <1>8, <1>9, <1>10, <1>12, <1>13, Zenon

\* What is in a socket that is closed is lost.
LEMMA CloseMoves ==
  ASSUME UnsafeClose
  PROVE  /\ Moves(InSocket, InDropped, socket)
         /\ UNCHANGED <<client, firstRead, got, reader, AcceptHand>>
         /\ \A k \in Children : /\ WaitingAt(k)' = WaitingAt(k)
                                /\ ReaderHand(k)' = ReaderHand(k)
                                /\ Given(k)' = Given(k)
<1>1. /\ socket' = {} /\ dropped' = dropped \cup socket
      /\ UNCHANGED <<arrived, content, accept, client, first, firstRead, reader, got>>
  BY DEF UnsafeClose
<1>2. /\ AcceptHand' = AcceptHand
      /\ \A k \in Children : /\ WaitingAt(k)' = WaitingAt(k)
                             /\ ReaderHand(k)' = ReaderHand(k)
                             /\ Given(k)' = Given(k)
  BY <1>1 DEF AcceptHand, WaitingAt, Fresh, FirstLeft, Empty, ReaderHand, Given
<1>3. \A p \in UdpPlaces \ {InSocket, InDropped} : At(p)' = At(p)
  BY <1>2, ElsewhereStays
<1> QED
  BY <1>1, <1>2, <1>3, AtEach, AtEachNext DEF Moves

\* An arrival touches the socket alone.
LEMMA ArrivalElsewhere ==
  ASSUME NEW c \in Clients, Arrive(c)
  PROVE  /\ socket' = socket \cup {<<c, arrived>>} /\ arrived' = arrived + 1
         /\ UNCHANGED <<client, firstRead, got, reader, AcceptHand>>
         /\ \A k \in Children : /\ WaitingAt(k)' = WaitingAt(k)
                                /\ ReaderHand(k)' = ReaderHand(k)
                                /\ Given(k)' = Given(k)
         /\ \A p \in UdpPlaces \ {InSocket} : At(p)' = At(p)
<1>1. /\ socket' = socket \cup {<<c, arrived>>} /\ arrived' = arrived + 1
      /\ UNCHANGED <<content, accept, client, first, firstRead, reader, got, dropped>>
  BY DEF Arrive
<1>2. /\ AcceptHand' = AcceptHand
      /\ \A k \in Children : /\ WaitingAt(k)' = WaitingAt(k)
                             /\ ReaderHand(k)' = ReaderHand(k)
                             /\ Given(k)' = Given(k)
  BY <1>1 DEF AcceptHand, WaitingAt, Fresh, FirstLeft, Empty, ReaderHand, Given
<1>3. \A p \in UdpPlaces \ {InSocket, InSocket} : At(p)' = At(p)
  BY <1>1, <1>2, ElsewhereStays
<1> QED
  BY <1>1, <1>2, <1>3

----------------------------------------------------------------------------
(* The three parts of the invariant about datagrams.                       *)

\* At the start no child has a datagram.
LEMMA OwnInit == UdpInit => Own
BY DEF UdpInit, Own, OwnOf, AcceptHand, WaitingAt, Fresh, FirstLeft, Empty, ReaderHand, Given, OwnData

\* UDPClientConn.Read drops a datagram of another client before it reaches the
\* pipeline, and a child's first datagram is the one that named its client.
LEMMA OwnStep == UdpTypeOK /\ BuffersApart /\ Own /\ [UdpNext]_udpVars => Own'
<1> SUFFICES ASSUME UdpTypeOK, BuffersApart, Own, [UdpNext]_udpVars
             PROVE  Own'
  OBVIOUS
\* A child that keeps its client and what it holds.
<1>a. ASSUME NEW k \in Children, client'[k] = client[k],
             reader'[k].at # "off" \/ firstRead'[k] => client[k] # None,
             WaitingAt(k)' \subseteq OwnData(k), ReaderHand(k)' \subseteq OwnData(k),
             Given(k)' \subseteq OwnData(k)
      PROVE  OwnOf(k)'
  <2>1. OwnData(k)' = OwnData(k)
    BY <1>a DEF OwnData
  <2> QED
    BY <1>a, <2>1 DEF OwnOf
<1>b. \A k \in Children :
        /\ reader[k].at # "off" \/ firstRead[k] => client[k] # None
        /\ WaitingAt(k) \subseteq OwnData(k) /\ ReaderHand(k) \subseteq OwnData(k)
        /\ Given(k) \subseteq OwnData(k)
  BY DEF Own, OwnOf
<1>1. ASSUME NEW c \in Clients, Arrive(c)
      PROVE  Own'
  BY <1>1, <1>a, <1>b, ArrivalElsewhere DEF Own
<1>2. CASE UnsafeAccept \/ AcceptError \/ Close \/ UNCHANGED udpVars
  <2>1. AllStay /\ UNCHANGED <<client, firstRead, got>> /\ reader' = reader
    BY <1>2, StillSteps, Zenon DEF UnsafeAccept, AcceptError, Close, udpVars
  <2> QED
    BY <1>a, <1>b, <2>1 DEF Own, AllStay
<1>3. ASSUME NEW k \in Children, ActiveChild(k) \/ ChildDown(k) \/ ReaderLoop(k) \/ ReadError(k)
      PROVE  Own'
  <2>1. AllStay /\ UNCHANGED <<client, firstRead, got>>
    BY <1>3, StillSteps
  <2>2. \A j \in Children : j # k => reader'[j] = reader[j]
    BY <1>3 DEF ActiveChild, ChildDown, ReaderLoop, ReadError, UdpTypeOK
  <2>3. reader'[k].at # "off" => client[k] # None
    BY <1>3, <1>b DEF ActiveChild, ChildDown, ReaderLoop, ReadError
  <2> QED
    BY <1>a, <1>b, <2>1, <2>2, <2>3 DEF Own, AllStay
<1>4. CASE AcceptRead
  <2>1. reader' = reader
    BY <1>4 DEF AcceptRead
  <2> QED
    BY <1>4, <1>a, <1>b, <2>1, AcceptReadMoves DEF Own
<1>5. CASE UnsafeClose
  BY <1>5, <1>a, <1>b, CloseMoves DEF Own
<1>6. ASSUME NEW k \in Children, DeriveChild(k)
      PROVE  Own'
  <2>1. OwnOf(k)'
    BY <1>6, DeriveMoves DEF OwnOf
  <2>2. \A j \in Children : j # k => OwnOf(j)'
    BY <1>6, <1>a, <1>b, DeriveMoves
  <2> QED
    BY <1>6, <2>1, <2>2, DeriveMoves DEF Own
<1>7. ASSUME NEW k \in Children, ReadFirst(k)
      PROVE  Own'
  BY <1>7, <1>a, <1>b, FirstMoves DEF Own
<1>8. ASSUME NEW k \in Children, ReadSocket(k)
      PROVE  Own'
  BY <1>8, <1>a, <1>b, SocketMoves DEF Own
<1>9. ASSUME NEW k \in Children, ReaderFires(k)
      PROVE  Own'
  BY <1>9, <1>a, <1>b, FireMoves, Zenon DEF Own
<1> QED
  BY <1>1, <1>2, <1>3, <1>4, <1>5, <1>6, <1>7, <1>8, <1>9 DEF UdpNext

\* At the start no datagram is anywhere.
LEMMA PlacesInit == UdpInit => Apart /\ Counted /\ GivenOnce
<1> SUFFICES ASSUME UdpInit
             PROVE  Apart /\ Counted /\ GivenOnce
  OBVIOUS
<1>1. /\ socket = {} /\ dropped = {} /\ AcceptHand = {} /\ arrived = 0
      /\ \A k \in Children : /\ WaitingAt(k) = {} /\ ReaderHand(k) = {}
                             /\ Given(k) = {} /\ Len(got[k]) = 0
  BY DEF UdpInit, AcceptHand, WaitingAt, Fresh, FirstLeft, Empty, ReaderHand, Given
<1>2. \A p \in UdpPlaces : At(p) = {}
  BY <1>1, AtEach, PlacesDiffer
<1>3. Everywhere = {}
  BY <1>2 DEF Everywhere
<1> QED
  BY <1>1, <1>2, <1>3, FS_EmptySet, Zenon DEF Apart, Counted, GivenOnce

\* Every step but an arrival moves a set of datagrams from one place to another;
\* an arrival puts one into the socket that was nowhere.
LEMMA PlacesStep ==
  UdpTypeOK /\ BuffersApart /\ Own /\ Apart /\ Counted /\ [UdpNext]_udpVars => Apart' /\ Counted'
<1> SUFFICES ASSUME UdpTypeOK, BuffersApart, Own, Apart, Counted, [UdpNext]_udpVars
             PROVE  Apart' /\ Counted'
  OBVIOUS
<1>1. ASSUME NEW c \in Clients, Arrive(c)
      PROVE  Apart' /\ Counted'
  BY <1>1, ArrivalElsewhere, ArrivalKeeps
<1>2. CASE \/ UnsafeAccept \/ AcceptError \/ Close
           \/ \E k \in Children : ActiveChild(k) \/ ChildDown(k) \/ ReaderLoop(k) \/ ReadError(k)
           \/ UNCHANGED udpVars
  BY <1>2, StillSteps, StillMoves, MovesKeep, PlacesDiffer
<1>3. CASE AcceptRead
  BY <1>3, AcceptReadMoves, MovesKeep, PlacesDiffer
<1>4. CASE UnsafeClose
  BY <1>4, CloseMoves, MovesKeep, PlacesDiffer
<1>5. ASSUME NEW k \in Children, DeriveChild(k)
      PROVE  Apart' /\ Counted'
  BY <1>5, DeriveMoves, MovesKeep, PlacesDiffer
<1>6. ASSUME NEW k \in Children, ReadFirst(k)
      PROVE  Apart' /\ Counted'
  BY <1>6, FirstMoves, MovesKeep, PlacesDiffer
<1>7. ASSUME NEW k \in Children, ReadSocket(k)
      PROVE  Apart' /\ Counted'
  BY <1>7, SocketMoves, MovesKeep, PlacesDiffer
<1>8. ASSUME NEW k \in Children, ReaderFires(k)
      PROVE  Apart' /\ Counted'
  BY <1>8, FireMoves, MovesKeep, PlacesDiffer, Zenon
<1> QED
  BY <1>1, <1>2, <1>3, <1>4, <1>5, <1>6, <1>7, <1>8 DEF UdpNext

\* What a pipeline gets was in a reader's hand or waiting, hence not given yet.
LEMMA GivenStep ==
  UdpTypeOK /\ BuffersApart /\ Own /\ Apart /\ GivenOnce /\ [UdpNext]_udpVars => GivenOnce'
<1> SUFFICES ASSUME UdpTypeOK, BuffersApart, Own, Apart, GivenOnce, [UdpNext]_udpVars
             PROVE  GivenOnce'
  OBVIOUS
<1>1. CASE UNCHANGED got
  BY <1>1, Zenon DEF GivenOnce, Given
<1>2. ASSUME NEW k \in Children, ReaderFires(k)
      PROVE  GivenOnce'
  <2>1. PICK d : /\ Given(k)' = Given(k) \cup {d} /\ ReaderHand(k) = {d}
                 /\ Len(got[k]) \in Nat /\ Len(got'[k]) = Len(got[k]) + 1
    BY <1>2, FireMoves, Zenon
  <2>2. ReaderHand(k) \cap Given(k) = {}
    BY AtEach, PlacesDiffer DEF Apart
  <2>3. d \notin Given(k)
    BY <2>1, <2>2
  <2>4. IsFiniteSet(Given(k)') /\ Cardinality(Given(k)') = Len(got'[k])
    <3> DEFINE G == Given(k)
    <3>1. IsFiniteSet(G) /\ Cardinality(G) = Len(got[k])
      BY DEF GivenOnce
    <3>2. d \notin G /\ Given(k)' = G \cup {d}
      BY <2>1, <2>3
    <3> HIDE DEF G
    <3>3. IsFiniteSet(G \cup {d}) /\ Cardinality(G \cup {d}) = Cardinality(G) + 1
      BY <3>1, <3>2, FS_AddElement, Zenon
    <3> QED
      BY <2>1, <3>1, <3>2, <3>3, Zenon
  <2>5. \A j \in Children : j # k => got'[j] = got[j] /\ Given(j)' = Given(j)
    BY <1>2, FireMoves
  <2> QED
    BY <2>4, <2>5 DEF GivenOnce
<1>3. CASE \/ UnsafeAccept \/ AcceptRead \/ AcceptError \/ Close \/ UnsafeClose
           \/ UNCHANGED udpVars \/ \E c \in Clients : Arrive(c)
  BY <1>1, <1>3 DEF UnsafeAccept, AcceptRead, AcceptError, Close, UnsafeClose, udpVars, Arrive
<1>4. ASSUME NEW k \in Children,
             \/ DeriveChild(k) \/ ActiveChild(k) \/ ChildDown(k) \/ ReaderLoop(k)
             \/ ReadFirst(k) \/ ReadSocket(k) \/ ReadError(k)
      PROVE  GivenOnce'
  BY <1>1, <1>4 DEF DeriveChild, ActiveChild, ChildDown, ReaderLoop, ReadFirst, ReadSocket,
     ReadError
<1> QED
  BY <1>2, <1>3, <1>4 DEF UdpNext

----------------------------------------------------------------------------
(* The theorems.                                                           *)

\* What the invariant says of each child is what the property asks.
LEMMA OwnDatagramsHold == UdpTypeOK /\ Own => OwnDatagrams
<1> SUFFICES ASSUME Own, NEW k \in Children, NEW i \in 1..Len(got[k])
             PROVE  got[k][i] # Clear /\ got[k][i][1] = client[k]
  BY DEF OwnDatagrams
<1>1. got[k][i] \in Datagrams /\ got[k][i][1] = client[k]
  BY DEF Own, OwnOf, OwnData, Given
<1> QED
  BY <1>1 DEF Datagrams, Clear

\* Datagrams at one place at a time, and in no pipeline twice, are given once.
LEMMA EachDatagramOnceHolds ==
  UdpTypeOK /\ Own /\ Apart /\ Counted /\ GivenOnce => EachDatagramOnce
<1> SUFFICES ASSUME UdpTypeOK, Own, Apart, Counted, GivenOnce
             PROVE  EachDatagramOnce
  OBVIOUS
<1> DEFINE given == UNION {Given(k) : k \in Children}
           kept == socket \cup InHand \cup Waiting
<1>1. \A k \in Children : Cardinality(Given(k)) = Len(got[k])
  BY DEF GivenOnce
<1>2. \A k, j \in Children : k # j => Given(k) \cap Given(j) = {}
  <2>1. \A k, j \in Children : k # j => InGot(k) # InGot(j)
    BY DEF InGot
  <2> QED
    BY <2>1, AtEach, PlacesDiffer DEF Apart
<1>3. \A d : d \in InHand <=> d \in AcceptHand \/ \E k \in Children : d \in ReaderHand(k)
  <2>1. /\ accept.at # "fire"
        /\ \A k \in Children : reader[k].at # "derive"
    BY Zenon DEF UdpTypeOK
  <2> QED
    BY <2>1 DEF InHand, AcceptHand, ReaderHand
<1>4. \A d : d \in Waiting <=> \E k \in Children : d \in WaitingAt(k)
  BY DEF Waiting, WaitingAt, Fresh
<1>5. \A d : d \in given <=> \E k \in Children : d \in Given(k)
  OBVIOUS
<1>6. \A d : d \in Everywhere <=> \E p \in UdpPlaces : d \in At(p)
  BY DEF Everywhere
<1>10. \A d \in given : ~Empty(d)
  BY <1>5 DEF Own, OwnOf, OwnData
<1> HIDE DEF given
<1>7. \A d : d \in Everywhere <=>
             \/ d \in socket \/ d \in dropped \/ d \in AcceptHand
             \/ \E k \in Children : d \in WaitingAt(k) \/ d \in ReaderHand(k) \/ d \in Given(k)
  BY <1>6, AtEach, PlacesDiffer
<1>8. Everywhere = given \cup dropped \cup kept
  BY <1>3, <1>4, <1>5, <1>7
<1>9. given \cap (dropped \cup kept) = {}
  <2> SUFFICES ASSUME NEW k \in Children, NEW d \in Given(k)
               PROVE  d \notin dropped /\ d \notin kept
    BY <1>5
  <2>1. \A p \in UdpPlaces : d \in At(p) => p = InGot(k)
    BY AtEach, PlacesDiffer DEF Apart
  <2>2. /\ InSocket # InGot(k) /\ InDropped # InGot(k) /\ InAccept # InGot(k)
        /\ \A j \in Children : InWaiting(j) # InGot(k) /\ InReader(j) # InGot(k)
    BY DEF InSocket, InDropped, InAccept, InWaiting, InReader, InGot
  <2>3. /\ d \notin socket /\ d \notin dropped /\ d \notin AcceptHand
        /\ \A j \in Children : d \notin WaitingAt(j) /\ d \notin ReaderHand(j)
    BY <2>1, <2>2, AtEach, PlacesDiffer
  <2> QED
    BY <1>3, <1>4, <2>3
<1> QED
  BY <1>1, <1>2, <1>8, <1>9, <1>10 DEF EachDatagramOnce, Counted, given

\* Every reachable state of the server satisfies the inductive invariant: buffers
\* kept apart, datagrams at one place each, and only their client's on the way to
\* a child.
THEOREM Inductive == UdpSpec => []UdpInv
<1>1. UdpInit => UdpInv
  BY UdpTypeInit, BuffersInit, OwnInit, PlacesInit DEF UdpInv
<1>2. UdpInv /\ [UdpNext]_udpVars => UdpInv'
  BY UdpTypeStep, BuffersStep, OwnStep, PlacesStep, GivenStep DEF UdpInv
<1> QED
  BY <1>1, <1>2, PTL DEF UdpSpec

\* Every variable has its type: what a buffer, a child or a pipeline has is a
\* datagram of some client.
THEOREM UdpTyped == UdpSpec => []UdpTypeOK
<1>1. UdpInv => UdpTypeOK
  BY DEF UdpInv
<1> QED
  BY <1>1, Inductive, PTL

\* A buffer that the accept loop or a reader has in use is not in the pool and
\* nobody else's, although they pass buffers to each other.
THEOREM NoBufferShared == UdpSpec => []BuffersApart
<1>1. UdpInv => BuffersApart
  BY DEF UdpInv
<1> QED
  BY <1>1, Inductive, PTL

\* A child's pipeline gets its client's datagrams only, whatever became of the
\* buffers they were read into.
THEOREM PipelinesGetOwn == UdpSpec => []OwnDatagrams
<1>1. UdpInv => OwnDatagrams
  BY OwnDatagramsHold DEF UdpInv
<1> QED
  BY <1>1, Inductive, PTL

\* Each datagram that arrived is at one place: with one pipeline, once, or lost,
\* or on its way.
THEOREM DatagramsConserved == UdpSpec => []EachDatagramOnce
<1>1. UdpInv => EachDatagramOnce
  BY EachDatagramOnceHolds DEF UdpInv
<1> QED
  BY <1>1, Inductive, PTL
============================================================================
