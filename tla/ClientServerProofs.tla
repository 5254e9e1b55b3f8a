------------------------- MODULE ClientServerProofs -------------------------
(***************************************************************************)
(* Proofs about the two ends of a connection: ReconnectClient, for every   *)
(* number of channels, and ServerAccept, for every set of connections and  *)
(* of calls of Close and Deregister.                                       *)
(*                                                                         *)
(* The inductive invariant of the client says that                         *)
(*   - Chain: only the channel made last can be open or still decide to    *)
(*     reconnect, the older ones are gone and have made their successor;   *)
(*   - Resolution: the future of Connect tells how the dial ended;         *)
(*   - Latest: Client.ch is what the last start has brought;               *)
(*   - Quiet, Final: an unraced Disconnect leaves nothing under way;       *)
(*   - Sockets: a socket is open while its channel is live, and after that *)
(*     until it is closed, or for good if an I/O error has ended its flag;  *)
(*   - Told: what the user's handler was told of a channel is determined   *)
(*     by where the channel is.                                            *)
(*                                                                         *)
(* The argument about the server follows a child from the accept loop to   *)
(* its release, and waitChildren past it:                                  *)
(*   - Lifetimes: a child is stored once, activated once, and whatever     *)
(*     takes it down after that starts its one teardown, which releases it *)
(*     only when its close future is done;                                 *)
(*   - EldersAwaited: as long as waitChildren is at it, an elder is still  *)
(*     in the map it ranges over, or closed.                               *)
(***************************************************************************)
EXTENDS ReconnectClient, ServerAccept, SequenceTheorems, TLAPS

Chain ==
  \A k \in Channels :
    /\ k > made => conn[k] = "none" /\ start[k] = "off" /\ unreg[k] = "off"
    /\ k <= made => conn[k] # "none" /\ start[k] # "off"
    /\ k < made => unreg[k] \in {"start", "done"}
    /\ unreg[k] = "off" <=> conn[k] \in {"none", "dialing", "live"}

Resolution ==
  \A k \in Channels :
    /\ conn[k] \in {"none", "dialing"} => future[k] = "pending"
    /\ conn[k] = "live" => future[k] # "failed"
    /\ start[k] = "returned" => future[k] # "pending"

Latest ==
  ~overtaken =>
    \A k \in Channels : k = made /\ start[k] = "returned" =>
      ch = IF future[k] = "success" THEN k ELSE Nil

\* After a Disconnect that overlapped nothing, nothing is ever under way ...
Quiet ==
  /\ disc # "idle" => made > 0
  /\ disc # "idle" /\ ~raced => close /\ \A k \in Channels : ~UnderWay(k)

\* ... and when it has returned, no channel is open.
Final ==
  disc = "returned" /\ ~raced /\ ~overtaken => \A k \in Channels : conn[k] # "live"

\* The types of what these conjuncts are about.
CoreType ==
  /\ close \in BOOLEAN
  /\ ch \in Channels \cup {Nil}
  /\ made \in 0..MaxChannels
  /\ conn \in [Channels -> {"none", "dialing", "live", "down", "failed"}]
  /\ future \in [Channels -> {"pending", "success", "failed"}]
  /\ start \in [Channels -> {"off", "sync", "returned"}]
  /\ unreg \in [Channels -> {"off", "inactive", "check", "ask", "start", "done"}]
  /\ sub \in [Channels -> Channels \cup {Nil}]
  /\ disc \in {"idle", "flagged", "returned", "panic"}
  /\ overtaken \in BOOLEAN
  /\ raced \in BOOLEAN

\* What a channel's socket is follows from where the channel is.
SocketOf(k) ==
  /\ conn[k] \in {"none", "dialing", "failed"} => sock[k] = "none"
  /\ conn[k] = "live" => sock[k] = "open"
  /\ k \in closing <=> conn[k] = "down" /\ sock[k] = "open"

Sockets == \A k \in Channels : SocketOf(k)

IInv == TypeOK /\ Chain /\ Resolution /\ Latest /\ Quiet /\ Final /\ Sockets

----------------------------------------------------------------------------
\* A new client satisfies the invariant.
LEMMA InitIInv == Init => IInv
<1> SUFFICES ASSUME Init PROVE IInv
  OBVIOUS
<1> USE MaxChannelsAssumption DEF Init, Channels, Nil
<1>1. TypeOK
  <2>1. close \in BOOLEAN /\ overtaken \in BOOLEAN /\ raced \in BOOLEAN
    BY Zenon
  <2>2. told \in [Channels -> Seq(UserEvents)] /\ hasty \subseteq Channels
    OBVIOUS
  <2> QED BY <2>1, <2>2 DEF TypeOK
<1>2. Chain BY DEF Chain
<1>3. Resolution BY DEF Resolution
<1>4. Latest BY DEF Latest
<1>5. Quiet /\ Final BY DEF Quiet, Final
<1>6. Sockets BY DEF Sockets, SocketOf
<1> QED BY <1>1, <1>2, <1>3, <1>4, <1>5, <1>6 DEF IInv

\* What the user's handler is told stays a sequence of events.
LEMMA TellType ==
  ASSUME told \in [Channels -> Seq(UserEvents)], NEW k \in Channels,
         NEW event \in UserEvents, Tell(k, event)
  PROVE  told' \in [Channels -> Seq(UserEvents)]
<1>1. Append(told[k], event) \in Seq(UserEvents)
  OBVIOUS
<1> QED BY <1>1 DEF Tell

\* The part of Start and Reconnect that makes a channel is well typed.
LEMMA MakeChannelType ==
  ASSUME TypeOK, MakeChannel
  PROVE  /\ made' \in Channels /\ made' = made + 1
         /\ conn' \in [Channels -> {"none", "dialing", "live", "down", "failed"}]
         /\ start' \in [Channels -> {"off", "sync", "returned"}]
         /\ told' \in [Channels -> Seq(UserEvents)]
<1>1. made + 1 \in Channels BY DEF MakeChannel
<1>2. told' \in [Channels -> Seq(UserEvents)]
  BY <1>1, TellType DEF MakeChannel, TypeOK, UserEvents
<1> QED BY <1>1, <1>2, MaxChannelsAssumption DEF MakeChannel, TypeOK, Channels

\* Every step keeps the state well typed.
LEMMA NextTypeOK == TypeOK /\ [Next]_vars => TypeOK'
<1> SUFFICES ASSUME TypeOK, [Next]_vars PROVE TypeOK'
  OBVIOUS
<1> USE MaxChannelsAssumption DEF TypeOK, Channels, Nil, userVars, sockVars
<1>1. CASE Start
  <2>1. MakeChannel BY <1>1 DEF Start
  <2>2. /\ made' \in Channels
        /\ conn' \in [Channels -> {"none", "dialing", "live", "down", "failed"}]
        /\ start' \in [Channels -> {"off", "sync", "returned"}]
        /\ told' \in [Channels -> Seq(UserEvents)]
    BY <2>1, MakeChannelType
  <2> QED BY <1>1, <2>2 DEF Start
<1>2. ASSUME NEW k \in Channels, ConnectStep(k) PROVE TypeOK'
  <2>1. CASE ActiveUser(k)
    <3>1. told' \in [Channels -> Seq(UserEvents)]
      BY <2>1, TellType, Zenon DEF ActiveUser, UserEvents
    <3> QED BY <2>1, <3>1 DEF ActiveUser
  <2>2. CASE DialSucceeds(k) \/ ActiveReconnect(k)
    BY <2>2, ZenonT(60) DEF DialSucceeds, ActiveReconnect
  <2>3. CASE DialFails(k) \/ ConnectResolves(k)
    BY <2>3 DEF DialFails, ConnectResolves
  <2>4. CASE StartReturns(k)
    BY <2>4 DEF StartReturns
  <2> QED BY <1>2, <2>1, <2>2, <2>3, <2>4, Zenon DEF ConnectStep
<1>3. ASSUME NEW k \in Channels, ConnectionLost(k) \/ KeepAliveFails(k) PROVE TypeOK'
  <2>1. /\ conn' \in [Channels -> {"none", "dialing", "live", "down", "failed"}]
        /\ unreg' \in [Channels -> {"off", "inactive", "check", "ask", "start", "done"}]
        /\ hasty' \subseteq Channels
    BY <1>3 DEF ConnectionLost, KeepAliveFails, Inactivate
  <2>2. /\ sock' \in [Channels -> {"none", "open", "broken", "closed"}]
        /\ closing' \subseteq Channels
    BY <1>3 DEF ConnectionLost, KeepAliveFails, LoseSocket
  <2>3. UNCHANGED <<close, ch, made, future, start, sub, disc, overtaken, raced, active, told>>
    BY <1>3 DEF ConnectionLost, KeepAliveFails
  <2> QED BY <2>1, <2>2, <2>3
<1>4. ASSUME NEW k \in Channels, UnregisteredStep(k) PROVE TypeOK'
  <2>1. CASE Reconnect(k)
    <3>1. MakeChannel BY <2>1 DEF Reconnect
    <3>2. /\ made' \in Channels
          /\ conn' \in [Channels -> {"none", "dialing", "live", "down", "failed"}]
          /\ start' \in [Channels -> {"off", "sync", "returned"}]
          /\ told' \in [Channels -> Seq(UserEvents)]
      BY <3>1, MakeChannelType
    <3> QED BY <2>1, <3>2 DEF Reconnect
  <2>2. CASE InactiveUser(k)
    <3>1. told' \in [Channels -> Seq(UserEvents)]
      BY <2>2, TellType, Zenon DEF InactiveUser, UserEvents
    <3> QED BY <2>2, <3>1 DEF InactiveUser
  <2>3. CASE UnregisteredCheck(k) \/ GiveUp(k) \/ UnregisteredReturns(k)
    <3>1. told' \in [Channels -> Seq(UserEvents)]
      <4>1. CASE told' = told BY <4>1
      <4>2. CASE Tell(k, "unregistered") BY <4>2, TellType, Zenon DEF UserEvents
      <4> QED BY <2>3, <4>1, <4>2 DEF UnregisteredCheck, GiveUp, UnregisteredReturns
    <3>2. CASE UnregisteredCheck(k) BY <3>1, <3>2, Zenon DEF UnregisteredCheck
    <3>3. CASE GiveUp(k) BY <3>1, <3>3 DEF GiveUp
    <3>4. CASE UnregisteredReturns(k) BY <3>1, <3>4, Zenon DEF UnregisteredReturns
    <3> QED BY <2>3, <3>2, <3>3, <3>4, Zenon
  <2> QED BY <1>4, <2>1, <2>2, <2>3, Zenon DEF UnregisteredStep
<1>5. CASE DisconnectFlag
  BY <1>5 DEF DisconnectFlag
<1>6. CASE DisconnectChannel
  <2>1. CASE UNCHANGED <<conn, unreg, closing>>
    BY <1>6, <2>1 DEF DisconnectChannel
  <2>2. CASE ch # Nil /\ Inactivate(ch) /\ closing' = closing \cup {ch}
    <3>1. /\ conn' \in [Channels -> {"none", "dialing", "live", "down", "failed"}]
          /\ unreg' \in [Channels -> {"off", "inactive", "check", "ask", "start", "done"}]
          /\ closing' \subseteq Channels
      BY <2>2 DEF Inactivate
    <3> QED BY <1>6, <3>1 DEF DisconnectChannel
  <2> QED BY <1>6, <2>1, <2>2 DEF DisconnectChannel
<1>7. CASE Terminated \/ UNCHANGED vars
  BY <1>7 DEF Terminated, vars
<1>8. ASSUME NEW k \in Channels, CloseSocket(k) PROVE TypeOK'
  BY <1>8 DEF CloseSocket
<1> QED BY <1>1, <1>2, <1>3, <1>4, <1>5, <1>6, <1>7, <1>8, Zenon DEF Next

----------------------------------------------------------------------------
(* One lemma per action for the rest of the invariant.                     *)

Facts == Chain /\ Resolution /\ Latest /\ Quiet /\ Final

\* Start keeps the facts: the first channel is the last one.
LEMMA StartFacts ==
  ASSUME CoreType, Facts, CoreType', Start PROVE Facts'
BY MaxChannelsAssumption
   DEF Facts, Chain, Resolution, Latest, Quiet, Final, CoreType, Channels, Nil,
       UnderWay, Start, MakeChannel

\* The steps of Connect and start keep the facts.
LEMMA ConnectStepFacts ==
  ASSUME CoreType, Facts, CoreType', NEW k \in Channels, ConnectStep(k) PROVE Facts'
<1> USE MaxChannelsAssumption
    DEF Facts, Chain, Resolution, Latest, Quiet, Final, CoreType, Channels, Nil, UnderWay
<1>1. CASE DialSucceeds(k)
  <2>1. Chain' BY <1>1 DEF DialSucceeds
  <2>2. Resolution' BY <1>1 DEF DialSucceeds
  <2>3. Latest' BY <1>1 DEF DialSucceeds
  <2>4. Quiet' BY <1>1 DEF DialSucceeds
  <2>5. Final' BY <1>1 DEF DialSucceeds
  <2> QED BY <2>1, <2>2, <2>3, <2>4, <2>5
<1>2. CASE DialFails(k) BY <1>2 DEF DialFails
<1>3. CASE ConnectResolves(k) BY <1>3 DEF ConnectResolves
<1>4. CASE StartReturns(k)
  <2>1. Chain' BY <1>4 DEF StartReturns
  <2>2. Resolution' BY <1>4 DEF StartReturns
  <2>3. Latest'
    <3> SUFFICES ASSUME ~overtaken', NEW j \in Channels, j = made, start'[j] = "returned"
                 PROVE  ch' = IF future[j] = "success" THEN j ELSE Nil
      BY <1>4 DEF StartReturns
    <3>1. CASE j = k BY <1>4, <3>1 DEF StartReturns
    <3>2. CASE j # k
      <4>1. k < j /\ start[j] = "returned" BY <1>4, <3>2 DEF StartReturns
      <4> QED BY <1>4, <4>1, Zenon DEF StartReturns
    <3> QED BY <3>1, <3>2
  <2>4. Quiet' BY <1>4 DEF StartReturns
  <2>5. Final' BY <1>4 DEF StartReturns
  <2> QED BY <2>1, <2>2, <2>3, <2>4, <2>5
<1>5. CASE ActiveReconnect(k) \/ ActiveUser(k)
  BY <1>5 DEF ActiveReconnect, ActiveUser
<1> QED BY <1>1, <1>2, <1>3, <1>4, <1>5 DEF ConnectStep

\* A lost connection keeps the facts, whoever notices it: only the last channel is
\* open.
LEMMA ConnectionLostFacts ==
  ASSUME CoreType, Facts, CoreType', NEW k \in Channels, ConnectionLost(k) \/ KeepAliveFails(k)
  PROVE  Facts'
BY MaxChannelsAssumption
   DEF Facts, Chain, Resolution, Latest, Quiet, Final, CoreType, Channels, Nil,
       UnderWay, ConnectionLost, KeepAliveFails, Inactivate

\* The reconnect handler keeps the facts: it makes the next channel only while
\* its own, the last one, is gone.
LEMMA UnregisteredStepFacts ==
  ASSUME CoreType, Facts, CoreType', NEW k \in Channels, UnregisteredStep(k) PROVE Facts'
<1> USE MaxChannelsAssumption
    DEF Facts, Chain, Resolution, Latest, Quiet, Final, CoreType, Channels, Nil, UnderWay
<1>1. CASE UnregisteredCheck(k) BY <1>1 DEF UnregisteredCheck
<1>2. CASE Reconnect(k)
  <2>1. Chain'
    <3>1. k = made /\ made' = made + 1 /\ made' \in Channels
      <4>1. unreg[k] = "ask" BY <1>2 DEF Reconnect
      <4>2. ~(k > made) /\ ~(k < made) BY <4>1
      <4> QED BY <1>2, <4>2 DEF Reconnect, MakeChannel
    <3> SUFFICES ASSUME NEW j \in Channels
                 PROVE  /\ j > made' => conn'[j] = "none" /\ start'[j] = "off" /\ unreg'[j] = "off"
                        /\ j <= made' => conn'[j] # "none" /\ start'[j] # "off"
                        /\ j < made' => unreg'[j] \in {"start", "done"}
                        /\ unreg'[j] = "off" <=> conn'[j] \in {"none", "dialing", "live"}
      OBVIOUS
    <3>2. CASE j = made' BY <1>2, <3>1, <3>2 DEF Reconnect, MakeChannel
    <3>3. CASE j = made BY <1>2, <3>1, <3>3 DEF Reconnect, MakeChannel
    <3>4. CASE j # made /\ j # made' BY <1>2, <3>1, <3>4 DEF Reconnect, MakeChannel
    <3> QED BY <3>2, <3>3, <3>4
  <2>2. Resolution' BY <1>2 DEF Reconnect, MakeChannel
  <2>3. Latest' BY <1>2 DEF Reconnect, MakeChannel
  <2>4. Quiet' BY <1>2 DEF Reconnect, MakeChannel
  <2>5. Final' BY <1>2 DEF Reconnect, MakeChannel
  <2> QED BY <2>1, <2>2, <2>3, <2>4, <2>5
<1>3. CASE GiveUp(k) BY <1>3 DEF GiveUp
<1>4. CASE UnregisteredReturns(k) BY <1>4 DEF UnregisteredReturns
<1>5. CASE InactiveUser(k) BY <1>5 DEF InactiveUser
<1> QED BY <1>1, <1>2, <1>3, <1>4, <1>5 DEF UnregisteredStep

\* Disconnect keeps the facts, and establishes Quiet and then Final.
LEMMA DisconnectFacts ==
  ASSUME CoreType, Facts, CoreType', DisconnectFlag \/ DisconnectChannel PROVE Facts'
<1> USE MaxChannelsAssumption
    DEF Facts, Chain, Resolution, Latest, Quiet, Final, CoreType, Channels, Nil, UnderWay
<1>1. CASE DisconnectFlag BY <1>1 DEF DisconnectFlag
<1>2. CASE DisconnectChannel
  <2>1. Chain'
    <3>1. CASE UNCHANGED <<conn, unreg>> BY <1>2, <3>1 DEF DisconnectChannel
    <3>2. CASE ch \in Channels /\ conn[ch] = "live" /\ Inactivate(ch)
      <4>1. /\ conn' = [conn EXCEPT ![ch] = "down"] /\ unreg' = [unreg EXCEPT ![ch] = "inactive"]
            /\ UNCHANGED <<made, start>>
        BY <1>2, <3>2 DEF DisconnectChannel, Inactivate
      <4>2. unreg[ch] = "off" BY <3>2
      <4>3. ch = made BY <3>2, <4>2
      <4> QED BY <3>2, <4>1, <4>3
    <3> QED BY <1>2, <3>1, <3>2 DEF DisconnectChannel
  <2>2. Resolution' BY <1>2 DEF DisconnectChannel, Inactivate
  <2>3. Latest' BY <1>2 DEF DisconnectChannel, Inactivate
  <2>4. Quiet' BY <1>2 DEF DisconnectChannel, Inactivate
  <2>5. Final' BY <1>2 DEF DisconnectChannel, Inactivate
  <2> QED BY <2>1, <2>2, <2>3, <2>4, <2>5
<1> QED BY <1>1, <1>2

\* Closing a socket touches none of the facts.
LEMMA CloseSocketFacts ==
  ASSUME CoreType, Facts, NEW k \in Channels, CloseSocket(k) PROVE Facts'
BY DEF Facts, Chain, Resolution, Latest, Quiet, Final, UnderWay, CloseSocket

\* What is to be known of a channel's socket depends on the channel alone.
LEMMA SocketKept ==
  ASSUME NEW k \in Channels, SocketOf(k), conn'[k] = conn[k], sock'[k] = sock[k],
         k \in closing' <=> k \in closing
  PROVE  SocketOf(k)'
BY DEF SocketOf

\* A socket goes with its channel: it is there when the dial has succeeded, and when
\* the channel goes down it is broken, or to be closed.
LEMMA NextSockets == TypeOK /\ Chain /\ Sockets /\ [Next]_vars => Sockets'
<1> SUFFICES ASSUME TypeOK, Chain, Sockets, [Next]_vars, NEW j \in Channels
             PROVE  SocketOf(j)'
  BY DEF Sockets
<1> USE DEF userVars, sockVars
<1>a. SocketOf(j)
  BY DEF Sockets
<1>b. CASE UNCHANGED <<conn, sock, closing>>
  BY <1>a, <1>b, SocketKept
<1>1. CASE MakeChannel /\ UNCHANGED <<sock, closing>>
  <2>1. made + 1 \in Channels /\ conn[made + 1] = "none"
    BY <1>1, MaxChannelsAssumption DEF MakeChannel, Chain, TypeOK, Channels
  <2>2. conn' = [conn EXCEPT ![made + 1] = "dialing"]
    BY <1>1 DEF MakeChannel
  <2>3. CASE j = made + 1
    BY <1>1, <1>a, <2>1, <2>2, <2>3 DEF SocketOf, TypeOK
  <2>4. CASE j # made + 1
    BY <1>1, <1>a, <2>2, <2>4, SocketKept DEF TypeOK
  <2> QED BY <2>3, <2>4
<1>2. CASE Start
  BY <1>1, <1>2 DEF Start
<1>3. ASSUME NEW k \in Channels, ConnectStep(k) PROVE SocketOf(j)'
  <2>1. CASE DialSucceeds(k)
    BY <1>a, <2>1 DEF DialSucceeds, SocketOf, TypeOK
  <2>2. CASE DialFails(k)
    BY <1>a, <2>2 DEF DialFails, SocketOf, TypeOK
  <2> QED
    BY <1>b, <1>3, <2>1, <2>2
       DEF ConnectStep, ActiveReconnect, ActiveUser, ConnectResolves, StartReturns
<1>4. ASSUME NEW k \in Channels, ConnectionLost(k) \/ KeepAliveFails(k) PROVE SocketOf(j)'
  <2>1. conn[k] = "live" /\ conn' = [conn EXCEPT ![k] = "down"] /\ LoseSocket(k)
    BY <1>4 DEF ConnectionLost, KeepAliveFails, Inactivate
  <2> QED
    BY <1>a, <2>1 DEF LoseSocket, SocketOf, TypeOK
<1>5. ASSUME NEW k \in Channels, UnregisteredStep(k) PROVE SocketOf(j)'
  BY <1>b, <1>1, <1>5
     DEF UnregisteredStep, InactiveUser, UnregisteredCheck, Reconnect, GiveUp,
         UnregisteredReturns
<1>6. ASSUME NEW k \in Channels, CloseSocket(k) PROVE SocketOf(j)'
  BY <1>a, <1>6 DEF CloseSocket, SocketOf, TypeOK
<1>7. CASE DisconnectChannel
  <2>1. \/ UNCHANGED <<conn, closing>>
        \/ /\ conn[ch] = "live" /\ conn' = [conn EXCEPT ![ch] = "down"]
           /\ closing' = closing \cup {ch}
    BY <1>7 DEF DisconnectChannel, Inactivate
  <2>2. sock' = sock
    BY <1>7 DEF DisconnectChannel
  <2> QED
    BY <1>a, <1>b, <2>1, <2>2 DEF SocketOf, TypeOK
<1>8. CASE DisconnectFlag \/ Terminated \/ UNCHANGED vars
  BY <1>b, <1>8 DEF DisconnectFlag, Terminated, vars
<1> QED BY <1>2, <1>3, <1>4, <1>5, <1>6, <1>7, <1>8 DEF Next

\* The invariant is inductive.
LEMMA NextIInv == IInv /\ [Next]_vars => IInv'
<1> SUFFICES ASSUME IInv, [Next]_vars PROVE IInv'
  OBVIOUS
<1>1. TypeOK' /\ CoreType /\ CoreType' /\ Facts
  <2>1. TypeOK /\ TypeOK'
    BY NextTypeOK DEF IInv
  <2>2. CoreType /\ CoreType'
    BY <2>1 DEF TypeOK, CoreType
  <2> QED BY <2>1, <2>2 DEF IInv, Facts
<1>2. CASE Terminated \/ UNCHANGED vars
  <2>1. Facts'
    BY <1>1, <1>2
       DEF Terminated, vars, Facts, Chain, Resolution, Latest, Quiet, Final, UnderWay
  <2> QED BY <1>1, <2>1, NextSockets DEF IInv, Facts
<1>3. ASSUME Facts' PROVE IInv'
  BY <1>1, <1>3, NextSockets DEF IInv, Facts
<1> QED
  BY <1>1, <1>2, <1>3, StartFacts, ConnectStepFacts, ConnectionLostFacts,
     UnregisteredStepFacts, DisconnectFacts, CloseSocketFacts DEF Next

\* It holds in every reachable state.
LEMMA Invariance == Spec => []IInv
BY InitIInv, NextIInv, PTL DEF Spec

----------------------------------------------------------------------------
(* What the user's handler is told.                                        *)

\* The sequences of events that may be told of a channel.
None == <<>>
Registered == <<"registered">>
Dropped == <<"registered", "unregistered">>
Active == <<"registered", "active">>
Inactive == <<"registered", "active", "inactive">>
Whole == <<"registered", "active", "inactive", "unregistered">>

ToldOf(k) ==
  /\ active[k] = "off" <=> conn[k] \in {"none", "dialing", "failed"}
  /\ conn[k] = "failed" => unreg[k] # "inactive"
  /\ k \notin hasty =>
       /\ conn[k] = "none" => told[k] = None
       /\ conn[k] = "dialing" \/ active[k] \in {"reconnect", "user"} => told[k] = Registered
       /\ conn[k] = "down" => active[k] = "done"
       /\ active[k] = "done" =>
            /\ unreg[k] \in {"off", "inactive"} => told[k] = Active
            /\ unreg[k] \in {"check", "ask", "start"} => told[k] = Inactive
            /\ unreg[k] = "done" => told[k] = Whole
       /\ conn[k] = "failed" =>
            /\ unreg[k] = "done" => told[k] = Dropped
            /\ unreg[k] # "done" => told[k] = Registered

Told == \A k \in Channels : ToldOf(k)

\* The user knows of a channel that the client holds.
HeldIsTold ==
  \A k \in Channels :
    /\ future[k] = "success" => active[k] = "done"
    /\ ch = k => future[k] = "success"

\* What Told needs of the types.
ToldType ==
  /\ CoreType
  /\ active \in [Channels -> {"off", "reconnect", "user", "done"}]
  /\ told \in [Channels -> Seq(UserEvents)]

\* Appending to a sequence that is written out: one lemma for each length.
LEMMA AppendTwo ==
  ASSUME NEW S, NEW a \in S, NEW b \in S
  PROVE  Append(<<a>>, b) = <<a, b>>
<1> DEFINE s == Append(<<a>>, b)
           t == <<a, b>>
<1>1. <<a>> \in Seq(S)
  OBVIOUS
<1>2. s \in Seq(S)
  BY <1>1
<1>3. t \in Seq(S)
  OBVIOUS
<1>4. Len(s) = 2 /\ Len(t) = 2
  OBVIOUS
<1>5. s[1] = t[1] /\ s[2] = t[2]
  OBVIOUS
<1>6. \A i \in 1..Len(s) : s[i] = t[i]
  BY <1>4, <1>5
<1> HIDE DEF s, t
<1>7. s = t
  BY <1>2, <1>3, <1>4, <1>6, SeqEqual
<1> QED BY <1>7 DEF s, t

\* The same for two elements and a third ...
LEMMA AppendThree ==
  ASSUME NEW S, NEW a \in S, NEW b \in S, NEW c \in S
  PROVE  Append(<<a, b>>, c) = <<a, b, c>>
<1> DEFINE s == Append(<<a, b>>, c)
           t == <<a, b, c>>
<1>1. <<a, b>> \in Seq(S)
  OBVIOUS
<1>2. s \in Seq(S)
  BY <1>1
<1>3. t \in Seq(S)
  OBVIOUS
<1>4. Len(s) = 3 /\ Len(t) = 3
  OBVIOUS
<1>5. s[1] = t[1] /\ s[2] = t[2] /\ s[3] = t[3]
  OBVIOUS
<1>6. \A i \in 1..Len(s) : s[i] = t[i]
  BY <1>4, <1>5
<1> HIDE DEF s, t
<1>7. s = t
  BY <1>2, <1>3, <1>4, <1>6, SeqEqual
<1> QED BY <1>7 DEF s, t

\* ... and for three and a fourth.
LEMMA AppendFour ==
  ASSUME NEW S, NEW a \in S, NEW b \in S, NEW c \in S, NEW d \in S
  PROVE  Append(<<a, b, c>>, d) = <<a, b, c, d>>
<1> DEFINE s == Append(<<a, b, c>>, d)
           t == <<a, b, c, d>>
<1>1. <<a, b, c>> \in Seq(S)
  OBVIOUS
<1>2. s \in Seq(S)
  BY <1>1
<1>3. t \in Seq(S)
  OBVIOUS
<1>4. Len(s) = 4 /\ Len(t) = 4
  OBVIOUS
<1>5. s[1] = t[1] /\ s[2] = t[2] /\ s[3] = t[3] /\ s[4] = t[4]
  OBVIOUS
<1>6. \A i \in 1..Len(s) : s[i] = t[i]
  BY <1>4, <1>5
<1> HIDE DEF s, t
<1>7. s = t
  BY <1>2, <1>3, <1>4, <1>6, SeqEqual
<1> QED BY <1>7 DEF s, t

\* What Tell makes of the sequences of Told.
LEMMA Appended ==
  /\ Append(None, "registered") = Registered
  /\ Append(Registered, "active") = Active
  /\ Append(Registered, "unregistered") = Dropped
  /\ Append(Active, "inactive") = Inactive
  /\ Append(Inactive, "unregistered") = Whole
<1> USE DEF UserEvents
<1>1. /\ "registered" \in UserEvents /\ "active" \in UserEvents
      /\ "inactive" \in UserEvents /\ "unregistered" \in UserEvents
  OBVIOUS
<1> HIDE DEF UserEvents
<1>2. Append(None, "registered") = Registered
  BY DEF None, Registered
<1>3. Append(Registered, "active") = Active
  BY <1>1, AppendTwo DEF Registered, Active
<1>4. Append(Registered, "unregistered") = Dropped
  BY <1>1, AppendTwo DEF Registered, Dropped
<1>5. Append(Active, "inactive") = Inactive
  BY <1>1, AppendThree DEF Active, Inactive
<1>6. Append(Inactive, "unregistered") = Whole
  BY <1>1, AppendFour DEF Inactive, Whole
<1> QED BY <1>2, <1>3, <1>4, <1>5, <1>6

\* A channel that a step leaves alone.
LEMMA Untouched ==
  ASSUME NEW j \in Channels, ToldOf(j),
         conn'[j] = conn[j], active'[j] = active[j], unreg'[j] = unreg[j],
         told'[j] = told[j], j \in hasty' <=> j \in hasty
  PROVE  ToldOf(j)'
BY DEF ToldOf

\* Making a channel tells of it for the first time.
LEMMA MakeChannelTold ==
  ASSUME ToldType, Chain, Told, MakeChannel, UNCHANGED <<active, hasty>>,
         unreg' = unreg \/ \E k \in Channels : /\ unreg[k] = "ask"
                                               /\ unreg' = [unreg EXCEPT ![k] = "start"]
  PROVE  Told'
<1>1. made + 1 \in Channels
  BY DEF MakeChannel
<1>2. conn[made + 1] = "none" /\ unreg[made + 1] = "off"
  BY <1>1, MaxChannelsAssumption DEF Chain, ToldType, CoreType, Channels
<1> SUFFICES ASSUME NEW j \in Channels PROVE ToldOf(j)'
  BY DEF Told
<1>3. ToldOf(j)
  BY DEF Told
<1>4. CASE j = made + 1
  BY <1>1, <1>2, <1>3, <1>4, Appended DEF ToldOf, ToldType, CoreType, MakeChannel, Tell
<1>5. CASE j # made + 1
  <2>1. conn'[j] = conn[j] /\ told'[j] = told[j]
    BY <1>1, <1>5 DEF ToldType, CoreType, MakeChannel, Tell
  <2>2. CASE unreg'[j] = unreg[j]
    BY <1>3, <2>1, <2>2, Untouched
  <2>3. CASE unreg[j] = "ask" /\ unreg'[j] = "start"
    BY <1>3, <2>1, <2>3 DEF ToldOf
  <2> QED BY <2>2, <2>3 DEF ToldType, CoreType
<1> QED BY <1>4, <1>5

\* The steps of Connect, and of a channel that goes down, tell what they should.
LEMMA StepTold ==
  ASSUME ToldType, Chain, Told, NEW k \in Channels,
         \/ ConnectStep(k) \/ ConnectionLost(k) \/ KeepAliveFails(k)
         \/ InactiveUser(k) \/ UnregisteredCheck(k) \/ GiveUp(k) \/ UnregisteredReturns(k)
  PROVE  Told'
<1> SUFFICES ASSUME NEW j \in Channels PROVE ToldOf(j)'
  BY DEF Told
<1>1. ToldOf(j)
  BY DEF Told
<1> USE DEF ToldType, CoreType, userVars
<1>2. CASE j # k
  <2>1. /\ conn'[j] = conn[j] /\ active'[j] = active[j] /\ unreg'[j] = unreg[j]
        /\ told'[j] = told[j] /\ (j \in hasty' <=> j \in hasty)
    BY <1>2 DEF ConnectStep, DialSucceeds, DialFails, ActiveReconnect, ActiveUser,
                ConnectResolves, StartReturns, ConnectionLost, KeepAliveFails, Inactivate,
                InactiveUser, UnregisteredCheck, GiveUp, UnregisteredReturns, Tell
  <2> QED BY <1>1, <2>1, Untouched
<1>3. CASE j = k
  <2>0. unreg[k] = "off" <=> conn[k] \in {"none", "dialing", "live"}
    BY DEF Chain
  <2> USE <1>1, <1>3, <2>0 DEF ToldOf
  <2>1. CASE DialSucceeds(k) \/ DialFails(k)
    BY <2>1 DEF DialSucceeds, DialFails
  <2>2. CASE ActiveReconnect(k) BY <2>2 DEF ActiveReconnect
  <2>3. CASE ActiveUser(k)
    <3>1. /\ active[k] = "user" /\ active'[k] = "done"
          /\ told'[k] = Append(told[k], "active")
          /\ conn'[k] = conn[k] /\ unreg'[k] = unreg[k] /\ hasty' = hasty
      BY <2>3 DEF ActiveUser, Tell
    <3> QED BY <3>1, Appended
  <2>4. CASE ConnectResolves(k) \/ StartReturns(k)
    BY <2>4 DEF ConnectResolves, StartReturns
  <2>5. CASE ConnectionLost(k) BY <2>5 DEF ConnectionLost, Inactivate
  <2>6. CASE KeepAliveFails(k) BY <2>6 DEF KeepAliveFails, Inactivate
  <2>7. CASE InactiveUser(k)
    <3>1. /\ unreg[k] = "inactive" /\ unreg'[k] = "check"
          /\ told'[k] = Append(told[k], "inactive")
          /\ conn'[k] = conn[k] /\ active'[k] = active[k] /\ hasty' = hasty
      BY <2>7 DEF InactiveUser, Tell
    <3> QED BY <3>1, Appended
  <2>8. CASE UnregisteredCheck(k) \/ GiveUp(k) \/ UnregisteredReturns(k)
    <3>1. /\ conn'[k] = conn[k] /\ active'[k] = active[k] /\ hasty' = hasty
          /\ unreg[k] \in {"check", "ask", "start"}
          /\ \/ unreg'[k] = "ask" /\ told'[k] = told[k]
             \/ unreg'[k] = "done" /\ told'[k] = Append(told[k], "unregistered")
      BY <2>8 DEF UnregisteredCheck, GiveUp, UnregisteredReturns, Tell
    <3> QED BY <3>1, Appended
  <2> QED BY <2>1, <2>2, <2>3, <2>4, <2>5, <2>6, <2>7, <2>8 DEF ConnectStep
<1> QED BY <1>2, <1>3

\* Disconnect takes down the channel that the client holds, of which the user has
\* been told.
LEMMA DisconnectTold ==
  ASSUME ToldType, Chain, Told, HeldIsTold, DisconnectFlag \/ DisconnectChannel
  PROVE  Told'
<1> SUFFICES ASSUME NEW j \in Channels PROVE ToldOf(j)'
  BY DEF Told
<1>1. ToldOf(j)
  BY DEF Told
<1>2. UNCHANGED <<active, told, hasty>>
  BY Zenon DEF DisconnectFlag, DisconnectChannel, userVars
<1>3. CASE conn'[j] = conn[j] /\ unreg'[j] = unreg[j]
  BY <1>1, <1>2, <1>3, Untouched
<1>4. CASE j = ch /\ conn[j] = "live" /\ conn'[j] = "down" /\ unreg'[j] = "inactive"
  <2>1. active[j] = "done"
    BY <1>4 DEF HeldIsTold
  <2>2. unreg[j] = "off"
    BY <1>4 DEF Chain
  <2> QED BY <1>1, <1>2, <1>4, <2>1, <2>2 DEF ToldOf
<1>5. CASE DisconnectChannel /\ ch # Nil /\ conn[ch] = "live" /\ Inactivate(ch)
  BY <1>3, <1>4, <1>5 DEF Inactivate, ToldType, CoreType
<1> QED BY <1>3, <1>5, Zenon DEF DisconnectFlag, DisconnectChannel

\* The client only holds channels that it was told of.
LEMMA NextHeld ==
  ASSUME ToldType, ToldType', Resolution, HeldIsTold, [Next]_vars PROVE HeldIsTold'
<1> SUFFICES ASSUME NEW j \in Channels
             PROVE  /\ future'[j] = "success" => active'[j] = "done"
                    /\ ch' = j => future'[j] = "success"
  BY DEF HeldIsTold
<1> USE DEF HeldIsTold, ToldType, CoreType, userVars
<1>1. CASE UNCHANGED <<ch, future, active>>
  BY <1>1
<1>2. ASSUME NEW k \in Channels, ConnectStep(k)
      PROVE  /\ future'[j] = "success" => active'[j] = "done"
             /\ ch' = j => future'[j] = "success"
  <2>1. CASE DialSucceeds(k) \/ ActiveReconnect(k) \/ ActiveUser(k)
    BY <2>1 DEF Resolution, DialSucceeds, ActiveReconnect, ActiveUser
  <2>2. CASE DialFails(k) BY <2>2 DEF DialFails
  <2>3. CASE ConnectResolves(k) BY <2>3 DEF ConnectResolves
  <2>4. CASE StartReturns(k)
    <3>1. UNCHANGED <<future, active>> /\ ch' = IF future[k] = "success" THEN k ELSE Nil
      BY <2>4 DEF StartReturns
    <3>2. j # Nil
      BY MaxChannelsAssumption DEF Channels, Nil
    <3> QED BY <3>1, <3>2
  <2> QED BY <1>2, <2>1, <2>2, <2>3, <2>4 DEF ConnectStep
<1>3. ASSUME NEW k \in Channels, UnregisteredStep(k) PROVE UNCHANGED <<ch, future, active>>
  BY <1>3 DEF UnregisteredStep, InactiveUser, UnregisteredCheck, Reconnect, GiveUp,
              UnregisteredReturns
<1>4. CASE Start \/ DisconnectFlag \/ DisconnectChannel \/ Terminated \/ UNCHANGED vars
  BY <1>1, <1>4, Zenon DEF Start, DisconnectFlag, DisconnectChannel, Terminated, vars
<1>5. ASSUME NEW k \in Channels, ConnectionLost(k) \/ KeepAliveFails(k)
      PROVE  UNCHANGED <<ch, future, active>>
  BY <1>5 DEF ConnectionLost, KeepAliveFails
<1>6. ASSUME NEW k \in Channels, CloseSocket(k) PROVE UNCHANGED <<ch, future, active>>
  BY <1>6 DEF CloseSocket, userVars
<1> QED BY <1>1, <1>2, <1>3, <1>4, <1>5, <1>6 DEF Next

\* A new client has told its user nothing.
LEMMA InitTold == Init => Told /\ HeldIsTold
<1> SUFFICES ASSUME Init PROVE Told /\ HeldIsTold
  OBVIOUS
<1>1. Told BY DEF Init, Told, ToldOf, None
<1>2. HeldIsTold BY MaxChannelsAssumption DEF Init, HeldIsTold, Channels, Nil
<1> QED BY <1>1, <1>2

\* Every step tells the user's handler what it should.
LEMMA NextTold == IInv /\ Told /\ HeldIsTold /\ [Next]_vars => (Told /\ HeldIsTold)'
<1> SUFFICES ASSUME IInv, Told, HeldIsTold, [Next]_vars PROVE (Told /\ HeldIsTold)'
  OBVIOUS
<1>1. TypeOK /\ TypeOK' /\ Chain /\ Resolution
  BY NextTypeOK DEF IInv
<1>2. ToldType /\ ToldType'
  BY <1>1 DEF TypeOK, ToldType, CoreType
<1>3. HeldIsTold'
  BY <1>1, <1>2, NextHeld
<1>4. SUFFICES Told'
  BY <1>3
<1>5. CASE Start
  BY <1>1, <1>2, <1>5, MakeChannelTold DEF Start
<1>6. ASSUME NEW k \in Channels, Reconnect(k) PROVE Told'
  BY <1>1, <1>2, <1>6, MakeChannelTold, Zenon DEF Reconnect
<1>7. ASSUME NEW k \in Channels, ConnectStep(k) \/ ConnectionLost(k) \/ KeepAliveFails(k)
      PROVE  Told'
  BY <1>1, <1>2, <1>7, StepTold
<1>8. ASSUME NEW k \in Channels, UnregisteredStep(k) PROVE Told'
  BY <1>1, <1>2, <1>6, <1>8, StepTold DEF UnregisteredStep
<1>9. CASE DisconnectFlag \/ DisconnectChannel
  BY <1>1, <1>2, <1>9, DisconnectTold
<1>10. CASE Terminated \/ UNCHANGED vars
  <2>1. UNCHANGED <<conn, active, unreg, told, hasty>>
    BY <1>10 DEF Terminated, vars
  <2> SUFFICES ASSUME NEW j \in Channels PROVE ToldOf(j)'
    BY DEF Told
  <2> QED BY <2>1, Untouched DEF Told
<1>11. ASSUME NEW k \in Channels, CloseSocket(k) PROVE Told'
  <2>1. UNCHANGED <<conn, active, unreg, told, hasty>>
    BY <1>11 DEF CloseSocket, userVars
  <2> SUFFICES ASSUME NEW j \in Channels PROVE ToldOf(j)'
    BY DEF Told
  <2> QED BY <2>1, Untouched DEF Told
<1> QED BY <1>5, <1>6, <1>7, <1>8, <1>9, <1>10, <1>11 DEF Next

----------------------------------------------------------------------------
\* The state of a client is well typed, however many channels it makes.
THEOREM ClientTypeCorrect == Spec => []TypeOK
<1>1. IInv => TypeOK
  BY DEF IInv
<1> QED BY <1>1, Invariance, PTL

\* However losses, failed dials and nested starts of the client follow each
\* other, at most one of its channels is active or dialling, and a socket whose
\* flag is set is that channel's or about to be closed.
THEOREM AtMostOneConnection == Spec => []OneConnection
<1>1. IInv => OneConnection
  <2>a. IInv => \A k \in Channels :
                  /\ sock[k] = "open" => conn[k] = "live" \/ k \in closing
                  /\ k \in closing => sock[k] = "open" /\ conn[k] = "down"
    BY DEF IInv, TypeOK, Sockets, SocketOf
  <2> SUFFICES ASSUME IInv, NEW k \in Channels, conn[k] \in {"dialing", "live"}
               PROVE  k = made
    BY <2>a DEF OneConnection
  <2>1. k <= made /\ unreg[k] = "off"
    BY MaxChannelsAssumption DEF IInv, TypeOK, Chain, Channels
  <2>2. ~(k < made)
    BY <2>1 DEF IInv, Chain
  <2> QED BY <2>1, <2>2, MaxChannelsAssumption DEF IInv, TypeOK, Channels
<1> QED BY <1>1, Invariance, PTL

\* When no start has overtaken an older one, Client.ch is the live channel
\* whenever all calls and handlers have returned.
THEOREM LiveChannelIsHeld == Spec => []ClientHoldsLive
<1>1. IInv => ClientHoldsLive
  BY MaxChannelsAssumption
     DEF IInv, TypeOK, Chain, Resolution, Latest, ClientHoldsLive, Settled, Channels, Nil
<1> QED BY <1>1, Invariance, PTL

\* A Disconnect that overlaps no start and no reconnect leaves no connection,
\* and none comes back.
THEOREM DisconnectEnds == Spec => []DisconnectIsFinal
<1>1. IInv => DisconnectIsFinal
  BY DEF IInv, Final, DisconnectIsFinal
<1> QED BY <1>1, Invariance, PTL

\* Whatever channels are made, lost or fail, the user's handler is told of each one's
\* events in their order and once, unless the keep-alive took the channel down before
\* the user knew of it.
THEOREM EventsToldInOrder == Spec => []UserToldInOrder
<1>1. Spec => [](Told /\ HeldIsTold)
  BY InitTold, NextTold, Invariance, PTL DEF Spec
<1>2. IInv /\ Told => UserToldInOrder
  <2> SUFFICES ASSUME IInv, Told, NEW k \in Channels, k \notin hasty
               PROVE  told[k] \in {<<>>, <<"registered">>, <<"registered", "unregistered">>,
                 <<"registered", "active">>, <<"registered", "active", "inactive">>,
                 <<"registered", "active", "inactive", "unregistered">>}
    BY DEF UserToldInOrder
  <2>1. ToldOf(k) BY DEF Told
  <2>2. /\ active[k] \in {"off", "reconnect", "user", "done"}
        /\ conn[k] \in {"none", "dialing", "live", "down", "failed"}
        /\ unreg[k] \in {"off", "inactive", "check", "ask", "start", "done"}
    BY DEF IInv, TypeOK
  <2>3. told[k] \in {None, Registered, Dropped, Active, Inactive, Whole}
    BY <2>1, <2>2 DEF ToldOf
  <2> QED BY <2>3 DEF None, Registered, Dropped, Active, Inactive, Whole
<1> QED BY <1>1, <1>2, Invariance, PTL

-----------------------------------------------------------------------------
(* The server.                                                             *)

ServerTypeOK ==
  /\ bind \in {"idle", "ignored", "bind", "activate", "hook", "loop", "bound", "failed"}
  /\ sAlive \in {"nil", "live", "done", "failed"}
  /\ sActive \in BOOLEAN /\ listening \in BOOLEAN /\ hooked \in BOOLEAN /\ sClose \in BOOLEAN
  /\ closeS \in {0, 1}
  /\ call \in [Calls -> {"idle", "inactive", "ignored", "await", "unsafeClose", "closeListener",
                         "complete", "reset", "returned"}]
  /\ accept \in {"off", "loop", "accept", "derive"}
  /\ incoming \subseteq Conns /\ childMap \subseteq Conns
  /\ cAlive \in [Conns -> {"nil", "live", "done", "failed"}]
  /\ child \in [Conns -> {"off", "activate", "succeed", "done"}]
  /\ timer \in [Conns -> {"off", "wait", "inactive", "done"}]
  /\ acc \in [Conns -> {"pending", "success", "timeout"}]
  /\ teardown \in [Conns -> {"none", "close", "release", "done"}]
  /\ cClose \in [Conns -> BOOLEAN]
  /\ hook \in {"none", "running", "done"}
  /\ hookTodo \subseteq Conns /\ hookSeen \subseteq Conns
  /\ waiter \in {"none", "start", "waiting", "inactive", "done"}
  /\ waitTodo \subseteq Conns /\ waitSeen \subseteq Conns /\ waitingOn \subseteq Conns
  /\ elders \subseteq Conns /\ liveElders \subseteq elders

\* The stages of a child's life and what goes with each.
Unborn(c) == /\ child[c] = "off" /\ cAlive[c] = "nil" /\ timer[c] = "off"
             /\ teardown[c] = "none" /\ c \notin childMap
Waiting(c) == /\ child[c] = "activate" /\ cAlive[c] \in {"nil", "failed"}
              /\ teardown[c] = "none" /\ c \in childMap
Up(c) == /\ child[c] \in {"succeed", "done"} /\ cAlive[c] = "live"
         /\ teardown[c] = "none" /\ c \in childMap
Down(c) == /\ child[c] \in {"succeed", "done"} /\ cAlive[c] = "done"
           /\ \/ teardown[c] = "close" /\ c \in childMap
              \/ teardown[c] = "release" /\ c \in childMap /\ cClose[c]
              \/ teardown[c] = "done" /\ c \notin childMap /\ cClose[c]

Lifetimes ==
  /\ \A c \in Conns : Unborn(c) \/ Waiting(c) \/ Up(c) \/ Down(c)
  /\ \A c \in incoming : child[c] = "off"

\* waitChildren ranges over the elders that are not closed, and leaves a child
\* only when it is.
EldersAwaited ==
  /\ waiter \in {"none", "start"} => \A c \in elders : c \in childMap \/ cClose[c]
  /\ waiter = "waiting" => \A c \in elders : (c \in childMap /\ c \in waitTodo) \/ cClose[c]
  /\ \A c \in waitSeen : c \in waitingOn \/ cClose[c]

ServerInv == ServerTypeOK /\ Lifetimes /\ EldersAwaited /\ EldersClosedFirst

-----------------------------------------------------------------------------
(* Type correctness.                                                       *)

\* The initial state has the types TypeOK states.
LEMMA ServerTypeInit == ServerInit => ServerTypeOK
<1> SUFFICES ASSUME ServerInit PROVE ServerTypeOK
  OBVIOUS
<1>1. /\ bind = "idle" /\ sAlive = "nil" /\ closeS = 0 /\ accept = "off" /\ hook = "none"
      /\ waiter = "none" /\ sActive = FALSE /\ listening = FALSE /\ hooked = FALSE
      /\ sClose = FALSE
  BY DEF ServerInit
<1>2. /\ call = [k \in Calls |-> "idle"] /\ cAlive = [c \in Conns |-> "nil"]
      /\ child = [c \in Conns |-> "off"] /\ timer = [c \in Conns |-> "off"]
      /\ acc = [c \in Conns |-> "pending"] /\ teardown = [c \in Conns |-> "none"]
      /\ cClose = [c \in Conns |-> FALSE]
  BY DEF ServerInit
<1>3. /\ incoming = {} /\ childMap = {} /\ hookTodo = {} /\ hookSeen = {}
      /\ waitTodo = {} /\ waitSeen = {} /\ waitingOn = {} /\ elders = {} /\ liveElders = {}
  BY DEF ServerInit
<1> QED BY <1>1, <1>2, <1>3, Zenon DEF ServerTypeOK

\* Taking the server down keeps the types of what it writes.
LEMMA InactiveServerType ==
  ASSUME ServerTypeOK, InactiveServer
  PROVE  /\ sAlive' \in {"nil", "live", "done", "failed"}
         /\ waiter' \in {"none", "start", "waiting", "inactive", "done"}
         /\ elders' \subseteq Conns /\ liveElders' \subseteq elders'
BY DEF ServerTypeOK, InactiveServer

\* Taking a child down keeps the types of what it writes.
LEMMA InactiveChildType ==
  ASSUME ServerTypeOK, NEW c \in Conns, InactiveChild(c)
  PROVE  /\ cAlive' \in [Conns -> {"nil", "live", "done", "failed"}]
         /\ teardown' \in [Conns -> {"none", "close", "release", "done"}]
BY DEF ServerTypeOK, InactiveChild

\* Every step of the server, a child or a call keeps the types.
LEMMA ServerTypeStep == ServerTypeOK /\ [ServerNext]_allVars => ServerTypeOK'
<1> SUFFICES ASSUME ServerTypeOK, [ServerNext]_allVars PROVE ServerTypeOK'
  OBVIOUS
<1> USE DEF ServerTypeOK, serverVars, acceptVars, childVars, hookVars, waitVars, histVars
<1>1. CASE BindStep
  <2>1. CASE Bind BY <2>1 DEF Bind
  <2>2. CASE UnsafeBind BY <2>2 DEF UnsafeBind
  <2>3. CASE BindFails BY <2>3, InactiveServerType DEF BindFails
  <2>4. CASE ActiveServer
    <3>1. /\ bind' \in {"hook", "loop", "bound"} /\ sAlive' \in {sAlive, "live"}
          /\ hooked' \in BOOLEAN /\ accept' \in {accept, "loop"}
      BY <2>4, Zenon DEF ActiveServer
    <3> QED BY <2>4, <3>1 DEF ActiveServer
  <2> QED BY <1>1, <2>1, <2>2, <2>3, <2>4 DEF BindStep
<1>2. CASE AcceptStep \/ AcceptError
  <2>1. CASE AcceptLoop BY <2>1 DEF AcceptLoop
  <2>2. CASE Accept BY <2>2 DEF Accept
  <2>3. CASE Derive BY <2>3 DEF Derive
  <2>4. CASE AcceptError BY <2>4 DEF AcceptError
  <2> QED BY <1>2, <2>1, <2>2, <2>3, <2>4 DEF AcceptStep
<1>3. ASSUME NEW c \in Conns,
             \/ ActiveChild(c) \/ AcceptSucceeds(c) \/ TimerStep(c)
             \/ ChildDown(c) \/ ChildTeardown(c)
      PROVE  ServerTypeOK'
  <2>1. CASE ActiveChild(c) BY <2>1 DEF ActiveChild
  <2>2. CASE AcceptSucceeds(c) BY <2>2 DEF AcceptSucceeds
  <2>3. CASE AcceptTimeout(c) BY <2>3 DEF AcceptTimeout
  <2>4. CASE TimeoutChild(c) BY <2>4, InactiveChildType DEF TimeoutChild
  <2>5. CASE ChildDown(c) BY <2>5, InactiveChildType DEF ChildDown
  <2>6. CASE ChildTeardown(c)
    <3>1. /\ teardown' \in [Conns -> {"none", "close", "release", "done"}]
          /\ cClose' \in [Conns -> BOOLEAN] /\ childMap' \subseteq Conns
      BY <2>6 DEF ChildTeardown
    <3> QED BY <2>6, <3>1 DEF ChildTeardown
  <2> QED BY <1>3, <2>1, <2>2, <2>3, <2>4, <2>5, <2>6 DEF TimerStep
<1>4. CASE HookStep
  <2>1. CASE HookStart BY <2>1 DEF HookStart
  <2>2. CASE HookEnd BY <2>2 DEF HookEnd
  <2>3. ASSUME NEW c \in Conns, HookVisit(c) PROVE ServerTypeOK'
    BY <2>3, InactiveChildType DEF HookVisit
  <2> QED BY <1>4, <2>1, <2>2, <2>3 DEF HookStep
<1>5. CASE WaitStep
  <2>1. CASE WaitStart BY <2>1 DEF WaitStart
  <2>2. CASE WaitOver BY <2>2 DEF WaitOver
  <2>3. CASE WaitEnd BY <2>3 DEF WaitEnd
  <2>4. CASE FireInactive BY <2>4 DEF FireInactive
  <2>5. ASSUME NEW c \in Conns, WaitVisit(c) PROVE ServerTypeOK'
    BY <2>5 DEF WaitVisit
  <2> QED BY <1>5, <2>1, <2>2, <2>3, <2>4, <2>5 DEF WaitStep
<1>6. ASSUME NEW k \in Closers, CloseStep(k) PROVE ServerTypeOK'
  <2>k. k \in Calls
    BY DEF Calls
  <2>1. CASE Close(k) BY <2>1, <2>k DEF Close
  <2>2. CASE CloseInactive(k) BY <2>2, <2>k, InactiveServerType DEF CloseInactive
  <2>3. CASE CloseAwait(k) BY <2>3, <2>k DEF CloseAwait
  <2>4. CASE UnsafeClose(k)
    <3>1. \E st \in {"closeListener", "complete"} : call' = [call EXCEPT ![k] = st]
      BY <2>4 DEF UnsafeClose
    <3>2. sActive' \in BOOLEAN /\ listening' \in BOOLEAN
      BY <2>4, Zenon DEF UnsafeClose
    <3> QED BY <2>4, <2>k, <3>1, <3>2 DEF UnsafeClose
  <2>5. CASE CompleteClose(k)
    <3>1. \E st \in {"reset", "returned"} : call' = [call EXCEPT ![k] = st]
      BY <2>5 DEF CompleteClose
    <3>2. sClose' \in BOOLEAN /\ closeS' \in {0, 1}
      BY <2>5, Zenon DEF CompleteClose
    <3> QED BY <2>5, <2>k, <3>1, <3>2 DEF CompleteClose
  <2> QED BY <1>6, <2>1, <2>2, <2>3, <2>4, <2>5 DEF CloseStep
<1>7. ASSUME NEW k \in Deregisters, Deregister(k) PROVE ServerTypeOK'
  <2>k. k \in Calls
    BY DEF Calls
  <2> QED BY <1>7, <2>k, InactiveServerType DEF Deregister
<1>8. CASE UNCHANGED allVars BY <1>8 DEF allVars
<1> QED BY <1>1, <1>2, <1>3, <1>4, <1>5, <1>6, <1>7, <1>8 DEF ServerNext, ServerTerminated

-----------------------------------------------------------------------------
(* The life of a child.                                                    *)

\* At first no connection has come.
LEMMA LifetimesInit == ServerInit => Lifetimes
BY DEF ServerInit, Lifetimes, Unborn

\* Whoever takes an active child down, and only then, starts its teardown; one
\* that is not active yet stays where it is.
LEMMA InactiveChildKeeps ==
  ASSUME ServerTypeOK, Lifetimes, NEW c \in Conns, InactiveChild(c), child[c] # "off",
         UNCHANGED <<childMap, child, timer, cClose, incoming>>
  PROVE  Lifetimes'
<1>1. \A d \in Conns : d # c => cAlive'[d] = cAlive[d] /\ teardown'[d] = teardown[d]
  BY DEF InactiveChild, ServerTypeOK
<1>2. CASE Waiting(c)
  BY <1>1, <1>2 DEF InactiveChild, ServerTypeOK, Lifetimes, Unborn, Waiting, Up, Down
<1>3. CASE Up(c)
  <2>1. cAlive'[c] = "done" /\ teardown'[c] = "close"
    BY <1>3 DEF InactiveChild, ServerTypeOK, Up
  <2>2. Down(c)'
    BY <1>3, <2>1 DEF Up, Down
  <2> QED BY <1>1, <2>2 DEF Lifetimes, Unborn, Waiting, Up, Down
<1>4. CASE Down(c)
  BY <1>1, <1>4 DEF InactiveChild, ServerTypeOK, Lifetimes, Unborn, Waiting, Up, Down
<1> QED BY <1>2, <1>3, <1>4 DEF Lifetimes, Unborn

\* Every step moves a child along its life or leaves it where it is.
LEMMA LifetimesStep == ServerTypeOK /\ Lifetimes /\ [ServerNext]_allVars => Lifetimes'
<1> SUFFICES ASSUME ServerTypeOK, Lifetimes, [ServerNext]_allVars PROVE Lifetimes'
  OBVIOUS
<1> USE DEF serverVars, acceptVars, childVars, hookVars, waitVars, histVars
<1>u. ASSUME UNCHANGED <<childMap, cAlive, child, timer, teardown, cClose, incoming>>
      PROVE  Lifetimes'
  BY <1>u DEF Lifetimes, Unborn, Waiting, Up, Down
<1>1. CASE Accept
  BY <1>1 DEF Accept, Lifetimes, Unborn, Waiting, Up, Down
<1>2. CASE Derive
  <2>1. \A c \in incoming : Waiting(c)'
    BY <1>2 DEF Derive, ServerTypeOK, Lifetimes, Unborn, Waiting, Up, Down
  <2>2. \A c \in Conns \ incoming : /\ child'[c] = child[c] /\ timer'[c] = timer[c]
                                    /\ c \in childMap' <=> c \in childMap
    BY <1>2 DEF Derive
  <2>3. UNCHANGED <<cAlive, teardown, cClose>> /\ incoming' = {}
    BY <1>2 DEF Derive
  <2> QED BY <2>1, <2>2, <2>3 DEF Lifetimes, Unborn, Waiting, Up, Down
<1>3. ASSUME NEW c \in Conns, ActiveChild(c) PROVE Lifetimes'
  <2>1. cAlive'[c] = "live" /\ child'[c] = "succeed" /\ child[c] = "activate"
    BY <1>3 DEF ActiveChild, ServerTypeOK
  <2>2. \A d \in Conns : d # c => cAlive'[d] = cAlive[d] /\ child'[d] = child[d]
    BY <1>3 DEF ActiveChild, ServerTypeOK
  <2>3. UNCHANGED <<childMap, timer, teardown, cClose, incoming>>
    BY <1>3 DEF ActiveChild
  <2>4. Up(c)'
    BY <2>1, <2>3 DEF Lifetimes, Unborn, Waiting, Up, Down
  <2>5. ASSUME NEW d \in Conns, d # c PROVE Unborn(d)' \/ Waiting(d)' \/ Up(d)' \/ Down(d)'
    BY <2>2, <2>3, <2>5 DEF Lifetimes, Unborn, Waiting, Up, Down
  <2>6. \A d \in incoming' : child'[d] = "off"
    BY <2>1, <2>2, <2>3 DEF ServerTypeOK, Lifetimes
  <2> QED BY <2>4, <2>5, <2>6 DEF Lifetimes
<1>4. ASSUME NEW c \in Conns, AcceptSucceeds(c) PROVE Lifetimes'
  <2>1. child'[c] = "done" /\ child[c] = "succeed"
    BY <1>4 DEF AcceptSucceeds, ServerTypeOK
  <2>2. \A d \in Conns : d # c => child'[d] = child[d]
    BY <1>4 DEF AcceptSucceeds, ServerTypeOK
  <2>3. UNCHANGED <<cAlive, childMap, timer, teardown, cClose, incoming>>
    BY <1>4 DEF AcceptSucceeds
  <2>4. Up(c)' \/ Down(c)'
    BY <2>1, <2>3 DEF Lifetimes, Unborn, Waiting, Up, Down
  <2>5. ASSUME NEW d \in Conns, d # c PROVE Unborn(d)' \/ Waiting(d)' \/ Up(d)' \/ Down(d)'
    BY <2>2, <2>3, <2>5 DEF Lifetimes, Unborn, Waiting, Up, Down
  <2>6. \A d \in incoming' : child'[d] = "off"
    BY <2>1, <2>2, <2>3 DEF ServerTypeOK, Lifetimes
  <2> QED BY <2>4, <2>5, <2>6 DEF Lifetimes
<1>5. ASSUME NEW c \in Conns, AcceptTimeout(c) PROVE Lifetimes'
  <2>1. timer[c] = "wait" /\ \A d \in Conns : d # c => timer'[d] = timer[d]
    BY <1>5 DEF AcceptTimeout, ServerTypeOK
  <2>2. UNCHANGED <<cAlive, childMap, child, teardown, cClose, incoming>>
    BY <1>5 DEF AcceptTimeout
  <2> QED BY <2>1, <2>2 DEF Lifetimes, Unborn, Waiting, Up, Down
<1>6. ASSUME NEW c \in Conns, TimeoutChild(c) PROVE Lifetimes'
  <2>1. timer[c] = "inactive" /\ child[c] # "off"
    BY <1>6 DEF TimeoutChild, Lifetimes, Unborn, Waiting, Up, Down
  <2> SUFFICES ASSUME NEW d \in Conns
               PROVE  Unborn(d)' \/ Waiting(d)' \/ Up(d)' \/ Down(d)'
    BY <1>6 DEF TimeoutChild, Lifetimes
  <2>2. CASE d = c
    BY <1>6, <2>1, <2>2 DEF TimeoutChild, InactiveChild, ServerTypeOK, Lifetimes, Unborn, Waiting,
                            Up, Down
  <2>3. CASE d # c
    BY <1>6, <2>3 DEF TimeoutChild, InactiveChild, ServerTypeOK, Lifetimes, Unborn, Waiting,
                            Up, Down
  <2> QED BY <2>2, <2>3
<1>7. ASSUME NEW c \in Conns, ChildDown(c) PROVE Lifetimes'
  <2>1. child[c] # "off"
    BY <1>7 DEF ChildDown, Lifetimes, Unborn, Waiting, Up, Down
  <2> QED BY <1>7, <2>1, InactiveChildKeeps DEF ChildDown
<1>8. ASSUME NEW c \in Conns, ChildTeardown(c) PROVE Lifetimes'
  <2>1. \A d \in Conns : d # c => /\ teardown'[d] = teardown[d] /\ cClose'[d] = cClose[d]
                                  /\ d \in childMap' <=> d \in childMap
    BY <1>8 DEF ChildTeardown, ServerTypeOK
  <2>2. UNCHANGED <<cAlive, child, timer, incoming>>
    BY <1>8 DEF ChildTeardown
  <2>3. Down(c)
    BY <1>8 DEF ChildTeardown, Lifetimes, Unborn, Waiting, Up
  <2>4. Down(c)'
    BY <1>8, <2>2, <2>3 DEF ChildTeardown, ServerTypeOK, Down
  <2> QED BY <2>1, <2>2, <2>4 DEF Lifetimes, Unborn, Waiting, Up, Down
<1>9. ASSUME NEW c \in Conns, HookVisit(c) PROVE Lifetimes'
  <2>1. child[c] # "off"
    BY <1>9 DEF HookVisit, Lifetimes, Unborn, Waiting, Up, Down
  <2>2. CASE InactiveChild(c)
    BY <1>9, <2>1, <2>2, InactiveChildKeeps DEF HookVisit
  <2> QED BY <1>9, <1>u, <2>2 DEF HookVisit
<1> QED
  BY <1>u, <1>1, <1>2, <1>3, <1>4, <1>5, <1>6, <1>7, <1>8, <1>9
  DEF ServerNext, BindStep, Bind, UnsafeBind, BindFails, ActiveServer, AcceptStep, AcceptLoop,
      AcceptError, TimerStep, HookStep, HookStart, HookEnd, WaitStep, WaitStart, WaitVisit,
      WaitOver, WaitEnd, FireInactive, CloseStep, Close, CloseInactive, CloseAwait,
      UnsafeClose, CompleteClose, Deregister, ServerTerminated, allVars

-----------------------------------------------------------------------------
(* The children that were there when the server went down.                 *)

\* At first the server has no elders, and waits for nobody.
LEMMA EldersInit == ServerInit => EldersAwaited /\ EldersClosedFirst
BY DEF ServerInit, EldersAwaited, EldersClosedFirst

\* The server goes down: its elders are the children in the map.
LEMMA InactiveServerElders ==
  ASSUME EldersAwaited, EldersClosedFirst, InactiveServer,
         UNCHANGED <<childMap, cClose, waitTodo, waitSeen, waitingOn>>
  PROVE  (EldersAwaited /\ EldersClosedFirst)'
BY DEF InactiveServer, EldersAwaited, EldersClosedFirst

\* A child is closed before it leaves the map, so waitChildren misses none.
LEMMA EldersStep ==
  ServerTypeOK /\ Lifetimes /\ EldersAwaited /\ EldersClosedFirst /\ [ServerNext]_allVars
    => (EldersAwaited /\ EldersClosedFirst)'
<1> SUFFICES ASSUME ServerTypeOK, Lifetimes, EldersAwaited, EldersClosedFirst, [ServerNext]_allVars
             PROVE  (EldersAwaited /\ EldersClosedFirst)'
  OBVIOUS
<1> USE DEF serverVars, acceptVars, childVars, hookVars, waitVars, histVars
<1>u. ASSUME UNCHANGED <<cClose, waitVars, histVars>>, childMap \subseteq childMap'
      PROVE  (EldersAwaited /\ EldersClosedFirst)'
  BY <1>u DEF EldersAwaited, EldersClosedFirst
<1>1. CASE BindFails
  BY <1>1, InactiveServerElders DEF BindFails
<1>2. CASE Derive
  BY <1>2, <1>u DEF Derive
<1>3. ASSUME NEW c \in Conns, ChildTeardown(c) PROVE (EldersAwaited /\ EldersClosedFirst)'
  <2>1. \A d \in Conns : cClose[d] => cClose'[d]
    BY <1>3 DEF ChildTeardown, ServerTypeOK
  <2>2. \A d \in childMap \ childMap' : cClose[d]
    BY <1>3 DEF ChildTeardown, Lifetimes, Unborn, Waiting, Up, Down
  <2>3. UNCHANGED <<waitVars, histVars>>
    BY <1>3 DEF ChildTeardown
  <2> QED BY <2>1, <2>2, <2>3 DEF ServerTypeOK, EldersAwaited, EldersClosedFirst
<1>4. CASE WaitStart
  BY <1>4 DEF WaitStart, EldersAwaited, EldersClosedFirst
<1>5. ASSUME NEW c \in Conns, WaitVisit(c) PROVE (EldersAwaited /\ EldersClosedFirst)'
  BY <1>5 DEF WaitVisit, EldersAwaited, EldersClosedFirst
<1>6. CASE WaitOver
  BY <1>6 DEF WaitOver, EldersAwaited, EldersClosedFirst
<1>7. CASE WaitEnd
  BY <1>7 DEF WaitEnd, EldersAwaited, EldersClosedFirst
<1>8. CASE FireInactive
  BY <1>8 DEF FireInactive, EldersAwaited, EldersClosedFirst
<1>9. ASSUME NEW k \in Closers, CloseInactive(k) PROVE (EldersAwaited /\ EldersClosedFirst)'
  BY <1>9, InactiveServerElders DEF CloseInactive
<1>10. ASSUME NEW k \in Deregisters, Deregister(k) PROVE (EldersAwaited /\ EldersClosedFirst)'
  BY <1>10, InactiveServerElders DEF Deregister
<1> QED
  BY <1>u, <1>1, <1>2, <1>3, <1>4, <1>5, <1>6, <1>7, <1>8, <1>9, <1>10
  DEF ServerNext, BindStep, Bind, UnsafeBind, ActiveServer, AcceptStep, AcceptLoop, Accept,
      AcceptError, ActiveChild, AcceptSucceeds, TimerStep, AcceptTimeout, TimeoutChild,
      ChildDown, HookStep, HookStart, HookVisit, HookEnd, WaitStep, CloseStep, Close,
      CloseAwait, UnsafeClose, CompleteClose, ServerTerminated, allVars

-----------------------------------------------------------------------------
(* The theorems.                                                           *)

\* The initial state satisfies the inductive invariant.
LEMMA ServerInvInit == ServerInit => ServerInv
BY ServerTypeInit, LifetimesInit, EldersInit DEF ServerInv

\* Every step keeps it.
LEMMA ServerInvStep == ServerInv /\ [ServerNext]_allVars => ServerInv'
BY ServerTypeStep, LifetimesStep, EldersStep DEF ServerInv

\* Every reachable state has it.
LEMMA ServerInvHolds == ServerSpec => []ServerInv
BY ServerInvInit, ServerInvStep, PTL DEF ServerSpec

\* The server, its calls, its children and the maps Range goes over keep their
\* types (channel/unsafe.go, channel/serverchannel.go).
THEOREM ServerTyped == ServerSpec => []ServerTypeOK
<1>1. ServerInv => ServerTypeOK
  BY DEF ServerInv
<1> QED BY <1>1, ServerInvHolds, PTL

\* A child is stored, activated and torn down once, in that order, and leaves the
\* child map only when its close future is done, however its activation, its accept
\* timeout, its peer and the server's hook race (DeriveChildChannel, releaseChild).
THEOREM ChildrenLiveOnce == ServerSpec => []Lifetimes
<1>1. ServerInv => Lifetimes
  BY DEF ServerInv
<1> QED BY <1>1, ServerInvHolds, PTL

\* The server fires Inactive only after every child that was in its map as it went
\* down has completed its close future (waitChildren).
THEOREM EldersFirst == ServerSpec => []EldersClosedFirst
<1>1. ServerInv => EldersClosedFirst
  BY DEF ServerInv
<1> QED BY <1>1, ServerInvHolds, PTL

\* Once everything has settled no child is left in the child map
\* (DefaultChannel.release, DefaultServerChannel.releaseChild).
THEOREM MapDrains == ServerSpec => []ChildMapDrains
<1>1. ServerInv => ChildMapDrains
  <2> SUFFICES ASSUME ServerInv, Quiescent, NEW c \in childMap PROVE FALSE
    BY DEF ChildMapDrains
  <2>1. c \in Conns
    BY DEF ServerInv, ServerTypeOK
  <2> QED BY <2>1 DEF ServerInv, Lifetimes, Unborn, Waiting, Up, Down, Quiescent
<1> QED BY <1>1, ServerInvHolds, PTL

=============================================================================
