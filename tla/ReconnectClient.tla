--------------------------- MODULE ReconnectClient ---------------------------
(***************************************************************************)
(* The simple clients (gtcp/simpletcp/simpleclient.go and, but for what    *)
(* the keep-alive does, the same in gudp/simpleudp/simpleclient.go):       *)
(* Start, the reconnect that the RECONNECT handler makes when a channel of *)
(* the client is unregistered, Disconnect, the keep-alive of each channel, *)
(* and what the user's handler, which all channels share, is told.         *)
(*                                                                         *)
(* Every start() makes a channel, and channel k names that call as well.   *)
(* A start blocks its goroutine until the Connect is resolved: that of the *)
(* user, or one that fires Unregistered, which is the teardown callback of *)
(* a lost channel or the Connect of a channel that could not be dialled.   *)
(* AutoReconnect is set; its answers are arbitrary.                        *)
(***************************************************************************)
EXTENDS Naturals, Sequences

CONSTANTS MaxChannels, \* bound: channels made before AutoReconnect says no
          KeepsAlive,  \* the keep-alive writes (TCP) or only sleeps (UDP)
          Breaking     \* channels whose loss is an I/O error, not a deadline's

ASSUME MaxChannelsAssumption == MaxChannels \in Nat \ {0}
ASSUME KeepsAliveAssumption == KeepsAlive \in BOOLEAN

Channels == 1..MaxChannels
ASSUME BreakingAssumption == Breaking \subseteq Channels

Nil == 0

VARIABLES
  close,     \* Client.close
  ch,        \* Client.ch, or Nil
  made,      \* how many channels have been made
  conn,      \* conn[k]: "none", "dialing", "live", "down", "failed"
  future,    \* future[k]: the future of Connect
  start,     \* start[k]: "off", "sync" (waiting for the future), "returned"
  unreg,     \* unreg[k]: the Unregistered event of the RECONNECT handler
  sub,       \* sub[k]: the channel made by it, or Nil
  disc,      \* the user's Disconnect
  overtaken, \* history: a start has returned after a later one
  raced,     \* history: Disconnect was called during a start or a reconnect
  active,    \* active[k]: the Active event: "off", "reconnect", "user", "done"
  told,      \* history: told[k]: the events of k the user's handler was told
  hasty,     \* history: taken down by the keep-alive before the user knew of it
  sock,      \* sock[k]: its socket, "broken" if an I/O error ended Conn.active
  closing    \* channels whose UnsafeDisconnect is still to come

userVars == <<active, told, hasty>>
sockVars == <<sock, closing>>
vars == <<close, ch, made, conn, future, start, unreg, sub, disc, overtaken, raced,
          active, told, hasty, sock, closing>>

Init ==
  /\ close = FALSE
  /\ ch = Nil
  /\ made = 0
  /\ conn = [k \in Channels |-> "none"]
  /\ future = [k \in Channels |-> "pending"]
  /\ start = [k \in Channels |-> "off"]
  /\ unreg = [k \in Channels |-> "off"]
  /\ sub = [k \in Channels |-> Nil]
  /\ disc = "idle"
  /\ overtaken = FALSE
  /\ raced = FALSE
  /\ active = [k \in Channels |-> "off"]
  /\ told = [k \in Channels |-> <<>>]
  /\ hasty = {}
  /\ sock = [k \in Channels |-> "none"]
  /\ closing = {}

UserEvents == {"registered", "active", "inactive", "unregistered"}

\* The adapter hands the event over to the user's handler.
Tell(k, event) == told' = [told EXCEPT ![k] = Append(@, event)]

----------------------------------------------------------------------------
(* start().                                                                *)

\* Bootstrap.Connect on a new channel, and the wait in Sync.
MakeChannel ==
  LET k == made + 1 IN
    /\ k \in Channels
    /\ made' = k
    /\ conn' = [conn EXCEPT ![k] = "dialing"]
    /\ start' = [start EXCEPT ![k] = "sync"]
    /\ Tell(k, "registered")

Start ==
  /\ made = 0
  /\ MakeChannel
  /\ UNCHANGED <<close, ch, future, unreg, sub, disc, overtaken, raced, active, hasty,
                 sockVars>>

\* Mutant of StartReturns: start does not wait, and gets no channel yet.
StartReturnsEarly(k) ==
  /\ start[k] = "sync"
  /\ start' = [start EXCEPT ![k] = "returned"]
  /\ ch' = IF future[k] = "success" THEN k ELSE Nil
  /\ overtaken' = (overtaken \/ \E j \in Channels : j > k /\ start[j] = "returned")
  /\ UNCHANGED <<close, made, conn, future, unreg, sub, disc, raced, userVars, sockVars>>

\* A failed future has no channel.
StartReturns(k) ==
  /\ start[k] = "sync"
  /\ future[k] # "pending"
  /\ start' = [start EXCEPT ![k] = "returned"]
  /\ ch' = IF future[k] = "success" THEN k ELSE Nil
  /\ overtaken' = (overtaken \/ \E j \in Channels : j > k /\ start[j] = "returned")
  /\ UNCHANGED <<close, made, conn, future, unreg, sub, disc, raced, userVars, sockVars>>

----------------------------------------------------------------------------
(* The channel's Connect (see ChannelLifecycle).                           *)

DialSucceeds(k) ==
  /\ conn[k] = "dialing"
  /\ conn' = [conn EXCEPT ![k] = "live"]
  /\ sock' = [sock EXCEPT ![k] = "open"]
  /\ active' = [active EXCEPT ![k] = "reconnect"]
  /\ UNCHANGED <<close, ch, made, future, start, unreg, sub, disc, overtaken, raced, told,
                 hasty, closing>>

\* Active of the RECONNECT handler starts the keep-alive ...
ActiveReconnect(k) ==
  /\ active[k] = "reconnect"
  /\ active' = [active EXCEPT ![k] = "user"]
  /\ UNCHANGED <<close, ch, made, conn, future, start, unreg, sub, disc, overtaken, raced,
                 told, hasty, sockVars>>

\* ... and passes the event on; then activeChannel starts the reader.
ActiveUser(k) ==
  /\ active[k] = "user"
  /\ active' = [active EXCEPT ![k] = "done"]
  /\ Tell(k, "active")
  /\ UNCHANGED <<close, ch, made, conn, future, start, unreg, sub, disc, overtaken, raced,
                 hasty, sockVars>>

\* inactiveChannel on a channel that was never active fires Unregistered in
\* the goroutine of Connect ...
DialFails(k) ==
  /\ conn[k] = "dialing"
  /\ conn' = [conn EXCEPT ![k] = "failed"]
  /\ unreg' = [unreg EXCEPT ![k] = "check"]
  /\ UNCHANGED <<close, ch, made, future, start, sub, disc, overtaken, raced, userVars,
                 sockVars>>

\* ... which fails the future only after the handler has returned.
ConnectResolves(k) ==
  /\ future[k] = "pending"
  /\ \/ /\ conn[k] \in {"live", "down"} /\ active[k] = "done"
        /\ future' = [future EXCEPT ![k] = "success"]
     \/ /\ conn[k] = "failed" /\ unreg[k] = "done"
        /\ future' = [future EXCEPT ![k] = "failed"]
  /\ UNCHANGED <<close, ch, made, conn, start, unreg, sub, disc, overtaken, raced,
                 userVars, sockVars>>

\* inactiveChannel on a live channel.  Inactive and Unregistered follow in the
\* callback, whose goroutine may reconnect before this one has closed the socket.
Inactivate(k) ==
  /\ conn' = [conn EXCEPT ![k] = "down"]
  /\ unreg' = [unreg EXCEPT ![k] = "inactive"]

\* The socket will be closed, but if an I/O error has ended Conn.active, which is
\* what UnsafeDisconnect goes by.
LoseSocket(k) ==
  IF k \in Breaking
  THEN sock' = [sock EXCEPT ![k] = "broken"] /\ UNCHANGED closing
  ELSE closing' = closing \cup {k} /\ UNCHANGED sock

CloseSocket(k) ==
  /\ k \in closing
  /\ closing' = closing \ {k}
  /\ sock' = [sock EXCEPT ![k] = "closed"]
  /\ UNCHANGED <<close, ch, made, conn, future, start, unreg, sub, disc, overtaken, raced,
                 userVars>>

\* Mutant of ConnectionLost: the reader starts before Active is fired.
ConnectionLostEarly(k) ==
  /\ conn[k] = "live"
  /\ Inactivate(k) /\ LoseSocket(k)
  /\ UNCHANGED <<close, ch, made, future, start, sub, disc, overtaken, raced, userVars>>

\* The reader, once it is started, or a write of the user finds it out.
ConnectionLost(k) ==
  /\ conn[k] = "live" /\ active[k] = "done"
  /\ Inactivate(k) /\ LoseSocket(k)
  /\ UNCHANGED <<close, ch, made, future, start, sub, disc, overtaken, raced, userVars>>

\* A write of the keep-alive, which goes on as long as its channel is active, fails
\* and takes the channel down.
KeepAliveFails(k) ==
  /\ KeepsAlive /\ active[k] \in {"user", "done"} /\ conn[k] = "live"
  /\ Inactivate(k) /\ LoseSocket(k)
  /\ hasty' = IF active[k] = "done" THEN hasty ELSE hasty \cup {k}
  /\ UNCHANGED <<close, ch, made, future, start, sub, disc, overtaken, raced, active, told>>

InactiveUser(k) ==
  /\ unreg[k] = "inactive"
  /\ unreg' = [unreg EXCEPT ![k] = "check"]
  /\ Tell(k, "inactive")
  /\ UNCHANGED <<close, ch, made, conn, future, start, sub, disc, overtaken, raced, active,
                 hasty, sockVars>>

----------------------------------------------------------------------------
(* Unregistered of the RECONNECT handler.                                  *)

UnregisteredCheck(k) ==
  /\ unreg[k] = "check"
  /\ unreg' = [unreg EXCEPT ![k] = IF close THEN "done" ELSE "ask"]
  /\ IF close THEN Tell(k, "unregistered") ELSE UNCHANGED told
  /\ UNCHANGED <<close, ch, made, conn, future, start, sub, disc, overtaken, raced, active,
                 hasty, sockVars>>

\* Mutant of Reconnect: the handler asks again after it has started.
ReconnectTwice(k) ==
  /\ unreg[k] = "ask"
  /\ MakeChannel
  /\ sub' = [sub EXCEPT ![k] = made']
  /\ UNCHANGED <<close, ch, future, unreg, disc, overtaken, raced, active, hasty, sockVars>>

\* AutoReconnect says yes.
Reconnect(k) ==
  /\ unreg[k] = "ask"
  /\ MakeChannel
  /\ sub' = [sub EXCEPT ![k] = made']
  /\ unreg' = [unreg EXCEPT ![k] = "start"]
  /\ UNCHANGED <<close, ch, future, disc, overtaken, raced, active, hasty, sockVars>>

\* AutoReconnect says no.
GiveUp(k) ==
  /\ unreg[k] = "ask"
  /\ close' = TRUE
  /\ unreg' = [unreg EXCEPT ![k] = "done"]
  /\ Tell(k, "unregistered")
  /\ UNCHANGED <<ch, made, conn, future, start, sub, disc, overtaken, raced, active,
                 hasty, sockVars>>

\* Mutant of UnregisteredReturns: the handler waits for its own Connect.
UnregisteredAwaits(k) ==
  /\ unreg[k] = "start"
  /\ start[sub[k]] = "returned"
  /\ future[k] # "pending"
  /\ unreg' = [unreg EXCEPT ![k] = "done"]
  /\ Tell(k, "unregistered")
  /\ UNCHANGED <<close, ch, made, conn, future, start, sub, disc, overtaken, raced, active,
                 hasty, sockVars>>

\* The start it called has returned; the event goes on to the user's handler.
UnregisteredReturns(k) ==
  /\ unreg[k] = "start"
  /\ start[sub[k]] = "returned"
  /\ unreg' = [unreg EXCEPT ![k] = "done"]
  /\ Tell(k, "unregistered")
  /\ UNCHANGED <<close, ch, made, conn, future, start, sub, disc, overtaken, raced, active,
                 hasty, sockVars>>

----------------------------------------------------------------------------
(* Disconnect, from any goroutine, once Start has been called.             *)

UnderWay(k) == start[k] = "sync" \/ unreg[k] \in {"ask", "start"}

\* Mutant of DisconnectFlag: the flag that stops the reconnect is not set.
DisconnectFlagMissing ==
  /\ disc = "idle" /\ made > 0
  /\ disc' = "flagged"
  /\ raced' = \E k \in Channels : UnderWay(k)
  /\ UNCHANGED <<close, ch, made, conn, future, start, unreg, sub, overtaken, userVars,
                 sockVars>>

DisconnectFlag ==
  /\ disc = "idle" /\ made > 0
  /\ close' = TRUE
  /\ disc' = "flagged"
  /\ raced' = \E k \in Channels : UnderWay(k)
  /\ UNCHANGED <<ch, made, conn, future, start, unreg, sub, overtaken, userVars, sockVars>>

\* Disconnect of whatever channel the client has by now; none is a panic. Its
\* goroutine takes down a live channel, as the loss of the connection would.
DisconnectChannel ==
  /\ disc = "flagged"
  /\ \/ /\ ch = Nil
        /\ disc' = "panic"
        /\ UNCHANGED <<conn, unreg, closing>>
     \/ /\ ch # Nil
        /\ disc' = "returned"
        /\ IF conn[ch] = "live"
           THEN Inactivate(ch) /\ closing' = closing \cup {ch}
           ELSE UNCHANGED <<conn, unreg, closing>>
  /\ UNCHANGED <<close, ch, made, future, start, sub, overtaken, raced, userVars, sock>>

----------------------------------------------------------------------------
\* Every start and every Unregistered has returned, and Disconnect too.
Settled ==
  /\ \A k \in Channels : start[k] # "sync" /\ unreg[k] \in {"off", "done"}
  /\ disc # "flagged"

Terminated ==
  /\ made > 0 /\ Settled /\ disc # "idle"
  /\ closing = {} /\ \A k \in Channels : conn[k] # "live"
  /\ UNCHANGED vars

ConnectStep(k) ==
  \/ DialSucceeds(k) \/ DialFails(k) \/ ActiveReconnect(k) \/ ActiveUser(k)
  \/ ConnectResolves(k) \/ StartReturns(k)

UnregisteredStep(k) ==
  \/ InactiveUser(k) \/ UnregisteredCheck(k) \/ Reconnect(k) \/ GiveUp(k)
  \/ UnregisteredReturns(k)

Next ==
  \/ Start
  \/ \E k \in Channels : ConnectStep(k) \/ ConnectionLost(k) \/ UnregisteredStep(k)
                            \/ KeepAliveFails(k) \/ CloseSocket(k)
  \/ DisconnectFlag \/ DisconnectChannel
  \/ Terminated

Spec == Init /\ [][Next]_vars

\* Goroutines run on, and a dial ends by itself.
FairSpec ==
  /\ Spec
  /\ \A k \in Channels : /\ WF_vars(ConnectStep(k)) /\ WF_vars(UnregisteredStep(k))
                         /\ WF_vars(CloseSocket(k))
  /\ WF_vars(DisconnectChannel)

----------------------------------------------------------------------------
(* Properties.                                                             *)

TypeOK ==
  /\ close \in BOOLEAN
  /\ ch \in Channels \cup {Nil}
  /\ made \in 0..MaxChannels
  /\ conn \in [Channels -> {"none", "dialing", "live", "down", "failed"}]
  /\ future \in [Channels -> {"pending", "success", "failed"}]
  /\ start \in [Channels -> {"off", "sync", "returned"}]
  /\ unreg \in [Channels -> {"off", "inactive", "check", "ask", "start", "done"}]
  /\ sub \in [Channels -> Channels \cup {Nil}]
  /\ disc \in {"idle", "flagged", "returned", "panic"}
  /\ overtaken \in BOOLEAN
  /\ raced \in BOOLEAN
  /\ active \in [Channels -> {"off", "reconnect", "user", "done"}]
  /\ told \in [Channels -> Seq(UserEvents)]
  /\ hasty \subseteq Channels
  /\ sock \in [Channels -> {"none", "open", "broken", "closed"}]
  /\ closing \subseteq Channels

\* However losses, failed dials and nested starts follow each other, a client never
\* has two channels that are active or being dialled.  It may well have several
\* sockets: the callback of a lost channel can have reconnected before the old
\* socket is closed, and one whose flag an I/O error has ended stays open for good.
\* But a socket whose flag is set is the active channel's or its close is still to
\* come, and only such a socket is closed.
OneConnection ==
  /\ \A j, k \in Channels :
       conn[j] \in {"dialing", "live"} /\ conn[k] \in {"dialing", "live"} => j = k
  /\ \A k \in Channels :
       /\ sock[k] = "open" => conn[k] = "live" \/ k \in closing
       /\ k \in closing => sock[k] = "open" /\ conn[k] = "down"

\* At rest Client.ch is the live channel, unless an older start returned after
\* the newer one and has put its own channel, dead or nil, in the place.
ClientHoldsLive ==
  Settled /\ ~overtaken => \A k \in Channels : conn[k] = "live" => ch = k

\* A Disconnect that overlaps no start and no reconnect leaves the client
\* without a connection for good.
DisconnectIsFinal ==
  Settled /\ disc = "returned" /\ ~raced /\ ~overtaken =>
    \A k \in Channels : conn[k] # "live"

\* Of each channel the user's handler is told in this order and nothing twice: it is
\* registered; it is active, and inactive, unless the dial failed; it is unregistered.
\* Not so if a write of the keep-alive failed before the user knew of the
\* connection.
UserToldInOrder ==
  \A k \in Channels \ hasty :
    told[k] \in {<<>>, <<"registered">>, <<"registered", "unregistered">>,
                 <<"registered", "active">>, <<"registered", "active", "inactive">>,
                 <<"registered", "active", "inactive", "unregistered">>}

\* Every start returns, however deep failed dials have nested it, provided that
\* AutoReconnect says no in the end: the handler never waits for the Connect
\* whose goroutine it runs in.
StartsReturn ==
  \A k \in Channels : (start[k] = "sync") ~> (start[k] = "returned")
============================================================================
