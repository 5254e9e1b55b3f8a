--------------------------- MODULE HttpConnections ---------------------------
(***************************************************************************)
(* The HTTP server channel (ghttp/httpserverchannel.go) between net/http   *)
(* and the accept loop (channel/unsafe.go), and the upgrade of one of its  *)
(* connections to a WebSocket (gws/wsupgradeprocessor.go).                 *)
(*                                                                         *)
(* net/http accepts one connection at a time: ConnContext derives a child, *)
(* hands it to the accept loop through newChChan and waits until the loop  *)
(* has activated it.  Then a goroutine of net/http serves the connection   *)
(* and its ConnState callbacks tell when it is closed or hijacked.  Close  *)
(* takes the children down, waits for them and shuts net/http down.        *)
(*                                                                         *)
(* A channel goes down in steps: inactiveChannel completes its alive       *)
(* future, whose callback tells the pipeline; the goroutine that completed *)
(* it closes the connection, before or after.  Until then net/http, or an  *)
(* upgrade, goes on with the connection of a channel that is not active.   *)
(*                                                                         *)
(* Bind itself is in ServerAccept; here the server is active from the      *)
(* start, and net/http is about to listen.                                 *)
(***************************************************************************)
EXTENDS Naturals, Sequences, FiniteSets

CONSTANTS Conns,      \* connections that peers may open
          WebSockets, \* those of them on which an upgrade is asked
          Slow,       \* bound: those whose activation may outlast the accept timeout
          Together,   \* bound: sets of connections that may come in one run
          MaxMessages \* bound: messages and control frames of each WebSocket

VARIABLES
  listen,    \* net/http's listener: "starting", "open", "closed"
  active,    \* ServerChannel.active
  close,     \* progress of Close
  hook,      \* Range over childMap that takes the children down
  wait,      \* the children waitChildren waits for
  queue,     \* newChChan
  inContext, \* the connection in ConnContext and how far it is
  loop,      \* the accept loop
  chMap,     \* connections in ServerChannel.chMap
  childMap,  \* children in DefaultServerChannel.childMap
  alive,     \* a child's alive future
  link,      \* a child's connection: "none", "open", "left" by the peer, "closed"
  starter,   \* the goroutine that activates a child
  timer,     \* the goroutine that waits for the accept timeout
  acc,       \* the accept future
  teardown,  \* the Then callback of a child's alive future
  asked,     \* children with a goroutine of Disconnect that has yet to take them down
  closing,   \* children whose connection a goroutine is about to close
  serve,     \* net/http's goroutine of a connection
  isWs,      \* the pipeline's channel is a gws.Channel
  invoker,   \* InvokeHandler is in the pipeline
  reader,    \* the WebSocket's reader
  told,      \* history: what the task was told, in order
  overtaken, \* history: its end was told before its task was told of the connection
  panicked,  \* history: WSConnected panicked
  missed     \* history: not active when Close gave up on its connection

serverVars == <<listen, active, close, hook, wait>>
acceptVars == <<queue, inContext, loop>>
downVars == <<alive, teardown, asked, closing>>
childVars == <<link, starter, timer, acc, downVars>>
wsVars == <<isWs, invoker, reader, told, overtaken, panicked>>
vars == <<listen, active, close, hook, wait, queue, inContext, loop, chMap, childMap,
          alive, link, starter, timer, acc, teardown, asked, closing, serve, isWs,
          invoker, reader, told, overtaken, panicked, missed>>

Nobody == [at |-> "accept", conns |-> {}]
NoRange == [on |-> FALSE, must |-> {}]

Init ==
  /\ listen = "starting" /\ active = TRUE /\ close = "idle"
  /\ hook = NoRange /\ wait = {}
  /\ queue = <<>> /\ inContext = Nobody /\ loop = "loop"
  /\ chMap = {} /\ childMap = {}
  /\ alive = [c \in Conns |-> "nil"]
  /\ link = [c \in Conns |-> "none"]
  /\ starter = [c \in Conns |-> "off"]
  /\ timer = [c \in Conns |-> "off"]
  /\ acc = [c \in Conns |-> "none"]
  /\ teardown = [c \in Conns |-> "none"]
  /\ asked = {} /\ closing = {}
  /\ serve = [c \in Conns |-> "off"]
  /\ isWs = [c \in Conns |-> FALSE]
  /\ invoker = [c \in Conns |-> FALSE]
  /\ reader = [c \in Conns |-> "off"]
  /\ told = [c \in Conns |-> <<>>]
  /\ overtaken = {} /\ panicked = {} /\ missed = {}

\* ListenAndServe, whose error nobody reads.
Listen ==
  /\ listen = "starting"
  /\ listen' \in {"open", "closed"}
  /\ UNCHANGED <<active, close, hook, wait, acceptVars, chMap, childMap, childVars,
                 serve, wsVars, missed>>

-----------------------------------------------------------------------------
\* ConnContext, in the goroutine that accepts.

\* A connection: its channel is derived and the accept sent to the queue.
ConnContext(c) ==
  /\ listen = "open" /\ inContext = Nobody /\ acc[c] = "none"
  /\ \E S \in Together : {c} \cup {d \in Conns : acc[d] # "none"} \subseteq S
  /\ link' = [link EXCEPT ![c] = "open"]
  /\ acc' = [acc EXCEPT ![c] = "pending"]
  /\ childMap' = childMap \cup {c}
  /\ queue' = Append(queue, c)
  /\ inContext' = [at |-> "store", conns |-> {c}]
  /\ UNCHANGED <<serverVars, loop, chMap, starter, timer, downVars, serve, wsVars,
                 missed>>

StoreConn ==
  /\ inContext.at = "store"
  /\ chMap' = chMap \cup inContext.conns
  /\ inContext' = [inContext EXCEPT !.at = "await"]
  /\ UNCHANGED <<serverVars, queue, loop, childMap, childVars, serve, wsVars, missed>>

\* Mutant: the accept future is not awaited.
AwaitedNever == TRUE

\* The accept future is resolved, one way or the other.
Awaited == \A c \in inContext.conns : acc[c] # "pending"

\* net/http starts the goroutine that serves the connection.
ServeConn ==
  /\ inContext.at = "await" /\ Awaited
  /\ serve' = [c \in Conns |-> IF c \in inContext.conns THEN "idle" ELSE serve[c]]
  /\ inContext' = Nobody
  /\ UNCHANGED <<serverVars, queue, loop, chMap, childMap, childVars, wsVars, missed>>

-----------------------------------------------------------------------------
\* The accept loop, and the two goroutines it starts for each child.

AcceptLoop ==
  /\ loop = "loop"
  /\ loop' = IF active THEN "accept" ELSE "off"
  /\ UNCHANGED <<serverVars, queue, inContext, chMap, childMap, childVars, serve,
                 wsVars, missed>>

UnsafeAccept ==
  /\ loop = "accept" /\ queue # <<>>
  /\ queue' = Tail(queue)
  /\ starter' = [starter EXCEPT ![Head(queue)] = "activate"]
  /\ timer' = [timer EXCEPT ![Head(queue)] = "wait"]
  /\ loop' = "loop"
  /\ UNCHANGED <<serverVars, inContext, chMap, childMap, link, acc, downVars, serve,
                 wsVars, missed>>

\* activeChannel: a new alive future, whatever the old, ...
ActiveChild(c) ==
  /\ starter[c] = "activate"
  /\ alive' = [alive EXCEPT ![c] = "live"]
  /\ starter' = [starter EXCEPT ![c] = "fireActive"]
  /\ UNCHANGED <<serverVars, acceptVars, chMap, childMap, link, timer, acc, teardown,
                 asked, closing, serve, wsVars, missed>>

\* The task is told of something, if its invoker and its channel are in place.
Tell(c, what) ==
  told' = IF isWs[c] /\ invoker[c] THEN [told EXCEPT ![c] = Append(@, what)] ELSE told

\* ... then fireActive, which tells the task of a WebSocket of its connection: the
\* upgrade of a child that timed out may be over by now, ...
FireActive(c) ==
  /\ starter[c] = "fireActive"
  /\ Tell(c, "connected")
  /\ starter' = [starter EXCEPT ![c] = "read"]
  /\ UNCHANGED <<serverVars, acceptVars, chMap, childMap, link, timer, acc, downVars,
                 serve, isWs, invoker, reader, overtaken, panicked, missed>>

\* Read of a WebSocket's channel: the first marks readS, and starts the reader only if
\* the channel is active.
StartReader(c) ==
  reader' = IF reader[c] # "off" THEN reader
            ELSE [reader EXCEPT ![c] = IF alive[c] = "live" THEN "loop" ELSE "stuck"]

\* ... then Read.  The reader of an HTTP channel ends at once.
ActiveRead(c) ==
  /\ starter[c] = "read"
  /\ IF isWs[c] THEN StartReader(c) ELSE UNCHANGED reader
  /\ starter' = [starter EXCEPT ![c] = "succeed"]
  /\ UNCHANGED <<serverVars, acceptVars, chMap, childMap, link, timer, acc, downVars,
                 serve, isWs, invoker, told, overtaken, panicked, missed>>

AcceptSucceeds(c) ==
  /\ starter[c] = "succeed"
  /\ starter' = [starter EXCEPT ![c] = "done"]
  /\ acc' = [acc EXCEPT ![c] = IF @ = "pending" THEN "success" ELSE @]
  /\ UNCHANGED <<serverVars, acceptVars, chMap, childMap, link, timer, downVars, serve,
                 wsVars, missed>>

\* DefaultChannel.inactiveChannel: the alive future is completed, or failed if it was
\* never made; the callback runs in a goroutine of its own.
Complete(S) ==
  /\ alive' = [c \in Conns |-> IF c \notin S THEN alive[c]
                               ELSE CASE alive[c] = "nil" -> "failed"
                                      [] alive[c] = "live" -> "done"
                                      [] OTHER -> alive[c]]
  /\ teardown' = [c \in Conns |-> IF c \in S /\ alive[c] = "live" THEN "inactive"
                                  ELSE teardown[c]]

\* DefaultNetChannel.inactiveChannel: the goroutine that completed the alive future
\* closes the connection next; what else it does then depends on neither.
Inactive(S) ==
  /\ Complete(S)
  /\ closing' = closing \cup {c \in S : alive[c] = "live"}

\* UnsafeDisconnect.
CloseLink(c) ==
  /\ c \in closing
  /\ link' = [link EXCEPT ![c] = "closed"]
  /\ closing' = closing \ {c}
  /\ UNCHANGED <<serverVars, acceptVars, chMap, childMap, alive, starter, timer, acc,
                 teardown, asked, serve, wsVars, missed>>

\* Disconnect starts a goroutine, but not while another runs, nor after the end.
Disconnect(c) ==
  asked' = IF teardown[c] \in {"closed", "done"} THEN asked ELSE asked \cup {c}

\* The goroutine: inactiveChannel, and UnsafeDisconnect in any case.
RunDisconnect(c) ==
  /\ c \in asked
  /\ Complete({c})
  /\ closing' = closing \cup {c}
  /\ asked' = asked \ {c}
  /\ UNCHANGED <<serverVars, acceptVars, chMap, childMap, link, starter, timer, acc, serve,
                 wsVars, missed>>

\* A timer that finds the future resolved does nothing.
AcceptTimeout(c) ==
  /\ timer[c] = "wait"
  /\ acc[c] = "pending" /\ c \in Slow
  /\ acc' = [acc EXCEPT ![c] = "timeout"]
  /\ timer' = [timer EXCEPT ![c] = "inactive"]
  /\ UNCHANGED <<serverVars, acceptVars, chMap, childMap, link, starter, downVars, serve,
                 wsVars, missed>>

TimeoutChild(c) ==
  /\ timer[c] = "inactive"
  /\ Inactive({c})
  /\ timer' = [timer EXCEPT ![c] = "done"]
  /\ UNCHANGED <<serverVars, acceptVars, chMap, childMap, link, starter, acc, asked,
                 serve, wsVars, missed>>

\* Where in its history the task was told of something.
Told(c, what) == {i \in 1..Len(told[c]) : told[c][i] = what}

\* A child's Then callback: fireInactive, which tells the task of a WebSocket of its
\* end; the close future and release.
Teardown(c) ==
  \/ /\ teardown[c] = "inactive"
     /\ Tell(c, "disconnected")
     /\ overtaken' = IF Told(c, "connected") = {} THEN overtaken \cup {c} ELSE overtaken
     /\ teardown' = [teardown EXCEPT ![c] = "closed"]
     /\ UNCHANGED <<serverVars, acceptVars, chMap, childMap, alive, link, starter, timer,
                    acc, asked, closing, serve, isWs, invoker, reader, panicked, missed>>
  \/ /\ teardown[c] = "closed"
     /\ childMap' = childMap \ {c}
     /\ teardown' = [teardown EXCEPT ![c] = "done"]
     /\ UNCHANGED <<serverVars, acceptVars, chMap, alive, link, starter, timer, acc,
                    asked, closing, serve, wsVars, missed>>

-----------------------------------------------------------------------------
\* net/http's goroutine of a connection.

\* The peer leaves.  While net/http reads or answers, this is CloseConn.
PeerLeaves(c) ==
  /\ link[c] = "open"
  /\ \/ serve[c] \in {"hijacked", "set", "add", "connected"}
     \/ reader[c] \in {"loop", "reading", "fire"}
  /\ link' = [link EXCEPT ![c] = "left"]
  /\ UNCHANGED <<serverVars, acceptVars, chMap, childMap, starter, timer, acc, downVars,
                 serve, wsVars, missed>>

\* ServeHTTP fires Read: an upgrade, or a request answered by other handlers.
ServeHTTP(c) ==
  /\ serve[c] = "idle" /\ link[c] = "open"
  /\ \/ serve' = [serve EXCEPT ![c] = "request"]
     \/ c \in WebSockets /\ serve' = [serve EXCEPT ![c] = "upgrade"]
  /\ UNCHANGED <<serverVars, acceptVars, chMap, childMap, childVars, wsVars, missed>>

\* A request ends, and its handler may have disconnected the channel.
RequestEnds(c) ==
  /\ serve[c] = "request"
  /\ serve' = [serve EXCEPT ![c] = "idle"]
  /\ Disconnect(c) \/ UNCHANGED asked
  /\ UNCHANGED <<serverVars, acceptVars, chMap, childMap, alive, link, starter, timer, acc,
                 teardown, closing, wsVars, missed>>

\* The connection is gone, was idle for too long, or Shutdown closes it: net/http
\* closes it ...
CloseConn(c) ==
  /\ serve[c] = "idle"
  /\ serve' = [serve EXCEPT ![c] = "closed"]
  /\ link' = [link EXCEPT ![c] = "closed"]
  /\ UNCHANGED <<serverVars, acceptVars, chMap, childMap, starter, timer, acc, downVars,
                 wsVars, missed>>

\* Mutant: the channel is only taken out of the map.
StateClosedForgets(c) ==
  /\ serve[c] = "closed"
  /\ chMap' = chMap \ {c}
  /\ serve' = [serve EXCEPT ![c] = "done"]
  /\ UNCHANGED <<serverVars, acceptVars, childMap, childVars, wsVars, missed>>

\* ... and calls ConnState, which deregisters a channel of the map that is active.
StateClosed(c) ==
  /\ serve[c] = "closed"
  /\ IF c \in chMap /\ alive[c] = "live"
     THEN Inactive({c})
     ELSE UNCHANGED <<alive, teardown, closing>>
  /\ chMap' = chMap \ {c}
  /\ serve' = [serve EXCEPT ![c] = "done"]
  /\ UNCHANGED <<serverVars, acceptVars, childMap, link, starter, timer, acc, asked,
                 wsVars, missed>>

-----------------------------------------------------------------------------
\* UpgradeProcessor.Read, in that goroutine.

\* An acceptance, the check or WSUpgrade answers instead.
UpgradeRefused(c) ==
  /\ serve[c] = "upgrade"
  /\ serve' = [serve EXCEPT ![c] = "idle"]
  /\ UNCHANGED <<serverVars, acceptVars, chMap, childMap, childVars, wsVars, missed>>

\* Upgrade hijacks the connection, of which ConnState is told.
Hijack(c) ==
  /\ serve[c] = "upgrade"
  /\ chMap' = chMap \ {c}
  /\ serve' = [serve EXCEPT ![c] = "hijacked"]
  /\ UNCHANGED <<serverVars, acceptVars, childMap, childVars, wsVars, missed>>

\* Upgrade fails, before the connection is hijacked or, when the answer cannot be
\* written, after it; a goroutine disconnects the channel.
UpgradeFails(c) ==
  /\ \/ /\ serve[c] = "upgrade"
        /\ serve' = [serve EXCEPT ![c] = "idle"]
     \/ /\ serve[c] = "hijacked" /\ link[c] # "open"
        /\ serve' = [serve EXCEPT ![c] = "done"]
  /\ Disconnect(c)
  /\ UNCHANGED <<serverVars, acceptVars, chMap, childMap, alive, link, starter, timer, acc,
                 teardown, closing, wsVars, missed>>

\* The upgrade's answer is written.
Upgraded(c) ==
  /\ serve[c] = "hijacked" /\ link[c] # "closed"
  /\ serve' = [serve EXCEPT ![c] = "set"]
  /\ UNCHANGED <<serverVars, acceptVars, chMap, childMap, childVars, wsVars, missed>>

\* Mutant: the pipeline keeps the HTTP channel.
SetChannelSkipped(c) ==
  /\ serve[c] = "set"
  /\ serve' = [serve EXCEPT ![c] = "add"]
  /\ UNCHANGED <<serverVars, acceptVars, chMap, childMap, childVars, isWs, invoker, reader,
                 told, overtaken, panicked, missed>>

SetChannel(c) ==
  /\ serve[c] = "set"
  /\ isWs' = [isWs EXCEPT ![c] = TRUE]
  /\ serve' = [serve EXCEPT ![c] = "add"]
  /\ UNCHANGED <<serverVars, acceptVars, chMap, childMap, childVars, invoker, reader,
                 told, overtaken, panicked, missed>>

\* AddBefore and RemoveByName put the invoker in the processor's place.
AddInvoker(c) ==
  /\ serve[c] = "add"
  /\ invoker' = [invoker EXCEPT ![c] = TRUE]
  /\ serve' = [serve EXCEPT ![c] = "connected"]
  /\ UNCHANGED <<serverVars, acceptVars, chMap, childMap, childVars, isWs, reader, told,
                 overtaken, panicked, missed>>

\* The task is told and, unless it panics, Read called; net/http's goroutine leaves
\* the WebSocket behind.
WSConnected(c) ==
  /\ serve[c] = "connected"
  /\ told' = [told EXCEPT ![c] = Append(@, "connected")]
  /\ \/ StartReader(c) /\ UNCHANGED panicked
     \/ panicked' = panicked \cup {c} /\ UNCHANGED reader
  /\ serve' = [serve EXCEPT ![c] = "done"]
  /\ UNCHANGED <<serverVars, acceptVars, chMap, childMap, childVars, isWs, invoker,
                 overtaken, missed>>

-----------------------------------------------------------------------------
\* The reader of a WebSocket, and what reaches its task.

ReaderLoop(c) ==
  /\ reader[c] = "loop"
  /\ reader' = [reader EXCEPT ![c] = IF alive[c] = "live" THEN "reading" ELSE "done"]
  /\ UNCHANGED <<serverVars, acceptVars, chMap, childMap, childVars, serve, isWs, invoker,
                 told, overtaken, panicked, missed>>

\* UnsafeRead returns a message; what was received before the connection was closed
\* is still read.
More(c) == Cardinality(Told(c, "message") \cup Told(c, "control")) < MaxMessages[c]

UnsafeRead(c) ==
  /\ reader[c] = "reading" /\ More(c)
  /\ reader' = [reader EXCEPT ![c] = "fire"]
  /\ UNCHANGED <<serverVars, acceptVars, chMap, childMap, childVars, serve, isWs, invoker,
                 told, overtaken, panicked, missed>>

\* InvokeHandler calls the task's method of the message's type, which may
\* disconnect the channel; a panic ends in WSErrorCaught.
Call(c, kind) ==
  /\ Tell(c, kind)
  /\ Disconnect(c) \/ UNCHANGED asked

\* A message is fired when UnsafeRead has returned it ...
FireRead(c) ==
  /\ reader[c] = "fire"
  /\ Call(c, "message")
  /\ reader' = [reader EXCEPT ![c] = "loop"]
  /\ UNCHANGED <<serverVars, acceptVars, chMap, childMap, alive, link, starter, timer, acc,
                 teardown, closing, serve, isWs, invoker, overtaken, panicked, missed>>

\* ... and a ping, pong or close in the middle of UnsafeRead, by the handlers that
\* the upgrade has set.
FireControl(c) ==
  /\ reader[c] = "reading" /\ More(c)
  /\ Call(c, "control")
  /\ UNCHANGED <<serverVars, acceptVars, chMap, childMap, alive, link, starter, timer, acc,
                 teardown, closing, serve, isWs, invoker, reader, overtaken, panicked,
                 missed>>

\* A read fails, and the reader takes the channel down.
ReaderEnds(c) ==
  /\ reader[c] = "reading"
  /\ link[c] # "open"
  /\ Inactive({c})
  /\ reader' = [reader EXCEPT ![c] = "done"]
  /\ UNCHANGED <<serverVars, acceptVars, chMap, childMap, link, starter, timer, acc, asked,
                 serve, isWs, invoker, told, overtaken, panicked, missed>>

-----------------------------------------------------------------------------
\* Close of the server.

\* inactiveChannel completes the server's alive future, whose callbacks run.
Close ==
  /\ close = "idle"
  /\ close' = "wait"
  /\ hook' = [on |-> TRUE, must |-> childMap]
  /\ wait' = childMap
  /\ UNCHANGED <<listen, active, acceptVars, chMap, childMap, childVars, serve, wsVars,
                 missed>>

\* Range visits the children that were there throughout, and may visit later ones.
\* The hook takes down a child that is active when Range visits it.
HookVisit(c) ==
  /\ hook.on /\ c \in childMap
  /\ hook' = [hook EXCEPT !.must = @ \ {c}]
  /\ IF alive[c] = "live" THEN Inactive({c}) ELSE UNCHANGED <<alive, teardown, closing>>
  /\ UNCHANGED <<listen, active, close, wait, acceptVars, chMap, childMap, link, starter,
                 timer, acc, asked, serve, wsVars, missed>>

HookEnd ==
  /\ hook.on /\ hook.must \cap childMap = {}
  /\ hook' = NoRange
  /\ UNCHANGED <<listen, active, close, wait, acceptVars, chMap, childMap, childVars,
                 serve, wsVars, missed>>

\* waitChildren awaits the close futures of the children it visits; a later one
\* that it visits makes it wait longer.
WaitEnd ==
  /\ close = "wait" /\ \A c \in wait : teardown[c] \in {"closed", "done"}
  /\ wait' = {}
  /\ close' = "shutdown"
  /\ UNCHANGED <<listen, active, hook, acceptVars, chMap, childMap, childVars, serve,
                 wsVars, missed>>

\* UnsafeClose: Shutdown closes the listener ...
Shutdown ==
  /\ close = "shutdown"
  /\ listen' = "closed"
  /\ close' = "drain"
  /\ UNCHANGED <<active, hook, wait, acceptVars, chMap, childMap, childVars, serve, wsVars,
                 missed>>

\* ... and waits for the connections net/http serves, but not for the hijacked.
Served == {c \in Conns : serve[c] \in {"idle", "request", "upgrade", "closed"}}

ShutdownDone ==
  /\ close = "drain" /\ Served = {}
  /\ active' = FALSE
  /\ close' = "done"
  /\ UNCHANGED <<listen, hook, wait, acceptVars, chMap, childMap, childVars, serve, wsVars,
                 missed>>

\* After five seconds the channels of the map are deregistered if active; all are
\* deleted.
ShutdownTimeout ==
  /\ close = "drain" /\ Served # {}
  /\ Inactive({c \in chMap : alive[c] = "live"})
  /\ missed' = missed \cup {c \in chMap : alive[c] # "live"}
  /\ chMap' = {}
  /\ active' = FALSE
  /\ close' = "done"
  /\ UNCHANGED <<listen, hook, wait, acceptVars, childMap, link, starter, timer, acc,
                 asked, serve, wsVars>>

-----------------------------------------------------------------------------
ChildStep(c) ==
  \/ ActiveChild(c) \/ FireActive(c) \/ ActiveRead(c) \/ AcceptSucceeds(c)
  \/ AcceptTimeout(c) \/ TimeoutChild(c) \/ CloseLink(c) \/ RunDisconnect(c)
  \/ Teardown(c)

ServeStep(c) ==
  \/ ServeHTTP(c) \/ RequestEnds(c) \/ CloseConn(c) \/ StateClosed(c)
  \/ UpgradeRefused(c) \/ Hijack(c) \/ UpgradeFails(c) \/ Upgraded(c)
  \/ SetChannel(c) \/ AddInvoker(c) \/ WSConnected(c)

ReaderStep(c) ==
  ReaderLoop(c) \/ UnsafeRead(c) \/ FireRead(c) \/ FireControl(c) \/ ReaderEnds(c)

CloseStep ==
  \/ Close \/ HookEnd \/ WaitEnd \/ Shutdown \/ ShutdownDone \/ ShutdownTimeout
  \/ \E c \in Conns : HookVisit(c)

Next ==
  \/ Listen \/ StoreConn \/ ServeConn \/ AcceptLoop \/ UnsafeAccept \/ CloseStep
  \/ \E c \in Conns : ConnContext(c) \/ PeerLeaves(c) \/ ChildStep(c) \/ ServeStep(c)
                        \/ ReaderStep(c)

Spec == Init /\ [][Next]_vars

-----------------------------------------------------------------------------
\* At most one accepted connection is on its way to the accept loop, so ConnContext
\* never finds the queue full, however many connections come (ConnContext's Await).
QueueBounded == Len(queue) <= 1

\* The task of a WebSocket that was told of its connection is told of its end
\* before the channel's close future is done, once, and in that order, unless that
\* end had come before it was told of the connection (InvokeHandler.Inactive).
\* Messages come after the connection and, but for one the reader already had in
\* hand, before the end (the reader's loop).  Not so when the accept had timed out:
\* an activation that comes late tells the task, and starts the reader, on its own.
WSPaired ==
  \A c \in Conns : acc[c] # "timeout" =>
    /\ told[c] # <<>> /\ c \notin overtaken =>
         \E i \in Told(c, "connected") :
           /\ Told(c, "connected") = {i}
           /\ IF teardown[c] \in {"closed", "done"}
              THEN \E j \in Told(c, "disconnected") : j > i /\ Told(c, "disconnected") = {j}
              ELSE Told(c, "disconnected") = {}
    /\ \A m \in Told(c, "message") \cup Told(c, "control") :
         \E i \in Told(c, "connected") : i < m
    /\ Cardinality({m \in Told(c, "message") : \E j \in Told(c, "disconnected") : j < m}) <= 1

\* No channel outlives its connection: once net/http is done with a connection, closed
\* or hijacked, a channel that is active has a reader that runs, or a goroutine of
\* Disconnect that is about to take it down.  Not so when the accept had timed out;
\* when Close, out of patience, took the connection from the map before the channel
\* was active; or when WSConnected panicked, so that the reader was never started.
NoneOutlivesConnection ==
  \A c \in Conns :
    serve[c] = "done" /\ alive[c] = "live" =>
      \/ reader[c] \in {"loop", "reading", "fire"} \/ c \in asked
      \/ acc[c] = "timeout" \/ c \in missed \/ c \in panicked

=============================================================================
