# gone: a TLA+ model of the channel framework

`gone` is a channel framework in Go in the style of Netty: a *channel* wraps a
connection, a *pipeline* of handlers processes its events, and TCP, UDP, HTTP
and WebSocket transports are built on top. This directory models the
concurrent core of the framework and the transports above it in TLA+, checks
the models with TLC on small instances, and proves the safety properties of
eleven components with TLAPS for all values of their parameters.

    tlc -workers 2 -config MCWritePath.cfg MCWritePath     # one run
    tlapm WriteAndRouteProofs.tla                          # one proof module

`PROJECT.json` lists components, runs, mutants, the map from definitions to
source lines, hazards and theorems.

## 1. Inventory

### Components

| Component | State | Operations | Hard behaviour |
|---|---|---|---|
| write path (`channel/unsafe.go`) | `writeBuffer`, `writeBufferMu`, the flag `writeS`, one future per write | `Write`, the flusher goroutine, its drain | many writers, one flusher at a time, hand-over of the buffer when a flusher leaves, transport errors in the middle of a flush |
| channel lifecycle (`channel/channel.go`, `netchannel.go`, `unsafe.go`, `conn.go`) | `alive` future, close future, the flags `connectS`, `disconnectS`, `readS`, the connection and its `active` flag | `Connect`, `Disconnect`, `Deregister`, `Read`, the reader goroutine, `activeChannel`, `inactiveChannel`, teardown callback | four kinds of goroutine may take the channel down at once; a second `Connect` during a teardown |
| server channel (`channel/serverchannel.go`, `gtcp/tcpserverchannel.go`) | child map, `active`, the listener, the hook on `alive` | `Bind`, accept loop, accept timeout, hook, `waitChildren`, `Close`, `Deregister` | children come, go and time out while the server closes and ranges over its map |
| pipeline (`channel/pipeline.go`, `handlercontext.go`) | doubly linked contexts with their handlers | `AddLast`, `AddBefore`, `Remove`, `RemoveByName`, `RemoveFirst`, `Clear`, `FireXxx` | events follow the links between two pointer assignments, without a lock |
| simple clients (`gtcp/simpletcp`, `gudp/simpleudp`) | `close`, `ch` | `Start`, the reconnect handler, the keep-alive, `Disconnect` | reconnects nested in the goroutine of a failing `Connect`, racing `Disconnect`; several channels feed one handler |
| codec (`replaydecoder.go`, `simplecodec.go`, `utils/varint.go`) | input buffer, decoder state, flag, length | `Write`, `Read`, `decode`, `Checkpoint` | fragments cut anywhere; decoder state that outlives a datagram |
| bootstrap, initializer | type and handler to build channels with | `Connect`, `Bind` | sequential |
| UDP server (`gudp/udpserverchannel.go`), buffer pool (`utils/bufferpool.go`) | one socket, a first datagram per child, pooled buffers | `UnsafeAccept`, `UDPClientConn.Read`, `Get`, `Put` | accept loop and children compete for one socket and hand buffers to each other |
| HTTP server channel (`ghttp/httpserverchannel.go`) | queue of accepted connections, `chMap` | `ConnContext`, `ConnState`, `ServeHTTP`, `UnsafeAccept`, `UnsafeClose` | bounded queue between `net/http` and the accept loop; activation, close, hijack and shutdown overlap |
| HTTP dispatch, tasks, responses | request, response, `headerWritten`, write mode | acceptances, callbacks, method dispatch, error handling, ranges, gzip, chunked and SSE output | the order of deferred calls when callbacks fail or panic; one answer per request |
| HTTP routes | tree of route nodes, endpoint mappings | `SetRoot`, `SetEndpoint`, `SetGroup`, `AddEndPoint`, `AddGroup`, `AddRecursivePoint`, `RouteNode` | overlapping patterns registered in any order; a lookup that never goes back |
| HTTP sessions | map of sessions with expiry, the browser's cookie | `Session`, `Save`, `Delete`, renewal, the cleaner | cleaner, saves and overlapping requests of one browser |
| WebSocket (`gws`) | `InvokeHandler`, the reader | upgrade, message and control frame dispatch | a teardown in the middle of the upgrade |
| parameters, status handlers, error tables, mocks | small | | |

### How they interact

A user calls `Connect`, `Write`, `Disconnect`, ... on a channel. The call
enters the pipeline at its tail, passes the outbound handlers and ends at the
head, which calls `Unsafe`. `Unsafe` guards each operation with a flag
(`markState`) and does the work in a goroutine; the call's future is resolved
there. The reader goroutine fires inbound events at the head of the pipeline.
Whoever finds the connection broken calls `inactiveChannel`, which completes
the `alive` future; a callback on it (`Then`) fires `Inactive` and
`Unregistered` and completes the close future. A server's callback first waits
for the close futures of its children. The simple client's reconnect handler
runs inside that callback, or inside the goroutine of a `Connect` that failed.

In the HTTP server `net/http` accepts: its `ConnContext` hook makes a child
channel, queues it for the accept loop and waits until it is active. Each
request goes through the child's pipeline as a `Read`: `DispatchHandler` looks
the task up in the route, runs acceptances and callbacks, and writes the
response back through `GZipHandler`, `LogHandler` and the channel to
`net/http`. A WebSocket upgrade hijacks the connection, replaces handlers of
the pipeline in use and starts a reader of its own.

### What makes each correct

- Write path: queued writes reach the transport in order; each future is
  resolved, with success only if the transport took the write; no write is
  left in the buffer with nobody to flush it.
- Lifecycle: one teardown per activation; `Disconnect` effective; the
  connection released; a dead peer noticed.
- Server: children close before the server reports itself closed; the child
  map drains; `Close` ends.
- Pipeline: an operation is the step of a list that its name says; an event
  neither skips nor repeats a handler, and is lost only in known cases.
- Client: one connection at a time; the client knows it; `Disconnect` final;
  its handler is told of each channel in order.
- Codec: what arrives is what was sent, whatever the transport does.
- UDP server: a child gets whole datagrams of its own client, each once.
- HTTP connections: the queue never fills; no channel outlives its connection;
  a WebSocket task is told of both ends.
- HTTP dispatch: one answer per request; errors are not masked; a partial
  answer is the piece that was asked for.
- Routes: a lookup finds what a reading of the patterns finds, whatever the
  order of registration, with the acceptances above it.
- Sessions: what is in use is kept; the cookie names it; a request has one.

## 2. Modules

| Module | Models | Role |
|---|---|---|
| `WriteContract` | | what `Write` promises, without goroutines |
| `WritePath` | `DefaultUnsafe.Write`, flusher, drain | implements `WriteContract` |
| `ChannelLifecycle` | a client channel over a connection | |
| `ServerAccept` | TCP server and its children | uses the child's life as `ChannelLifecycle` has it, reduced to what the server sees |
| `HandlerList` | | what a pipeline is to its users: a list and its operations |
| `Pipeline` | contexts, operations, walking events | implements `HandlerList` |
| `ReconnectClient` | both simple clients | uses the results of `ChannelLifecycle`: when a channel fires `Unregistered`, and on which goroutine |
| `SimpleCodec` | codec, replay decoder, varint | |
| `UdpServer` | UDP accept loop, children, buffer pool | |
| `HttpConnections` | HTTP server channel, `net/http`'s hooks, WebSocket upgrade and reader | composes a server, its children and `net/http` |
| `HttpDispatch` | one request from `DispatchHandler.Read` to the wire | uses a route's answer as an input |
| `Routes` | both routing tables | |
| `Sessions` | session provider, cleaner, cookie, requests of a browser | |
| `WriteAndRouteProofs` | | theorems about `WritePath` and `Routes`, and that `WritePath` implements `WriteContract` |
| `PipelineProofs` | | theorems about `Pipeline` |
| `HandlerListProofs` | | that `Pipeline` implements `HandlerList` |
| `ChannelProofs` | | theorems about `ChannelLifecycle` and `UdpServer` |
| `ClientServerProofs` | | theorems about `ReconnectClient` and `ServerAccept` |
| `HttpConnectionsProofs` | | theorems about `HttpConnections` |
| `RequestProofs` | | theorems about `HttpDispatch` and `Sessions` |
| `CodecProofs` | | theorems about `SimpleCodec` |
| `MC*` | | instances for TLC |

Four proof modules extend two models each. Where names would clash, one of
the two has its specification under a name of its own: `ServerSpec`,
`UdpSpec`, `SessionsSpec` and `RoutesSpec`, with their initial states and steps
likewise; so has the codec, `CodecSpec`.

**WritePath.** Each element of `Calls` is one call of `Write`; `pc` is where
the caller is in `Write`, `fpc` where the flusher that it spawned is. One
action stands for the code between two points at which another goroutine can
interfere: the two looks at `IsActive` (`Enter`, `Recheck`), the push under the
mutex (`Push`), `markState` (`Kick`), the loop test, `Pop`, `UnsafeWrite`, the
acknowledgement, the error path (`FailChannel`, `FailFuture`), the drain under
the mutex (`DrainLock`, `Drain`), `resetState` and the second look at the
buffer (`LenTest`, `WriteAgain`). `StartConnect`, `EndConnect`, `Inactivate`
and `Teardown` are the rest of the channel as the write path sees it.

**ChannelLifecycle.** Every call of `Connect`, `Disconnect`, `Deregister` and
`Read` is an actor that may start at any time; the reader and the teardown
callback of each activation are actors too. Every `Connect` makes a connection
of its own, named after it; `cur` is the one the channel has and `rconn` the one
its reader reads. `connActive` is the flag of `DefaultConn`, `sock` the socket
itself: the code confuses the two when an I/O error clears the flag. `gen`
counts activations, since a second `Connect` replaces the `alive` future; it
replaces the connection too, and the old one, which nobody will close, is
recorded in `overwritten`.

**ServerAccept.** The accept loop, a goroutine that activates each child, one
that waits for its timeout, the hook that visits children when the server goes
down, `waitChildren` and the calls of `Close` and `Deregister` interleave.
`sync.Map.Range` visits every key that is present throughout, and may or may
not visit the ones stored or deleted meanwhile (`hookTodo`, `waitTodo`).

**Pipeline.** `next` and `prev` are the pointers; each assignment of an
operation is a step, and so is each read of a link by an event. A context
reads its link once to find the handler and again to build the context it
hands over, so that a change in between calls a handler with the context of
another (`mixed`). Operations are serialised, as their callers do.

**HandlerList** is the contract: a call names an operation, its context and
the place it goes to (`doing`, `ctx`, `target`), and the list may then change
only as that operation says: `Add` inserts right before the target, or at the
end for `AddLast`; `RemoveFirst` takes the first, `Remove` the context given,
`Clear` all. An operation cannot end without its effect. `mirrored` is what the
way back, along `prev`, is in relation to the list; it must hold whenever no
operation is under way (`Tidy`). Two flaws of the code are part of the
contract: what is added before the head is never listed, and `RemoveFirst` of
an empty pipeline leaves it `broken` until it is cleared.

**ReconnectClient.** Channel `k` is the one made by the k-th `start()`.
`unreg[k]` follows the reconnect handler of that channel, `start[k]` the call
that made it; `told` is what the user's handler has been told, in order. The
keep-alive is its write that fails and takes the channel down. AutoReconnect
answers arbitrarily. `sock` is the socket of each channel, apart from the
channel: whoever completes the `alive` future closes the socket afterwards
(`closing`, `CloseSocket`), while the callback of that future may be
reconnecting already. `Breaking` names the channels that are lost by an I/O
error, whose sockets are never closed since the error has cleared the flag that
`UnsafeDisconnect` goes by.

**SimpleCodec.** `in` with its reader index, the decoder's state, and one step
per turn of the decode loop. Bytes are digits of a `Base`, 256 in the code:
with five values, a message of two bytes already needs the second form of
length and one of 25 bytes the third. The transport is TCP or UDP. Lengths of
two, four and eight bytes are halved into their digits, since definitions by
recursion could not be proved about. Two variables record history: `stream` is
every byte written to a TCP connection, and `due` the messages to deliver, each
with the place in the stream where its frame ends.

**UdpServer.** `socket` is the set of datagrams not yet read, so that they
come in any order; the accept loop and the reader of each child take from it.
A buffer is a name with a content: `pool` and `content` show when a buffer
that went back to the pool is read or overwritten by its next user. `NoBytes`
says which arrivals are empty datagrams: as the first of a child one is never
returned (`FirstLeft`), later it is read and skipped (`Empty`).

**HttpConnections.** A connection has up to six goroutines: `ConnContext`
(`inContext`), the one that activates the child (`starter`), the accept
timeout (`timer`), the teardown callback, `net/http`'s server goroutine
(`serve`) and, after an upgrade, the reader. An activation has its steps:
`alive`, then `fireActive`, which tells the task of a child that has been
upgraded meanwhile (`FireActive`), then `Read` (`ActiveRead`). So has a
teardown: `alive` is completed (`Complete`), its callback tells the pipeline
(`Teardown`) and the goroutine that completed it closes the connection
(`CloseLink`), in either order. `Disconnect` only leaves a goroutine that will
do so (`asked`, `RunDisconnect`). `Close` is a sequence of stages: the hook over
the child map, `waitChildren`, then `Shutdown` with its five seconds, then what
is left in `chMap`. A WebSocket's `told` is the sequence of calls of its task.

**HttpDispatch.** `pc` walks the stages of `DispatchHandler.Read`; user code
(acceptances, callbacks, tasks) is a choice of what it does to the response
and how it ends: nil, an error, `NotImplemented`, a panic with an error or
with something else, or, in an acceptance, an interrupt. The deferred calls
run in the order in which Go runs them. A body is who made it, its length and
whether it is compressed; `wire` is what `net/http`'s writer got.

**Routes.** A node is the sequence of names that lead to it, `tree` what each
holds. Next is one registration call; lookup (`RouteNode`) is an operator that
the invariants evaluate for every path in every table. `placed` records the
last call that had an effect on a node, against which the table is compared. A
pattern that names a group or an endpoint at an asterisk makes the asterisk's
node anew, and what was registered below it is gone, from `placed` as well. The
key of a parameter (`ParamKey`) has its prefix, its name and its suffix apart,
since a brace and a colon form on one node name set them separately.

**Sessions.** A session is an id with its expiry, since all requests hold a
pointer to it; the clock moves between given instants. The cleaner ranges over
the store as `sync.Map.Range` may, testing a key and deleting it in two steps.
A request goes from the cookie it came with to the one in its response; the
responses reach the browser in any order, or not at all. A request in
`Streaming` may write its head before it ends (`WriteHead`), after which the
deferred update of the cookie comes too late.

### External code

The futures of `goth-concurrent` are assumed to resolve once (`Complete`,
`Fail` and `Cancel` return false afterwards) and to run a `Then` callback at
some time after completion, in a goroutine of its own. The buffers of
`goth-bytebuf` write integers big-endian, and a read of more bytes than there
are panics with `ErrInsufficientSize` and consumes nothing; the decoder's
buffer may be compacted at any checkpoint, because its capacity is the
library's business. `net/http` calls `ConnContext` in its accept loop, serves
each connection in one goroutine, reports `StateClosed` or `StateHijacked` at
its end, and on `Shutdown` waits for connections that are not hijacked.
Sockets, peers and the network do what they can do.

## 3. Runs

| Run | Instance | What it shows |
|---|---|---|
| `write_path` | two writes and a write of nil, one connect; fair | One flusher owns the buffer; writes leave in the order they were queued; a non-empty buffer always has somebody coming; at rest only dropped calls are unresolved; the contract is implemented; every queued write is answered and every call returns |
| `channel_life` | two connects, a disconnect and a deregister, no messages | One teardown per activation although up to four goroutines try; a `Disconnect` that reports success has taken effect; every socket that was opened is closed, but for the two kinds that the code leaks |
| `channel_liveness` | one connect, one disconnect, one user `Read`, two messages; fair | A channel that went down closes; a dead peer is noticed |
| `server_accept` | one connection, a `Close` and a `Deregister`; fair | Children stored when the server went down are closed before it reports `Inactive`; the map drains; a `Close` that no peer holds up completes; children active when the server goes down are taken down |
| `pipeline` | two handlers, one event of either direction | `Remove` neither loses nor breaks an event nor makes it skip or repeat a handler, but for the stated cases; every operation is its step of `HandlerList` and leaves a way back |
| `reconnect_client` | up to three channels, with keep-alive, the first and the third lost by an I/O error; fair | One channel active or dialled at a time, whose socket alone is in use or about to be closed; the client holds the live one unless a start was overtaken; an undisturbed `Disconnect` is final; the user's handler is told in order; every start returns |
| `simple_codec` | three messages out of five, buffer of twelve bytes, one repeat | In order, unchanged, once and at once over a stream; datagrams do not disturb each other. On start TLC also evaluates `LengthsRoundTrip` for every length up to `Base^4 + Base`, which covers the eight-byte form that no small message reaches |
| `http_routes` | nine overlapping patterns, three calls, all paths of one to four segments over two names and an id | Lookup agrees with a reference reading of the path; endpoints stay reachable; acceptances above an endpoint apply; ids are found by name |
| `http_dispatch` | requests of each kind: methods, tasks, ranges, gzip, pre-flight, not found | One answer per request; errors replace what callbacks set; a body with status 206 is the piece that was asked for, and its headers say so, but for the stated case. On start TLC compares `ParseRange` with the definition of a range |
| `http_sessions` | two ids, two requests, one with two callers; instants 0, 20, 21 with expiry 20; one cleaner | Live sessions are kept; the cookie names the session in use, but for a stated case; a request has one session |
| `http_connections` | two plain connections; or one that may become a WebSocket, with two messages; or one such that may be activated late, with one message | At most one connection is in the accept queue; a WebSocket task is told of both ends, in order; no channel outlives its connection, but for the stated cases |
| `udp_server` | two clients, two children, one of them with pooled buffers; three buffers, three arrivals, the second empty | A child gets whole datagrams of its own client only, each datagram goes to one child once, and is lost only as stated |

Every property has a mutant of a mapped definition (`MarkStateUnguarded`,
`IsExpireEarly`, ...) that violates it in the same run. A mutant stands before
the definition it changes, is marked by a comment, and is used by nothing
else.

### Bounds, and why they are enough

- `WritePath`: races are between a writer, a leaving flusher and the next one,
  which needs two queued writes; the write of nil is the flusher's own way to
  start again and may come from a user too. The channel may be connected in
  the middle of a `Write`. Safety and the contract are proved for any number
  of calls and connects.
- `ChannelLifecycle`: two connects are needed to replace an activation, or a
  connection in use. For liveness one: the statements exclude a second
  activation (`gen > 1`) anyway. Messages matter to liveness only
  (`MaxData`); safety is proved for any number.
- `ServerAccept`: one child that may be missed, late, or timed out, against
  two calls that take the server down.
- `Pipeline`: with two handlers an operation can hit the context an event is
  in, the one before or the one after. One event suffices, because events only
  read the links.
- `ReconnectClient`: three channels nest two failing dials. Safety is proved
  for any number. The bound is where AutoReconnect says no for good, and
  `StartsReturn` depends on that: an AutoReconnect that always says yes to an
  unreachable server nests starts for ever.
- `SimpleCodec`: three messages, so that a frame has a neighbour on either
  side in the same read; five kinds, among them the keep-alive, payloads that
  look like lengths, and one too long for a datagram read.
- `Routes`: with three calls a pattern meets nodes made by two others, as a
  group and as an endpoint; four segments are the length of the longest
  pattern, with an id in the middle and one at the end.
- `HttpDispatch`: bodies below, at and above the threshold and the file's
  length; two events of a server-sent stream, to repeat one.
- `Sessions`: two requests overlap; with two ids a session can be replaced by
  another. The last instant of a session and the first after it are both
  there.
- `HttpConnections`: `Together` says which connections may come in one run.
  Two plain ones, so that one is in `ConnContext` or the queue while another
  lives; a connection that is upgraded meets the server's `Close` but not the
  other connections, and goes alone. Two messages, so that one may be in the
  reader's hand while another was delivered (`MaxMessages`). Safety is proved
  for any connections, together, and any number of messages.
- `UdpServer`: two clients and two children, so that a datagram may be read by
  the wrong child; three buffers, one for each reader, so that two readers and
  the accept loop hold one at a time and still pass them on.

Symmetry is used only in runs without liveness, over calls, contexts, clients,
buffers or ids that are interchangeable.

`CHECK_DEADLOCK FALSE` is set in the four runs whose system stops when the
bound on calls, requests, arrivals or connections is used up. Of the others,
`Pipeline` never stops; elsewhere a system that has come to rest takes an
explicit stuttering step (`Terminated`), and any other stop is reported.

### Fairness

Stated in `WritePath`, `ChannelLifecycle`, `ServerAccept` and
`ReconnectClient`: weak fairness of each goroutine that has started, because
the Go scheduler runs every runnable goroutine. `FairSpec` of `WritePath` says
more: it is fair to all of a caller's steps, the entry into `Write` among them,
so that every call is made in the end. Neither liveness property depends on it,
since both start from a call that was made. Transport writes, reads and
dials return because they carry deadlines or are bounded by the operating
system. Never fair: users making calls, peers connecting, sending or leaving,
and `Accept`, which blocks. `CloseCompletes` states its own premise, that no
peer stays for ever. In `ReconnectClient` the goroutine that closes a lost
channel's socket is fair too. The other modules state safety only.

## 4. Proofs

Each proof states an inductive invariant (`IInv` or a name of its own; the
write path and the client keep theirs in named parts), shows that it holds
initially and that every action keeps it, one step per action, and derives the
theorems. TLC confirmed each invariant on the instance of the run before it
was proved. All eleven models are covered: every safety invariant that a run
checks is a theorem, but for two of `Routes`, and so are both refinements. A
model's parameters are arbitrary sets and numbers; what is assumed of them is
stated by name in the module that declares them and given below.

**WriteAndRouteProofs**, the write path (`CallsAssumption`: the nil calls are calls;
`MaxConnectsAssumption`: a natural number). `SingleFlusher` and
`NoStrandedWrite` are not inductive; the invariant adds

- `Ownership`: `writeS` is 1 exactly while a flusher is between `markState`
  and `resetState`, and only one is. Without the first half nothing forbids a
  second `markState`.
- `QueueOrder`: the buffer is the end of the sequence `pushed`, the write in a
  flusher's hands comes just before it, what is on the wire before that. This
  ties the order on the wire to the order of queueing.
- `Accounting`: an unresolved future is with a caller that has not queued it,
  in the buffer, in the hands of the flusher, or dropped, and in only one of
  these places.
- `Placed`, for the refinement: what is queued or held is still unanswered and
  in one place, what was not queued was not sent, and what is acknowledged was.

From them follow `TypeCorrect`, `OneFlusher`, `NothingStranded`,
`WrittenInOrder` and `AllAnswered`. `Implements` shows that the state maps to
`WriteContract` under the refinement mapping of `WritePath`: the contract's
queue is the write held by the owner, in front of the buffer. `CallMaps` and
`FlushMaps` say which step of the contract each action is: `Push` accepts,
`Recheck` may reject, `UnsafeWrite` delivers, `Ack` confirms, `FailFuture` and
`Drain` refuse, and the rest stutters. `Placed` is what makes the mapped step
legal: `Accept` needs a call that is in no place yet, and `Confirm` one that
was sent and not answered.

**ClientServerProofs**, the client (`MaxChannelsAssumption`, `KeepsAliveAssumption`,
`BreakingAssumption`: a positive number, a Boolean, some of the channels). The key is `Chain`: only the channel made last can
be open or still deciding to reconnect; all older ones are gone. So a reconnect
always starts from the last channel, and there is one connection. `Resolution`
ties a Connect's future to how the dial ended, `Latest` says that `Client.ch`
is what the last start brought, as long as no start was overtaken, and `Quiet`
and `Final` that an undisturbed `Disconnect` leaves nothing under way. `Told`
says exactly which events of a channel the user's handler has been told, by
where the channel's dial (`conn`), its activation (`active`) and its teardown
(`unreg`) are; `HeldIsTold` adds that a channel the client holds is one whose
activation the user has been told of, which is what a `Disconnect` needs. From
them follows that the events of each channel come in order and once. Theorems:
`ClientTypeCorrect`, `AtMostOneConnection`, `LiveChannelIsHeld`,
`DisconnectEnds`, `EventsToldInOrder`. `Sockets` ties a socket to its channel: in use
while the channel is live or the close is still to come, and not before the
dial.

**ChannelProofs**, the lifecycle (`OpsDisjoint`: no call is of two kinds;
`ConnectsFinite`; `MaxDataAssumption`: a natural number). `Teardowns` counts:
the activations so far are those whose `Inactive` has fired or is to come,
those a second Connect overwrote, and the live one. To keep the count a step
must not find the callback of a new activation in use, so `GenBound` gives each
activation a Connect of its own. `Undisturbed` and `Effective` say what a
`Disconnect` that no Connect overlaps has achieved at each of its steps;
`Released` names the goroutines to which the channel's connection, when it is
in use, belongs while the channel is not live: one that activates, or one that
disconnects; a connection that is not the channel's any more was overwritten or
is out of use.
`ReaderMarked` says that whoever reads has marked `readS`. Theorems:
`LifecycleTyped`, `OneTeardown`, `DisconnectEffective`, `ConnectionIsReleased`
and `OneReader`.

**ClientServerProofs**, the server (`CallsDisjoint`: no call is both a `Close` and a
`Deregister`). `Lifetimes` follows a child: stored once, activated once, torn
down once by whoever comes first, and released only when its close future is
done. `EldersAwaited` says that while `waitChildren` ranges over the map an
elder that is not closed is still among those it has to visit, although
children leave meanwhile; without it nothing relates the end of the range to
the children the server went down with. Theorems: `ServerTyped`,
`ChildrenLiveOnce`, `EldersFirst`, `MapDrains`.

**HttpConnectionsProofs** (no assumption on the connections, which may be
infinitely many). `Queued`: the connection in `ConnContext` alone may be in the
queue, and nothing of its activation has begun. Of each connection, `Accepted`
says what the accept future tells about the activation, which makes a channel
active once at most; `Watched` that a channel whose connection `net/http`
serves is in `chMap` or over, so that `StateClosed` finds it, and that a
channel whose upgrade failed is over or has a `Disconnect` on its way; and
`Paired` what the task of a WebSocket was told, by how far the upgrade
(`Upgrade`), the teardown (`Ends`) and the reader (`Messages`) are. Lemmas say of each action
that it keeps these facts of its own connection and leaves the others alone.
Theorems: `ConnectionsTyped`, `AtMostOneQueued`, `TaskToldInPairs`,
`NoChannelOutlives`.

**RequestProofs**, one request (`RequestsAssumption`: a known kind of task, natural
numbers of acceptances and in ranges; `LengthsAssumption`: lengths are natural
numbers). `Written` says what is on the wire by where `Read` is: without
separate mode nothing until it is done, with it a head and the events but the
one under way. `Blamed` says that response and answer are error responses
exactly if an error of the task, or an acceptance, made them so: it holds
between `_ErrorCaught` and the wire, where the property only looks at the end.
`Measured` says that the body is whole until the range, and from then on that
a body with status 206 goes with its `Content-Range` and `Content-Length`, and
a 416 with a range that has no byte, on the response as on the wire. Theorems:
`DispatchTyped`, `AnsweredExactlyOnce`, `ErrorsReachClient`,
`PartialContentRight`.

**ChannelProofs**, datagrams (`ClientsAssumption`: "none" is no client;
`PooledAssumption`: the children with pooled buffers are children).
`BuffersApart`: a buffer in use is not in the pool, and nobody else's.
`Own`: what is on its way to a pipeline is of the child's client. For
conservation, every datagram is at one of the places *socket*, *dropped*,
*accept loop*, *first datagram of a child*, *reader* and *pipeline*: `Apart`
says that the places share none, `Counted` that together they hold as many as
arrived, and the lemma on moves reduces each action to a set of datagrams that
goes from one place to another. `GivenOnce` says that no pipeline has one
twice. Theorems: `UdpTyped`, `NoBufferShared`, `PipelinesGetOwn`,
`DatagramsConserved`.

**RequestProofs**, sessions (`IdsAssumption`: the two marks of a cookie are no ids;
`TimesAssumption`: instants are integers, periods natural numbers). Of each
request, `InUseMade`, `Staged`, `Followed` and `Agreed`: its sessions were
made, it saves only what it has, the session is the one its cookie names as
long as the header has that cookie, and one call at a time holds the lock. Of
the provider `Lapsed`: what is past its expiry, or in the hand of a cleaner,
has ended. Theorems: `SessionsTyped`, `LiveKept`, `CookieNames`, `OneSession`.

**PipelineProofs** (`ContextsAssumption`: finitely many contexts, none of them
an end of the list). The links alone do not say what the list is: while an
operation is between two assignments, `next` and `prev` disagree, and contexts
that were removed keep links into it, along which events still walk. So the
invariant speaks of two things that the code does not have. One is the set `L`
of the contexts listed, the other a rank `r` of all contexts ever made, such
that every link, also a stale one, leads forwards in it (`Ranked`). A context
that is added is put into the rank right before its target (`Shifted`).

- `Forwards`: from the head on, each link leads to the next of `L` in the rank.
- `Backwards`: `prev` leads along the same contexts, except where the operation
  under way is. `Adding` and `Removing` say what an operation relies on from
  one assignment to the next.
- `Route`: an event under way that no operation has cut off is in a set of
  contexts that is closed under the links it follows, all of whose handlers
  are set, and none of whose links skips a handler that has been listed all
  the time and that the event is still to come to.

`Route` is what makes `RemoveIsSafe` inductive: an event does not see the list
but the links it has still before it, and each operation keeps some such set
closed. Theorem: `RemovalIsSafe`, for any number of events and contexts.

**HandlerListProofs** (the same assumption). `HandlerList` is a sequence, the
pipeline a set of links, so the refinement mapping walks the links from the
head. `Row` says that a function on `0..n` is that walk; the lemmas show that
the contexts of `L` in the order of their rank form a row (`Begins` grows one
until none of `L` is left) and that the row is what `Forward` lists. Then each
assignment is either one that no walk from the head sees, a step on the way
back, or it changes the row by one insertion, one removal, or to the empty one,
at the place that the operation under way has (`OpSteps`), which is the step of
`HandlerList` that the operation is named after; the call before it announces
just that operation (`CallSteps`). When none is under way, `Backwards` makes the
links back lead along the same row (`TidyIdle`). Once `RemoveFirst` has cut the
tail off, `BrokenInv` says that the head leads to the tail only and that no
way back an operation may follow leads to the head, until `Clear` has restored
both; so nothing that is added is listed.
Theorem: `PipelineImplementsList`.

**WriteAndRouteProofs**, the routes (`PatternsAssumption`: patterns are nonempty
sequences of parts). `TableInv`: with a node the table has the nodes above it, a group has
no task, and every node has what the last effective call gave it. A call walks
along its pattern, so `Walking` says of each turn of its loop that it has added
nodes and made endpoints but changed nothing that an earlier call gave, and
`Arrived` that at the end it has given its own task to at most one node. For
`EndpointsStay`, a lookup of the names that lead to an endpoint is followed
turn by turn: it is at the node of the names so far, whatever its kind, because
the table has it (`TableInv`). Theorems: `TableInvHolds`, `EndpointsStayHolds`,
`GuardsApplyHolds`.

**CodecProofs** (`BaseAssumption`: at least five values of a byte, since the
flag alone needs as many; `BoundsAssumption`: a positive buffer size, natural
numbers of messages and repeats; `MessagesAssumption`: messages are sequences of
bytes, their lengths fit into eight). `LengthsDecode` says that a length is
encoded in the number of bytes that its flag announces, and decoded to itself:
two digits by division, four and eight by halving. `FrameParts` cuts a frame
accordingly. For a stream the invariant, `CodecInv`, says what is not yet read
(`OnItsWay`), what waits in the buffer (`Buffered`) and where in it the frames
lie (`Framed`); `Progress` says at which byte of which frame the decoder is, by
its state. A decoder that waits has a reason (`Waits`), so no message that is
there in full is still to come: that is `DecodedAreComplete`. For datagrams
`Holding` is the same within one datagram, and `Balanced` counts, for each
message, what is on its way, in the decoder and decoded against what was
written and repeated. It holds as long as no datagram was truncated. Theorems:
`LengthsDecode`, `StreamFaithfulHolds`, `DatagramsStandAloneHolds`.

Walks and lookups of `Pipeline` and `Routes` are functions defined by recursion
on `0..n`. Lemmas derive that such functions exist, and take the values their
definition says, from `NatSetInduction`, which follows in turn from the
pigeonhole theorem of `FiniteSetTheorems`; the induction theorems of the library take an operator as
a parameter, which the installed provers cannot instantiate.

Only model-checked:

- The liveness properties of `WritePath`, `ChannelLifecycle`, `ServerAccept`
  and `ReconnectClient`: the proof system has no reasoning under fairness.
- `LookupAgrees` and `IdFoundByName` of `Routes`. The first compares a lookup
  with every way to read a path, the second depends on which of several
  mappings and parameters is taken.

## 5. Exceptions that the properties spell out

Several properties hold only with an exception. Each exception is a behaviour
of the code and recorded in a history variable or named in the property:

- `dropped` (WritePath): `Write` sees the channel inactive at its first look
  and active at its second; it neither queues nor fails the write.
- `readStuck` (ChannelLifecycle): a `Read` on a channel not yet active marks
  `readS` and never resets it, so that the channel is never read.
- `ioError` (ChannelLifecycle): an I/O error clears the flag by which
  `UnsafeDisconnect` decides to close the socket; the socket stays open.
- `overwritten` (ChannelLifecycle): a `Connect` on a channel whose connection is
  in use puts its own in its place; nobody closes the old one.
- `mixed`, `cut`, `grown`, `emptied`, `broken`, `beforeHead` (Pipeline): an
  event overtaken by an operation on its pipeline, and operations used on the
  ends.
- `overtaken`, `raced`, `hasty` (ReconnectClient): a start that returns after
  a newer one; a `Disconnect` during a start or a reconnect; a keep-alive that
  fails before the user knows of the channel.
- `truncated` (SimpleCodec): a datagram longer than the read buffer; the
  decoder then waits for bytes that never come and takes those of the next
  datagram for them.
- `overtaken`, `missed`, `panicked` (HttpConnections): a teardown whose end the
  task is told before it is told of the connection; a channel that was not
  active when `Close` gave up on it; a panic in `WSConnected`, after which the
  WebSocket has no reader. A connection whose accept timed out is excepted too:
  its activation may come at any time.
- `renewed`, `ended` (Sessions): a request whose session was renewed; a
  session that has once been expired or deleted. A response whose head was
  written early carries no cookie.
- empty datagrams (UdpServer): lost, as a child's first or later.
- `settled` and a hollow header (HttpDispatch): status or body set by `After`,
  when the range was applied; a header without a value, which makes
  `LogHandler` panic.

## 6. Behaviour worth knowing

What the code does that a reader may not expect. The models contain all of it
unless noted, and the properties are worded so that they are true of it.

Channels. Calls that lose `markState`, or that come after the close future,
are ignored with their futures unresolved. One message may arrive after
`Inactive`. A connection accepted while a closing server waits for its
children becomes a child that outlives the server (`channel.go:239`); a child
stored but not yet active when the hook visits it is never taken down, and
`Close` waits for it as long as its peer stays (`serverchannel.go:32`, `:55`).
`RemoveFirst` on a pipeline without handlers unlinks the tail from the head
(`pipeline.go:193`). A second `Connect` on a live channel leaks the connection
it had (`netchannel.go:185`), and an I/O error the socket it came from
(`conn.go:28`).

Clients. After a dial failed once and the nested reconnect succeeded, the
outer start overwrites the live channel with nil (`simpleclient.go:42`). A
reconnect can have opened its socket before the old one is closed. The
user's handler is told that a channel is unregistered only after its
successor's start has returned, hence after it heard of the successor.

HTTP dispatch. `NotImplemented` from a callback is answered with status 200
and an error body, an acceptance that returns a plain error with an empty 200.
`Content-Length` is stale if the body is replaced after a range or compressed.
An error after `SSEMode` is never written. A header without a value makes
`LogHandler` panic; it recovers without passing the write on, and the
dispatcher waits for it for ever. `SetGroup` and `SetEndpoint` on nodes that
exist keep old acceptances or tasks without saying so. After `/a/{x}/a/:y_id`
the id is stored under a key with a prefix, which the brace has set for the
second `a` too, and `GetID` misses it (`simpleroute.go:186`).

Sessions. A refreshed cookie outlives its session, since `Save` does not
extend the expiry. A session that the handler deleted is stored again by the
`Save` of `_UpdateSessionCookie`. A session whose expiry is moved after it has
lapsed may be deleted by a cleaner that found it lapsed. The provider's
`Session` does not look at the expiry. The cookie is updated when the handler
is done (`httpdispatchhandler.go:66`): a handler that streams its answer has
written the head by then, and the browser is never told of a session made for
that request. Not in the model: `lastClean` and the
map of a session's values are read and written without a lock.

HTTP server and WebSocket. `ConnContext` waits for ever if the accept loop has
ended. A channel that is not active when `Shutdown` times out, or an activation
later than the accept timeout, leaves a channel that nobody takes down; such an
activation also tells the task of a connection that was upgraded meanwhile of
that connection a second time. A failed upgrade ends before its channel is
down, since `Disconnect` only starts a goroutine. After a panic in
`WSConnected` the channel stays active without a reader. A
teardown during an upgrade tells the task of the connection after, or without,
its end; one data message may come after `WSDisconnected`. Not in the model:
`Bind` succeeds though the port is taken, because the error of
`ListenAndServe` is dropped (`httpserverchannel.go:135`).

UDP. The accept loop makes a second channel for a client that has one; a child
drops datagrams of other clients; deadlines are those of the one socket; an
empty datagram is lost, a child's first because `Read` passes over it
(`udpserverchannel.go:121`) and a later one because nothing was read
(`netchannel.go:155`). With the default buffer size of 1024 bytes the
buffers never return to the pool: `GetWithSize` cuts them to size and
`PutBufferForSize` takes only 4, 16 and 64 KiB.

## 7. Not modelled

Status and indication handlers, error tables, parameters, mocks, examples, and
the parsing and formatting of headers, cookies, addresses and log lines.
Options such as buffer sizes and timeouts appear only as what they cause (a
truncated datagram, a read that times out). Memory-model effects of
unsynchronised fields (`Client.close`, the links of the pipeline) are taken as
atomic reads and writes. The WebSocket client and the encoding of messages are
transformations without shared state. Writes of UDP children go to the socket
unchanged. The simple servers only assemble a pipeline. The values of a
session are a plain map whose concurrent use ends the program whatever the
order, so that there is no protocol to check.

## 8. Plan

Modelled: `WritePath` with its contract, `ChannelLifecycle`, `ServerAccept`,
`Pipeline` with `HandlerList`, `ReconnectClient`, `SimpleCodec`,
`HttpDispatch`, `Routes`, `Sessions`, `HttpConnections`, `UdpServer`.

Proved: the safety properties of all of these, except `LookupAgrees` and
`IdFoundByName` of `Routes`; that `WritePath` implements `WriteContract` and
`Pipeline` implements `HandlerList`.

To prove: `LookupAgrees`.

To model: the WebSocket client, and a store of sessions other than memory.
