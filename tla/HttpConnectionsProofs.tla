------------------------ MODULE HttpConnectionsProofs ------------------------
(***************************************************************************)
(* Proofs about HttpConnections, for every set of connections.  The        *)
(* argument, about each connection:                                        *)
(*   - Queued: only the connection in ConnContext may be in the queue, and *)
(*     nothing of its activation has begun;                                *)
(*   - Accepted: what the accept future says of the activation, which      *)
(*     makes the channel active at most once;                              *)
(*   - Watched: while net/http serves a connection its channel is in the   *)
(*     map, or over; afterwards it is over, or somebody will see to it; a  *)
(*     WebSocket's reader ends when its channel is over;                   *)
(*   - Paired: what the task of a WebSocket was told, unless the accept    *)
(*     had timed out.                                                      *)
(***************************************************************************)
EXTENDS HttpConnections, FiniteSetTheorems, SequenceTheorems, TLAPS

Events == {"connected", "disconnected", "message", "control"}

TypeOK ==
  /\ listen \in {"starting", "open", "closed"}
  /\ active \in BOOLEAN
  /\ close \in {"idle", "wait", "shutdown", "drain", "done"}
  /\ hook \in [on : BOOLEAN, must : SUBSET Conns]
  /\ wait \subseteq Conns
  /\ queue \in Seq(Conns)
  /\ inContext \in [at : {"accept", "store", "await"}, conns : SUBSET Conns]
  /\ loop \in {"loop", "accept", "off"}
  /\ chMap \subseteq Conns /\ childMap \subseteq Conns
  /\ alive \in [Conns -> {"nil", "live", "failed", "done"}]
  /\ link \in [Conns -> {"none", "open", "left", "closed"}]
  /\ starter \in [Conns -> {"off", "activate", "fireActive", "read", "succeed", "done"}]
  /\ timer \in [Conns -> {"off", "wait", "inactive", "done"}]
  /\ acc \in [Conns -> {"none", "pending", "success", "timeout"}]
  /\ teardown \in [Conns -> {"none", "inactive", "closed", "done"}]
  /\ asked \subseteq Conns /\ closing \subseteq Conns
  /\ serve \in [Conns -> {"off", "idle", "request", "upgrade", "closed", "hijacked", "set",
                          "add", "connected", "done"}]
  /\ isWs \in [Conns -> BOOLEAN]
  /\ invoker \in [Conns -> BOOLEAN]
  /\ reader \in [Conns -> {"off", "stuck", "loop", "reading", "fire", "done"}]
  /\ told \in [Conns -> Seq(Events)]
  /\ overtaken \subseteq Conns /\ panicked \subseteq Conns /\ missed \subseteq Conns

\* The connection in the queue.
Queued ==
  \/ queue = <<>>
  \/ \E c \in Conns :
       /\ queue = <<c>> /\ inContext.at # "accept" /\ inContext.conns = {c}
       /\ acc[c] = "pending" /\ starter[c] = "off" /\ timer[c] = "off"

\* A connection that was not accepted yet.
Fresh(c) ==
  /\ alive[c] = "nil" /\ starter[c] = "off" /\ timer[c] = "off" /\ teardown[c] = "none"
  /\ serve[c] = "off" /\ c \notin asked

Accepted(c) ==
  /\ acc[c] = "none" => Fresh(c)
  /\ acc[c] = "success" => starter[c] = "done"
  /\ starter[c] \in {"off", "activate"} => alive[c] \in {"nil", "failed"}
  /\ starter[c] \in {"fireActive", "read", "succeed", "done"} => alive[c] \in {"live", "done"}
  /\ teardown[c] # "none" => alive[c] = "done"
  /\ serve[c] # "off" => acc[c] \in {"success", "timeout"}

\* Nothing will make the channel active again, or it is excused.
Over(c) == alive[c] = "done" \/ acc[c] = "timeout" \/ c \in missed

\* net/http waits for the connection's acceptance, or serves it.
InContext(c) == inContext.at # "accept" /\ c \in inContext.conns
Awaiting(c) == inContext.at = "await" /\ c \in inContext.conns
Serving(c) == serve[c] \in {"idle", "request", "upgrade", "closed"}

Running == {"loop", "reading", "fire"}

Watched(c) ==
  /\ InContext(c) => acc[c] # "none" /\ serve[c] = "off"
  /\ Awaiting(c) \/ Serving(c) => c \in chMap \/ Over(c)
  /\ serve[c] = "done" /\ reader[c] \notin Running =>
       Over(c) \/ c \in asked \/ c \in panicked
  /\ reader[c] \in Running => alive[c] \in {"live", "done"}
  /\ reader[c] \in {"stuck", "done"} => Over(c)

\* How far the upgrade is.
Upgrade(c) ==
  /\ isWs[c] => serve[c] \in {"add", "connected", "done"}
  /\ invoker[c] => isWs[c] /\ serve[c] \in {"connected", "done"}
  /\ serve[c] \in {"add", "connected"} => isWs[c]
  /\ serve[c] = "connected" \/ (serve[c] = "done" /\ isWs[c]) => invoker[c]
  /\ c \in overtaken \/ Told(c, "disconnected") # {} => teardown[c] \in {"closed", "done"}
  /\ c \notin overtaken /\ ~(serve[c] = "done" /\ isWs[c]) =>
       teardown[c] \in {"none", "inactive"}
  /\ reader[c] # "off" => serve[c] = "done" /\ isWs[c]

\* The connection and its end.
Ends(c) ==
  c \notin overtaken =>
    IF serve[c] = "done" /\ isWs[c]
    THEN \E i \in Told(c, "connected") :
           /\ Told(c, "connected") = {i}
           /\ IF teardown[c] \in {"closed", "done"}
              THEN \E j \in Told(c, "disconnected") : j > i /\ Told(c, "disconnected") = {j}
              ELSE Told(c, "disconnected") = {}
    ELSE told[c] = <<>>

\* The messages, and those that came after the end.
Late(c) == {m \in Told(c, "message") : \E j \in Told(c, "disconnected") : j < m}

Messages(c) ==
  /\ reader[c] # "off" => Told(c, "connected") # {}
  /\ \A m \in Told(c, "message") \cup Told(c, "control") :
       \E i \in Told(c, "connected") : i < m
  /\ Late(c) = {} \/ (reader[c] \in {"loop", "done"} /\ \E m \in Late(c) : Late(c) = {m})

Paired(c) == acc[c] # "timeout" => Upgrade(c) /\ Ends(c) /\ Messages(c)

IInv ==
  /\ TypeOK /\ Queued
  /\ \A c \in Conns : Accepted(c) /\ Watched(c) /\ Paired(c)

USE DEF serverVars, acceptVars, downVars, childVars, wsVars

----------------------------------------------------------------------------
(* Types.                                                                  *)

\* The server starts in a well-typed state.
LEMMA TypeInit == Init => TypeOK
BY DEF Init, TypeOK, Nobody, NoRange, Events

\* What completing alive futures does to one of them.
LEMMA CompleteAt ==
  ASSUME TypeOK, NEW S, Complete(S), NEW c \in Conns
  PROVE  \/ UNCHANGED <<alive[c], teardown[c]>> /\ (c \in S => alive[c] \in {"failed", "done"})
         \/ c \in S /\ alive[c] = "nil" /\ alive'[c] = "failed" /\ UNCHANGED teardown[c]
         \/ c \in S /\ alive[c] = "live" /\ alive'[c] = "done" /\ teardown'[c] = "inactive"
BY DEF Complete, TypeOK

\* Completing alive futures keeps the types of what it changes.
LEMMA CompleteTyped ==
  ASSUME TypeOK, NEW S, Complete(S) \/ UNCHANGED <<alive, teardown>>
  PROVE  /\ alive' \in [Conns -> {"nil", "live", "failed", "done"}]
         /\ teardown' \in [Conns -> {"none", "inactive", "closed", "done"}]
<1>1. CASE Complete(S)
  <2>1. \A c \in Conns : /\ alive'[c] \in {"nil", "live", "failed", "done"}
                         /\ teardown'[c] \in {"none", "inactive", "closed", "done"}
    BY <1>1, CompleteAt DEF TypeOK
  <2> QED
    BY <1>1, <2>1 DEF Complete
<1> QED
  BY <1>1 DEF TypeOK

\* inactiveChannel keeps the types of what it changes.
LEMMA InactiveTyped ==
  ASSUME TypeOK, NEW S \in SUBSET Conns,
         Inactive(S) \/ UNCHANGED <<alive, teardown, closing>>
  PROVE  /\ alive' \in [Conns -> {"nil", "live", "failed", "done"}]
         /\ teardown' \in [Conns -> {"none", "inactive", "closed", "done"}]
         /\ closing' \subseteq Conns
<1>1. Complete(S) \/ UNCHANGED <<alive, teardown>>
  BY DEF Inactive
<1>2. closing' \subseteq Conns
  BY DEF Inactive, TypeOK
<1> QED
  BY <1>1, <1>2, CompleteTyped

\* The task is told of one more thing, or not.
LEMMA TellTyped ==
  ASSUME TypeOK, NEW c \in Conns, NEW e \in Events,
         told' = [told EXCEPT ![c] = Append(@, e)] \/ told' = told \/ Tell(c, e)
  PROVE  told' \in [Conns -> Seq(Events)]
<1>1. Append(told[c], e) \in Seq(Events)
  <2>1. told[c] \in Seq(Events)
    BY DEF TypeOK
  <2> QED
    BY <2>1
<1>2. told \in [Conns -> Seq(Events)]
  BY DEF TypeOK
<1>3. CASE told' = [told EXCEPT ![c] = Append(@, e)]
  <2> DEFINE s == Append(told[c], e)
  <2>1. told' = [told EXCEPT ![c] = s]
    BY <1>3
  <2>2. s \in Seq(Events)
    BY <1>1
  <2> HIDE DEF s
  <2> QED
    BY <1>2, <2>1, <2>2
<1>4. CASE told' = told
  BY <1>2, <1>4
<1> QED
  BY <1>3, <1>4 DEF Tell

\* The reader of a WebSocket starts, is stuck, or is left alone.
LEMMA StartTyped ==
  ASSUME TypeOK, NEW c \in Conns, StartReader(c) \/ UNCHANGED reader
  PROVE  reader' \in [Conns -> {"off", "stuck", "loop", "reading", "fire", "done"}]
<1>1. \/ reader' = [reader EXCEPT ![c] = "loop"]
      \/ reader' = [reader EXCEPT ![c] = "stuck"]
      \/ reader' = reader
  BY DEF StartReader
<1> QED
  BY <1>1 DEF TypeOK

\* A step of a connection's activation or teardown keeps the types.
LEMMA TypeChild == ASSUME TypeOK, NEW c \in Conns, ChildStep(c)
                   PROVE  TypeOK'
<1>1. CASE ActiveChild(c)
  BY <1>1 DEF ActiveChild, TypeOK
<1>2. CASE AcceptSucceeds(c)
  <2>1. acc' \in [Conns -> {"none", "pending", "success", "timeout"}]
    BY <1>2 DEF AcceptSucceeds, TypeOK
  <2> QED
    BY <1>2, <2>1 DEF AcceptSucceeds, TypeOK
<1>3. CASE AcceptTimeout(c)
  BY <1>3 DEF AcceptTimeout, TypeOK
<1>4. CASE TimeoutChild(c)
  BY <1>4, InactiveTyped DEF TimeoutChild, TypeOK
<1>6. CASE FireActive(c)
  <2>1. told' \in [Conns -> Seq(Events)]
    BY <1>6, TellTyped DEF FireActive, Events
  <2> QED
    BY <1>6, <2>1 DEF FireActive, TypeOK
<1>7. CASE ActiveRead(c)
  <2>1. reader' \in [Conns -> {"off", "stuck", "loop", "reading", "fire", "done"}]
    BY <1>7, StartTyped DEF ActiveRead
  <2> QED
    BY <1>7, <2>1 DEF ActiveRead, TypeOK
<1>8. CASE CloseLink(c)
  BY <1>8 DEF CloseLink, TypeOK
<1>9. CASE RunDisconnect(c)
  <2>1. Complete({c})
    BY <1>9 DEF RunDisconnect
  <2> QED
    BY <1>9, <2>1, CompleteTyped DEF RunDisconnect, TypeOK
<1>5. CASE Teardown(c)
  <2>1. told' = told \/ Tell(c, "disconnected")
    BY <1>5 DEF Teardown
  <2>2. told' \in [Conns -> Seq(Events)]
    BY <2>1, TellTyped DEF Events
  <2>3. \/ teardown' = [teardown EXCEPT ![c] = "closed"]
        \/ teardown' = [teardown EXCEPT ![c] = "done"]
    BY <1>5 DEF Teardown
  <2>4. overtaken' \subseteq Conns /\ childMap' \subseteq Conns
    BY <1>5 DEF Teardown, TypeOK
  <2>5. UNCHANGED <<serverVars, acceptVars, chMap, alive, link, starter, timer, acc, asked,
                    closing, serve, isWs, invoker, reader, panicked, missed>>
    BY <1>5 DEF Teardown
  <2> QED
    BY <2>2, <2>3, <2>4, <2>5, ZenonT(60) DEF TypeOK
<1> QED
  BY <1>1, <1>2, <1>3, <1>4, <1>5, <1>6, <1>7, <1>8, <1>9 DEF ChildStep

\* A step of the goroutine that serves a connection keeps the types.
LEMMA TypeServe == ASSUME TypeOK, NEW c \in Conns, ServeStep(c) \/ PeerLeaves(c)
                   PROVE  TypeOK'
<1>1. CASE ServeHTTP(c)
  <2>1. \/ serve' = [serve EXCEPT ![c] = "upgrade"]
        \/ serve' = [serve EXCEPT ![c] = "request"]
    BY <1>1, Zenon DEF ServeHTTP
  <2> QED
    BY <1>1, <2>1 DEF ServeHTTP, TypeOK
<1>2. CASE RequestEnds(c)
  <2>1. asked' \subseteq Conns
    BY <1>2 DEF RequestEnds, Disconnect, TypeOK
  <2> QED
    BY <1>2, <2>1 DEF RequestEnds, TypeOK
<1>3. CASE CloseConn(c)
  BY <1>3 DEF CloseConn, TypeOK
<1>4. CASE StateClosed(c)
  <2>1. Inactive({c}) \/ UNCHANGED <<alive, teardown, closing>>
    BY <1>4 DEF StateClosed
  <2> QED
    BY <1>4, <2>1, InactiveTyped DEF StateClosed, TypeOK
<1>5. CASE UpgradeRefused(c)
  BY <1>5 DEF UpgradeRefused, TypeOK
<1>6. CASE Hijack(c)
  BY <1>6 DEF Hijack, TypeOK
<1>7. CASE UpgradeFails(c)
  <2>1. serve' = [serve EXCEPT ![c] = "idle"] \/ serve' = [serve EXCEPT ![c] = "done"]
    BY <1>7 DEF UpgradeFails
  <2>2. asked' \subseteq Conns
    BY <1>7 DEF UpgradeFails, Disconnect, TypeOK
  <2> QED
    BY <1>7, <2>1, <2>2 DEF UpgradeFails, TypeOK
<1>8. CASE Upgraded(c)
  BY <1>8 DEF Upgraded, TypeOK
<1>9. CASE SetChannel(c)
  BY <1>9 DEF SetChannel, TypeOK
<1>10. CASE AddInvoker(c)
  BY <1>10 DEF AddInvoker, TypeOK
<1>11. CASE WSConnected(c)
  <2>1. told' \in [Conns -> Seq(Events)]
    BY <1>11, TellTyped, Zenon DEF WSConnected, Events
  <2>2. reader' \in [Conns -> {"off", "stuck", "loop", "reading", "fire", "done"}]
    BY <1>11, StartTyped DEF WSConnected
  <2>3. /\ serve' = [serve EXCEPT ![c] = "done"]
        /\ UNCHANGED <<serverVars, acceptVars, chMap, childMap, childVars, isWs, invoker,
                       overtaken, missed>>
    BY <1>11 DEF WSConnected
  <2>4. panicked' \subseteq Conns
    BY <1>11 DEF WSConnected, TypeOK
  <2>5. serve' \in [Conns -> {"off", "idle", "request", "upgrade", "closed", "hijacked",
                              "set", "add", "connected", "done"}]
    BY <2>3 DEF TypeOK
  <2> QED
    BY <2>1, <2>2, <2>3, <2>4, <2>5 DEF TypeOK
<1>12. CASE PeerLeaves(c)
  BY <1>12 DEF PeerLeaves, TypeOK
<1> QED
  BY <1>1, <1>2, <1>3, <1>4, <1>5, <1>6, <1>7, <1>8, <1>9, <1>10, <1>11, <1>12
     DEF ServeStep

\* A step of a WebSocket's reader keeps the types.
LEMMA TypeReader == ASSUME TypeOK, NEW c \in Conns, ReaderStep(c)
                    PROVE  TypeOK'
<1>1. CASE ReaderLoop(c)
  <2>1. reader' = [reader EXCEPT ![c] = "reading"] \/ reader' = [reader EXCEPT ![c] = "done"]
    BY <1>1, Zenon DEF ReaderLoop
  <2> QED
    BY <1>1, <2>1 DEF ReaderLoop, TypeOK
<1>2. CASE UnsafeRead(c)
  BY <1>2 DEF UnsafeRead, TypeOK
<1>3. ASSUME NEW kind \in Events, Call(c, kind)
      PROVE  told' \in [Conns -> Seq(Events)]
  BY <1>3, TellTyped DEF Call
<1>4. ASSUME NEW kind \in Events, Call(c, kind)
      PROVE  asked' \subseteq Conns
  BY <1>4 DEF Call, Disconnect, TypeOK
<1>5. CASE FireRead(c)
  <2>1. Call(c, "message") /\ "message" \in Events
    BY <1>5 DEF FireRead, Events
  <2> QED
    BY <1>3, <1>4, <1>5, <2>1 DEF FireRead, TypeOK
<1>6. CASE FireControl(c)
  <2>1. Call(c, "control") /\ "control" \in Events
    BY <1>6 DEF FireControl, Events
  <2> QED
    BY <1>3, <1>4, <1>6, <2>1 DEF FireControl, TypeOK
<1>7. CASE ReaderEnds(c)
  BY <1>7, InactiveTyped DEF ReaderEnds, TypeOK
<1> QED
  BY <1>1, <1>2, <1>5, <1>6, <1>7 DEF ReaderStep

\* A step of Close keeps the types.
LEMMA TypeClose == ASSUME TypeOK, CloseStep
                   PROVE  TypeOK'
<1>1. CASE Close
  BY <1>1 DEF Close, TypeOK
<1>2. CASE HookEnd
  BY <1>2 DEF HookEnd, NoRange, TypeOK
<1>3. CASE WaitEnd
  BY <1>3 DEF WaitEnd, TypeOK
<1>4. CASE Shutdown
  BY <1>4 DEF Shutdown, TypeOK
<1>5. CASE ShutdownDone
  BY <1>5, Zenon DEF ShutdownDone, TypeOK
<1>6. CASE ShutdownTimeout
  <2> DEFINE S == {c \in chMap : alive[c] = "live"}
  <2>1. Inactive(S) /\ missed' \subseteq Conns
    BY <1>6 DEF ShutdownTimeout, TypeOK
  <2>2. S \subseteq Conns
    BY DEF TypeOK
  <2> HIDE DEF S
  <2>3. /\ alive' \in [Conns -> {"nil", "live", "failed", "done"}]
        /\ teardown' \in [Conns -> {"none", "inactive", "closed", "done"}]
        /\ closing' \subseteq Conns
    BY <2>1, <2>2, InactiveTyped
  <2> QED
    BY <1>6, <2>1, <2>3 DEF ShutdownTimeout, TypeOK
<1>7. ASSUME NEW c \in Conns, HookVisit(c)
      PROVE  TypeOK'
  <2>1. /\ alive' \in [Conns -> {"nil", "live", "failed", "done"}]
        /\ teardown' \in [Conns -> {"none", "inactive", "closed", "done"}]
        /\ closing' \subseteq Conns
    BY <1>7, InactiveTyped DEF HookVisit
  <2>2. hook' \in [on : BOOLEAN, must : SUBSET Conns]
    BY <1>7 DEF HookVisit, TypeOK
  <2> QED
    BY <1>7, <2>1, <2>2 DEF HookVisit, TypeOK
<1> QED
  BY <1>1, <1>2, <1>3, <1>4, <1>5, <1>6, <1>7 DEF CloseStep

\* Every step keeps the types.
LEMMA TypeStep == ASSUME TypeOK, [Next]_vars
                  PROVE  TypeOK'
<1>1. CASE Listen
  BY <1>1 DEF Listen, TypeOK
<1>2. CASE StoreConn
  BY <1>2 DEF StoreConn, TypeOK
<1>3. CASE AcceptLoop
  <2>1. loop' = "accept" \/ loop' = "off"
    BY <1>3 DEF AcceptLoop
  <2> QED
    BY <1>3, <2>1 DEF AcceptLoop, TypeOK
<1>4. CASE ServeConn
  <2>1. serve' \in [Conns -> {"off", "idle", "request", "upgrade", "closed", "hijacked",
                              "set", "add", "connected", "done"}]
    BY <1>4 DEF ServeConn, TypeOK
  <2> QED
    BY <1>4, <2>1 DEF ServeConn, Nobody, TypeOK
<1>5. CASE UnsafeAccept
  <2>1. queue' \in Seq(Conns)
    BY <1>5 DEF UnsafeAccept, TypeOK
  <2> DEFINE h == Head(queue)
  <2>2. /\ starter' = [starter EXCEPT ![h] = "activate"]
        /\ timer' = [timer EXCEPT ![h] = "wait"]
    BY <1>5 DEF UnsafeAccept
  <2> HIDE DEF h
  <2> QED
    BY <1>5, <2>1, <2>2 DEF UnsafeAccept, TypeOK
<1>6. ASSUME NEW c \in Conns, ConnContext(c)
      PROVE  TypeOK'
  <2>1. queue' \in Seq(Conns)
    BY <1>6 DEF ConnContext, TypeOK
  <2> QED
    BY <1>6, <2>1 DEF ConnContext, TypeOK
<1>7. CASE UNCHANGED vars
  BY <1>7 DEF vars, TypeOK
<1> QED
  BY <1>1, <1>2, <1>3, <1>4, <1>5, <1>6, <1>7, TypeChild, TypeServe, TypeReader, TypeClose
     DEF Next

----------------------------------------------------------------------------
(* What a step leaves alone.                                               *)

Good(c) == Accepted(c) /\ Watched(c) /\ Paired(c)

\* Nothing about a connection changes that the invariant speaks of.
Same(c) ==
  /\ UNCHANGED <<alive[c], starter[c], timer[c], acc[c], teardown[c], serve[c], isWs[c],
                 invoker[c], reader[c], told[c]>>
  /\ c \in chMap => c \in chMap'
  /\ c \in missed => c \in missed'
  /\ c \in overtaken' <=> c \in overtaken
  /\ c \in asked' <=> c \in asked
  /\ c \in panicked => c \in panicked'
  /\ InContext(c)' => InContext(c)
  /\ Awaiting(c)' => Awaiting(c)

\* What the task was told, when it is told of nothing.
LEMMA ToldSame ==
  ASSUME NEW c \in Conns, UNCHANGED told[c]
  PROVE  /\ \A what : Told(c, what)' = Told(c, what)
         /\ Late(c)' = Late(c)
BY DEF Told, Late

\* What it was told, when it is told of one more thing.
LEMMA ToldMore ==
  ASSUME TypeOK, NEW c \in Conns, NEW e \in Events,
         told' = [told EXCEPT ![c] = Append(@, e)],
         NEW n, n = Len(told[c]) + 1
  PROVE  /\ n \in Nat
         /\ \A what : \A i \in Told(c, what) : i \in Nat /\ i < n
         /\ Told(c, e)' = Told(c, e) \cup {n}
         /\ \A what : what # e => Told(c, what)' = Told(c, what)
         /\ told'[c] # <<>>
<1>1. told[c] \in Seq(Events) /\ told'[c] = Append(told[c], e)
  BY DEF TypeOK
<1> DEFINE s == told[c]
           t == told'[c]
<1>2. s \in Seq(Events) /\ t = Append(s, e)
  BY <1>1
<1>3. \A what : /\ Told(c, what) = {i \in 1..Len(s) : s[i] = what}
                /\ Told(c, what)' = {i \in 1..Len(t) : t[i] = what}
  BY DEF Told
<1>4. Len(t) = n /\ t[n] = e /\ \A i \in 1..Len(s) : t[i] = s[i]
  BY <1>2
<1>5. Len(s) \in Nat /\ n = Len(s) + 1
  BY <1>2
<1>6. t # <<>>
  BY <1>4, <1>5
<1> HIDE DEF s, t
<1>7. \A what : \A i \in Told(c, what) : i \in Nat /\ i < n
  BY <1>3, <1>5
<1>8. Told(c, e)' = Told(c, e) \cup {n}
  BY <1>3, <1>4, <1>5
<1>9. ASSUME NEW what, what # e
      PROVE  Told(c, what)' = Told(c, what)
  <2>1. \A i \in 1..Len(t) : t[i] = what <=> i \in 1..Len(s) /\ s[i] = what
    BY <1>4, <1>5, <1>9
  <2>2. 1..Len(s) \subseteq 1..Len(t)
    BY <1>4, <1>5
  <2>3. /\ Told(c, what) = {i \in 1..Len(s) : s[i] = what}
        /\ Told(c, what)' = {i \in 1..Len(t) : t[i] = what}
    BY <1>3
  <2> QED
    BY <2>1, <2>2, <2>3
<1> QED
  BY <1>5, <1>6, <1>7, <1>8, <1>9 DEF t

\* A step that tells the task nothing.
LEMMA Quiet ==
  ASSUME NEW c \in Conns, Ends(c), Messages(c), UNCHANGED told[c],
         c \in overtaken => c \in overtaken',
         (serve'[c] = "done" /\ isWs'[c]) <=> (serve[c] = "done" /\ isWs[c]),
         serve[c] = "done" /\ isWs[c] =>
           (teardown'[c] \in {"closed", "done"} <=> teardown[c] \in {"closed", "done"}),
         reader'[c] # "off" => reader[c] # "off",
         Late(c) = {} \/ (reader[c] \in {"loop", "done"} => reader'[c] \in {"loop", "done"})
  PROVE  Ends(c)' /\ Messages(c)'
<1>1. (\A what : Told(c, what)' = Told(c, what)) /\ Late(c)' = Late(c)
  BY ToldSame
<1>2. Ends(c)'
  BY <1>1 DEF Ends
<1>3. Messages(c)'
  BY <1>1 DEF Messages
<1> QED
  BY <1>2, <1>3

\* What is the same of a connection says the same about it.
LEMMA Kept ==
  ASSUME NEW c \in Conns, Good(c), Same(c)
  PROVE  Good(c)'
<1>1. Accepted(c)'
  BY DEF Good, Same, Accepted, Fresh
<1>2. Watched(c)'
  BY DEF Good, Same, Watched, Over, Running, Serving
<1>3. acc'[c] # "timeout" => Ends(c)' /\ Messages(c)'
  BY Quiet DEF Good, Paired, Same
<1>4. acc'[c] # "timeout" => Upgrade(c)'
  BY ToldSame DEF Good, Paired, Same, Upgrade
<1> QED
  BY <1>1, <1>2, <1>3, <1>4 DEF Good, Paired

\* A step about one connection leaves the others alone.
LEMMA InactiveElsewhere ==
  ASSUME TypeOK, NEW c \in Conns, NEW d \in Conns, c # d,
         Complete({c}) \/ Inactive({c}) \/ UNCHANGED <<alive, teardown, closing>>
  PROVE  UNCHANGED <<alive[d], teardown[d]>>
BY DEF Complete, Inactive

\* A step of one connection's activation leaves the others alone.
LEMMA ChildElsewhere ==
  ASSUME TypeOK, NEW c \in Conns, NEW d \in Conns, c # d,
         ChildStep(c)
  PROVE  Same(d)
<1> USE DEF Same, InContext, Awaiting
<1>1. CASE ActiveChild(c)
  BY <1>1 DEF ActiveChild, TypeOK
<1>2. CASE AcceptSucceeds(c)
  BY <1>2 DEF AcceptSucceeds, TypeOK
<1>3. CASE AcceptTimeout(c)
  BY <1>3 DEF AcceptTimeout, TypeOK
<1>4. CASE TimeoutChild(c)
  <2>1. UNCHANGED <<alive[d], teardown[d]>>
    BY <1>4, InactiveElsewhere DEF TimeoutChild
  <2> QED
    BY <1>4, <2>1 DEF TimeoutChild, TypeOK
<1>5. CASE Teardown(c)
  BY <1>5 DEF Teardown, Tell, TypeOK
<1>6. CASE FireActive(c)
  BY <1>6 DEF FireActive, Tell, TypeOK
<1>7. CASE ActiveRead(c)
  BY <1>7 DEF ActiveRead, StartReader, TypeOK
<1>8. CASE CloseLink(c)
  BY <1>8 DEF CloseLink
<1>9. CASE RunDisconnect(c)
  <2>1. UNCHANGED <<alive[d], teardown[d]>>
    BY <1>9, InactiveElsewhere DEF RunDisconnect
  <2> QED
    BY <1>9, <2>1 DEF RunDisconnect, TypeOK
<1> QED
  BY <1>1, <1>2, <1>3, <1>4, <1>5, <1>6, <1>7, <1>8, <1>9 DEF ChildStep

\* A step of the goroutine that serves a connection leaves the others alone.
LEMMA ServeElsewhere ==
  ASSUME TypeOK, NEW c \in Conns, NEW d \in Conns, c # d,
         ServeStep(c)
  PROVE  Same(d)
<1> USE DEF Same, InContext, Awaiting, Disconnect
<1>1. CASE ServeHTTP(c)
  BY <1>1 DEF ServeHTTP, TypeOK
<1>2. CASE RequestEnds(c)
  BY <1>2 DEF RequestEnds, TypeOK
<1>3. CASE CloseConn(c)
  BY <1>3 DEF CloseConn, TypeOK
<1>4. CASE StateClosed(c)
  <2>1. UNCHANGED <<alive[d], teardown[d]>>
    BY <1>4, InactiveElsewhere DEF StateClosed
  <2> QED
    BY <1>4, <2>1 DEF StateClosed, TypeOK
<1>5. CASE UpgradeRefused(c)
  BY <1>5 DEF UpgradeRefused, TypeOK
<1>6. CASE Hijack(c)
  BY <1>6 DEF Hijack, TypeOK
<1>7. CASE UpgradeFails(c)
  BY <1>7 DEF UpgradeFails, TypeOK
<1>8. CASE Upgraded(c)
  BY <1>8 DEF Upgraded, TypeOK
<1>9. CASE SetChannel(c)
  BY <1>9 DEF SetChannel, TypeOK
<1>10. CASE AddInvoker(c)
  BY <1>10 DEF AddInvoker, TypeOK
<1>11. CASE WSConnected(c)
  BY <1>11 DEF WSConnected, StartReader, TypeOK
<1> QED
  BY <1>1, <1>2, <1>3, <1>4, <1>5, <1>6, <1>7, <1>8, <1>9, <1>10, <1>11 DEF ServeStep

\* A step of one reader, peer or hook visit leaves the other connections alone.
LEMMA ReaderElsewhere ==
  ASSUME TypeOK, NEW c \in Conns, NEW d \in Conns, c # d,
         ReaderStep(c) \/ PeerLeaves(c) \/ HookVisit(c)
  PROVE  Same(d)
<1> USE DEF Same, InContext, Awaiting
<1>1. CASE ReaderLoop(c)
  BY <1>1 DEF ReaderLoop, TypeOK
<1>2. CASE UnsafeRead(c)
  BY <1>2 DEF UnsafeRead, TypeOK
<1>3. CASE FireRead(c)
  BY <1>3 DEF FireRead, Call, Tell, Disconnect, TypeOK
<1>4. CASE FireControl(c)
  BY <1>4 DEF FireControl, Call, Tell, Disconnect, TypeOK
<1>5. CASE ReaderEnds(c)
  <2>1. UNCHANGED <<alive[d], teardown[d]>>
    BY <1>5, InactiveElsewhere DEF ReaderEnds
  <2> QED
    BY <1>5, <2>1 DEF ReaderEnds, TypeOK
<1>6. CASE PeerLeaves(c)
  BY <1>6 DEF PeerLeaves
<1>7. CASE HookVisit(c)
  <2>1. UNCHANGED <<alive[d], teardown[d]>>
    BY <1>7, InactiveElsewhere DEF HookVisit
  <2> QED
    BY <1>7, <2>1 DEF HookVisit, TypeOK
<1> QED
  BY <1>1, <1>2, <1>3, <1>4, <1>5, <1>6, <1>7 DEF ReaderStep

----------------------------------------------------------------------------
(* What a step does to the connection it is about.                         *)

\* The channel of a connection stays as it is, or is taken down.
Stays(c) == UNCHANGED <<alive[c], teardown[c]>>

TakenDown(c) ==
  \/ Stays(c) /\ alive[c] \in {"failed", "done"}
  \/ alive[c] = "nil" /\ alive'[c] = "failed" /\ UNCHANGED teardown[c]
  \/ alive[c] = "live" /\ alive'[c] = "done" /\ teardown'[c] = "inactive"

\* What inactiveChannel does to one connection.
LEMMA TakeDown ==
  ASSUME TypeOK, NEW c \in Conns, Complete({c}) \/ Inactive({c})
  PROVE  TakenDown(c)
<1>1. Complete({c})
  BY DEF Inactive
<1> QED
  BY <1>1, CompleteAt DEF TakenDown, Stays

\* Activation starts on a channel that never was active.
LEMMA ActiveChildGood ==
  ASSUME TypeOK, NEW c \in Conns, Good(c), ActiveChild(c)
  PROVE  Good(c)'
<1> USE DEF ActiveChild, TypeOK
<1>1. Accepted(c)' /\ Watched(c)' /\ (acc'[c] # "timeout" => Upgrade(c)')
  BY ToldSame DEF Good, Accepted, Fresh, Watched, Paired, Upgrade, Over, Running, Serving,
                      InContext, Awaiting
<1>2. acc'[c] # "timeout" => Ends(c)' /\ Messages(c)'
  BY Quiet DEF Good, Paired, Accepted, Upgrade
<1> QED
  BY <1>1, <1>2 DEF Good, Paired

\* The task is told by fireActive only if the accept timed out: otherwise net/http
\* does not serve the connection yet.
LEMMA FireActiveGood ==
  ASSUME TypeOK, NEW c \in Conns, Good(c), FireActive(c)
  PROVE  Good(c)'
<1> USE DEF FireActive, Tell, TypeOK
<1>1. Accepted(c)' /\ Watched(c)' /\ (acc'[c] # "timeout" => Upgrade(c)')
  BY ToldSame DEF Good, Accepted, Fresh, Watched, Paired, Upgrade, Over, Running, Serving,
                      InContext, Awaiting
<1>2. acc'[c] # "timeout" => Ends(c)' /\ Messages(c)'
  BY Quiet DEF Good, Paired, Accepted, Upgrade
<1> QED
  BY <1>1, <1>2 DEF Good, Paired

\* The same of the reader that Read starts.
LEMMA ActiveReadGood ==
  ASSUME TypeOK, NEW c \in Conns, Good(c), ActiveRead(c)
  PROVE  Good(c)'
<1> USE DEF ActiveRead, StartReader, TypeOK
<1>1. Accepted(c)' /\ Watched(c)' /\ (acc'[c] # "timeout" => Upgrade(c)')
  BY ToldSame DEF Good, Accepted, Fresh, Watched, Paired, Upgrade, Over, Running, Serving,
                      InContext, Awaiting
<1>2. acc'[c] # "timeout" => Ends(c)' /\ Messages(c)'
  BY Quiet DEF Good, Paired, Accepted, Upgrade
<1> QED
  BY <1>1, <1>2 DEF Good, Paired

\* Closing the connection of a channel that went down changes nothing else.
LEMMA CloseLinkGood ==
  ASSUME TypeOK, NEW c \in Conns, Good(c), CloseLink(c)
  PROVE  Good(c)'
<1> USE DEF CloseLink, TypeOK
<1>1. Accepted(c)' /\ Watched(c)' /\ (acc'[c] # "timeout" => Upgrade(c)')
  BY ToldSame DEF Good, Accepted, Fresh, Watched, Paired, Upgrade, Over, Running, Serving,
                      InContext, Awaiting
<1>2. acc'[c] # "timeout" => Ends(c)' /\ Messages(c)'
  BY Quiet DEF Good, Paired, Accepted, Upgrade
<1> QED
  BY <1>1, <1>2 DEF Good, Paired

\* The goroutine of Disconnect takes down a channel that was active.
LEMMA RunDisconnectGood ==
  ASSUME TypeOK, NEW c \in Conns, Good(c), RunDisconnect(c)
  PROVE  Good(c)'
<1> USE DEF RunDisconnect, TypeOK
<1>0. TakenDown(c)
  BY TakeDown DEF Stays
<1> USE DEF TakenDown, Stays
<1>1. Accepted(c)' /\ Watched(c)' /\ (acc'[c] # "timeout" => Upgrade(c)')
  BY <1>0, ToldSame DEF Good, Accepted, Fresh, Watched, Paired, Upgrade, Over, Running, Serving,
                      InContext, Awaiting
<1>2. acc'[c] # "timeout" => Ends(c)' /\ Messages(c)'
  BY <1>0, Quiet DEF Good, Paired, Accepted, Upgrade
<1> QED
  BY <1>1, <1>2 DEF Good, Paired

\* The accept future succeeds only after the activation, unless it timed out.
LEMMA AcceptSucceedsGood ==
  ASSUME TypeOK, NEW c \in Conns, Good(c), AcceptSucceeds(c)
  PROVE  Good(c)'
<1> USE DEF AcceptSucceeds, TypeOK
<1>1. Accepted(c)' /\ Watched(c)' /\ (acc'[c] # "timeout" => Upgrade(c)')
  BY ToldSame DEF Good, Accepted, Fresh, Watched, Paired, Upgrade, Over, Running, Serving,
                      InContext, Awaiting
<1>2. acc'[c] # "timeout" => Ends(c)' /\ Messages(c)'
  BY Quiet DEF Good, Paired, Accepted, Upgrade
<1> QED
  BY <1>1, <1>2 DEF Good, Paired

\* The timeout excuses the connection: its activation may come later.
LEMMA AcceptTimeoutGood ==
  ASSUME TypeOK, NEW c \in Conns, Good(c), AcceptTimeout(c)
  PROVE  Good(c)'
<1> USE DEF AcceptTimeout, TypeOK
<1>1. Accepted(c)' /\ Watched(c)' /\ (acc'[c] # "timeout" => Upgrade(c)')
  BY ToldSame DEF Good, Accepted, Fresh, Watched, Paired, Upgrade, Over, Running, Serving,
                      InContext, Awaiting
<1>2. acc'[c] # "timeout" => Ends(c)' /\ Messages(c)'
  BY Quiet DEF Good, Paired, Accepted, Upgrade
<1> QED
  BY <1>1, <1>2 DEF Good, Paired

\* The teardown by the timeout.
LEMMA TimeoutChildGood ==
  ASSUME TypeOK, NEW c \in Conns, Good(c), TimeoutChild(c)
  PROVE  Good(c)'
<1> USE DEF TimeoutChild, TypeOK
<1>0. TakenDown(c)
  BY TakeDown DEF Stays
<1> USE DEF TakenDown, Stays
<1>1. Accepted(c)' /\ Watched(c)' /\ (acc'[c] # "timeout" => Upgrade(c)')
  BY <1>0, ToldSame DEF Good, Accepted, Fresh, Watched, Paired, Upgrade, Over, Running, Serving,
                      InContext, Awaiting
<1>2. acc'[c] # "timeout" => Ends(c)' /\ Messages(c)'
  BY <1>0, Quiet, Zenon DEF Good, Paired, Accepted, Upgrade
<1> QED
  BY <1>1, <1>2 DEF Good, Paired

\* A request begins on a connection that is served already.
LEMMA ServeHTTPGood ==
  ASSUME TypeOK, NEW c \in Conns, Good(c), ServeHTTP(c)
  PROVE  Good(c)'
<1> USE DEF ServeHTTP, TypeOK
<1>1. Accepted(c)' /\ Watched(c)' /\ (acc'[c] # "timeout" => Upgrade(c)')
  BY ToldSame DEF Good, Accepted, Fresh, Watched, Paired, Upgrade, Over, Running, Serving,
                      InContext, Awaiting
<1>2. acc'[c] # "timeout" => Ends(c)' /\ Messages(c)'
  BY Quiet DEF Good, Paired, Accepted, Upgrade
<1> QED
  BY <1>1, <1>2 DEF Good, Paired

\* After a request the connection stays served, Disconnect asked for or not.
LEMMA RequestEndsGood ==
  ASSUME TypeOK, NEW c \in Conns, Good(c), RequestEnds(c)
  PROVE  Good(c)'
<1> USE DEF RequestEnds, Disconnect, TypeOK
<1>1. Accepted(c)' /\ Watched(c)' /\ (acc'[c] # "timeout" => Upgrade(c)')
  BY ToldSame DEF Good, Accepted, Fresh, Watched, Paired, Upgrade, Over, Running, Serving,
                      InContext, Awaiting
<1>2. acc'[c] # "timeout" => Ends(c)' /\ Messages(c)'
  BY Quiet DEF Good, Paired, Accepted, Upgrade
<1> QED
  BY <1>1, <1>2 DEF Good, Paired

\* A connection that net/http closed counts as served until StateClosed.
LEMMA CloseConnGood ==
  ASSUME TypeOK, NEW c \in Conns, Good(c), CloseConn(c)
  PROVE  Good(c)'
<1> USE DEF CloseConn, TypeOK
<1>1. Accepted(c)' /\ Watched(c)' /\ (acc'[c] # "timeout" => Upgrade(c)')
  BY ToldSame DEF Good, Accepted, Fresh, Watched, Paired, Upgrade, Over, Running, Serving,
                      InContext, Awaiting
<1>2. acc'[c] # "timeout" => Ends(c)' /\ Messages(c)'
  BY Quiet DEF Good, Paired, Accepted, Upgrade
<1> QED
  BY <1>1, <1>2 DEF Good, Paired

\* StateClosed takes a channel down that is in the map and live.
LEMMA StateClosedGood ==
  ASSUME TypeOK, NEW c \in Conns, Good(c), StateClosed(c)
  PROVE  Good(c)'
<1> USE DEF StateClosed, TypeOK
<1>0. (c \in chMap /\ TakenDown(c)) \/ (Stays(c) /\ ~(c \in chMap /\ alive[c] = "live"))
  BY TakeDown DEF Stays
<1> USE DEF TakenDown, Stays
<1>1. Accepted(c)' /\ Watched(c)' /\ (acc'[c] # "timeout" => Upgrade(c)')
  BY <1>0, ToldSame DEF Good, Accepted, Fresh, Watched, Paired, Upgrade, Over, Running, Serving,
                      InContext, Awaiting
<1>2. acc'[c] # "timeout" => Ends(c)' /\ Messages(c)'
  BY <1>0, Quiet DEF Good, Paired, Accepted, Upgrade
<1> QED
  BY <1>1, <1>2 DEF Good, Paired

\* A refused upgrade ends the request as any other.
LEMMA UpgradeRefusedGood ==
  ASSUME TypeOK, NEW c \in Conns, Good(c), UpgradeRefused(c)
  PROVE  Good(c)'
<1> USE DEF UpgradeRefused, TypeOK
<1>1. Accepted(c)' /\ Watched(c)' /\ (acc'[c] # "timeout" => Upgrade(c)')
  BY ToldSame DEF Good, Accepted, Fresh, Watched, Paired, Upgrade, Over, Running, Serving,
                      InContext, Awaiting
<1>2. acc'[c] # "timeout" => Ends(c)' /\ Messages(c)'
  BY Quiet DEF Good, Paired, Accepted, Upgrade
<1> QED
  BY <1>1, <1>2 DEF Good, Paired

\* Hijacking ends net/http's part; the channel is told of nothing yet.
LEMMA HijackGood ==
  ASSUME TypeOK, NEW c \in Conns, Good(c), Hijack(c)
  PROVE  Good(c)'
<1> USE DEF Hijack, TypeOK
<1>1. Accepted(c)' /\ Watched(c)' /\ (acc'[c] # "timeout" => Upgrade(c)')
  BY ToldSame DEF Good, Accepted, Fresh, Watched, Paired, Upgrade, Over, Running, Serving,
                      InContext, Awaiting
<1>2. acc'[c] # "timeout" => Ends(c)' /\ Messages(c)'
  BY Quiet DEF Good, Paired, Accepted, Upgrade
<1> QED
  BY <1>1, <1>2 DEF Good, Paired

\* An upgrade that failed, before or after the hijack, has the channel taken down.
LEMMA UpgradeFailsGood ==
  ASSUME TypeOK, NEW c \in Conns, Good(c), UpgradeFails(c)
  PROVE  Good(c)'
<1> USE DEF UpgradeFails, Disconnect, TypeOK
<1>1. Accepted(c)' /\ Watched(c)' /\ (acc'[c] # "timeout" => Upgrade(c)')
  BY ToldSame DEF Good, Accepted, Fresh, Watched, Paired, Upgrade, Over, Running, Serving,
                      InContext, Awaiting
<1>2. acc'[c] # "timeout" => Ends(c)' /\ Messages(c)'
  BY Quiet DEF Good, Paired, Accepted, Upgrade
<1> QED
  BY <1>1, <1>2 DEF Good, Paired

\* The upgrade succeeded, and the task is told of nothing yet.
LEMMA UpgradedGood ==
  ASSUME TypeOK, NEW c \in Conns, Good(c), Upgraded(c)
  PROVE  Good(c)'
<1> USE DEF Upgraded, TypeOK
<1>1. Accepted(c)' /\ Watched(c)' /\ (acc'[c] # "timeout" => Upgrade(c)')
  BY ToldSame DEF Good, Accepted, Fresh, Watched, Paired, Upgrade, Over, Running, Serving,
                      InContext, Awaiting
<1>2. acc'[c] # "timeout" => Ends(c)' /\ Messages(c)'
  BY Quiet DEF Good, Paired, Accepted, Upgrade
<1> QED
  BY <1>1, <1>2 DEF Good, Paired

\* From here on the channel is a WebSocket's, without its handler.
LEMMA SetChannelGood ==
  ASSUME TypeOK, NEW c \in Conns, Good(c), SetChannel(c)
  PROVE  Good(c)'
<1> USE DEF SetChannel, TypeOK
<1>1. Accepted(c)' /\ Watched(c)' /\ (acc'[c] # "timeout" => Upgrade(c)')
  BY ToldSame DEF Good, Accepted, Fresh, Watched, Paired, Upgrade, Over, Running, Serving,
                      InContext, Awaiting
<1>2. acc'[c] # "timeout" => Ends(c)' /\ Messages(c)'
  BY Quiet DEF Good, Paired, Accepted, Upgrade
<1> QED
  BY <1>1, <1>2 DEF Good, Paired

\* The handler is added before the task is told of the connection.
LEMMA AddInvokerGood ==
  ASSUME TypeOK, NEW c \in Conns, Good(c), AddInvoker(c)
  PROVE  Good(c)'
<1> USE DEF AddInvoker, TypeOK
<1>1. Accepted(c)' /\ Watched(c)' /\ (acc'[c] # "timeout" => Upgrade(c)')
  BY ToldSame DEF Good, Accepted, Fresh, Watched, Paired, Upgrade, Over, Running, Serving,
                      InContext, Awaiting
<1>2. acc'[c] # "timeout" => Ends(c)' /\ Messages(c)'
  BY Quiet DEF Good, Paired, Accepted, Upgrade
<1> QED
  BY <1>1, <1>2 DEF Good, Paired

\* The reader ends only when it sees its channel over.
LEMMA ReaderLoopGood ==
  ASSUME TypeOK, NEW c \in Conns, Good(c), ReaderLoop(c)
  PROVE  Good(c)'
<1> USE DEF ReaderLoop, TypeOK
<1>0. acc[c] # "timeout" /\ alive[c] = "live" => Late(c) = {}
  BY DEF Good, Paired, Accepted, Upgrade, Late
<1>1. Accepted(c)' /\ Watched(c)' /\ (acc'[c] # "timeout" => Upgrade(c)')
  BY ToldSame DEF Good, Accepted, Fresh, Watched, Paired, Upgrade, Over, Running, Serving,
                      InContext, Awaiting
<1>2. acc'[c] # "timeout" => Ends(c)' /\ Messages(c)'
  BY <1>0, Quiet DEF Good, Paired, Accepted, Upgrade
<1> QED
  BY <1>1, <1>2 DEF Good, Paired

\* A message came and is in the reader's hand.
LEMMA UnsafeReadGood ==
  ASSUME TypeOK, NEW c \in Conns, Good(c), UnsafeRead(c)
  PROVE  Good(c)'
<1> USE DEF UnsafeRead, TypeOK
<1>1. Accepted(c)' /\ Watched(c)' /\ (acc'[c] # "timeout" => Upgrade(c)')
  BY ToldSame DEF Good, Accepted, Fresh, Watched, Paired, Upgrade, Over, Running, Serving,
                      InContext, Awaiting
<1>2. acc'[c] # "timeout" => Ends(c)' /\ Messages(c)'
  BY Quiet, Zenon DEF Good, Paired, Accepted, Upgrade
<1> QED
  BY <1>1, <1>2 DEF Good, Paired

\* A reader whose read failed takes the channel down and ends.
LEMMA ReaderEndsGood ==
  ASSUME TypeOK, NEW c \in Conns, Good(c), ReaderEnds(c)
  PROVE  Good(c)'
<1> USE DEF ReaderEnds, TypeOK
<1>0. TakenDown(c)
  BY TakeDown DEF Stays
<1> USE DEF TakenDown, Stays
<1>1. Accepted(c)' /\ Watched(c)' /\ (acc'[c] # "timeout" => Upgrade(c)')
  BY <1>0, ToldSame DEF Good, Accepted, Fresh, Watched, Paired, Upgrade, Over, Running, Serving,
                      InContext, Awaiting
<1>2. acc'[c] # "timeout" => Ends(c)' /\ Messages(c)'
  BY <1>0, Quiet, Zenon DEF Good, Paired, Accepted, Upgrade
<1> QED
  BY <1>1, <1>2 DEF Good, Paired

\* A peer that leaves changes nothing the server knows.
LEMMA PeerLeavesGood ==
  ASSUME TypeOK, NEW c \in Conns, Good(c), PeerLeaves(c)
  PROVE  Good(c)'
<1> USE DEF PeerLeaves, TypeOK
<1>1. Accepted(c)' /\ Watched(c)' /\ (acc'[c] # "timeout" => Upgrade(c)')
  BY ToldSame DEF Good, Accepted, Fresh, Watched, Paired, Upgrade, Over, Running, Serving,
                      InContext, Awaiting
<1>2. acc'[c] # "timeout" => Ends(c)' /\ Messages(c)'
  BY Quiet DEF Good, Paired, Accepted, Upgrade
<1> QED
  BY <1>1, <1>2 DEF Good, Paired

\* The server's hook takes a child down like any other.
LEMMA HookVisitGood ==
  ASSUME TypeOK, NEW c \in Conns, Good(c), HookVisit(c)
  PROVE  Good(c)'
<1> USE DEF HookVisit, TypeOK
<1>0. (alive[c] = "live" /\ TakenDown(c)) \/ Stays(c)
  BY TakeDown DEF Stays
<1> USE DEF TakenDown, Stays
<1>1. Accepted(c)' /\ Watched(c)' /\ (acc'[c] # "timeout" => Upgrade(c)')
  BY <1>0, ToldSame DEF Good, Accepted, Fresh, Watched, Paired, Upgrade, Over, Running, Serving,
                      InContext, Awaiting
<1>2. acc'[c] # "timeout" => Ends(c)' /\ Messages(c)'
  BY <1>0, Quiet DEF Good, Paired, Accepted, Upgrade
<1> QED
  BY <1>1, <1>2 DEF Good, Paired

\* The task, told of the end, was told of the connection, or is overtaken.
LEMMA TeardownGood ==
  ASSUME TypeOK, NEW c \in Conns, Good(c), Teardown(c)
  PROVE  Good(c)'
<1>1. Accepted(c)' /\ Watched(c)'
  BY DEF Good, Teardown, TypeOK, Accepted, Fresh, Watched, Over, Running, Serving, InContext,
         Awaiting
<1>2. SUFFICES ASSUME acc[c] # "timeout"
               PROVE  Paired(c)'
  BY <1>1 DEF Good, Teardown, Paired
<1>3. Upgrade(c) /\ Ends(c) /\ Messages(c)
  BY <1>2 DEF Good, Paired
<1>4. CASE teardown[c] = "closed"
  <2>1. /\ teardown'[c] = "done"
        /\ UNCHANGED <<serve, wsVars>>
    BY <1>4 DEF Teardown, TypeOK
  <2>2. Upgrade(c)'
    BY <1>3, <1>4, <2>1, ToldSame DEF Upgrade
  <2>3. Ends(c)' /\ Messages(c)'
    BY <1>3, <1>4, <2>1, Quiet
  <2> QED
    BY <2>2, <2>3 DEF Paired
<1>5. CASE teardown[c] = "inactive"
  <2>1. /\ Tell(c, "disconnected")
        /\ c \in overtaken' <=> c \in overtaken \/ Told(c, "connected") = {}
        /\ teardown'[c] = "closed"
        /\ UNCHANGED <<serve, isWs, invoker, reader>>
    BY <1>5 DEF Teardown, TypeOK
  <2>2. Told(c, "disconnected") = {} /\ c \notin overtaken /\ Late(c) = {}
    BY <1>3, <1>5 DEF Upgrade, Late
  <2>3. ~(serve[c] = "done" /\ isWs[c]) => c \in overtaken'
    <3>1. told[c] = <<>> => Told(c, "connected") = {}
      BY DEF Told
    <3> QED
      BY <1>3, <2>1, <2>2, <3>1 DEF Ends
  <2>4. Upgrade(c)'
    BY <1>3, <2>1, <2>3 DEF Upgrade
  <2>5. CASE isWs[c] /\ invoker[c]
    <3> DEFINE n == Len(told[c]) + 1
    <3>1. /\ n \in Nat
          /\ \A what : \A i \in Told(c, what) : i \in Nat /\ i < n
          /\ Told(c, "disconnected")' = {n}
          /\ \A what : what # "disconnected" => Told(c, what)' = Told(c, what)
      <4>1. told' = [told EXCEPT ![c] = Append(@, "disconnected")]
        BY <2>1, <2>5 DEF Tell
      <4>2. /\ n \in Nat
            /\ \A what : \A i \in Told(c, what) : i \in Nat /\ i < n
            /\ Told(c, "disconnected")' = Told(c, "disconnected") \cup {n}
            /\ \A what : what # "disconnected" => Told(c, what)' = Told(c, what)
        BY <4>1, ToldMore, Zenon DEF Events
      <4> QED
        BY <2>2, <4>2
    <3> HIDE DEF n
    <3>2. Ends(c)'
      BY <1>3, <2>1, <2>2, <2>3, <2>5, <3>1 DEF Ends
    <3>3. Late(c)' = {}
      BY <3>1 DEF Late
    <3>4. Messages(c)'
      BY <1>3, <2>1, <3>1, <3>3 DEF Messages
    <3> QED
      BY <2>4, <3>2, <3>4 DEF Paired
  <2>6. CASE ~(isWs[c] /\ invoker[c])
    <3>1. /\ UNCHANGED told[c] /\ \A what : Told(c, what)' = Told(c, what)
          /\ Late(c)' = Late(c)
      BY <2>1, <2>6, ToldSame DEF Tell
    <3>2. Ends(c)'
      BY <1>3, <2>1, <2>2, <2>3, <2>6, <3>1 DEF Ends, Upgrade
    <3>3. Messages(c)'
      BY <1>3, <2>1, <3>1 DEF Messages
    <3> QED
      BY <2>4, <3>2, <3>3 DEF Paired
  <2> QED
    BY <2>5, <2>6
<1> QED
  BY <1>4, <1>5 DEF Teardown

\* The task is told of the connection first, and the reader starts afterwards, unless
\* the task panicked or the channel is down.
LEMMA WSConnectedGood ==
  ASSUME TypeOK, NEW c \in Conns, Good(c), WSConnected(c)
  PROVE  Good(c)'
<1>1. /\ serve[c] = "connected" /\ serve'[c] = "done"
      /\ told' = [told EXCEPT ![c] = Append(@, "connected")]
      /\ \/ reader'[c] = reader[c] /\ (reader[c] = "off" => c \in panicked')
         \/ reader[c] = "off" /\ reader'[c] = "loop" /\ alive[c] = "live"
         \/ reader[c] = "off" /\ reader'[c] = "stuck" /\ alive[c] # "live"
      /\ c \in panicked => c \in panicked'
      /\ UNCHANGED <<serverVars, acceptVars, chMap, childMap, childVars, isWs, invoker,
                     overtaken, missed>>
  BY DEF WSConnected, StartReader, TypeOK
<1>2. Accepted(c)' /\ Watched(c)'
  BY <1>1 DEF TypeOK, Good, Accepted, Fresh, Watched, Over, Running, Serving, InContext, Awaiting
<1>3. SUFFICES ASSUME acc[c] # "timeout"
               PROVE  Paired(c)'
  BY <1>1, <1>2 DEF Good, Paired
<1>4. Upgrade(c) /\ Ends(c) /\ Messages(c)
  BY <1>3 DEF Good, Paired
<1>5. isWs[c] /\ invoker[c] /\ reader[c] = "off"
  BY <1>1, <1>4 DEF Upgrade
<1> DEFINE n == Len(told[c]) + 1
<1>6. /\ n \in Nat
      /\ \A what : \A i \in Told(c, what) : i \in Nat /\ i < n
      /\ Told(c, "connected")' = Told(c, "connected") \cup {n}
      /\ \A what : what # "connected" => Told(c, what)' = Told(c, what)
  BY <1>1, ToldMore, Zenon DEF Events
<1> HIDE DEF n
<1>7. Upgrade(c)'
  BY <1>1, <1>4, <1>5, <1>6 DEF Upgrade
<1>8. Ends(c)'
  <2>1. c \notin overtaken => told[c] = <<>> /\ teardown[c] \in {"none", "inactive"}
    BY <1>1, <1>4 DEF Ends, Upgrade
  <2>2. told[c] = <<>> => \A what : Told(c, what) = {}
    BY DEF Told
  <2> QED
    BY <1>1, <1>5, <1>6, <2>1, <2>2, Zenon DEF Ends
<1>9. Messages(c)'
  <2>1. Late(c)' = Late(c) /\ Late(c) = {}
    BY <1>4, <1>5, <1>6 DEF Late, Messages
  <2> QED
    BY <1>4, <1>6, <2>1 DEF Messages
<1> QED
  BY <1>7, <1>8, <1>9 DEF Paired

\* The task is told of a message while the reader has it in hand.
LEMMA CallGood ==
  ASSUME TypeOK, NEW c \in Conns, Good(c), NEW kind \in {"message", "control"},
         Call(c, kind),
         kind = "message" => reader[c] = "fire" /\ reader'[c] = "loop",
         kind = "control" => reader[c] = "reading" /\ reader'[c] = "reading",
         UNCHANGED <<serverVars, acceptVars, chMap, childMap, alive, link, starter, timer, acc,
                     teardown, closing, serve, isWs, invoker, overtaken, panicked, missed>>
  PROVE  Good(c)'
<1>1. c \in asked => c \in asked'
  BY DEF Call, Disconnect
<1>2. Accepted(c)' /\ Watched(c)'
  BY <1>1 DEF TypeOK, Good, Call, Disconnect, Accepted, Fresh, Watched, Over, Running, Serving,
              InContext, Awaiting
<1>3. SUFFICES ASSUME acc[c] # "timeout"
               PROVE  Paired(c)'
  BY <1>2 DEF Good, Paired
<1>4. Upgrade(c) /\ Ends(c) /\ Messages(c)
  BY <1>3 DEF Good, Paired
<1>5. serve[c] = "done" /\ isWs[c] /\ invoker[c] /\ reader[c] # "off" /\ Late(c) = {}
  BY <1>4 DEF Upgrade, Messages
<1>6. told' = [told EXCEPT ![c] = Append(@, kind)]
  BY <1>5 DEF Call, Tell
<1> DEFINE n == Len(told[c]) + 1
<1>7. /\ n \in Nat
      /\ \A what : \A i \in Told(c, what) : i \in Nat /\ i < n
      /\ Told(c, kind)' = Told(c, kind) \cup {n}
      /\ \A what : what # kind => Told(c, what)' = Told(c, what)
  BY <1>6, ToldMore, ZenonT(60) DEF Events
<1> HIDE DEF n
<1>8. /\ Told(c, "connected")' = Told(c, "connected")
      /\ Told(c, "disconnected")' = Told(c, "disconnected")
      /\ Told(c, "message")' \subseteq Told(c, "message") \cup {n}
      /\ Told(c, "control")' \subseteq Told(c, "control") \cup {n}
  BY <1>7
<1>9. Upgrade(c)'
  BY <1>4, <1>5, <1>8 DEF Upgrade
<1>10. Ends(c)'
  BY <1>4, <1>5, <1>8 DEF Ends
<1>11. Late(c)' \subseteq {n} /\ (kind = "control" => Late(c)' = {})
  <2>1. \A m \in Late(c)' : m \in Told(c, "message")' /\ (m \in Told(c, "message") => FALSE)
    BY <1>5, <1>8 DEF Late
  <2> QED
    BY <1>7, <1>8, <2>1
<1>12. Messages(c)'
  <2>1. \E i \in Told(c, "connected") : i < n
    BY <1>4, <1>5, <1>7 DEF Messages
  <2>2. \A m \in Told(c, "message")' \cup Told(c, "control")' :
          \E i \in Told(c, "connected")' : i < m
    BY <1>4, <1>8, <2>1 DEF Messages
  <2>3. Late(c)' = {} \/ (reader'[c] \in {"loop", "done"} /\ \E m \in Late(c)' : Late(c)' = {m})
    BY <1>11
  <2>4. reader'[c] # "off" => Told(c, "connected")' # {}
    BY <1>4, <1>5, <1>8 DEF Messages
  <2> QED
    BY <2>2, <2>3, <2>4 DEF Messages
<1> QED
  BY <1>9, <1>10, <1>12 DEF Paired

\* A message after the end is the last thing a reader delivers.
LEMMA FireReadGood ==
  ASSUME TypeOK, NEW c \in Conns, Good(c), FireRead(c)
  PROVE  Good(c)'
<1>1. /\ Call(c, "message") /\ reader[c] = "fire" /\ reader'[c] = "loop"
      /\ UNCHANGED <<serverVars, acceptVars, chMap, childMap, alive, link, starter, timer, acc,
                     teardown, closing, serve, isWs, invoker, overtaken, panicked, missed>>
  BY DEF FireRead, TypeOK
<1> QED
  BY <1>1, CallGood

\* A control frame is told after the connection, like a message.
LEMMA FireControlGood ==
  ASSUME TypeOK, NEW c \in Conns, Good(c), FireControl(c)
  PROVE  Good(c)'
<1>1. /\ Call(c, "control") /\ reader[c] = "reading" /\ UNCHANGED reader
      /\ UNCHANGED <<serverVars, acceptVars, chMap, childMap, alive, link, starter, timer, acc,
                     teardown, closing, serve, isWs, invoker, overtaken, panicked, missed>>
  BY DEF FireControl
<1> QED
  BY <1>1, CallGood

----------------------------------------------------------------------------
(* The steps that are about no connection, or about several.               *)

\* The steps of the accept loop and of Close that touch no connection.
LEMMA StillGood ==
  ASSUME TypeOK, NEW c \in Conns, Good(c),
         Listen \/ AcceptLoop \/ Close \/ HookEnd \/ WaitEnd \/ Shutdown \/ ShutdownDone
           \/ UNCHANGED vars
  PROVE  Good(c)'
<1>1. Same(c)
  BY DEF Listen, AcceptLoop, Close, HookEnd, WaitEnd, Shutdown, ShutdownDone, vars, Same,
         InContext, Awaiting
<1> QED
  BY <1>1, Kept

\* ConnContext stores the connection in the map before it waits.
LEMMA StoreConnGood ==
  ASSUME TypeOK, NEW c \in Conns, Good(c), StoreConn
  PROVE  Good(c)'
<1> USE DEF StoreConn, TypeOK
<1>1. Accepted(c)' /\ Watched(c)' /\ (acc'[c] # "timeout" => Upgrade(c)')
  BY ToldSame DEF Good, Accepted, Fresh, Watched, Paired, Upgrade, Over, Running, Serving,
                  InContext, Awaiting
<1>2. acc'[c] # "timeout" => Ends(c)' /\ Messages(c)'
  BY Quiet DEF Good, Paired
<1> QED
  BY <1>1, <1>2 DEF Good, Paired

\* net/http serves the connection once its accept future is decided.
LEMMA ServeConnGood ==
  ASSUME TypeOK, NEW c \in Conns, Good(c), ServeConn
  PROVE  Good(c)'
<1>1. /\ inContext.at = "await" /\ (c \in inContext.conns => acc[c] # "pending")
      /\ serve'[c] = IF c \in inContext.conns THEN "idle" ELSE serve[c]
      /\ inContext'.at = "accept"
      /\ UNCHANGED <<serverVars, queue, loop, chMap, childMap, childVars, wsVars, missed>>
  BY DEF ServeConn, Awaited, Nobody, TypeOK
<1>2. Accepted(c)' /\ Watched(c)' /\ (acc'[c] # "timeout" => Upgrade(c)')
  BY <1>1, ToldSame DEF TypeOK, Good, Accepted, Fresh, Watched, Paired, Upgrade,
                        Over, Running, Serving, InContext, Awaiting
<1>3. acc'[c] # "timeout" => Ends(c)' /\ Messages(c)'
  BY <1>1, Quiet DEF Good, Paired, Watched, InContext
<1> QED
  BY <1>2, <1>3 DEF Good, Paired

\* The accept loop activates the queued connection, which never was active.
LEMMA UnsafeAcceptGood ==
  ASSUME TypeOK, Queued, NEW c \in Conns, Good(c), UnsafeAccept
  PROVE  Good(c)'
<1>1. PICK h \in Conns : queue = <<h>> /\ acc[h] = "pending" /\ starter[h] = "off"
  BY DEF Queued, UnsafeAccept
<1>2. /\ starter' = [starter EXCEPT ![h] = "activate"]
      /\ timer' = [timer EXCEPT ![h] = "wait"]
      /\ UNCHANGED <<serverVars, inContext, chMap, childMap, link, acc, downVars, serve,
                     wsVars, missed>>
  BY <1>1 DEF UnsafeAccept
<1>3. Accepted(c)' /\ Watched(c)' /\ (acc'[c] # "timeout" => Upgrade(c)')
  BY <1>1, <1>2, ToldSame DEF TypeOK, Good, Accepted, Fresh, Watched, Paired, Upgrade,
                              Over, Running, Serving, InContext, Awaiting
<1>4. acc'[c] # "timeout" => Ends(c)' /\ Messages(c)'
  BY <1>2, Quiet DEF Good, Paired
<1> QED
  BY <1>3, <1>4 DEF Good, Paired

\* A new connection enters ConnContext; the others are as they were.
LEMMA ConnContextGood ==
  ASSUME TypeOK, NEW c \in Conns, Good(c), NEW d \in Conns, ConnContext(d)
  PROVE  Good(c)'
<1> USE DEF ConnContext, TypeOK
<1>1. Accepted(c)' /\ Watched(c)' /\ (acc'[c] # "timeout" => Upgrade(c)')
  BY ToldSame DEF Good, Accepted, Fresh, Watched, Paired, Upgrade, Over, Running, Serving,
                  InContext, Awaiting, Nobody
<1>2. acc'[c] # "timeout" => Ends(c)' /\ Messages(c)'
  BY Quiet DEF Good, Paired
<1> QED
  BY <1>1, <1>2 DEF Good, Paired

\* The channels of the map are taken down if active; the others were missed.
LEMMA ShutdownTimeoutGood ==
  ASSUME TypeOK, NEW c \in Conns, Good(c), ShutdownTimeout
  PROVE  Good(c)'
<1>0. Complete({d \in chMap : alive[d] = "live"})
  BY DEF ShutdownTimeout, Inactive
<1>1. (TakenDown(c) /\ alive[c] = "live") \/ Stays(c)
  BY <1>0, CompleteAt DEF TakenDown, Stays
<1>2. c \in chMap => (TakenDown(c) /\ alive[c] = "live") \/ c \in missed'
  <2>1. CASE c \in chMap /\ alive[c] = "live"
    BY <1>0, <2>1, CompleteAt DEF TakenDown, Stays
  <2> QED
    BY <2>1 DEF ShutdownTimeout
<1>3. /\ c \in missed => c \in missed'
      /\ UNCHANGED <<inContext, starter, timer, acc, asked, serve, wsVars>>
  BY DEF ShutdownTimeout
<1>4. Accepted(c)'
  BY <1>1, <1>3 DEF TypeOK, Good, Accepted, Fresh, TakenDown, Stays
<1>5. Watched(c)'
  BY <1>1, <1>2, <1>3 DEF TypeOK, Good, Accepted, Watched, Over, Running, Serving, InContext,
                          Awaiting, TakenDown, Stays
<1>6. acc'[c] # "timeout" => Upgrade(c)'
  BY <1>1, <1>3, ToldSame DEF Good, Accepted, Paired, Upgrade, TakenDown, Stays
<1>7. acc'[c] # "timeout" => Ends(c)' /\ Messages(c)'
  BY <1>1, <1>3, Quiet DEF Good, Paired, Accepted, TakenDown, Stays
<1> QED
  BY <1>4, <1>5, <1>6, <1>7 DEF Good, Paired

----------------------------------------------------------------------------
(* The queue.                                                              *)

\* A connection whose activation has not begun.
Waiting(c) == acc[c] = "pending" /\ starter[c] = "off" /\ timer[c] = "off"

\* Most steps leave the queue, and the connections that wait, alone.
LEMMA QueueAlone ==
  ASSUME TypeOK, [Next]_vars, ~UnsafeAccept, ~ServeConn, \A c \in Conns : ~ConnContext(c)
  PROVE  /\ UNCHANGED queue
         /\ inContext.at # "accept" => inContext'.at # "accept"
         /\ inContext'.conns = inContext.conns
         /\ \A c \in Conns : Waiting(c) => Waiting(c)'
<1> USE DEF Waiting
<1>1. CASE Listen \/ StoreConn \/ AcceptLoop \/ UNCHANGED vars
  BY <1>1 DEF Listen, StoreConn, AcceptLoop, vars, TypeOK
<1>2. CASE CloseStep
  BY <1>2, Zenon DEF CloseStep, Close, HookEnd, WaitEnd, Shutdown, ShutdownDone, ShutdownTimeout,
              HookVisit
<1>3. ASSUME NEW c \in Conns, ChildStep(c)
      PROVE  /\ UNCHANGED <<queue, inContext>>
             /\ \A d \in Conns : Waiting(d) => Waiting(d)'
  BY <1>3 DEF ChildStep, ActiveChild, AcceptSucceeds, AcceptTimeout, TimeoutChild, Teardown,
              FireActive, ActiveRead, CloseLink, RunDisconnect, TypeOK
<1>4. ASSUME NEW c \in Conns, ServeStep(c)
      PROVE  UNCHANGED <<queue, inContext, acc, starter, timer>>
  BY <1>4 DEF ServeStep, ServeHTTP, RequestEnds, CloseConn, StateClosed, UpgradeRefused,
              Hijack, UpgradeFails, Upgraded, SetChannel, AddInvoker, WSConnected
<1>5. ASSUME NEW c \in Conns, ReaderStep(c) \/ PeerLeaves(c)
      PROVE  UNCHANGED <<queue, inContext, acc, starter, timer>>
  BY <1>5 DEF ReaderStep, ReaderLoop, UnsafeRead, FireRead, FireControl, ReaderEnds, PeerLeaves
<1> QED
  BY <1>1, <1>2, <1>3, <1>4, <1>5 DEF Next

\* ConnContext queues one connection and waits until it has been accepted, so
\* that the queue never holds two.
LEMMA QueuedStep ==
  ASSUME TypeOK, Queued, \A c \in Conns : Good(c), [Next]_vars
  PROVE  Queued'
<1>1. ASSUME NEW c \in Conns, ConnContext(c)
      PROVE  Queued'
  <2>1. queue = <<>>
    BY <1>1 DEF ConnContext, Nobody, Queued
  <2>2. queue' = <<c>>
    BY <1>1, <2>1 DEF ConnContext
  <2>3. /\ inContext'.at = "store" /\ inContext'.conns = {c} /\ acc'[c] = "pending"
        /\ starter'[c] = "off" /\ timer'[c] = "off"
    BY <1>1 DEF ConnContext, TypeOK, Good, Accepted, Fresh
  <2> QED
    BY <2>2, <2>3 DEF Queued
<1>2. CASE ServeConn
  BY <1>2 DEF ServeConn, Awaited, Queued
<1>3. CASE UnsafeAccept
  <2>1. PICK h \in Conns : queue = <<h>>
    BY <1>3 DEF UnsafeAccept, Queued
  <2>2. queue' = <<>>
    BY <1>3, <2>1 DEF UnsafeAccept
  <2> QED
    BY <2>2 DEF Queued
<1>4. CASE ~UnsafeAccept /\ ~ServeConn /\ \A c \in Conns : ~ConnContext(c)
  <2>1. /\ UNCHANGED queue
        /\ inContext.at # "accept" => inContext'.at # "accept"
        /\ inContext'.conns = inContext.conns
        /\ \A c \in Conns : Waiting(c) => Waiting(c)'
    BY <1>4, QueueAlone
  <2> QED
    BY <2>1 DEF Queued, Waiting
<1> QED
  BY <1>1, <1>2, <1>3, <1>4

----------------------------------------------------------------------------
(* The invariant, and the theorems.                                        *)

\* The invariant holds at the start and every step keeps it.
LEMMA Inductive ==
  /\ Init => IInv
  /\ IInv /\ [Next]_vars => IInv'
<1>1. Init => IInv
  <2> SUFFICES ASSUME Init
               PROVE  IInv
    OBVIOUS
  <2>1. TypeOK /\ Queued
    BY TypeInit DEF Init, Queued
  <2>2. ASSUME NEW c \in Conns
        PROVE  Accepted(c) /\ Watched(c) /\ Paired(c)
    <3>1. \A what : Told(c, what) = {}
      BY DEF Told, Init
    <3>2. Late(c) = {}
      BY <3>1 DEF Late
    <3>3. Ends(c) /\ Messages(c)
      BY <3>1, <3>2 DEF Ends, Messages, Init
    <3>4. Upgrade(c)
      BY <3>1 DEF Upgrade, Init
    <3> QED
      BY <3>3, <3>4 DEF Paired, Init, Nobody, Accepted, Fresh, Watched, InContext, Awaiting,
                           Running, Serving
  <2> QED
    BY <2>1, <2>2 DEF IInv
<1>2. IInv /\ [Next]_vars => IInv'
  <2> SUFFICES ASSUME IInv, [Next]_vars
               PROVE  IInv'
    OBVIOUS
  <2>1. TypeOK /\ Queued /\ \A c \in Conns : Good(c)
    BY DEF IInv, Good
  <2>2. TypeOK' /\ Queued'
    BY <2>1, TypeStep, QueuedStep
  <2>3. ASSUME NEW c \in Conns
        PROVE  Good(c)'
    <3> DEFINE Own(d) == \/ ChildStep(d) \/ ServeStep(d) \/ ReaderStep(d) \/ PeerLeaves(d)
                         \/ HookVisit(d)
    <3>1. Good(c)
      BY <2>1
    <3>2. CASE Own(c)
      BY <2>1, <3>1, <3>2, TeardownGood, WSConnectedGood, ActiveChildGood, AcceptSucceedsGood,
         FireActiveGood, ActiveReadGood, CloseLinkGood, RunDisconnectGood,
         AcceptTimeoutGood, TimeoutChildGood, ServeHTTPGood, RequestEndsGood, CloseConnGood,
         StateClosedGood, UpgradeRefusedGood, HijackGood, UpgradeFailsGood, UpgradedGood,
         SetChannelGood, AddInvokerGood, ReaderLoopGood, UnsafeReadGood, ReaderEndsGood,
         FireReadGood, FireControlGood, PeerLeavesGood, HookVisitGood
         DEF ChildStep, ServeStep, ReaderStep
    <3>3. ASSUME NEW d \in Conns, d # c, Own(d)
          PROVE  Good(c)'
      <4>1. Same(c)
        BY <2>1, <3>3, ChildElsewhere, ServeElsewhere, ReaderElsewhere
      <4> QED
        BY <3>1, <4>1, Kept
    <3>4. CASE \E d \in Conns : ConnContext(d)
      BY <2>1, <3>1, <3>4, ConnContextGood
    <3>5. CASE StoreConn \/ ServeConn \/ UnsafeAccept \/ ShutdownTimeout
      BY <2>1, <3>1, <3>5, StoreConnGood, ServeConnGood, UnsafeAcceptGood, ShutdownTimeoutGood
    <3>6. CASE Listen \/ AcceptLoop \/ Close \/ HookEnd \/ WaitEnd \/ Shutdown \/ ShutdownDone
                 \/ UNCHANGED vars
      BY <2>1, <3>1, <3>6, StillGood
    <3> QED
      BY <3>2, <3>3, <3>4, <3>5, <3>6 DEF Next, CloseStep
  <2> QED
    BY <2>2, <2>3 DEF IInv, Good
<1> QED
  BY <1>1, <1>2

\* Every reachable state of the server satisfies the inductive invariant.
LEMMA Always == Spec => []IInv
BY Inductive, PTL DEF Spec

\* The state of the channel stays within what the code's variables may hold, for any
\* connections, of which any may ask for an upgrade (httpserverchannel.go).
THEOREM ConnectionsTyped == Spec => []TypeOK
BY Always, PTL DEF IInv

\* At most one accepted connection is on its way to the accept loop: ConnContext
\* awaits the accept future of the one before (QueueBounded).
THEOREM AtMostOneQueued == Spec => []QueueBounded
<1>1. Queued => QueueBounded
  <2>1. Len(<<>>) <= 1 /\ \A c \in Conns : Len(<<c>>) <= 1
    OBVIOUS
  <2> QED
    BY <2>1, Zenon DEF Queued, QueueBounded
<1>2. IInv => Queued
  BY DEF IInv
<1> QED
  BY <1>1, <1>2, Always, PTL

\* The task of a WebSocket is told of its connection and of its end in pairs, and
\* of messages between them (WSPaired).
THEOREM TaskToldInPairs == Spec => []WSPaired
<1>1. ASSUME IInv, NEW c \in Conns
      PROVE  acc[c] # "timeout" =>
             /\ told[c] # <<>> /\ c \notin overtaken =>
                  \E i \in Told(c, "connected") :
                    /\ Told(c, "connected") = {i}
                    /\ IF teardown[c] \in {"closed", "done"}
                       THEN \E j \in Told(c, "disconnected") :
                              j > i /\ Told(c, "disconnected") = {j}
                       ELSE Told(c, "disconnected") = {}
             /\ \A m \in Told(c, "message") \cup Told(c, "control") :
                  \E i \in Told(c, "connected") : i < m
             /\ Cardinality(Late(c)) <= 1
  <2> SUFFICES ASSUME acc[c] # "timeout"
               PROVE  /\ told[c] # <<>> /\ c \notin overtaken =>
                           \E i \in Told(c, "connected") :
                             /\ Told(c, "connected") = {i}
                             /\ IF teardown[c] \in {"closed", "done"}
                                THEN \E j \in Told(c, "disconnected") :
                                       j > i /\ Told(c, "disconnected") = {j}
                                ELSE Told(c, "disconnected") = {}
                      /\ \A m \in Told(c, "message") \cup Told(c, "control") :
                           \E i \in Told(c, "connected") : i < m
                      /\ Cardinality(Late(c)) <= 1
    OBVIOUS
  <2>1. Ends(c) /\ Messages(c)
    BY <1>1 DEF IInv, Paired
  <2>2. Cardinality(Late(c)) <= 1
    <3>1. Late(c) = {} \/ \E m \in Late(c) : Late(c) = {m}
      BY <2>1 DEF Messages
    <3>2. CASE Late(c) = {}
      BY <3>2, FS_EmptySet
    <3>3. ASSUME NEW m, Late(c) = {m}
          PROVE  Cardinality(Late(c)) <= 1
      <4>1. Cardinality({m}) = 1
        BY FS_Singleton, Zenon
      <4> QED
        BY <3>3, <4>1
    <3> QED
      BY <3>1, <3>2, <3>3, Zenon
  <2> QED
    BY <2>1, <2>2 DEF Ends, Messages
<1>2. IInv => WSPaired
  BY <1>1 DEF WSPaired, Late
<1> QED
  BY <1>2, Always, PTL

\* No channel outlives the connection net/http closed, nor the reader of a
\* WebSocket that ended (NoneOutlivesConnection).
THEOREM NoChannelOutlives == Spec => []NoneOutlivesConnection
<1>1. IInv => NoneOutlivesConnection
  BY DEF IInv, Watched, Over, Running, NoneOutlivesConnection
<1> QED
  BY <1>1, Always, PTL

============================================================================
