---------------------------- MODULE ServerAccept ----------------------------
(***************************************************************************)
(* A TCP server channel and its children: Bind, the accept loop with its   *)
(* activation and timeout goroutines, and Close (channel/unsafe.go); the   *)
(* child map, the hook that takes the children down with the server and    *)
(* waitChildren (channel/serverchannel.go, channel/channel.go); the        *)
(* listener and the `active` flag that replaces IsActive                   *)
(* (gtcp/tcpserverchannel.go).                                             *)
(*                                                                         *)
(* A child is named by its connection.  What a child does by itself is     *)
(* reduced to what the server can see of it (ChannelLifecycle has the      *)
(* rest): its alive future, its teardown callback and its close future.    *)
(***************************************************************************)
EXTENDS Integers, FiniteSets

CONSTANTS Conns,       \* connections that peers may open
          Closers,     \* calls of Close on the server channel
          Deregisters  \* calls of Deregister on the server channel

VARIABLES
  bind,      \* progress of the one Bind
  sAlive,    \* the server's alive future: "nil", "live", "done", "failed"
  sActive,   \* ServerChannel.active, which IsActive returns
  listening, \* the listener is open
  hooked,    \* activeChannel has registered the hook that closes children
  closeS,    \* the state flag of Close
  sClose,    \* the server's close future is done
  call,      \* call[k]: progress of each Close and Deregister
  accept,    \* the accept loop
  incoming,  \* the connection the accept loop has in hand (at most one)
  childMap,  \* DefaultServerChannel.childMap
  cAlive,    \* cAlive[c]: the child's alive future
  child,     \* child[c]: the goroutine that activates the child
  timer,     \* timer[c]: the goroutine that waits for the accept timeout
  acc,       \* acc[c]: the accept future
  teardown,  \* teardown[c]: the child's Then callback
  cClose,    \* cClose[c]: the child's close future is done
  hook,      \* the hook: "none", "running", "done"
  hookTodo, hookSeen,  \* Range over childMap: keys it must visit, has visited
  waiter,    \* the server's Then callback
  waitTodo, waitSeen,  \* Range over childMap, as above
  waitingOn, \* the child whose close future waitChildren awaits (at most one)
  elders,    \* history: the children stored when the server went down
  liveElders \* history: those of them that were active

serverVars == <<bind, sAlive, sActive, listening, hooked, closeS, sClose, call>>
acceptVars == <<accept, incoming>>
childVars == <<cAlive, child, timer, acc, teardown, cClose>>
hookVars == <<hook, hookTodo, hookSeen>>
waitVars == <<waiter, waitTodo, waitSeen, waitingOn>>
histVars == <<elders, liveElders>>
allVars == <<bind, sAlive, sActive, listening, hooked, closeS, sClose, call, accept,
             incoming, childMap, cAlive, child, timer, acc, teardown, cClose,
             hook, hookTodo, hookSeen, waiter, waitTodo, waitSeen, waitingOn,
             elders, liveElders>>

Calls == Closers \cup Deregisters

ASSUME CallsDisjoint == Closers \cap Deregisters = {}

ServerInit ==
  /\ bind = "idle"
  /\ sAlive = "nil"
  /\ sActive = FALSE
  /\ listening = FALSE
  /\ hooked = FALSE
  /\ closeS = 0
  /\ sClose = FALSE
  /\ call = [k \in Calls |-> "idle"]
  /\ accept = "off"
  /\ incoming = {}
  /\ childMap = {}
  /\ cAlive = [c \in Conns |-> "nil"]
  /\ child = [c \in Conns |-> "off"]
  /\ timer = [c \in Conns |-> "off"]
  /\ acc = [c \in Conns |-> "pending"]
  /\ teardown = [c \in Conns |-> "none"]
  /\ cClose = [c \in Conns |-> FALSE]
  /\ hook = "none" /\ hookTodo = {} /\ hookSeen = {}
  /\ waiter = "none" /\ waitTodo = {} /\ waitSeen = {} /\ waitingOn = {}
  /\ elders = {} /\ liveElders = {}

----------------------------------------------------------------------------
(* inactiveChannel of the server and of a child.                           *)

\* The first to complete the alive future starts the Then callback.
InactiveServer ==
  /\ sAlive' = CASE sAlive = "nil" -> "failed"
                 [] sAlive = "live" -> "done"
                 [] OTHER -> sAlive
  /\ waiter' = IF sAlive = "live" THEN "start" ELSE waiter
  /\ elders' = IF sAlive = "live" THEN childMap ELSE elders
  /\ liveElders' = IF sAlive = "live" THEN {c \in childMap : cAlive[c] = "live"}
                                      ELSE liveElders

InactiveChild(c) ==
  /\ cAlive' = [cAlive EXCEPT ![c] = CASE @ = "nil" -> "failed"
                                       [] @ = "live" -> "done"
                                       [] OTHER -> @]
  /\ teardown' = IF cAlive[c] = "live"
                 THEN [teardown EXCEPT ![c] = "close"] ELSE teardown

----------------------------------------------------------------------------
(* Bind.                                                                   *)

Bind ==
  /\ bind = "idle"
  /\ bind' = IF sClose THEN "ignored" ELSE "bind"
  /\ UNCHANGED <<sAlive, sActive, listening, hooked, closeS, sClose, call, acceptVars,
                 childMap, childVars, hookVars, waitVars, histVars>>

UnsafeBind ==
  /\ bind = "bind"
  /\ sActive' = TRUE
  /\ listening' = TRUE
  /\ bind' = "activate"
  /\ UNCHANGED <<sAlive, hooked, closeS, sClose, call, acceptVars, childMap, childVars,
                 hookVars, waitVars, histVars>>

\* The address is taken: the alive future of the server fails.
BindFails ==
  /\ bind = "bind"
  /\ InactiveServer
  /\ bind' = "failed"
  /\ UNCHANGED <<sActive, listening, hooked, closeS, sClose, call, acceptVars, childMap,
                 childVars, hookVars, waitTodo, waitSeen, waitingOn>>

\* DefaultChannel.activeChannel, then the hook, then the accept loop.
ActiveServer ==
  /\ \/ /\ bind = "activate"
        /\ sAlive' = "live"
        /\ bind' = "hook"
        /\ UNCHANGED <<hooked, accept>>
     \/ /\ bind = "hook"
        /\ hooked' = TRUE
        /\ bind' = "loop"
        /\ UNCHANGED <<sAlive, accept>>
     \/ /\ bind = "loop"
        /\ accept' = "loop"
        /\ bind' = "bound"
        /\ UNCHANGED <<sAlive, hooked>>
  /\ UNCHANGED <<sActive, listening, closeS, sClose, call, incoming, childMap,
                 childVars, hookVars, waitVars, histVars>>

----------------------------------------------------------------------------
(* The accept loop.                                                        *)

AcceptLoop ==
  /\ accept = "loop"
  /\ accept' = IF sActive THEN "accept" ELSE "off"
  /\ UNCHANGED <<serverVars, incoming, childMap, childVars, hookVars,
                 waitVars, histVars>>

\* The listener's Accept: a connection, or an error once it is closed, for
\* which the loop gets a nil child.
Accept ==
  /\ accept = "accept"
  /\ \/ \E c \in Conns :
          /\ listening /\ child[c] = "off"
          /\ incoming' = {c}
          /\ accept' = "derive"
     \/ /\ ~listening
        /\ accept' = "loop"
        /\ UNCHANGED incoming
  /\ UNCHANGED <<serverVars, childMap, childVars, hookVars, waitVars, histVars>>

\* Accept may also fail for a reason of the operating system.
AcceptError ==
  /\ accept = "accept" /\ listening
  /\ accept' = "loop"
  /\ UNCHANGED <<serverVars, incoming, childMap, childVars, hookVars, waitVars,
                 histVars>>

\* DeriveChildChannel stores the child; the loop then starts its goroutines.
Derive ==
  /\ accept = "derive"
  /\ accept' = "loop"
  /\ incoming' = {}
  /\ childMap' = childMap \cup incoming
  /\ child' = [c \in Conns |-> IF c \in incoming THEN "activate" ELSE child[c]]
  /\ timer' = [c \in Conns |-> IF c \in incoming THEN "wait" ELSE timer[c]]
  /\ UNCHANGED <<serverVars, cAlive, acc, teardown, cClose, hookVars, waitVars,
                 histVars>>

----------------------------------------------------------------------------
(* A child.                                                                *)

\* fireRegistered and activeChannel: a new alive future, whatever the old.
ActiveChild(c) ==
  /\ child[c] = "activate"
  /\ cAlive' = [cAlive EXCEPT ![c] = "live"]
  /\ child' = [child EXCEPT ![c] = "succeed"]
  /\ UNCHANGED <<serverVars, acceptVars, childMap, timer, acc, teardown, cClose,
                 hookVars, waitVars, histVars>>

AcceptSucceeds(c) ==
  /\ child[c] = "succeed"
  /\ child' = [child EXCEPT ![c] = "done"]
  /\ acc' = [acc EXCEPT ![c] = IF @ = "pending" THEN "success" ELSE @]
  /\ UNCHANGED <<serverVars, acceptVars, childMap, cAlive, timer, teardown,
                 cClose, hookVars, waitVars, histVars>>

\* After the accept timeout: whoever resolves the accept future first wins.
AcceptTimeout(c) ==
  /\ timer[c] = "wait"
  /\ \/ /\ acc[c] = "pending"
        /\ acc' = [acc EXCEPT ![c] = "timeout"]
        /\ timer' = [timer EXCEPT ![c] = "inactive"]
     \/ /\ acc[c] # "pending"
        /\ timer' = [timer EXCEPT ![c] = "done"]
        /\ UNCHANGED acc
  /\ UNCHANGED <<serverVars, acceptVars, childMap, cAlive, child, teardown,
                 cClose, hookVars, waitVars, histVars>>

TimeoutChild(c) ==
  /\ timer[c] = "inactive"
  /\ InactiveChild(c)
  /\ timer' = [timer EXCEPT ![c] = "done"]
  /\ UNCHANGED <<serverVars, acceptVars, childMap, child, acc, cClose,
                 hookVars, waitVars, histVars>>

\* The child goes down by itself: its peer leaves and the reader or the
\* flusher meets an error, or a handler disconnects it.
ChildDown(c) ==
  /\ cAlive[c] = "live"
  /\ InactiveChild(c)
  /\ UNCHANGED <<serverVars, acceptVars, childMap, child, timer, acc, cClose,
                 hookVars, waitVars, histVars>>

\* Mutant of ChildTeardown: the child is released before it is closed.
ChildReleasesFirst(c) ==
  /\ \/ /\ teardown[c] = "close"
        /\ childMap' = childMap \ {c}
        /\ teardown' = [teardown EXCEPT ![c] = "release"]
        /\ UNCHANGED cClose
     \/ /\ teardown[c] = "release"
        /\ cClose' = [cClose EXCEPT ![c] = TRUE]
        /\ teardown' = [teardown EXCEPT ![c] = "done"]
        /\ UNCHANGED childMap
  /\ UNCHANGED <<serverVars, acceptVars, cAlive, child, timer, acc, hookVars, waitVars,
                 histVars>>

\* Mutant of ChildTeardown: the child is not released.
ChildStaysInMap(c) ==
  /\ teardown[c] = "close"
  /\ cClose' = [cClose EXCEPT ![c] = TRUE]
  /\ teardown' = [teardown EXCEPT ![c] = "done"]
  /\ UNCHANGED <<serverVars, acceptVars, childMap, cAlive, child, timer, acc, hookVars,
                 waitVars, histVars>>

\* Mutant of ChildTeardown: the child's close future is forgotten.
ChildNeverCloses(c) ==
  /\ teardown[c] = "close"
  /\ childMap' = childMap \ {c}
  /\ teardown' = [teardown EXCEPT ![c] = "done"]
  /\ UNCHANGED <<serverVars, acceptVars, cAlive, child, timer, acc, cClose, hookVars,
                 waitVars, histVars>>

\* The child's Then callback: the two events and the close future, release.
ChildTeardown(c) ==
  /\ \/ /\ teardown[c] = "close"
        /\ cClose' = [cClose EXCEPT ![c] = TRUE]
        /\ teardown' = [teardown EXCEPT ![c] = "release"]
        /\ UNCHANGED childMap
     \/ /\ teardown[c] = "release"
        /\ childMap' = childMap \ {c}
        /\ teardown' = [teardown EXCEPT ![c] = "done"]
        /\ UNCHANGED cClose
  /\ UNCHANGED <<serverVars, acceptVars, cAlive, child, timer, acc,
                 hookVars, waitVars, histVars>>

----------------------------------------------------------------------------
(* The two callbacks on the server's alive future.  Range over a sync.Map  *)
(* visits every key present throughout, and may visit one stored meanwhile.*)

\* The hook takes down the children that are active when it visits them.
HookStart ==
  /\ hook = "none" /\ hooked /\ sAlive = "done"
  /\ hook' = "running"
  /\ hookTodo' = childMap
  /\ UNCHANGED <<serverVars, acceptVars, childMap, childVars, hookSeen,
                 waitVars, histVars>>

\* Mutant of HookVisit: the hook visits children and leaves them up.
HookVisitSkips(c) ==
  /\ hook = "running"
  /\ c \in childMap \ hookSeen
  /\ hookSeen' = hookSeen \cup {c}
  /\ UNCHANGED <<serverVars, acceptVars, childMap, childVars, hook, hookTodo, waitVars,
                 histVars>>

HookVisit(c) ==
  /\ hook = "running"
  /\ c \in childMap \ hookSeen
  /\ hookSeen' = hookSeen \cup {c}
  /\ \/ cAlive[c] = "live" /\ InactiveChild(c)
     \/ cAlive[c] # "live" /\ UNCHANGED <<cAlive, teardown>>
  /\ UNCHANGED <<serverVars, acceptVars, childMap, child, timer, acc, cClose,
                 hook, hookTodo, waitVars, histVars>>

HookEnd ==
  /\ hook = "running"
  /\ hookTodo \cap childMap \subseteq hookSeen
  /\ hook' = "done"
  /\ UNCHANGED <<serverVars, acceptVars, childMap, childVars, hookTodo, hookSeen,
                 waitVars, histVars>>

\* waitChildren awaits the close future of each child it visits.
WaitStart ==
  /\ waiter = "start"
  /\ waiter' = "waiting"
  /\ waitTodo' = childMap
  /\ UNCHANGED <<serverVars, acceptVars, childMap, childVars, hookVars, waitSeen,
                 waitingOn, histVars>>

WaitVisit(c) ==
  /\ waiter = "waiting" /\ waitingOn = {}
  /\ c \in childMap \ waitSeen
  /\ waitingOn' = {c}
  /\ waitSeen' = waitSeen \cup {c}
  /\ UNCHANGED <<serverVars, acceptVars, childMap, childVars, hookVars, waiter,
                 waitTodo, histVars>>

WaitOver ==
  /\ waitingOn # {}
  /\ \A c \in waitingOn : cClose[c]
  /\ waitingOn' = {}
  /\ UNCHANGED <<serverVars, acceptVars, childMap, childVars, hookVars, waiter,
                 waitTodo, waitSeen, histVars>>

\* All children are closed, says the loop; the events and release follow.
WaitEnd ==
  /\ waiter = "waiting" /\ waitingOn = {}
  /\ waitTodo \cap childMap \subseteq waitSeen
  /\ waiter' = "inactive"
  /\ UNCHANGED <<serverVars, acceptVars, childMap, childVars, hookVars, waitTodo,
                 waitSeen, waitingOn, histVars>>

FireInactive ==
  /\ waiter = "inactive"
  /\ waiter' = "done"
  /\ UNCHANGED <<serverVars, acceptVars, childMap, childVars, hookVars, waitTodo,
                 waitSeen, waitingOn, histVars>>

----------------------------------------------------------------------------
(* Close and Deregister of the server channel.                             *)

Close(k) ==
  /\ call[k] = "idle"
  /\ closeS' = 1
  /\ call' = [call EXCEPT ![k] = IF closeS = 0 /\ ~sClose THEN "inactive" ELSE "ignored"]
  /\ UNCHANGED <<bind, sAlive, sActive, listening, hooked, sClose, acceptVars, childMap,
                 childVars, hookVars, waitVars, histVars>>

\* Only the call that completed the alive future has a callback to await.
CloseInactive(k) ==
  /\ call[k] = "inactive"
  /\ InactiveServer
  /\ call' = [call EXCEPT ![k] = IF sAlive = "live" THEN "await" ELSE "unsafeClose"]
  /\ UNCHANGED <<bind, sActive, listening, hooked, closeS, sClose, acceptVars, childMap,
                 childVars, hookVars, waitTodo, waitSeen, waitingOn>>

CloseAwait(k) ==
  /\ call[k] = "await"
  /\ waiter = "done"
  /\ call' = [call EXCEPT ![k] = "unsafeClose"]
  /\ UNCHANGED <<bind, sAlive, sActive, listening, hooked, closeS, sClose, acceptVars,
                 childMap, childVars, hookVars, waitVars, histVars>>

\* Only here is `active` cleared, and then the listener closed.
UnsafeClose(k) ==
  /\ \/ /\ call[k] = "unsafeClose"
        /\ sActive' = FALSE
        /\ call' = [call EXCEPT ![k] = "closeListener"]
        /\ UNCHANGED listening
     \/ /\ call[k] = "closeListener"
        /\ listening' = FALSE
        /\ call' = [call EXCEPT ![k] = "complete"]
        /\ UNCHANGED sActive
  /\ UNCHANGED <<bind, sAlive, hooked, closeS, sClose, acceptVars, childMap,
                 childVars, hookVars, waitVars, histVars>>

\* The close future, the call's future, and the deferred resetState.
CompleteClose(k) ==
  /\ \/ /\ call[k] = "complete"
        /\ sClose' = TRUE
        /\ call' = [call EXCEPT ![k] = "reset"]
        /\ UNCHANGED closeS
     \/ /\ call[k] = "reset"
        /\ closeS' = 0
        /\ call' = [call EXCEPT ![k] = "returned"]
        /\ UNCHANGED sClose
  /\ UNCHANGED <<bind, sAlive, sActive, listening, hooked, acceptVars, childMap,
                 childVars, hookVars, waitVars, histVars>>

\* Takes the server down without awaiting anything or closing the listener.
Deregister(k) ==
  /\ call[k] = "idle"
  /\ InactiveServer
  /\ call' = [call EXCEPT ![k] = "returned"]
  /\ UNCHANGED <<bind, sActive, listening, hooked, closeS, sClose, acceptVars, childMap,
                 childVars, hookVars, waitTodo, waitSeen, waitingOn>>

----------------------------------------------------------------------------
\* Nobody has anything left to do.
Quiescent ==
  /\ bind \in {"ignored", "failed", "bound"}
  /\ accept = "off"
  /\ \A k \in Calls : call[k] \in {"ignored", "returned"}
  /\ \A c \in Conns : /\ child[c] \in {"off", "done"} /\ timer[c] \in {"off", "done"}
                      /\ teardown[c] \in {"none", "done"} /\ cAlive[c] # "live"
  /\ hook \in {"none", "done"} /\ waiter \in {"none", "done"}

ServerTerminated == Quiescent /\ UNCHANGED allVars

BindStep == Bind \/ UnsafeBind \/ BindFails \/ ActiveServer
AcceptStep == AcceptLoop \/ Accept \/ Derive
TimerStep(c) == AcceptTimeout(c) \/ TimeoutChild(c)
HookStep == HookStart \/ HookEnd \/ \E c \in Conns : HookVisit(c)
WaitStep ==
  \/ WaitStart \/ WaitOver \/ WaitEnd \/ FireInactive
  \/ \E c \in Conns : WaitVisit(c)
CloseStep(k) ==
  Close(k) \/ CloseInactive(k) \/ CloseAwait(k) \/ UnsafeClose(k) \/ CompleteClose(k)

ServerNext ==
  \/ BindStep
  \/ AcceptStep \/ AcceptError
  \/ \E c \in Conns :
       \/ ActiveChild(c) \/ AcceptSucceeds(c) \/ TimerStep(c)
       \/ ChildDown(c) \/ ChildTeardown(c)
  \/ HookStep
  \/ WaitStep
  \/ \E k \in Closers : CloseStep(k)
  \/ \E k \in Deregisters : Deregister(k)
  \/ ServerTerminated

ServerSpec == ServerInit /\ [][ServerNext]_allVars

\* The scheduler runs every goroutine that has something to do.  Peers come
\* and stay, and callers call, as they please; Accept blocks.
ServerFairSpec ==
  /\ ServerSpec
  /\ WF_allVars(bind # "idle" /\ BindStep)
  /\ WF_allVars(AcceptStep)
  /\ \A c \in Conns :
       /\ WF_allVars(ActiveChild(c)) /\ WF_allVars(AcceptSucceeds(c))
       /\ WF_allVars(TimerStep(c))
       /\ WF_allVars(ChildTeardown(c))
  /\ WF_allVars(HookStep)
  /\ WF_allVars(WaitStep)
  /\ \A k \in Closers : WF_allVars(call[k] # "idle" /\ CloseStep(k))

----------------------------------------------------------------------------
(* Properties.                                                             *)

\* When the server fires Inactive, every child that was in the child map as
\* the server went down has completed its close future, although children
\* leave the map while waitChildren ranges over it.
EldersClosedFirst ==
  waiter \in {"inactive", "done"} => \A c \in elders : cClose[c]

\* Once everything has settled the child map is empty: no child that went
\* down is kept, not even one that timed out before it was activated.
ChildMapDrains == Quiescent => childMap = {}

\* Close completes the close future if no peer stays connected for ever.
CloseCompletes ==
  (\A c \in Conns : []<>(cAlive[c] # "live"))
    => \A k \in Closers : (call[k] = "inactive") ~> sClose

\* A child that was active when the server went down is taken down, even if
\* its peer stays.
ChildrenGoDown == \A c \in Conns : (c \in liveElders) ~> (cAlive[c] # "live")
============================================================================
