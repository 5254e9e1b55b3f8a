------------------------------ MODULE Pipeline ------------------------------
(***************************************************************************)
(* The doubly linked list of handler contexts of a pipeline                *)
(* (channel/pipeline.go) and the events that walk it                       *)
(* (channel/handlercontext.go).                                            *)
(*                                                                         *)
(* Operations on the list are serialised by their callers; the events are  *)
(* not: they run in the goroutines of readers, writers and teardowns, and  *)
(* follow the links between any two pointer assignments of an operation.   *)
(* Every element of Contexts is the context that one AddLast or AddBefore  *)
(* creates, and stands for its handler and its name as well.               *)
(***************************************************************************)
EXTENDS Naturals, Sequences, FiniteSets

CONSTANTS Contexts,  \* contexts of the handlers that may be added
          Events     \* events fired while the pipeline is changed

Head0 == "head"      \* PipelineHeadHandlerContextName
Tail0 == "tail"      \* PipelineTailHandlerContextName
Nil == "nil"
Nodes == Contexts \cup {Head0, Tail0}
Links == Nodes \cup {Nil}

ASSUME ContextsAssumption ==
  IsFiniteSet(Contexts) /\ Contexts \cap {Head0, Tail0, Nil} = {}

VARIABLES
  next,     \* next[n]: nextCtx
  prev,     \* prev[n]: prevCtx
  handled,  \* the contexts whose _handler has been set
  created,  \* the contexts that AddLast or AddBefore has created
  op,       \* where the operation in progress is; "idle" between operations
  ctx,      \* its context: the one added or removed
  target,   \* where an added context goes: before this one
  dir,      \* dir[e]: "in" from head to tail, "out" from tail to head
  pos,      \* pos[e]: the context that passes event e on
  event,    \* event[e]: "idle", "check", "defer", "handler", "call", and at
            \* its end "done", "lost" (a nil link) or "panic"
  hnd,      \* hnd[e]: the context whose handler is about to be called
  seen,     \* history: seen[e]: the contexts whose handlers have handled e
  stayed,   \* history: stayed[e]: those in the list ever since e was fired
  twice,    \* history: the events that some handler has handled twice
  mixed,    \* history: those a handler got with the context of another
  grown,    \* history: those that AddLast or AddBefore overlapped
  cut,      \* history: those that RemoveFirst or Clear overlapped
  emptied,  \* history: RemoveFirst was called on a pipeline without handlers
  broken,   \* history: it was, and Clear has not ended since
  beforeHead\* history: AddBefore was given the head as its target

listVars == <<next, prev, handled, created>>
opVars == <<op, ctx, target>>
eventVars == <<dir, pos, event, hnd, seen, twice, mixed>>
histVars == <<stayed, grown, cut, emptied, broken, beforeHead>>
vars == <<next, prev, handled, created, op, ctx, target, dir, pos, event, hnd,
          seen, stayed, twice, mixed, grown, cut, emptied, broken, beforeHead>>

\* _NewDefaultPipeline.
Init ==
  /\ next = [n \in Nodes |-> IF n = Head0 THEN Tail0 ELSE Nil]
  /\ prev = [n \in Nodes |-> IF n = Tail0 THEN Head0 ELSE Nil]
  /\ handled = {Head0, Tail0}
  /\ created = {Head0, Tail0}
  /\ op = "idle" /\ ctx = Head0 /\ target = Head0
  /\ dir = [e \in Events |-> "in"]
  /\ pos = [e \in Events |-> Nil]
  /\ event = [e \in Events |-> "idle"]
  /\ hnd = [e \in Events |-> Nil]
  /\ seen = [e \in Events |-> {}]
  /\ stayed = [e \in Events |-> {}]
  /\ twice = {} /\ mixed = {} /\ grown = {} /\ cut = {}
  /\ emptied = FALSE /\ broken = FALSE /\ beforeHead = FALSE

\* Where following succ from start leads in 0, 1, 2, ... steps, up to nil.
Walk(succ, start) ==
  LET at[i \in 0..Cardinality(Nodes)] ==
        IF i = 0 THEN start
        ELSE LET v == at[i - 1] IN IF v = Nil THEN Nil ELSE succ[v]
  IN at

\* The contexts met on the way.
PathSet(succ, start) ==
  {Walk(succ, start)[i] : i \in 1..Cardinality(Nodes)} \ {Nil}

\* Where AddLast and AddBefore are while they link a context, ...
GrowingOps == {"linkPrev", "linkNext", "setHandler"}

\* ... and RemoveFirst and Clear while they break links.
CuttingOps == {"firstPrev", "firstNext", "dropNext", "dropPrev",
               "clearLast", "clearHead", "clearTail"}

UnderWay(e) == event[e] \in {"check", "defer", "handler", "call"}
Overlapped == {e \in Events : UnderWay(e)}

\* The contexts that are no longer listed have not stayed.
Leave(xs) == stayed' = [e \in Events |-> stayed[e] \ xs]

----------------------------------------------------------------------------
(* AddLast and AddBefore.                                                  *)

\* The new context points at its neighbours before they point at it.
StartAdd(x, t) ==
  /\ op = "idle"
  /\ x \notin created
  /\ created' = created \cup {x}
  /\ next' = [next EXCEPT ![x] = t]
  /\ prev' = [prev EXCEPT ![x] = prev[t]]
  /\ op' = "linkPrev"
  /\ ctx' = x
  /\ target' = t
  /\ grown' = grown \cup Overlapped

AddLast(x) ==
  /\ StartAdd(x, Tail0)
  /\ UNCHANGED <<handled, eventVars, stayed, cut, emptied, broken, beforeHead>>

\* The target is looked for from the head; if it is not there, nothing happens.
AddBefore(t, x) ==
  /\ t \in {Head0} \cup PathSet(next, Head0)
  /\ StartAdd(x, t)
  /\ beforeHead' = (beforeHead \/ t = Head0)
  /\ UNCHANGED <<handled, eventVars, stayed, cut, emptied, broken>>

\* Mutant of AddLinkPrev: the target keeps its old way back.
AddLinkPrevMissing ==
  /\ op = "linkPrev"
  /\ op' = "linkNext"
  /\ UNCHANGED <<listVars, ctx, target, eventVars, histVars>>

AddLinkPrev ==
  /\ op = "linkPrev"
  /\ prev' = [prev EXCEPT ![target] = ctx]
  /\ op' = "linkNext"
  /\ UNCHANGED <<next, handled, created, ctx, target, eventVars, histVars>>

\* Without a previous context this is a nil dereference, and the operation
\* ends in a panic.
AddLinkNext ==
  /\ op = "linkNext"
  /\ \/ /\ prev[ctx] = Nil
        /\ op' = "idle"
        /\ UNCHANGED next
     \/ /\ prev[ctx] # Nil
        /\ next' = [next EXCEPT ![prev[ctx]] = ctx]
        /\ op' = "setHandler"
  /\ UNCHANGED <<prev, handled, created, ctx, target, eventVars, histVars>>

AddSetHandler ==
  /\ op = "setHandler"
  /\ handled' = handled \cup {ctx}
  /\ op' = "idle"
  /\ UNCHANGED <<next, prev, created, ctx, target, eventVars, histVars>>

----------------------------------------------------------------------------
(* RemoveFirst.                                                            *)

\* Without handlers the first context is the tail, which nothing follows:
\* it is not bypassed but loses its links all the same.
RemoveFirst ==
  /\ op = "idle"
  /\ next[Head0] # Nil
  /\ ctx' = next[Head0]
  /\ op' = IF next[next[Head0]] # Nil THEN "firstPrev" ELSE "dropNext"
  /\ emptied' = (emptied \/ next[Head0] = Tail0)
  /\ broken' = (broken \/ next[Head0] = Tail0)
  /\ cut' = cut \cup Overlapped
  /\ Leave({next[Head0]})
  /\ UNCHANGED <<listVars, target, eventVars, grown, beforeHead>>

RemoveFirstBypass ==
  /\ \/ /\ op = "firstPrev"
        /\ prev' = [prev EXCEPT ![next[ctx]] = Head0]
        /\ op' = "firstNext"
        /\ UNCHANGED next
     \/ /\ op = "firstNext"
        /\ next' = [next EXCEPT ![Head0] = next[ctx]]
        /\ op' = "dropNext"
        /\ UNCHANGED prev
  /\ UNCHANGED <<handled, created, ctx, target, eventVars, histVars>>

RemoveFirstDrop ==
  /\ \/ /\ op = "dropNext"
        /\ next' = [next EXCEPT ![ctx] = Nil]
        /\ op' = "dropPrev"
        /\ UNCHANGED prev
     \/ /\ op = "dropPrev"
        /\ prev' = [prev EXCEPT ![ctx] = Nil]
        /\ op' = "idle"
        /\ UNCHANGED next
  /\ UNCHANGED <<handled, created, ctx, target, eventVars, histVars>>

----------------------------------------------------------------------------
(* Remove and RemoveByName: the context keeps its own links.               *)

Remove(x) ==
  /\ op = "idle"
  /\ x \in PathSet(next, Head0)
  /\ ctx' = x
  /\ op' = "bypassPrev"
  /\ Leave({x})
  /\ UNCHANGED <<listVars, target, eventVars, grown, cut, emptied, broken, beforeHead>>

\* Mutant of RemoveBypass: the removed context loses its own links as well.
RemoveBypassDrops ==
  /\ \/ /\ op = "bypassPrev"
        /\ prev' = [prev EXCEPT ![next[ctx]] = prev[ctx]]
        /\ op' = "bypassNext"
        /\ UNCHANGED next
     \/ /\ op = "bypassNext"
        /\ next' = [next EXCEPT ![prev[ctx]] = next[ctx], ![ctx] = Nil]
        /\ op' = "idle"
        /\ UNCHANGED prev
  /\ UNCHANGED <<handled, created, ctx, target, eventVars, histVars>>

RemoveBypass ==
  /\ \/ /\ op = "bypassPrev"
        /\ prev' = [prev EXCEPT ![next[ctx]] = prev[ctx]]
        /\ op' = "bypassNext"
        /\ UNCHANGED next
     \/ /\ op = "bypassNext"
        /\ next' = [next EXCEPT ![prev[ctx]] = next[ctx]]
        /\ op' = "idle"
        /\ UNCHANGED prev
  /\ UNCHANGED <<handled, created, ctx, target, eventVars, histVars>>

----------------------------------------------------------------------------
(* Clear.                                                                  *)

Clear ==
  /\ op = "idle"
  /\ prev' = [prev EXCEPT ![next[Head0]] = Nil]
  /\ op' = "clearLast"
  /\ cut' = cut \cup Overlapped
  /\ Leave(Contexts)
  /\ UNCHANGED <<next, handled, created, ctx, target, eventVars, grown, emptied,
                 broken, beforeHead>>

ClearLinks ==
  /\ \/ /\ op = "clearLast"
        /\ next' = IF prev[Tail0] = Nil THEN next ELSE [next EXCEPT ![prev[Tail0]] = Nil]
        /\ op' = "clearHead"
        /\ UNCHANGED <<prev, broken>>
     \/ /\ op = "clearHead"
        /\ next' = [next EXCEPT ![Head0] = Tail0]
        /\ op' = "clearTail"
        /\ UNCHANGED <<prev, broken>>
     \/ /\ op = "clearTail"
        /\ prev' = [prev EXCEPT ![Tail0] = Head0]
        /\ op' = "idle"
        /\ broken' = FALSE
        /\ UNCHANGED next
  /\ UNCHANGED <<handled, created, ctx, target, eventVars, stayed, grown, cut, emptied,
                 beforeHead>>

----------------------------------------------------------------------------
(* Events.  To pass an event on, a context reads its link four times: to   *)
(* test it for nil, for the deferred recovery, for the handler to call and *)
(* for the context to call it with.                                        *)

Link(e, n) == IF dir[e] = "in" THEN next[n] ELSE prev[n]
Goal(e) == IF dir[e] = "in" THEN Tail0 ELSE Head0
EventTo(e, s) == event' = [event EXCEPT ![e] = s]

\* Every handler passes the event on, but for the last one.
Handled(e) == EventTo(e, IF hnd[e] = Goal(e) THEN "done" ELSE "check")

\* fireRead and the other inbound events start at the head, Write and the
\* other outbound operations at the tail.
Fire(e) ==
  /\ event[e] = "idle"
  /\ \/ /\ dir' = [dir EXCEPT ![e] = "in"]
        /\ pos' = [pos EXCEPT ![e] = Head0]
     \/ /\ dir' = [dir EXCEPT ![e] = "out"]
        /\ pos' = [pos EXCEPT ![e] = Tail0]
  /\ EventTo(e, "check")
  /\ stayed' = [stayed EXCEPT ![e] =
       {x \in Contexts \cap PathSet(next, Head0) : op = "idle" \/ x # ctx}]
  /\ grown' = IF op \in GrowingOps THEN grown \cup {e} ELSE grown
  /\ cut' = IF op \in CuttingOps THEN cut \cup {e} ELSE cut
  /\ UNCHANGED <<listVars, opVars, hnd, seen, twice, mixed, emptied, broken, beforeHead>>

\* A nil link ends the event silently.
CheckLink(e) ==
  /\ event[e] = "check"
  /\ EventTo(e, IF Link(e, pos[e]) = Nil THEN "lost" ELSE "defer")
  /\ UNCHANGED <<listVars, opVars, dir, pos, hnd, seen, twice, mixed, histVars>>

\* A link gone nil by now is a nil dereference.
DeferErrorCaught(e) ==
  /\ event[e] = "defer"
  /\ EventTo(e, IF Link(e, pos[e]) = Nil THEN "panic" ELSE "handler")
  /\ UNCHANGED <<listVars, opVars, dir, pos, hnd, seen, twice, mixed, histVars>>

\* A handler not yet set is nil, and calling it will be a panic.
PickHandler(e) ==
  /\ event[e] = "handler"
  /\ hnd' = [hnd EXCEPT ![e] = Link(e, pos[e])]
  /\ EventTo(e, IF Link(e, pos[e]) \in handled THEN "call" ELSE "panic")
  /\ UNCHANGED <<listVars, opVars, dir, pos, seen, twice, mixed, histVars>>

\* The handler passes the event on from the context it is called with; a nil
\* context is a panic.
CallHandler(e) ==
  /\ event[e] = "call"
  /\ LET n == Link(e, pos[e]) IN
       \/ /\ n = Nil
          /\ EventTo(e, "panic")
          /\ UNCHANGED <<pos, seen, twice, mixed>>
       \/ /\ n # Nil
          /\ pos' = [pos EXCEPT ![e] = n]
          /\ Handled(e)
          /\ seen' = [seen EXCEPT ![e] = @ \cup {hnd[e]}]
          /\ twice' = IF hnd[e] \in seen[e] THEN twice \cup {e} ELSE twice
          /\ mixed' = IF hnd[e] # n THEN mixed \cup {e} ELSE mixed
  /\ hnd' = [hnd EXCEPT ![e] = Nil]
  /\ UNCHANGED <<listVars, opVars, dir, histVars>>

----------------------------------------------------------------------------
OpStart ==
  \/ \E x \in Contexts : \/ AddLast(x)
                         \/ \E t \in Nodes : AddBefore(t, x)
                         \/ Remove(x)
  \/ RemoveFirst
  \/ Clear

OpStep ==
  \/ AddLinkPrev \/ AddLinkNext \/ AddSetHandler
  \/ RemoveFirstBypass \/ RemoveFirstDrop \/ RemoveBypass \/ ClearLinks

EventStep(e) ==
  CheckLink(e) \/ DeferErrorCaught(e) \/ PickHandler(e) \/ CallHandler(e)

Next ==
  \/ OpStart
  \/ OpStep
  \/ \E e \in Events : Fire(e) \/ EventStep(e)

Spec == Init /\ [][Next]_vars

----------------------------------------------------------------------------
(* Properties.                                                             *)

\* An event stops short of its goal only if RemoveFirst or Clear cut off the
\* context it was in, and panics only if that happened or a context was being
\* added: Remove and RemoveByName neither lose nor break an event, unless
\* they fall between the reads of a handler and of its context.  Nor does an event
\* that reaches its goal skip a handler that was listed all the time, or a handler
\* see an event twice.
RemoveIsSafe ==
  \A e \in Events :
    /\ event[e] = "lost" => e \in mixed \cup cut \/ emptied \/ beforeHead
    /\ event[e] = "panic" => e \in cut \cup grown \/ emptied \/ beforeHead
    /\ event[e] = "done" =>
         e \in mixed \cup cut \/ emptied \/ beforeHead \/ stayed[e] \subseteq seen[e]
    /\ e \in twice => e \in mixed

\* The pipeline is the list of the contexts on the way from head to tail.
Forward ==
  LET listed == Contexts \cap PathSet(next, Head0)
  IN [i \in 1..Cardinality(listed) |-> Walk(next, Head0)[i]]

\* The way back leads along them as well.
Mirrored ==
  \A n \in {Head0} \cup (Contexts \cap PathSet(next, Head0)) :
    next[n] # Nil /\ prev[next[n]] = n

\* How far the operation is.
Doing ==
  CASE op \in {"linkPrev", "linkNext"} -> "add"
    [] op = "setHandler" -> "added"
    [] op \in {"firstPrev", "firstNext", "bypassPrev", "bypassNext"} -> "remove"
    [] op \in {"dropNext", "dropPrev"} -> "removed"
    [] op \in {"clearLast", "clearHead"} -> "clear"
    [] op = "clearTail" -> "cleared"
    [] OTHER -> "nothing"

Abstract == INSTANCE HandlerList WITH
  list <- Forward, doing <- Doing, mirrored <- Mirrored

\* Every operation changes the list the way its name says, in one step, whatever
\* operations came before: AddBefore puts its context right before its target,
\* AddLast at the end, RemoveFirst takes the first, Remove the one it was given;
\* and it leaves the links back, which outbound events follow, along the same
\* contexts (pipeline.go).  RemoveFirst of an empty pipeline breaks the list for
\* whatever is added later.
ImplementsHandlerList == Abstract!Spec
============================================================================
