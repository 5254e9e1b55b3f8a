---------------------------- MODULE HandlerList ----------------------------
(***************************************************************************)
(* What a pipeline is to its users: the list of its handlers, in the order *)
(* in which inbound events pass them, and one operation at a time that     *)
(* changes it in one step.  Between operations the way back, which         *)
(* outbound events take, leads past the same handlers.                     *)
(*                                                                         *)
(* The list has two flaws of the code as its contract.  What is added      *)
(* before the head is not listed.  RemoveFirst of an empty list breaks it: *)
(* nothing that is added then is listed, until it is cleared.              *)
(***************************************************************************)
EXTENDS Naturals, Sequences

CONSTANTS Contexts,   \* the handler contexts that may be added, each once
          Head0, Tail0 \* the ends of the pipeline, which are never listed

VARIABLES
  list,
  doing,    \* the operation: "add", "remove", "clear", once it has had its effect
            \* "added", "removed", "cleared", or "nothing"
  ctx,      \* the context that is added or removed
  target,   \* where it is added: before this one
  broken,   \* RemoveFirst was called on the empty list, and Clear has not ended since
  mirrored  \* the way back leads past the same handlers

vars == <<list, doing, ctx, target, broken, mirrored>>

Init ==
  /\ list = <<>> /\ doing = "nothing" /\ ctx = Head0 /\ target = Head0
  /\ broken = FALSE /\ mirrored = TRUE

Listed(x) == \E i \in DOMAIN list : list[i] = x

Begin(what, x, t) ==
  /\ doing = "nothing" /\ doing' = what
  /\ ctx' = x /\ target' = t
  /\ UNCHANGED list

CallAdd(x, t) ==
  /\ ~Listed(x) /\ (t \in {Head0, Tail0} \/ Listed(t))
  /\ Begin("add", x, t)
  /\ UNCHANGED broken

CallRemove(x) ==
  /\ Listed(x)
  /\ Begin("remove", x, target)
  /\ UNCHANGED broken

CallRemoveFirst ==
  \/ /\ list # <<>>
     /\ Begin("remove", list[1], target)
     /\ UNCHANGED broken
  \/ /\ list = <<>>
     /\ Begin("removed", Tail0, target)
     /\ broken' = TRUE

CallClear == Begin("clear", ctx, target) /\ UNCHANGED broken

\* s with x inserted so that it becomes element i.
InsertedAt(s, i, x) == SubSeq(s, 1, i - 1) \o <<x>> \o SubSeq(s, i, Len(s))

\* s without its element i.
RemovedAt(s, i) == SubSeq(s, 1, i - 1) \o SubSeq(s, i + 1, Len(s))

\* The element that an added context becomes: right before its target.
Place(i) == IF target = Tail0 THEN i = Len(list) + 1
            ELSE i \in DOMAIN list /\ list[i] = target

Add ==
  /\ doing = "add" /\ ~broken /\ target # Head0
  /\ \E i \in 1..(Len(list) + 1) : Place(i) /\ list' = InsertedAt(list, i, ctx)
  /\ doing' = "added"
  /\ UNCHANGED <<ctx, target, broken>>

\* The operation may end in a panic.
NotAdded ==
  /\ doing = "add" /\ (broken \/ target = Head0)
  /\ doing' \in {"added", "nothing"}
  /\ UNCHANGED <<list, ctx, target, broken>>

\* Remove ends with this, RemoveFirst later.
Remove ==
  /\ doing = "remove"
  /\ \E i \in DOMAIN list : list[i] = ctx /\ list' = RemovedAt(list, i)
  /\ doing' \in {"removed", "nothing"}
  /\ UNCHANGED <<ctx, target, broken>>

Clear ==
  /\ doing = "clear"
  /\ list' = <<>>
  /\ doing' = "cleared"
  /\ UNCHANGED <<ctx, target, broken>>

Return ==
  /\ doing \in {"added", "removed", "cleared"} /\ doing' = "nothing"
  /\ broken' = (broken /\ doing # "cleared")
  /\ UNCHANGED <<list, ctx, target>>

\* A step of the operation that only has to do with the way back.
Relink ==
  /\ doing # "nothing"
  /\ UNCHANGED <<list, doing, ctx, target, broken>>

\* The way back is as it should be whenever no operation is in progress.
Tidy == doing = "nothing" /\ ~broken => mirrored

Step ==
  \/ \E x \in Contexts : CallRemove(x) \/ \E t \in Contexts \cup {Head0, Tail0} : CallAdd(x, t)
  \/ CallRemoveFirst \/ CallClear
  \/ Add \/ NotAdded \/ Remove \/ Clear \/ Return \/ Relink

Next == Step /\ Tidy'

Spec == Init /\ [][Next]_vars
============================================================================
