--------------------------- MODULE WriteContract ---------------------------
(***************************************************************************)
(* What Channel.Write promises its callers, without goroutines, locks or   *)
(* a flusher: accepted writes form one queue; the transport receives them  *)
(* from its head, in order and at most once; a future succeeds only after  *)
(* its write reached the transport, and fails only if it never will.       *)
(***************************************************************************)
EXTENDS Naturals, Sequences

CONSTANTS Calls, NilCalls

VARIABLES queue,  \* accepted writes the transport has not taken
          sent,   \* what the transport has taken, in order
          outcome \* outcome[c]: "pending", "success" or "failed"

cvars == <<queue, sent, outcome>>

Elements(s) == {s[i] : i \in DOMAIN s}

Init ==
  /\ queue = <<>>
  /\ sent = <<>>
  /\ outcome = [c \in Calls |-> "pending"]

\* c has neither been accepted nor answered.
Fresh(c) ==
  /\ outcome[c] = "pending"
  /\ c \notin Elements(queue) \cup Elements(sent)

Accept(c) ==
  /\ Fresh(c) /\ c \notin NilCalls
  /\ queue' = Append(queue, c)
  /\ UNCHANGED <<sent, outcome>>

Reject(c) ==
  /\ Fresh(c) /\ c \notin NilCalls
  /\ outcome' = [outcome EXCEPT ![c] = "failed"]
  /\ UNCHANGED <<queue, sent>>

\* A write of nothing succeeds without touching the transport.
Ping(c) ==
  /\ Fresh(c) /\ c \in NilCalls
  /\ outcome' = [outcome EXCEPT ![c] = "success"]
  /\ UNCHANGED <<queue, sent>>

Deliver ==
  /\ queue # <<>>
  /\ sent' = Append(sent, Head(queue))
  /\ queue' = Tail(queue)
  /\ UNCHANGED outcome

Confirm(c) ==
  /\ c \in Elements(sent) /\ outcome[c] = "pending"
  /\ outcome' = [outcome EXCEPT ![c] = "success"]
  /\ UNCHANGED <<queue, sent>>

Refuse ==
  /\ queue # <<>>
  /\ outcome[Head(queue)] = "pending"
  /\ outcome' = [outcome EXCEPT ![Head(queue)] = "failed"]
  /\ queue' = Tail(queue)
  /\ UNCHANGED sent

Next ==
  \/ \E c \in Calls : Accept(c) \/ Reject(c) \/ Ping(c) \/ Confirm(c)
  \/ Deliver
  \/ Refuse

Spec == Init /\ [][Next]_cvars
============================================================================
