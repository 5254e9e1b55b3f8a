--------------------------- MODULE RequestProofs ---------------------------
(***************************************************************************)
(* Proofs about a request and the sessions of its browser: HttpDispatch,   *)
(* for every set of requests, acceptances and lengths, and Sessions, for   *)
(* every set of ids, overlapping requests, callers, instants and cleaners. *)
(*                                                                         *)
(* The argument about a request on its way:                                *)
(*   - Written: what is on the wire, by where Read is.  Without separate   *)
(*     mode there is nothing until Read is done; with it, a head and the   *)
(*     events but the one under way;                                       *)
(*   - Blamed: the response and the answer are an error response exactly   *)
(*     if an error of the task, or an acceptance, made them one;           *)
(*   - Measured: the body is whole until the range; from then on a partial *)
(*     one is what the request asked for, as its headers say, or its       *)
(*     status is another.                                                  *)
(*                                                                         *)
(* The argument about the sessions rests on five facts that every step     *)
(* keeps.  Of a request:                                                   *)
(*   - InUseMade: the sessions it has or is about to have were made;       *)
(*   - Staged: calls of Session are under way only while it runs, and it   *)
(*     saves a session only when it has one;                               *)
(*   - Followed: as long as the header has its cookie, the session is the  *)
(*     one the cookie names;                                               *)
(*   - Agreed: one call at a time holds the lock, and unless the request   *)
(*     was renewed the calls that returned have its session.               *)
(* Of the provider, Lapsed: what is past its expiry, or in the hand of a   *)
(* cleaner, has ended.                                                     *)
(***************************************************************************)
EXTENDS HttpDispatch, Sessions, FiniteSetTheorems, SequenceTheorems, TLAPS

Places == {"route", "passed", "accept", "preCheck", "before", "index", "method", "sse", "range",
           "after", "cors", "catch", "cookie", "write", "log", "gzip", "transport", "hung", "done"}
Faults == TaskFaults \cup {"none", "interrupt", "refused"}

BodyType == [by : {"none", "user", "error", "page"}, off : Nat, len : Nat, of : Nat, gz : BOOLEAN]
Pieces == [first : Int, last : Int, size : Nat]
Response == [status : Nat, body : BodyType, clen : SUBSET Nat, crange : SUBSET Pieces,
             hollow : BOOLEAN]
Entry == [kind : {"head"}, status : Nat, clen : SUBSET Nat, crange : SUBSET Pieces]
           \cup [kind : {"body"}, body : BodyType]

TypeOK ==
  /\ req \in Requests
  /\ pc \in Places
  /\ todo \in Nat
  /\ resp \in Response
  /\ separate \in BOOLEAN /\ headed \in BOOLEAN
  /\ fault \in Faults
  /\ ret \in {"none", "done", "sse"}
  /\ active \in BOOLEAN
  /\ wire \in Seq(Entry)
  /\ cache \in BOOLEAN
  /\ sent \in Nat
  /\ settled \in BOOLEAN

\* A write is on its way to the transport, or lost in the log.
Writing == pc \in {"log", "gzip", "transport", "hung"}

\* Read has not come to the method's callback.
Early == pc \in {"route", "passed", "accept", "preCheck", "before", "index", "method"}

\* Server-sent events that have gone past the transport.
Past == IF Writing THEN sent - 1 ELSE sent

Written ==
  /\ Writing => ret = IF separate THEN "sse" ELSE "done"
  /\ Early \/ pc = "sse" => (separate <=> pc = "sse")
  /\ ~separate =>
       /\ sent = 0 /\ ~headed
       /\ pc # "done" => wire = <<>>
       /\ wire # <<>> => Len(wire) = 2 /\ wire[1].kind = "head" /\ wire[2].kind = "body"
       /\ pc = "done" /\ active => wire # <<>>
  /\ separate /\ ~headed => wire = <<>> /\ sent = 0
  /\ separate /\ headed =>
       /\ Len(wire) >= 1 /\ Len(wire) <= 1 + Past
       /\ active => Len(wire) = 1 + Past
       /\ wire[1].kind = "head"
       /\ \A i \in 2..Len(wire) : wire[i].kind = "body"
  /\ pc = "hung" => resp.hollow

\* A response or an answer that is an error response for the fault there is.
BlameFits(by, status) ==
  /\ fault = "none" => by # "error"
  /\ fault \in TaskFaults /\ pc \in {"cookie", "write", "log", "gzip", "transport", "done"} =>
       by = "error" /\ (status >= 400 \/ fault = "notImplemented")

Blamed ==
  /\ ~separate => BlameFits(resp.body.by, resp.status)
  /\ fault \in TaskFaults /\ pc \in {"cookie", "write"} => resp.status = ErrorStatus(fault)
  /\ ~separate /\ wire # <<>> => BlameFits(wire[2].body.by, wire[1].status)
  /\ fault = "none" => resp.body.by # "error"
  /\ Early => fault = "none"

\* A response that says nothing of a range, with a body that is not a piece.
Plain(r) == r.status \notin {206, 416}
Uncut(r) == Plain(r) /\ r.body.of = r.body.len

\* What the property asks of a head and a body.
Partial(head, body) ==
  LET last == body.off + body.len - 1
  IN /\ head.status = 206 =>
          /\ body.off..last = Asked(req.range, body.of)
          /\ head.crange = {[first |-> body.off, last |-> last, size |-> body.of]}
          /\ body.gz \/ head.clen = {body.len}
     /\ head.status = 416 => Asked(req.range, body.of) = {}

Measured ==
  /\ Early \/ pc \in {"sse", "range"} \/ (Writing /\ separate) => Uncut(resp)
  /\ ~settled => Partial(resp, resp.body)
  /\ ~separate /\ wire # <<>> /\ ~settled => Partial(wire[1], wire[2].body)

IInv == TypeOK /\ Written /\ Blamed /\ Measured

----------------------------------------------------------------------------
(* What the callbacks and the helpers make of a response.                  *)

\* A body is who made it and its length.
LEMMA BodyFields ==
  ASSUME NEW by \in {"none", "user", "error", "page"}, NEW len \in Nat
  PROVE  /\ Body(by, len) \in BodyType
         /\ Body(by, len).by = by /\ Body(by, len).len = len /\ Body(by, len).of = len
BY DEF Body, BodyType

\* The lengths of the bodies that the model makes.
LEMMA LengthsNat ==
  /\ \A n \in Lengths : n \in Nat
  /\ FileLen \in Nat /\ ErrorLen \in Nat /\ PageLen \in Nat
BY LengthsAssumption

\* A response whose status, or status and body, or hollow header is set.
Stated(r, s) == [r EXCEPT !.status = s]
Given(r, s, b) == [r EXCEPT !.status = s, !.body = b]
Ranged(r, s, b, c, g) == [r EXCEPT !.status = s, !.body = b, !.clen = c, !.crange = g]
Bodied(r, b) == [r EXCEPT !.body = b]
Hollowed(r) == [r EXCEPT !.hollow = TRUE]

\* Each leaves the other fields alone.
LEMMA StatedFields ==
  ASSUME NEW r \in Response, NEW s \in Nat
  PROVE  /\ Stated(r, s) \in Response /\ Stated(r, s).status = s
         /\ Stated(r, s).body = r.body
BY DEF Response, Stated

\* A response with status and body replaced.
LEMMA GivenFields ==
  ASSUME NEW r \in Response, NEW s \in Nat, NEW b \in BodyType
  PROVE  /\ Given(r, s, b) \in Response /\ Given(r, s, b).status = s
         /\ Given(r, s, b).body = b
BY Zenon DEF Response, Given

\* A response to a range has its status, its headers and its body.
LEMMA RangedFields ==
  ASSUME NEW r \in Response, NEW s \in Nat, NEW b \in BodyType, NEW c \in SUBSET Nat,
         NEW g \in SUBSET Pieces
  PROVE  LET q == Ranged(r, s, b, c, g)
         IN q \in Response /\ q.status = s /\ q.body = b /\ q.clen = c /\ q.crange = g
BY Zenon DEF Response, Ranged

\* A response with another body keeps its status.
LEMMA BodiedFields ==
  ASSUME NEW r \in Response, NEW b \in BodyType
  PROVE  /\ Bodied(r, b) \in Response /\ Bodied(r, b).status = r.status
         /\ Bodied(r, b).body = b
BY DEF Response, Bodied

\* A hollow header changes nothing else of a response.
LEMMA HollowedFields ==
  ASSUME NEW r \in Response
  PROVE  /\ Hollowed(r) \in Response /\ Hollowed(r).status = r.status
         /\ Hollowed(r).body = r.body
BY Zenon DEF Response, Hollowed

\* The types of the fields of a response.
LEMMA ResponseFields ==
  ASSUME NEW r \in Response
  PROVE  /\ r.status \in Nat /\ r.body \in BodyType
         /\ r.clen \in SUBSET Nat /\ r.crange \in SUBSET Pieces
BY DEF Response

\* The status codes that the model sets.
LEMMA Statuses == {0, 200, 206, 400, 404, 416, 500} \subseteq Nat
OBVIOUS

\* Whatever user code does to a response, it has a type, says nothing new of a
\* range, and the body is not an error response's unless it was.
LEMMA TouchedResponse ==
  ASSUME NEW r \in Response, NEW q \in Touched(r)
  PROVE  /\ q \in Response /\ (Uncut(r) => Uncut(q))
         /\ q.body.by = "error" => r.body.by = "error"
<1>1. Touched(r) = {r} \cup {Given(r, 200, Body("user", n)) : n \in Lengths}
                       \cup {Bodied(r, Body("user", n)) : n \in Lengths}
                       \cup {Stated(r, 404), Hollowed(r)}
  BY DEF Touched, Given, Bodied, Stated, Hollowed
<1>2. CASE q \in {r, Stated(r, 404), Hollowed(r)}
  BY <1>2, StatedFields, HollowedFields, Statuses DEF Uncut, Plain
<1>3. CASE \E n \in Lengths : q \in {Given(r, 200, Body("user", n)), Bodied(r, Body("user", n))}
  <2>1. PICK n \in Lengths : q \in {Given(r, 200, Body("user", n)), Bodied(r, Body("user", n))}
    BY <1>3
  <2> DEFINE b == Body("user", n)
  <2>2. b \in BodyType /\ b.by = "user" /\ b.of = b.len
    BY BodyFields, LengthsNat
  <2> HIDE DEF b
  <2>3. q \in Response /\ q.body = b /\ q.status \in {200, r.status}
    BY <2>1, <2>2, GivenFields, BodiedFields, Statuses DEF b
  <2> QED
    BY <2>2, <2>3 DEF Uncut, Plain
<1> QED
  BY <1>1, <1>2, <1>3

\* The same for a static file.
LEMMA StaticResponse ==
  ASSUME NEW r \in Response, cache \in BOOLEAN, NEW f \in StaticFile(r)
  PROVE  /\ f[1] \in Response /\ f[2] \in BOOLEAN /\ (Uncut(r) => Uncut(f[1]))
         /\ f[1].body.by = "error" => r.body.by = "error"
<1> DEFINE b == Body("user", FileLen)
           given == <<Given(r, 200, b), TRUE>>
           kept == <<Stated(r, 404), TRUE>>
           dropped == <<Stated(r, 404), FALSE>>
           broken == <<Stated(r, 500), FALSE>>
<1>1. b \in BodyType /\ b.by = "user" /\ b.of = b.len
  BY BodyFields, LengthsNat
<1>2. StaticFile(r) = IF cache THEN {given, kept} ELSE {given, dropped, broken}
  BY DEF StaticFile, Given, Stated
<1> HIDE DEF b, given, kept, dropped, broken
<1>3. f \in {given, kept, dropped, broken}
  <2>1. CASE cache
    BY <1>2, <2>1
  <2>2. CASE ~cache
    BY <1>2, <2>2
  <2> QED
    BY <2>1, <2>2
<1>4. CASE f = given
  BY <1>1, <1>4, GivenFields, Statuses DEF given, Uncut, Plain
<1>5. ASSUME NEW s \in {404, 500}, NEW c \in BOOLEAN, f = <<Stated(r, s), c>>
      PROVE  /\ f[1] \in Response /\ f[2] \in BOOLEAN /\ (Uncut(r) => Uncut(f[1]))
             /\ f[1].body.by = "error" => r.body.by = "error"
  <2>1. /\ Stated(r, s) \in Response /\ Stated(r, s).status = s /\ Stated(r, s).body = r.body
        /\ s \notin {206, 416}
    BY StatedFields, Statuses
  <2> QED
    BY <1>5, <2>1 DEF Uncut, Plain
<1>6. CASE f = kept
  BY <1>5, <1>6, Zenon DEF kept
<1>7. CASE f = dropped
  BY <1>5, <1>7, Zenon DEF dropped
<1>8. CASE f = broken
  BY <1>5, <1>8, Zenon DEF broken
<1> QED
  BY <1>3, <1>4, <1>6, <1>7, <1>8

\* ResponseError replaces status and body: it answers no range.
LEMMA ErrorResponse ==
  ASSUME NEW r \in Response, NEW f
  PROVE  LET q == ResponseError(r, f)
         IN /\ q \in Response /\ Uncut(q)
            /\ q.body.by = "error" /\ q.status = ErrorStatus(f)
            /\ ErrorStatus(f) # 404 /\ (ErrorStatus(f) >= 400 \/ f = "notImplemented")
<1> DEFINE b == Body("error", ErrorLen)
<1>1. b \in BodyType /\ b.by = "error" /\ b.of = b.len
  BY BodyFields, LengthsNat
<1>2. /\ ErrorStatus(f) \in Nat /\ ErrorStatus(f) \notin {206, 404, 416}
      /\ ErrorStatus(f) >= 400 \/ f = "notImplemented"
  BY DEF ErrorStatus
<1>3. ResponseError(r, f) = Given(r, ErrorStatus(f), b)
  BY DEF ResponseError, Given
<1> HIDE DEF b
<1>4. PICK s \in Nat : s = ErrorStatus(f)
  BY <1>2
<1>5. /\ Given(r, s, b) \in Response /\ Given(r, s, b).status = s
      /\ Given(r, s, b).body = b
  BY <1>1, <1>4, GivenFields, Zenon
<1>6. PICK q : q = ResponseError(r, f)
  OBVIOUS
<1>7. q \in Response /\ q.status = ErrorStatus(f) /\ q.body = b
  BY <1>3, <1>4, <1>5, <1>6, Zenon
<1>8. Uncut(q)
  BY <1>1, <1>2, <1>7 DEF Uncut, Plain
<1> QED
  BY <1>1, <1>2, <1>6, <1>7, <1>8, Zenon

\* The defaults make a page of a bare 404 only, and keep any other status but 0.
LEMMA DefaultResponse ==
  ASSUME NEW r \in Response
  PROVE  LET q == Defaults(r)
         IN /\ q \in Response /\ (Uncut(r) => Uncut(q)) /\ (q = r \/ Plain(q))
            /\ r.status # 404 => q.body = r.body
            /\ q.body = r.body \/ q.body.by = "page"
            /\ r.status # 0 => q.status = r.status
<1> DEFINE b == Body("page", PageLen)
           paged == IF r.status = 404 /\ r.body.len = 0 THEN Bodied(r, b) ELSE r
<1>1. b \in BodyType /\ b.by = "page" /\ b.of = b.len
  BY BodyFields, LengthsNat
<1> HIDE DEF b
<1>2. /\ paged \in Response /\ paged.status = r.status
      /\ paged = r \/ (paged.body = b /\ r.status = 404)
  BY <1>1, BodiedFields
<1>3. Defaults(r) = IF paged.status = 0 THEN Stated(paged, 200) ELSE paged
  BY DEF Defaults, b, Stated, Bodied
<1> HIDE DEF paged
<1>4. CASE paged.status = 0
  <2>1. /\ Defaults(r) \in Response /\ Defaults(r).status = 200
        /\ Defaults(r).body = paged.body
    BY <1>2, <1>3, <1>4, StatedFields, Statuses
  <2> QED
    BY <1>1, <1>2, <1>4, <2>1 DEF Uncut, Plain
<1>5. CASE paged.status # 0
  <2>1. Defaults(r) = paged
    BY <1>3, <1>5
  <2> QED
    BY <1>1, <1>2, <2>1 DEF Uncut, Plain
<1> QED
  BY <1>4, <1>5

\* ParseRange finds the bytes that a range asks for, or that there is none.
LEMMA RangeFound ==
  ASSUME NEW size \in Nat, size > 0, NEW spec,
         spec.kind \in {"bad", "bytes"}, Optional(spec.first), Optional(spec.last)
  PROVE  LET p == ParseRange(spec, size)
         IN /\ p.valid \in BOOLEAN
            /\ p.valid => /\ p.start \in Nat /\ p.end \in Nat
                          /\ p.start <= p.end /\ p.end < size
                          /\ p.start..p.end = Asked(spec, size)
            /\ ~p.valid => Asked(spec, size) = {}
<1> DEFINE first == CHOOSE n \in spec.first : TRUE
           last == CHOOSE n \in spec.last : TRUE
           no == [valid |-> FALSE, start |-> 0, end |-> 0]
           yes(a, b) == [valid |-> TRUE, start |-> a, end |-> b]
           p == ParseRange(spec, size)
<1>1. spec.first # {} => first \in Nat /\ spec.first = {first}
  BY DEF Optional
<1>2. spec.last # {} => last \in Nat /\ spec.last = {last}
  BY DEF Optional
<1>3. ParseRange(spec, size) =
        CASE spec.kind = "bad" \/ spec.first \cup spec.last = {} -> no
          [] spec.kind # "bad" /\ spec.first = {} /\ spec.last # {} ->
               IF last = 0 THEN no
               ELSE yes(IF last > size THEN 0 ELSE size - last, size - 1)
          [] spec.kind # "bad" /\ spec.first # {} /\ spec.last = {} ->
               IF first >= size THEN no ELSE yes(first, size - 1)
          [] OTHER -> IF last < first \/ first >= size THEN no
                      ELSE yes(first, IF last >= size THEN size - 1 ELSE last)
  BY DEF ParseRange
<1> HIDE DEF first, last, p
<1> SUFFICES /\ p.valid \in BOOLEAN
             /\ p.valid => /\ p.start \in Nat /\ p.end \in Nat
                           /\ p.start <= p.end /\ p.end < size
                           /\ p.start..p.end = Asked(spec, size)
             /\ ~p.valid => Asked(spec, size) = {}
  BY DEF p
<1>4. CASE spec.kind = "bad" \/ spec.first \cup spec.last = {}
  <2>1. p = no
    BY <1>3, <1>4 DEF p
  <2>2. Asked(spec, size) = {}
    BY <1>4 DEF Asked
  <2> QED BY <2>1, <2>2
<1>5. CASE spec.kind = "bytes" /\ spec.first = {} /\ spec.last # {}
  <2>1. p = IF last = 0 THEN no ELSE yes(IF last > size THEN 0 ELSE size - last, size - 1)
    BY <1>3, <1>5 DEF p
  <2>2. Asked(spec, size) = {i \in 0..(size - 1) : i + last >= size}
    BY <1>2, <1>5 DEF Asked
  <2> QED BY <1>2, <1>5, <2>1, <2>2
<1>6. CASE spec.kind = "bytes" /\ spec.first # {} /\ spec.last = {}
  <2>1. p = IF first >= size THEN no ELSE yes(first, size - 1)
    BY <1>3, <1>6 DEF p
  <2>2. Asked(spec, size) = {i \in 0..(size - 1) : i >= first}
    BY <1>1, <1>6 DEF Asked
  <2> QED BY <1>1, <1>6, <2>1, <2>2
<1>7. CASE spec.kind = "bytes" /\ spec.first # {} /\ spec.last # {}
  <2>1. p = IF last < first \/ first >= size THEN no
            ELSE yes(first, IF last >= size THEN size - 1 ELSE last)
    BY <1>3, <1>7 DEF p
  <2>2. Asked(spec, size) = {i \in 0..(size - 1) : i >= first /\ i <= last}
    BY <1>1, <1>2, <1>7 DEF Asked
  <2> QED BY <1>1, <1>2, <1>7, <2>1, <2>2
<1> QED
  BY <1>4, <1>5, <1>6, <1>7

----------------------------------------------------------------------------
(* Types.                                                                  *)

\* A request starts in a well-typed state.
LEMMA TypeInit == Init => TypeOK
<1> SUFFICES ASSUME Init
             PROVE  TypeOK
  OBVIOUS
<1>1. Empty \in BodyType
  BY DEF Empty, Body, BodyType, None
<1>2. resp \in Response
  BY <1>1 DEF Init, Response
<1>3. cache \in BOOLEAN
  <2>1. cache = FALSE \/ cache = (req.task = "static")
    BY Zenon DEF Init
  <2> QED
    BY <2>1, Zenon
<1>4. wire \in Seq(Entry)
  BY DEF Init
<1>5. todo \in Nat
  BY RequestsAssumption DEF Init
<1>6. /\ req \in Requests /\ pc \in Places /\ fault \in Faults /\ ret \in {"none", "done", "sse"}
      /\ separate \in BOOLEAN /\ headed \in BOOLEAN /\ active \in BOOLEAN
      /\ sent \in Nat /\ settled \in BOOLEAN
  BY Zenon DEF Init, Places, Faults, None
<1> QED
  BY <1>2, <1>3, <1>4, <1>5, <1>6 DEF TypeOK

\* A callback of the task: the response is touched or left alone, and a change
\* after the range is noted; the callback goes on or is to blame.
LEMMA CallbackEffect ==
  ASSUME TypeOK, NEW from, NEW l, Callback(from, l)
  PROVE  /\ pc = from /\ UNCHANGED <<todo, separate, headed, ret, wire, cache, sent, active, req>>
         /\ resp' \in Response /\ (Uncut(resp) => Uncut(resp'))
         /\ resp'.body.by = "error" => resp.body.by = "error"
         /\ settled' \in BOOLEAN /\ (settled => settled')
         /\ from = "after" => resp' = resp \/ settled'
         /\ \/ pc' = l /\ fault' = fault
            \/ pc' = "cors" /\ fault' \in TaskFaults
<1>1. PICK r \in Touched(resp) :
        /\ req.task = "user" \/ r = resp
        /\ resp' = r /\ settled' = (settled \/ (from = "after" /\ r # resp))
  BY DEF Callback
<1>2. /\ resp' \in Response /\ (Uncut(resp) => Uncut(resp'))
      /\ resp'.body.by = "error" => resp.body.by = "error"
  BY <1>1, TouchedResponse DEF TypeOK
<1>3. settled' \in BOOLEAN /\ (settled => settled') /\ (from = "after" => resp' = resp \/ settled')
  BY <1>1, Zenon
<1>4. \/ pc' = l /\ fault' = fault
      \/ pc' = "cors" /\ fault' \in TaskFaults
  BY DEF Callback, Goto
<1> QED
  BY <1>2, <1>3, <1>4 DEF Callback, Quiet

\* An acceptance: it lets the request pass, or it is to blame.
LEMMA AcceptanceEffect ==
  ASSUME TypeOK, Acceptance
  PROVE  /\ pc = "accept"
         /\ UNCHANGED <<separate, headed, settled, ret, wire, cache, sent, active, req>>
         /\ resp' \in Response /\ (Uncut(resp) => Uncut(resp')) /\ todo' \in Nat
         /\ \/ /\ pc' \in {"accept", "preCheck"} /\ fault' = fault
               /\ resp'.body.by = "error" => resp.body.by = "error"
            \/ pc' = "cors" /\ fault' \in {"refused", "interrupt", "thrown", "panic"}
<1> USE DEF Goto, Quiet
<1>1. CASE todo = 0 \/ (req.method = "OPTIONS" /\ req.skipOptions)
  BY <1>1 DEF Acceptance, TypeOK
<1>2. CASE ~(todo = 0 \/ (req.method = "OPTIONS" /\ req.skipOptions))
  <2>1. PICK r \in Touched(resp) :
          \/ resp' = r /\ todo' = todo - 1 /\ UNCHANGED <<pc, fault>>
          \/ /\ pc' = "cors" /\ UNCHANGED todo
             /\ \/ resp' = r /\ fault' \in {"interrupt", "thrown", "panic"}
                \/ resp' = r /\ fault' = "refused"
                \/ /\ resp' = IF r.status = 0 THEN ResponseError(r, "refused") ELSE r
                   /\ fault' = "refused"
    BY <1>2 DEF Acceptance
  <2>2. /\ r \in Response /\ (Uncut(resp) => Uncut(r))
        /\ r.body.by = "error" => resp.body.by = "error"
    BY <2>1, TouchedResponse DEF TypeOK
  <2>3. /\ ResponseError(r, "refused") \in Response
        /\ Uncut(ResponseError(r, "refused"))
    BY <2>2, ErrorResponse
  <2>4. /\ pc = "accept"
        /\ UNCHANGED <<separate, headed, settled, ret, wire, cache, sent, active, req>>
    BY DEF Acceptance
  <2>5. resp' \in Response /\ (Uncut(resp) => Uncut(resp'))
    BY <2>1, <2>2, <2>3
  <2>6. todo' \in Nat
    BY <1>2, <2>1 DEF TypeOK
  <2> QED
    BY <2>1, <2>2, <2>4, <2>5, <2>6
<1> QED
  BY <1>1, <1>2

\* HandleAutoRange answers with the piece that was asked for, and says so.
LEMMA RangeResponse ==
  ASSUME TypeOK, HandleAutoRange
  PROVE  /\ resp' \in Response
         /\ resp'.body.by = resp.body.by
         /\ Uncut(resp) => Partial(resp, resp.body)'
<1> DEFINE size == resp.body.len
           p == ParseRange(req.range, size)
           piece == Slice(resp.body, p)
           crange == {[first |-> p.start, last |-> p.end, size |-> size]}
<1>1. resp \in Response /\ resp.body \in BodyType /\ size \in Nat
  BY DEF TypeOK, Response, BodyType
<1>2. /\ req.range.kind \in {"none", "bad", "bytes"}
      /\ Optional(req.range.first) /\ Optional(req.range.last)
  BY RequestsAssumption DEF TypeOK
<1>3. UNCHANGED req
  BY DEF HandleAutoRange, Quiet
<1>4. resp' = IF size = 0 \/ req.range.kind = None THEN resp
              ELSE IF p.valid THEN Ranged(resp, 206, piece, {piece.len}, crange)
                   ELSE Stated(resp, 416)
  BY Zenon DEF HandleAutoRange, Stated, Ranged
<1>5. size > 0 /\ req.range.kind # None =>
        /\ p.valid \in BOOLEAN
        /\ p.valid => /\ p.start \in Nat /\ p.end \in Nat
                      /\ p.start <= p.end /\ p.end < size
                      /\ p.start..p.end = Asked(req.range, size)
        /\ ~p.valid => Asked(req.range, size) = {}
  BY <1>1, <1>2, RangeFound DEF None
<1> HIDE DEF p
<1>6. CASE resp' = resp
  BY <1>1, <1>6 DEF Uncut, Plain, Partial
<1>7. CASE size > 0 /\ req.range.kind # None /\ ~p.valid /\ resp' = Stated(resp, 416)
  <2>1. resp' \in Response /\ resp'.status = 416 /\ resp'.body = resp.body
    BY <1>1, <1>7, StatedFields, Statuses
  <2> QED
    BY <1>3, <1>5, <1>7, <2>1 DEF Partial, Uncut
<1>8. CASE /\ size > 0 /\ req.range.kind # None /\ p.valid
           /\ resp' = Ranged(resp, 206, piece, {piece.len}, crange)
  <2>1. /\ p.start \in Nat /\ p.end \in Nat /\ p.start <= p.end
        /\ p.start..p.end = Asked(req.range, size)
    BY <1>5, <1>8
  <2>2. /\ piece.off = p.start /\ piece.len = p.end + 1 - p.start
        /\ piece.of = resp.body.of /\ piece.by = resp.body.by /\ piece \in BodyType
    <3> DEFINE n == p.end + 1 - p.start
    <3>1. n \in Nat
      BY <2>1
    <3>2. piece = [resp.body EXCEPT !.off = p.start, !.len = n]
      BY DEF Slice
    <3> HIDE DEF n, piece
    <3>3. /\ piece.off = p.start /\ piece.len = n
          /\ piece.of = resp.body.of /\ piece.by = resp.body.by /\ piece \in BodyType
      BY <1>1, <2>1, <3>1, <3>2, Zenon DEF BodyType
    <3> QED
      BY <3>3 DEF n
  <2>3. crange \in SUBSET Pieces /\ {piece.len} \in SUBSET Nat
    BY <1>1, <2>1, <2>2 DEF Pieces
  <2>4. piece.off + piece.len - 1 = p.end
    BY <2>1, <2>2
  <2> HIDE DEF piece
  <2>5. /\ resp' \in Response /\ resp'.status = 206 /\ resp'.body = piece
        /\ resp'.clen = {piece.len} /\ resp'.crange = crange
    BY <1>1, <1>8, <2>2, <2>3, RangedFields, Statuses
  <2> QED
    BY <1>3, <2>1, <2>2, <2>4, <2>5 DEF Partial, Uncut
<1> QED
  BY <1>1, <1>4, <1>5, <1>6, <1>7, <1>8

\* GzipWrite marks the body or leaves it.
LEMMA GzipResponse ==
  ASSUME TypeOK, GzipWrite
  PROVE  /\ resp' \in Response /\ resp'.status = resp.status
         /\ resp'.clen = resp.clen /\ resp'.crange = resp.crange
         /\ resp'.body.by = resp.body.by /\ resp'.body.off = resp.body.off
         /\ resp'.body.len = resp.body.len /\ resp'.body.of = resp.body.of
         /\ resp.body.gz => resp'.body.gz
<1>1. CASE resp' = resp
  BY <1>1 DEF TypeOK
<1>2. CASE resp' = [resp EXCEPT !.body.gz = TRUE]
  BY <1>2, Zenon DEF TypeOK, Response, BodyType
<1> QED
  BY <1>1, <1>2 DEF GzipWrite

\* Appending to a sequence.
LEMMA Appending ==
  ASSUME NEW S, NEW s \in Seq(S), NEW e \in S, NEW f \in S
  PROVE  /\ Append(s, e) \in Seq(S) /\ s \o <<e, f>> \in Seq(S)
         /\ Len(Append(s, e)) = Len(s) + 1 /\ Append(s, e)[Len(s) + 1] = e
         /\ \A i \in 1..Len(s) : Append(s, e)[i] = s[i]
OBVIOUS

\* What UnsafeWrite puts on the wire.
TheHead == [kind |-> "head", status |-> resp.status, clen |-> resp.clen, crange |-> resp.crange]
TheBody == [kind |-> "body", body |-> resp.body]

\* What UnsafeWrite puts on the wire: nothing on a closed channel; in separate
\* mode the head first, an event afterwards; otherwise head and body together.
LEMMA Transported ==
  ASSUME TypeOK, UnsafeWrite
  PROVE  /\ TheHead \in Entry /\ TheBody \in Entry
         /\ \/ ~active /\ UNCHANGED <<wire, headed>>
            \/ active /\ separate /\ ~headed /\ headed' = TRUE /\ wire' = Append(wire, TheHead)
            \/ active /\ separate /\ headed /\ headed' = TRUE /\ wire' = Append(wire, TheBody)
            \/ active /\ ~separate /\ headed' = headed /\ wire' = wire \o <<TheHead, TheBody>>
<1>1. TheHead \in Entry /\ TheBody \in Entry
  BY DEF TypeOK, Response, Entry, TheHead, TheBody
<1>2. ~active => UNCHANGED <<wire, headed>>
  BY DEF UnsafeWrite
<1>3. active =>
        /\ wire' = CASE separate /\ ~headed -> Append(wire, TheHead)
                     [] separate /\ headed -> Append(wire, TheBody)
                     [] OTHER -> wire \o <<TheHead, TheBody>>
        /\ headed' = (headed \/ separate)
  BY Zenon DEF UnsafeWrite, TheHead, TheBody
<1> QED
  BY <1>1, <1>2, <1>3, Zenon DEF TypeOK

\* Every step keeps the types.
LEMMA TypeStep == TypeOK /\ Written /\ [Next]_vars => TypeOK'
<1> SUFFICES ASSUME TypeOK, Written, [Next]_vars
             PROVE  TypeOK'
  OBVIOUS
<1> USE DEF Goto, Quiet
<1>1. CASE Route \/ NotFound
  <2>1. CASE Route
    BY <2>1 DEF Route, TypeOK, Places
  <2>2. CASE NotFound
    <3>1. resp \in Response /\ resp' = Stated(resp, 404)
      BY <2>2 DEF NotFound, Stated, TypeOK
    <3>2. resp' \in Response
      BY <3>1, StatedFields, Statuses
    <3> QED
      BY <2>2, <3>2 DEF NotFound, TypeOK, Places
  <2> QED
    BY <1>1, <2>1, <2>2
<1>2. CASE Acceptance
  BY <1>2, AcceptanceEffect DEF TypeOK, Places, Faults, TaskFaults
<1>3. CASE PreCheck
  <2>1. CASE Callback("preCheck", "before")
    BY <2>1, CallbackEffect DEF TypeOK, Places, Faults
  <2>2. CASE UNCHANGED <<todo, resp, separate, headed, fault, settled>> /\ Goto("before") /\ Quiet
    BY <2>2 DEF TypeOK, Places
  <2> QED
    BY <1>3, <2>1, <2>2 DEF PreCheck
<1>4. CASE Before \/ After
  <2>1. CASE Callback("before", "index")
    BY <2>1, CallbackEffect DEF TypeOK, Places, Faults
  <2>2. CASE Callback("after", "cors")
    BY <2>2, CallbackEffect DEF TypeOK, Places, Faults
  <2> QED
    BY <1>4, <2>1, <2>2 DEF Before, After
<1>5. CASE Index
  <2>1. CASE Callback("index", "range")
    BY <2>1, CallbackEffect DEF TypeOK, Places, Faults
  <2>2. CASE UNCHANGED <<todo, resp, separate, headed, fault, settled>> /\ Goto("method") /\ Quiet
    BY <2>2 DEF TypeOK, Places
  <2> QED
    BY <1>5, <2>1, <2>2 DEF Index
<1>6. CASE Method
  <2>1. CASE Callback("method", "range")
    BY <2>1, CallbackEffect DEF TypeOK, Places, Faults
  <2>2. CASE /\ separate' = TRUE /\ pc' = "sse"
             /\ UNCHANGED <<todo, resp, headed, fault, settled>> /\ Quiet
    BY <2>2 DEF TypeOK, Places
  <2>3. CASE /\ \E f \in StaticFile(resp) : resp' = f[1] /\ cache' = f[2]
             /\ pc' = "range"
             /\ UNCHANGED <<req, todo, separate, headed, fault, settled, ret, active, wire,
                            sent>>
    <3>1. resp' \in Response /\ cache' \in BOOLEAN
      BY <2>3, StaticResponse DEF TypeOK
    <3> QED
      BY <2>3, <3>1 DEF TypeOK, Places
  <2>4. CASE /\ pc' = "range"
             /\ UNCHANGED <<todo, resp, separate, headed, fault, settled>> /\ Quiet
    BY <2>4 DEF TypeOK, Places
  <2> QED
    BY <1>6, <2>1, <2>2, <2>3, <2>4, Zenon DEF Method
<1>7. CASE HandleAutoRange
  BY <1>7, RangeResponse DEF HandleAutoRange, TypeOK, Places
<1>8. CASE CORSHelper
  BY <1>8 DEF CORSHelper, TypeOK, Places, Faults, TaskFaults
<1>9. CASE PanicCatch
  <2>1. resp' \in Response
    <3>1. ResponseError(resp, fault) \in Response
      BY ErrorResponse DEF TypeOK
    <3>2. resp' = ResponseError(resp, fault) \/ resp' = resp
      BY <1>9 DEF PanicCatch
    <3> QED
      BY <3>1, <3>2, Zenon DEF TypeOK
  <2> QED
    BY <1>9, <2>1 DEF PanicCatch, TypeOK, Places
<1>10. CASE Cookie
  BY <1>10 DEF Cookie, TypeOK, Places
<1>11. CASE CallWrite \/ WriteHeader
  <2>1. resp' \in Response
    BY <1>11, DefaultResponse DEF CallWrite, WriteHeader, TypeOK
  <2> QED
    BY <1>11, <2>1 DEF CallWrite, WriteHeader, TypeOK, Places
<1>12. CASE WriteMessage
  <2>1. resp' = Bodied(resp, Body("user", 1))
    BY <1>12 DEF WriteMessage, Bodied
  <2>2. resp' \in Response
    <3>1. Body("user", 1) \in BodyType /\ Body("user", 1).by = "user"
      BY BodyFields
    <3> QED
      BY <2>1, <3>1, BodiedFields DEF TypeOK
  <2> QED
    BY <1>12, <2>2 DEF WriteMessage, TypeOK, Places
<1>13. CASE EndMessages
  BY <1>13 DEF EndMessages, TypeOK, Places, Faults
<1>14. CASE LogWrite
  BY <1>14 DEF LogWrite, TypeOK, Places
<1>15. CASE GzipWrite
  BY <1>15, GzipResponse DEF GzipWrite, TypeOK, Places
<1>16. CASE UnsafeWrite
  <2>1. wire' \in Seq(Entry) /\ headed' \in BOOLEAN
    <3>1. wire \in Seq(Entry) /\ headed \in BOOLEAN
      BY DEF TypeOK
    <3>2. TheHead \in Entry /\ TheBody \in Entry
      BY <1>16, Transported
    <3>3. \/ wire' = wire /\ headed' = headed
          \/ wire' = Append(wire, TheHead) /\ headed' = TRUE
          \/ wire' = Append(wire, TheBody) /\ headed' = TRUE
          \/ wire' = wire \o <<TheHead, TheBody>> /\ headed' = headed
      BY <1>16, Transported, Zenon
    <3>4. headed' \in BOOLEAN
      BY <3>1, <3>3, Zenon
    <3>5. wire' \in Seq(Entry)
      <4>1. /\ Append(wire, TheHead) \in Seq(Entry) /\ Append(wire, TheBody) \in Seq(Entry)
            /\ wire \o <<TheHead, TheBody>> \in Seq(Entry)
        <5> DEFINE e == TheHead
                   f == TheBody
        <5> HIDE DEF e, f
        <5>1. e \in Entry /\ f \in Entry
          BY <3>2 DEF e, f
        <5>2. /\ Append(wire, e) \in Seq(Entry) /\ Append(wire, f) \in Seq(Entry)
              /\ wire \o <<e, f>> \in Seq(Entry)
          BY <3>1, <5>1, Appending
        <5> QED
          BY <5>2 DEF e, f
      <4> QED
        BY <3>1, <3>3, <4>1, Zenon
    <3> QED
      BY <3>4, <3>5
  <2>2. pc' \in Places
    BY <1>16 DEF UnsafeWrite, Written, Writing, Places
  <2> QED
    BY <1>16, <2>1, <2>2 DEF UnsafeWrite, TypeOK, None
<1>17. CASE Lose
  BY <1>17, Zenon DEF Lose, TypeOK
<1>18. CASE Terminated \/ UNCHANGED vars
  BY <1>18 DEF Terminated, vars, TypeOK
<1> QED
  BY <1>1, <1>2, <1>3, <1>4, <1>5, <1>6, <1>7, <1>8, <1>9, <1>10, <1>11, <1>12, <1>13,
     <1>14, <1>15, <1>16, <1>17, <1>18 DEF Next

----------------------------------------------------------------------------
(* What is on the wire.                                                    *)

\* Nothing is on the wire before Read.
LEMMA WrittenInit == Init => Written
BY DEF Init, Written, Writing, Early, Past, None

\* Read goes on, before or after the method's callback, and nothing is written.
LEMMA ReadGoesOn ==
  ASSUME Written, UNCHANGED <<separate, headed, ret, active, wire, sent>>,
         pc \notin {"log", "gzip", "transport", "hung", "done"},
         pc' \notin {"log", "gzip", "transport", "hung", "done"},
         \/ Early /\ (Early' \/ pc' \in {"range", "cors", "cookie"})
         \/ ~Early /\ ~Early' /\ pc' # "sse"
  PROVE  Written'
BY DEF Written, Writing, Early, Past

\* The transport: the head first, then each event; or head and body at once.
LEMMA WrittenUnsafeWrite ==
  ASSUME TypeOK, Written, UnsafeWrite
  PROVE  Written'
<1>1. /\ pc = "transport" /\ pc' = ret /\ UNCHANGED <<resp, separate, active, sent>>
      /\ ret = IF separate THEN "sse" ELSE "done"
      /\ Past = sent - 1 /\ Past' = sent
      /\ ~Writing' /\ ~Early'
  BY DEF UnsafeWrite, Goto, Written, Writing, Past, Early
<1>2. wire \in Seq(Entry) /\ TheHead \in Entry /\ TheBody \in Entry /\ sent \in Nat
      /\ separate \in BOOLEAN /\ headed \in BOOLEAN /\ active \in BOOLEAN
  BY Transported, Zenon DEF TypeOK
<1>3. CASE ~separate
  <2>1. wire = <<>> /\ sent = 0 /\ ~headed
    BY <1>1, <1>3 DEF Written
  <2>2. \/ ~active /\ wire' = wire /\ headed' = headed
        \/ active /\ headed' = headed /\ wire' = wire \o <<TheHead, TheBody>>
    BY <1>3, Transported, Zenon
  <2>3. CASE ~active
    BY <1>1, <1>3, <2>1, <2>2, <2>3 DEF Written
  <2>4. CASE active
    <3>1. wire' = <<TheHead, TheBody>>
      BY <2>1, <2>2, <2>4
    <3>2. /\ Len(wire') = 2 /\ wire' # <<>>
          /\ wire'[1].kind = "head" /\ wire'[2].kind = "body"
      BY <3>1 DEF TheHead, TheBody
    <3> QED
      BY <1>1, <1>3, <2>1, <2>2, <2>4, <3>2 DEF Written
  <2> QED
    BY <2>3, <2>4
<1>4. CASE separate /\ ~active
  <2>1. wire' = wire /\ headed' = headed
    BY <1>4, Transported, Zenon
  <2>2. Len(wire) \in Nat
    BY <1>2
  <2>3. ~headed => wire = <<>> /\ sent = 0
    BY <1>4 DEF Written
  <2>4. headed => /\ Len(wire) >= 1 /\ Len(wire) <= sent /\ wire[1].kind = "head"
                  /\ \A i \in 2..Len(wire) : wire[i].kind = "body"
    BY <1>1, <1>2, <1>4, <2>2 DEF Written
  <2>5. headed => Len(wire) <= 1 + sent
    BY <1>2, <2>2, <2>4
  <2> QED
    BY <1>1, <1>4, <2>1, <2>3, <2>4, <2>5 DEF Written
<1>5. CASE separate /\ active /\ ~headed
  <2>1. wire = <<>> /\ sent = 0
    BY <1>5 DEF Written
  <2>2. headed' = TRUE /\ wire' = Append(wire, TheHead)
    BY <1>5, Transported, Zenon
  <2>3. wire' = <<TheHead>>
    BY <2>1, <2>2
  <2>4. Len(wire') = 1 /\ wire'[1].kind = "head"
    BY <2>3 DEF TheHead
  <2>5. \A i \in 2..Len(wire') : wire'[i].kind = "body"
    BY <2>4
  <2> QED
    BY <1>1, <1>5, <2>1, <2>2, <2>4, <2>5 DEF Written
<1>6. CASE separate /\ active /\ headed
  <2>1. /\ Len(wire) >= 1 /\ Len(wire) = 1 + Past /\ wire[1].kind = "head"
        /\ \A i \in 2..Len(wire) : wire[i].kind = "body"
    BY <1>6 DEF Written
  <2>2. headed' = TRUE /\ wire' = Append(wire, TheBody)
    BY <1>6, Transported
  <2>3. /\ Len(wire') = Len(wire) + 1 /\ wire'[Len(wire) + 1] = TheBody
        /\ \A i \in 1..Len(wire) : wire'[i] = wire[i]
    BY <1>2, <2>2, Appending
  <2>4. Len(wire') >= 1 /\ Len(wire') = 1 + Past' /\ wire'[1].kind = "head"
    BY <1>1, <1>2, <2>1, <2>3
  <2>5. TheBody.kind = "body"
    BY DEF TheBody
  <2>6. \A i \in 2..Len(wire') : wire'[i].kind = "body"
    BY <1>2, <2>1, <2>3, <2>5
  <2> QED
    BY <1>1, <1>2, <1>6, <2>2, <2>4, <2>6 DEF Written
<1> QED
  BY <1>2, <1>3, <1>4, <1>5, <1>6

\* Every stage of Read, of the writer and of the transport keeps what is on the
\* wire in step with where Read is.
LEMMA WrittenStep == TypeOK /\ Written /\ [Next]_vars => Written'
<1> SUFFICES ASSUME TypeOK, Written, [Next]_vars
             PROVE  Written'
  OBVIOUS
<1> USE DEF Goto, Quiet
<1>1. CASE Route \/ NotFound \/ Cookie \/ CORSHelper \/ PanicCatch \/ HandleAutoRange
  BY <1>1, ReadGoesOn DEF Route, NotFound, Cookie, CORSHelper, PanicCatch, HandleAutoRange, Early
<1>2. CASE Acceptance
  BY <1>2, AcceptanceEffect, ReadGoesOn DEF Early
<1>3. CASE PreCheck \/ Before \/ Index \/ After
  <2>1. ASSUME NEW from, NEW l, Callback(from, l),
               <<from, l>> \in {<<"preCheck", "before">>, <<"before", "index">>,
                                <<"index", "range">>, <<"after", "cors">>}
        PROVE  Written'
    BY <2>1, CallbackEffect, ReadGoesOn DEF Early
  <2>2. CASE /\ pc \in {"preCheck", "index"} /\ pc' \in {"before", "method"}
             /\ UNCHANGED <<todo, resp, separate, headed, fault, settled>> /\ Quiet
    BY <2>2, ReadGoesOn DEF Early
  <2> QED
    BY <1>3, <2>1, <2>2 DEF PreCheck, Before, Index, After
<1>4. CASE Method
  <2>1. CASE Callback("method", "range")
    BY <2>1, CallbackEffect, ReadGoesOn DEF Early
  <2>2. CASE /\ pc = "method" /\ separate' = TRUE /\ pc' = "sse"
             /\ UNCHANGED <<todo, resp, headed, fault, settled>> /\ Quiet
    BY <2>2 DEF Written, Writing, Early, Past
  <2>3. CASE /\ pc = "method" /\ pc' = "range"
             /\ UNCHANGED <<separate, headed, ret, active, wire, sent>>
    BY <2>3, ReadGoesOn DEF Early
  <2> QED
    BY <1>4, <2>1, <2>2, <2>3, Zenon DEF Method
<1>5. CASE CallWrite
  BY <1>5 DEF CallWrite, Written, Writing, Early, Past, TypeOK
<1>6. CASE WriteHeader
  BY <1>6 DEF WriteHeader, Written, Writing, Early, Past, TypeOK
<1>7. CASE WriteMessage
  BY <1>7 DEF WriteMessage, Written, Writing, Early, Past, TypeOK
<1>8. CASE EndMessages
  BY <1>8, ReadGoesOn DEF EndMessages, Early
<1>9. CASE LogWrite
  BY <1>9 DEF LogWrite, Written, Writing, Early, Past
<1>10. CASE GzipWrite
  BY <1>10 DEF GzipWrite, Written, Writing, Early, Past
<1>11. CASE UnsafeWrite
  BY <1>11, WrittenUnsafeWrite
<1>12. CASE Lose
  BY <1>12 DEF Lose, Written, Writing, Early, Past
<1>13. CASE Terminated \/ UNCHANGED vars
  BY <1>13 DEF Terminated, vars, Written, Writing, Early, Past
<1> QED
  BY <1>1, <1>2, <1>3, <1>4, <1>5, <1>6, <1>7, <1>8, <1>9, <1>10, <1>11, <1>12, <1>13 DEF Next

----------------------------------------------------------------------------
(* Who is blamed.                                                          *)

\* A fresh response is no error response.
LEMMA BlamedInit == Init => Blamed
BY DEF Init, Blamed, BlameFits, Empty, Body, None, TaskFaults, Early

\* Before the deferred _PanicCatch nothing of a failure is in the response.
LEMMA BlameComes ==
  ASSUME Written, Blamed, UNCHANGED wire, separate => separate',
         resp'.body.by = "error" => resp.body.by = "error" \/ fault' # "none",
         \/ fault' = fault /\ (Early' => Early)
         \/ fault' # "none" /\ ~Early',
         pc # "done", pc' \notin {"cookie", "write", "log", "gzip", "transport", "done"}
  PROVE  Blamed'
BY DEF Written, Blamed, BlameFits

\* After it the response keeps its maker, or was harmless and stays so.
LEMMA BlameStays ==
  ASSUME Blamed, UNCHANGED <<wire, separate, fault>>, ~separate => wire = <<>>,
         ~Early', pc' \notin {"cookie", "write"},
         separate \/ pc \in {"log", "gzip", "transport"},
         \/ resp'.body.by = resp.body.by /\ resp'.status = resp.status
         \/ separate /\ resp'.body.by # "error"
  PROVE  Blamed'
BY DEF Blamed, BlameFits

\* Only _ErrorCaught and the acceptances make an error response, and nothing
\* that runs after _ErrorCaught takes it back.
LEMMA BlamedStep == TypeOK /\ Written /\ Blamed /\ [Next]_vars => Blamed'
<1> SUFFICES ASSUME TypeOK, Written, Blamed, [Next]_vars
             PROVE  Blamed'
  OBVIOUS
<1> USE DEF Goto, Quiet
<1>a. ASSUME NEW from, NEW l, Callback(from, l),
             <<from, l>> \in {<<"preCheck", "before">>, <<"before", "index">>,
                              <<"index", "range">>, <<"method", "range">>, <<"after", "cors">>}
      PROVE  Blamed'
  BY <1>a, CallbackEffect, BlameComes DEF Early, TaskFaults
<1>1. CASE Route
  BY <1>1, BlameComes DEF Route, Early
<1>2. CASE NotFound
  <2>1. resp'.body = resp.body
    BY <1>2, StatedFields, Statuses DEF NotFound, Stated, TypeOK
  <2>2. fault = "none" /\ fault' = fault /\ ~Early'
    BY <1>2 DEF NotFound, Blamed, Early
  <2>3. wire = <<>> \/ separate
    BY <1>2 DEF NotFound, Written
  <2> QED
    BY <1>2, <2>1, <2>2, <2>3 DEF NotFound, Blamed, BlameFits, TaskFaults
<1>3. CASE Acceptance
  BY <1>3, AcceptanceEffect, BlameComes DEF Early
<1>4. CASE PreCheck \/ Before \/ Index \/ After
  <2>1. CASE /\ pc \in {"preCheck", "index"} /\ pc' \in {"before", "method"}
             /\ UNCHANGED <<todo, resp, separate, headed, fault, settled>> /\ Quiet
    BY <2>1, BlameComes DEF Early
  <2> QED
    BY <1>4, <1>a, <2>1 DEF PreCheck, Before, Index, After
<1>5. CASE Method
  <2>1. CASE Callback("method", "range")
    BY <1>a, <2>1
  <2>2. CASE /\ pc = "method" /\ pc' \in {"sse", "range"} /\ (separate => separate')
             /\ resp' = resp /\ fault' = fault /\ wire' = wire
    BY <2>2, BlameComes DEF Early
  <2>3. CASE /\ pc = "method" /\ pc' = "range" /\ \E f \in StaticFile(resp) : resp' = f[1]
             /\ UNCHANGED <<separate, fault, wire>>
    BY <2>3, StaticResponse, BlameComes DEF Early, TypeOK
  <2> QED
    BY <1>5, <2>1, <2>2, <2>3 DEF Method
<1>6. CASE HandleAutoRange
  BY <1>6, RangeResponse, BlameComes DEF HandleAutoRange, Early
<1>7. CASE CORSHelper
  BY <1>7, BlameComes DEF CORSHelper, Early
<1>8. CASE PanicCatch
  <2>1. pc = "catch" /\ pc' = "cookie" /\ UNCHANGED <<fault, wire, separate>>
    BY <1>8 DEF PanicCatch
  <2>2. wire = <<>> \/ separate
    BY <2>1 DEF Written
  <2>3. CASE fault \in TaskFaults
    <3>1. resp' = ResponseError(resp, fault)
      BY <1>8, <2>3 DEF PanicCatch, TaskFaults
    <3>2. /\ resp'.body.by = "error" /\ resp'.status = ErrorStatus(fault)
          /\ resp'.status >= 400 \/ fault = "notImplemented"
      BY <3>1, ErrorResponse DEF TypeOK
    <3> QED
      BY <2>1, <2>2, <2>3, <3>2 DEF Blamed, BlameFits, TaskFaults, Early
  <2>4. CASE fault \notin TaskFaults
    BY <1>8, <2>1, <2>2, <2>4 DEF PanicCatch, Blamed, BlameFits, Early
  <2> QED
    BY <2>3, <2>4
<1>9. CASE Cookie
  BY <1>9 DEF Cookie, Written, Blamed, BlameFits, Early
<1>10. CASE CallWrite
  <2>1. CASE separate
    BY <1>10, <2>1 DEF CallWrite, Blamed, BlameFits, Early
  <2>2. CASE ~separate
    <3>1. /\ resp' = Defaults(resp) /\ pc = "write" /\ pc' = "log"
          /\ UNCHANGED <<fault, wire, separate>> /\ wire = <<>>
      BY <1>10, <2>2 DEF CallWrite, Written
    <3>2. /\ resp.status # 404 => resp'.body = resp.body
          /\ resp'.body = resp.body \/ resp'.body.by = "page"
          /\ resp.status # 0 => resp'.status = resp.status
      BY <3>1, DefaultResponse DEF TypeOK
    <3>3. CASE fault \in TaskFaults
      <4>1. resp.status # 404 /\ (resp.status >= 400 \/ fault = "notImplemented")
        BY <3>1, <3>3, ErrorResponse DEF Blamed, TypeOK
      <4>2. resp'.body.by = "error" /\ (resp'.status >= 400 \/ fault = "notImplemented")
        BY <2>2, <3>1, <3>2, <3>3, <4>1 DEF Blamed, BlameFits
      <4> QED
        BY <2>2, <3>1, <3>3, <4>2 DEF Blamed, BlameFits, TaskFaults, Early
    <3>4. CASE fault \notin TaskFaults
      BY <2>2, <3>1, <3>2, <3>4 DEF Blamed, BlameFits, Early
    <3> QED
      BY <3>3, <3>4
  <2> QED
    BY <2>1, <2>2
<1>11. CASE WriteHeader
  <2>1. /\ separate /\ resp' = Defaults(resp) /\ ~Early' /\ pc' = "log"
        /\ UNCHANGED <<fault, wire, separate>>
    BY <1>11 DEF WriteHeader, Written, Early
  <2>2. resp'.body = resp.body \/ resp'.body.by = "page"
    BY <2>1, DefaultResponse DEF TypeOK
  <2> QED
    BY <2>1, <2>2 DEF Blamed, BlameFits
<1>12. CASE WriteMessage
  <2>1. /\ separate /\ resp' = Bodied(resp, Body("user", 1)) /\ ~Early' /\ pc' = "log"
        /\ UNCHANGED <<fault, wire, separate>>
    BY <1>12 DEF WriteMessage, Written, Bodied, Early
  <2>2. resp'.body.by # "error"
    <3>1. Body("user", 1) \in BodyType /\ Body("user", 1).by = "user"
      BY BodyFields
    <3> QED
      BY <2>1, <3>1, BodiedFields DEF TypeOK
  <2> QED
    BY <2>1, <2>2, BlameStays
<1>13. CASE EndMessages
  BY <1>13, BlameComes DEF EndMessages, Early, TaskFaults
<1>14. CASE LogWrite
  BY <1>14 DEF LogWrite, Written, Blamed, BlameFits, Early
<1>15. CASE GzipWrite
  BY <1>15, GzipResponse DEF GzipWrite, Written, Blamed, BlameFits, Early
<1>16. CASE UnsafeWrite
  <2>1. /\ pc = "transport" /\ pc' = ret /\ UNCHANGED <<resp, separate, fault>>
        /\ ret = IF separate THEN "sse" ELSE "done"
    BY <1>16 DEF UnsafeWrite, Written, Writing
  <2>2. CASE separate
    BY <2>1, <2>2 DEF Blamed, BlameFits, Early
  <2>3. CASE ~separate
    <3>1. wire = <<>>
      BY <2>1, <2>3 DEF Written
    <3>2. wire' = <<>> \/ wire' = wire \o <<TheHead, TheBody>>
      BY <1>16, <2>3, <3>1, Transported, Zenon
    <3>3. wire' = <<>> \/ wire' = <<TheHead, TheBody>>
      BY <3>1, <3>2
    <3>4. wire' # <<>> => wire'[2].body.by = resp.body.by /\ wire'[1].status = resp.status
      BY <3>3 DEF TheHead, TheBody
    <3> QED
      BY <2>1, <2>3, <3>4 DEF Blamed, BlameFits, Early
  <2> QED
    BY <2>2, <2>3
<1>17. CASE Lose
  BY <1>17 DEF Lose, Blamed, BlameFits, Early
<1>18. CASE Terminated \/ UNCHANGED vars
  BY <1>18 DEF Terminated, vars, Blamed, BlameFits, Early
<1> QED
  BY <1>1, <1>2, <1>3, <1>4, <1>5, <1>6, <1>7, <1>8, <1>9, <1>10, <1>11, <1>12, <1>13,
     <1>14, <1>15, <1>16, <1>17, <1>18 DEF Next

----------------------------------------------------------------------------
(* Ranges.                                                                 *)

\* A fresh response says nothing of a range.
LEMMA MeasuredInit == Init => Measured
BY DEF Init, Measured, Uncut, Plain, Partial, Empty, Body

\* Until the range nothing is said of one.
LEMMA Unmeasured ==
  ASSUME Written, UNCHANGED wire, separate => separate', pc # "done", pc' # "done",
         Early \/ pc \in {"sse", "range"} \/ (Writing /\ separate),
         Measured, Uncut(resp) => Uncut(resp')
  PROVE  Measured'
<1>1. Uncut(resp')
  BY DEF Measured
<1>2. wire = <<>> \/ separate
  BY DEF Written, Writing, Early
<1> QED
  BY <1>1, <1>2 DEF Measured, Uncut, Plain, Partial

\* After it a step keeps what the response says, takes it back, or is noted.
LEMMA StillMeasured ==
  ASSUME Measured, UNCHANGED <<req, separate>>, wire' = wire,
         wire = <<>> \/ separate \/ settled' = settled,
         ~Early', pc' \notin {"sse", "range"},
         Writing' /\ separate => Writing /\ (Uncut(resp) => Uncut(resp')),
         settled => settled',
         \/ settled'
         \/ Plain(resp')
         \/ /\ resp'.status = resp.status
            /\ resp'.clen = resp.clen /\ resp'.crange = resp.crange
            /\ resp'.body.off = resp.body.off /\ resp'.body.len = resp.body.len
            /\ resp'.body.of = resp.body.of /\ (resp.body.gz => resp'.body.gz)
  PROVE  Measured'
<1>1. Writing' /\ separate' => Uncut(resp')
  BY DEF Measured
<1>2. ~settled' => Partial(resp, resp.body)'
  BY DEF Measured, Partial, Plain
<1>3. ~separate' /\ wire' # <<>> /\ ~settled' => Partial(wire[1], wire[2].body)'
  BY DEF Measured, Partial
<1> QED
  BY <1>1, <1>2, <1>3 DEF Measured

\* Only the range makes a partial response, and what changes one afterwards is an
\* error, which takes another status, or After, which is noted.
LEMMA MeasuredStep == TypeOK /\ Written /\ Measured /\ [Next]_vars => Measured'
<1> SUFFICES ASSUME TypeOK, Written, Measured, [Next]_vars
             PROVE  Measured'
  OBVIOUS
<1> USE DEF Goto, Quiet
<1>a. ASSUME NEW from, NEW l, Callback(from, l),
             <<from, l>> \in {<<"preCheck", "before">>, <<"before", "index">>,
                              <<"index", "range">>, <<"method", "range">>}
      PROVE  Measured'
  BY <1>a, CallbackEffect, Unmeasured DEF Early
<1>1. CASE Route
  BY <1>1, Unmeasured DEF Route, Early
<1>2. CASE NotFound
  <2>1. Uncut(resp) => Uncut(resp')
    BY <1>2, StatedFields, Statuses DEF NotFound, Stated, TypeOK, Uncut, Plain
  <2> QED
    BY <1>2, <2>1, Unmeasured DEF NotFound, Early
<1>3. CASE Acceptance
  BY <1>3, AcceptanceEffect, Unmeasured DEF Early
<1>4. CASE PreCheck \/ Before \/ Index
  <2>1. CASE /\ pc \in {"preCheck", "index"} /\ pc' \in {"before", "method"}
             /\ UNCHANGED <<todo, resp, separate, headed, fault, settled>> /\ Quiet
    BY <2>1, Unmeasured DEF Early
  <2> QED
    BY <1>4, <1>a, <2>1 DEF PreCheck, Before, Index
<1>5. CASE Method
  <2>1. CASE Callback("method", "range")
    BY <1>a, <2>1
  <2>2. CASE /\ pc = "method" /\ pc' \in {"sse", "range"} /\ (separate => separate')
             /\ resp' = resp /\ wire' = wire
    BY <2>2, Unmeasured DEF Early
  <2>3. CASE /\ pc = "method" /\ pc' = "range" /\ \E f \in StaticFile(resp) : resp' = f[1]
             /\ UNCHANGED <<separate, wire>>
    BY <2>3, StaticResponse, Unmeasured DEF Early, TypeOK
  <2> QED
    BY <1>5, <2>1, <2>2, <2>3 DEF Method
<1>6. CASE HandleAutoRange
  <2>1. /\ pc = "range" /\ pc' = "after" /\ UNCHANGED <<separate, wire, settled>>
        /\ Uncut(resp) /\ (wire = <<>> \/ separate) /\ ~Writing' /\ ~Early'
    BY <1>6 DEF HandleAutoRange, Measured, Written, Writing, Early
  <2>2. Partial(resp, resp.body)'
    BY <1>6, <2>1, RangeResponse
  <2> QED
    BY <2>1, <2>2 DEF Measured
<1>7. CASE After
  <2>1. /\ pc = "after" /\ UNCHANGED <<wire, separate, req>> /\ pc' = "cors"
        /\ (resp' = resp \/ settled') /\ (settled => settled')
    BY <1>7, CallbackEffect DEF After
  <2>2. wire = <<>> \/ separate
    BY <2>1 DEF Written
  <2> QED
    BY <2>1, <2>2, StillMeasured DEF Early, Writing
<1>8. CASE CORSHelper \/ Cookie
  BY <1>8, StillMeasured DEF CORSHelper, Cookie, Early, Writing
<1>9. CASE PanicCatch
  <2>1. /\ pc = "catch" /\ pc' = "cookie" /\ UNCHANGED <<wire, separate, settled, req>>
    BY <1>9 DEF PanicCatch
  <2>2. CASE resp' = ResponseError(resp, fault)
    <3>1. Plain(resp')
      BY <2>2, ErrorResponse DEF TypeOK, Uncut
    <3> QED
      BY <2>1, <3>1, StillMeasured DEF Early, Writing
  <2>3. CASE UNCHANGED resp
    BY <2>1, <2>3, StillMeasured DEF Early, Writing
  <2> QED
    BY <1>9, <2>2, <2>3, Zenon DEF PanicCatch
<1>10. CASE CallWrite
  <2>1. CASE separate
    BY <1>10, <2>1, StillMeasured DEF CallWrite, Early, Writing
  <2>2. CASE ~separate
    <3>1. /\ resp' = Defaults(resp) /\ pc = "write" /\ pc' = "log"
          /\ UNCHANGED <<settled, wire, separate, req>>
      BY <1>10, <2>2 DEF CallWrite
    <3>2. resp' = resp \/ Plain(resp')
      BY <3>1, DefaultResponse DEF TypeOK
    <3> QED
      BY <2>2, <3>1, <3>2, StillMeasured DEF Early, Writing
  <2> QED
    BY <2>1, <2>2
<1>11. CASE WriteHeader
  <2>1. /\ pc = "sse" /\ pc' = "log" /\ resp' = Defaults(resp)
        /\ UNCHANGED <<wire, separate>>
    BY <1>11 DEF WriteHeader
  <2>2. Uncut(resp) => Uncut(resp')
    BY <2>1, DefaultResponse DEF TypeOK
  <2> QED
    BY <2>1, <2>2, Unmeasured DEF Early
<1>12. CASE WriteMessage
  <2>1. /\ pc = "sse" /\ pc' = "log" /\ resp' = Bodied(resp, Body("user", 1))
        /\ UNCHANGED <<wire, separate>>
    BY <1>12 DEF WriteMessage, Bodied
  <2>2. Uncut(resp) => Uncut(resp')
    <3> DEFINE b == Body("user", 1)
    <3>1. b \in BodyType /\ b.of = b.len
      BY BodyFields
    <3> HIDE DEF b
    <3>2. resp'.body = b /\ resp'.status = resp.status
      BY <2>1, <3>1, BodiedFields DEF TypeOK, b
    <3> QED
      BY <3>1, <3>2 DEF Uncut, Plain
  <2> QED
    BY <2>1, <2>2, Unmeasured DEF Early
<1>13. CASE EndMessages
  BY <1>13, Unmeasured DEF EndMessages, Early
<1>14. CASE LogWrite
  BY <1>14, StillMeasured DEF LogWrite, Early, Writing
<1>15. CASE GzipWrite
  BY <1>15, GzipResponse, StillMeasured DEF GzipWrite, Early, Writing, Uncut, Plain
<1>16. CASE UnsafeWrite
  <2>1. /\ pc = "transport" /\ pc' = ret /\ UNCHANGED <<req, resp, separate, settled>>
        /\ ret = IF separate THEN "sse" ELSE "done"
    BY <1>16 DEF UnsafeWrite, Written, Writing
  <2>2. CASE separate
    BY <2>1, <2>2 DEF Measured, Partial, Writing, Early
  <2>3. CASE ~separate
    <3>1. wire = <<>>
      BY <2>1, <2>3 DEF Written
    <3>2. wire' = <<>> \/ wire' = wire \o <<TheHead, TheBody>>
      BY <1>16, <2>3, <3>1, Transported
    <3>3. wire' = <<>> \/ wire' = <<TheHead, TheBody>>
      BY <3>1, <3>2
    <3>4. wire' # <<>> => /\ wire'[2].body = resp.body /\ wire'[1].status = resp.status
                          /\ wire'[1].clen = resp.clen /\ wire'[1].crange = resp.crange
      BY <3>3 DEF TheHead, TheBody
    <3> QED
      BY <2>1, <2>3, <3>4 DEF Measured, Partial, Writing, Early
  <2> QED
    BY <2>2, <2>3
<1>17. CASE Lose
  BY <1>17 DEF Lose, Measured, Partial, Writing, Early
<1>18. CASE Terminated \/ UNCHANGED vars
  BY <1>18 DEF Terminated, vars, Measured, Partial, Writing, Early
<1> QED
  BY <1>1, <1>2, <1>3, <1>4, <1>5, <1>6, <1>7, <1>8, <1>9, <1>10, <1>11, <1>12, <1>13,
     <1>14, <1>15, <1>16, <1>17, <1>18 DEF Next

----------------------------------------------------------------------------
(* The theorems.                                                           *)

\* The wire has one head, first, and otherwise bodies.
LEMMA WireCounted ==
  ASSUME TypeOK, Written
  PROVE  /\ wire = <<>> => Cardinality(Heads) = 0 /\ Cardinality(Bodies) = 0
         /\ wire # <<>> => /\ wire[1].kind = "head" /\ Cardinality(Heads) = 1
                           /\ Cardinality(Bodies) = Len(wire) - 1
<1>1. wire \in Seq(Entry) /\ separate \in BOOLEAN /\ Len(wire) \in Nat
  BY DEF TypeOK
<1>2. CASE wire = <<>>
  <2>1. Heads = {} /\ Bodies = {}
    BY <1>2 DEF Heads, Bodies
  <2> QED
    BY <1>2, <2>1, FS_EmptySet
<1>3. CASE wire # <<>>
  <2>1. /\ Len(wire) >= 1 /\ wire[1].kind = "head"
        /\ \A i \in 2..Len(wire) : wire[i].kind = "body"
    <3>1. CASE separate
      BY <1>1, <1>3, <3>1 DEF Written
    <3>2. CASE ~separate
      <4>1. Len(wire) = 2 /\ wire[1].kind = "head" /\ wire[2].kind = "body"
        BY <1>3, <3>2 DEF Written
      <4> QED
        BY <4>1
    <3> QED
      BY <1>1, <3>1, <3>2
  <2>2. Heads = {1}
    BY <1>1, <2>1 DEF Heads
  <2>3. Bodies = 2..Len(wire)
    BY <1>1, <2>1 DEF Bodies
  <2>4. Cardinality(2..Len(wire)) = Len(wire) - 1
    <3>1. 2 \in Int /\ Len(wire) \in Int
      BY <1>1
    <3>2. Cardinality(2..Len(wire)) = IF 2 > Len(wire) THEN 0 ELSE Len(wire) - 2 + 1
      BY <3>1, FS_Interval, Zenon
    <3> QED
      BY <1>1, <2>1, <3>2
  <2> QED
    BY <1>3, <2>1, <2>2, <2>3, <2>4, FS_Singleton, Zenon
<1> QED
  BY <1>2, <1>3

\* An answer is whole, and the wait for it ends.
LEMMA AnsweredOnceHolds == TypeOK /\ Written => AnsweredOnce
<1> SUFFICES ASSUME TypeOK, Written
             PROVE  AnsweredOnce
  OBVIOUS
<1>1. wire \in Seq(Entry) /\ Len(wire) \in Nat /\ sent \in Nat /\ separate \in BOOLEAN
  BY DEF TypeOK
<1>2. wire = <<>> <=> Len(wire) = 0
  BY <1>1
<1>3. pc = "passed" => wire = <<>>
  BY DEF Written, Early
<1>4. pc = "hung" => resp.hollow
  BY DEF Written
<1>5. CASE ~separate
  <2>1. /\ wire # <<>> => Len(wire) = 2
        /\ pc = "done" /\ active => wire # <<>>
    BY <1>5 DEF Written
  <2>2. /\ wire # <<>> => /\ Cardinality(Heads) = 1 /\ Cardinality(Bodies) = 1
                          /\ wire[1].kind = "head"
        /\ wire = <<>> => Cardinality(Heads) = 0 /\ Cardinality(Bodies) = 0
    <3>1. wire # <<>> => Len(wire) - 1 = 1
      BY <2>1
    <3>2. /\ wire # <<>> => /\ Cardinality(Heads) = 1 /\ Cardinality(Bodies) = Len(wire) - 1
                            /\ wire[1].kind = "head"
          /\ wire = <<>> => Cardinality(Heads) = 0 /\ Cardinality(Bodies) = 0
      BY WireCounted, Zenon
    <3> QED
      BY <3>1, <3>2, Zenon
  <2> QED
    BY <1>3, <1>4, <1>5, <2>1, <2>2 DEF AnsweredOnce
<1>6. CASE separate /\ ~headed
  <2>1. wire = <<>> /\ sent = 0
    BY <1>6 DEF Written
  <2> QED
    BY <1>3, <1>4, <1>6, <2>1, WireCounted DEF AnsweredOnce
<1>7. CASE separate /\ headed
  <2>1. Past <= sent /\ (pc = "done" => Past = sent)
    BY <1>1 DEF Past, Writing
  <2>2. Past \in Int
    BY <1>1 DEF Past
  <2>3. /\ wire # <<>> /\ Len(wire) - 1 <= sent
        /\ pc = "done" /\ active => Len(wire) - 1 = sent
    BY <1>1, <1>2, <1>7, <2>1, <2>2 DEF Written
  <2> QED
    BY <1>1, <1>3, <1>4, <1>7, <2>3, WireCounted DEF AnsweredOnce
<1> QED
  BY <1>1, <1>5, <1>6, <1>7

\* What the invariant says of errors is what the property asks.
LEMMA ErrorNotMaskedHolds == Blamed => ErrorNotMasked
BY DEF Blamed, BlameFits, ErrorNotMasked

\* Every reachable state of a request satisfies the inductive invariant: what is
\* on the wire, who made the response, and what it says of a range.
THEOREM Inductive == Spec => []IInv
<1>1. Init => IInv
  BY TypeInit, WrittenInit, BlamedInit, MeasuredInit DEF IInv
<1>2. IInv /\ [Next]_vars => IInv'
  BY TypeStep, WrittenStep, BlamedStep, MeasuredStep DEF IInv
<1> QED
  BY <1>1, <1>2, PTL DEF Spec

\* Every variable has its type: Read is at one of its places, and the body on
\* its way has a maker and a length.
THEOREM DispatchTyped == Spec => []TypeOK
<1>1. IInv => TypeOK
  BY DEF IInv
<1> QED
  BY <1>1, Inductive, PTL

\* A request that was not passed on is answered once, however its acceptances,
\* callbacks and deferred calls end and wherever the connection is lost.
THEOREM AnsweredExactlyOnce == Spec => []AnsweredOnce
<1>1. IInv => AnsweredOnce
  BY AnsweredOnceHolds DEF IInv
<1> QED
  BY <1>1, Inductive, PTL

\* An error or a panic of the task reaches the client as an error response, and
\* nothing else does.
THEOREM ErrorsReachClient == Spec => []ErrorNotMasked
<1>1. IInv => ErrorNotMasked
  BY ErrorNotMaskedHolds DEF IInv
<1> QED
  BY <1>1, Inductive, PTL

\* For every request, range and length of a body: a partial content is the bytes
\* that were asked for, its headers say which, and no range is refused that has a
\* byte, whatever fails afterwards and unless After changed the response.
THEOREM PartialContentRight == Spec => []PartialContentAsked
<1>1. IInv => PartialContentAsked
  BY DEF IInv, Measured, Partial, PartialContentAsked
<1> QED
  BY <1>1, Inductive, PTL

-----------------------------------------------------------------------------
(* The sessions.                                                           *)

Stage == {"idle", "running", "save", "clean", "store", "answer"}
Saving == {"save", "clean", "store"}
Named == Made \cup {NoSession}
Cookies == [id : Ids \cup {NoSession, "lost"}, ts : Int]

CleanerType == [on : BOOLEAN, must : SUBSET Ids, seen : SUBSET Ids, hit : SUBSET Ids]
RequestType == [at : Stage, sent : Cookies, cookie : Cookies, session : Ids \cup {NoSession},
                head : BOOLEAN, answer : Cookies, due : BOOLEAN]
CallType == [at : {"ready", "lock", "assign", "done"}, val : Ids \cup {NoSession}]

SessionsTypeOK ==
  /\ now \in Int /\ lastClean \in Int
  /\ Made \subseteq Ids /\ exp \in [Made -> Int]
  /\ store \subseteq Made
  /\ ended \subseteq Ids
  /\ cleaner \in [Cleaners -> CleanerType]
  /\ jar \in Cookies
  /\ reqs \in [Overlapping -> RequestType]
  /\ DOMAIN call = Overlapping
  /\ \A r \in Overlapping : call[r] \in [Callers[r] -> CallType]
  /\ arrived \in Int /\ changes \in Int

\* What is past its expiry, or about to be deleted, has ended.
Lapsed ==
  /\ \A id \in Made : exp[id] < now => id \in ended
  /\ \A k \in Cleaners : cleaner[k].hit \subseteq ended

\* A session that a request has, or gets, was made.
InUseMade(r) ==
  /\ reqs[r].session \in Named
  /\ \A c \in Callers[r] : /\ call[r][c].val \in Named
                           /\ call[r][c].at = "assign" => call[r][c].val # NoSession

\* Calls of Session are under way only while the request runs; one that has
\* not begun, or is over, has made none; and what is saved is there.
Staged(r) ==
  /\ reqs[r].at # "running" => NoCallOpen(r)
  /\ reqs[r].at = "idle" => \A c \in Callers[r] : call[r][c].at = "ready"
  /\ reqs[r].at \in Saving => reqs[r].session # NoSession

\* The header has the cookie that was sent until a session is made; while it has
\* it, the session is the one the cookie names, and so is what the browser has
\* after the answer, unless the head went out before the cookie of a new session.
Followed(r) ==
  LET q == reqs[r] IN
  /\ q.cookie \in {NoCookie, q.sent}
  /\ q.at = "running" /\ q.cookie # NoCookie =>
       /\ q.session \in {NoSession, q.cookie.id}
       /\ \A c \in Callers[r] : call[r][c].at = "assign" => call[r][c].val = q.cookie.id
  /\ q.at \in Saving /\ (q.head => q.cookie # NoCookie) =>
                        IF q.answer = NoCookie THEN q.sent.id = q.session
                        ELSE q.answer.id = q.session

\* One call at a time is between the lock and its end; unless the request was
\* renewed there is no session then, and calls that are done returned it.
Agreed(r) ==
  \A c, d \in Callers[r] :
    /\ call[r][c].at = "assign" /\ call[r][d].at = "assign" => c = d
    /\ r \notin renewed =>
         /\ call[r][c].at = "assign" => reqs[r].session = NoSession
         /\ call[r][c].at = "done" =>
              reqs[r].session # NoSession /\ call[r][c].val = reqs[r].session

RequestInv == \A r \in Overlapping : InUseMade(r) /\ Staged(r) /\ Followed(r) /\ Agreed(r)

SessionsInv == SessionsTypeOK /\ RequestInv /\ Lapsed /\ LiveSessionKept

-----------------------------------------------------------------------------
(* Type correctness.                                                       *)

\* The initial state has the types TypeOK states.
LEMMA SessionsTypeInit == SessionsInit => SessionsTypeOK
<1> SUFFICES ASSUME SessionsInit PROVE SessionsTypeOK
  OBVIOUS
<1> USE IdsAssumption, TimesAssumption DEF SessionsInit, Made, NoCookie, NoSession
<1>1. ASSUME exp = <<>>, store = {}, lastClean = -CleanEvery - 1,
             jar \in {NoCookie, [id |-> "lost", ts |-> Expire]}
      PROVE  lastClean \in Int /\ jar \in Cookies /\ Made \subseteq Ids
             /\ exp \in [Made -> Int] /\ store \subseteq Made
  <2>1. jar \in Cookies
    BY <1>1 DEF Cookies
  <2> QED BY <1>1, <2>1
<1>2. ASSUME NEW id \in Ids, exp = [i \in {id} |-> Expire], store = {id}, lastClean = 0,
             jar = [id |-> id, ts |-> Expire]
      PROVE  lastClean \in Int /\ jar \in Cookies /\ Made \subseteq Ids
             /\ exp \in [Made -> Int] /\ store \subseteq Made
  BY <1>2 DEF Cookies
<1>3. cleaner \in [Cleaners -> CleanerType]
  BY DEF CleanerType, NoCleaner
<1>4. reqs \in [Overlapping -> RequestType]
  BY DEF RequestType, NoRequest, Cookies, Stage
<1>5. DOMAIN call = Overlapping /\ \A r \in Overlapping : call[r] \in [Callers[r] -> CallType]
  BY DEF CallType, NoCall
<1>6. lastClean \in Int /\ jar \in Cookies /\ Made \subseteq Ids
      /\ exp \in [Made -> Int] /\ store \subseteq Made
  BY <1>1, <1>2, Zenon
<1>7. now \in Int /\ arrived \in Int /\ changes \in Int /\ ended \subseteq Ids
  OBVIOUS
<1> QED BY <1>3, <1>4, <1>5, <1>6, <1>7, Zenon DEF SessionsTypeOK

\* Starting a cleaner keeps the types of what it writes.
LEMMA CleanSessionsType ==
  ASSUME SessionsTypeOK, NEW due, CleanSessions(due)
  PROVE  /\ lastClean' \in Int
         /\ cleaner' \in [Cleaners -> CleanerType]
         /\ \A k \in Cleaners : cleaner'[k].hit = {} \/ cleaner'[k].hit = cleaner[k].hit
<1>1. CASE due
  <2>1. PICK k \in Cleaners :
          cleaner' = [cleaner EXCEPT ![k] = [NoCleaner EXCEPT !.on = TRUE, !.must = store]]
    BY <1>1 DEF CleanSessions
  <2>2. [NoCleaner EXCEPT !.on = TRUE, !.must = store] \in CleanerType
    BY Zenon DEF SessionsTypeOK, CleanerType, NoCleaner
  <2>3. [NoCleaner EXCEPT !.on = TRUE, !.must = store].hit = {}
    BY DEF NoCleaner
  <2> QED BY <1>1, <2>1, <2>2, <2>3 DEF CleanSessions, SessionsTypeOK
<1>2. CASE ~due
  BY <1>2 DEF CleanSessions, SessionsTypeOK
<1> QED BY <1>1, <1>2

\* A session made is new, known by its id, and in the provider from the start.
LEMMA NewSessionFacts ==
  ASSUME SessionsTypeOK, NEW id \in Ids, NewSession(id)
  PROVE  /\ id \notin Made /\ Made' = Made \cup {id}
         /\ exp' \in [Made' -> Int] /\ Made' \subseteq Ids
         /\ \A i \in Made : exp'[i] = exp[i]
         /\ exp'[id] = now + Expire
         /\ store' = store \cup {id} /\ store' \subseteq Made'
         /\ lastClean' \in Int /\ cleaner' \in [Cleaners -> CleanerType]
         /\ \A k \in Cleaners : cleaner'[k].hit = {} \/ cleaner'[k].hit = cleaner[k].hit
<1>1. PICK due \in DueNow : CleanSessions(due)
  BY DEF NewSession
<1>2. /\ lastClean' \in Int /\ cleaner' \in [Cleaners -> CleanerType]
      /\ \A k \in Cleaners : cleaner'[k].hit = {} \/ cleaner'[k].hit = cleaner[k].hit
  BY <1>1, CleanSessionsType
<1>3. id \notin Made /\ Made' = Made \cup {id}
  BY DEF NewSession, Made
<1>4. /\ exp' \in [Made' -> Int] /\ Made' \subseteq Ids
      /\ \A i \in Made : exp'[i] = exp[i]
      /\ exp'[id] = now + Expire
  BY <1>3, TimesAssumption DEF NewSession, SessionsTypeOK
<1> QED BY <1>2, <1>3, <1>4 DEF NewSession, SessionsTypeOK

\* Every step of the clock, a request or a cleaner keeps the types.
LEMMA SessionsTypeStep ==
  SessionsTypeOK /\ RequestInv /\ [SessionsNext]_sessionsVars => SessionsTypeOK'
<1> SUFFICES ASSUME SessionsTypeOK, RequestInv, [SessionsNext]_sessionsVars PROVE SessionsTypeOK'
  OBVIOUS
<1>t. /\ now \in Int /\ lastClean \in Int
      /\ Made \subseteq Ids /\ exp \in [Made -> Int]
      /\ store \subseteq Made /\ ended \subseteq Ids
      /\ cleaner \in [Cleaners -> CleanerType] /\ jar \in Cookies
      /\ reqs \in [Overlapping -> RequestType]
      /\ DOMAIN call = Overlapping
      /\ \A r \in Overlapping : call[r] \in [Callers[r] -> CallType]
      /\ arrived \in Int /\ changes \in Int
  BY DEF SessionsTypeOK
<1>m. UNCHANGED exp => UNCHANGED Made
  BY DEF Made
<1>n. NoCookie \in Cookies /\ NoRequest \in RequestType /\ NoCall \in CallType
  BY DEF NoCookie, Cookies, NoRequest, RequestType, Stage, NoCall, CallType, NoSession
<1>1. CASE Tick
  BY <1>1, <1>t, <1>m, TimesAssumption DEF SessionsTypeOK, Tick, Later
<1>2. ASSUME NEW r \in Overlapping, RequestStep(r) PROVE SessionsTypeOK'
  <2>q. /\ reqs[r] \in RequestType /\ call[r] \in [Callers[r] -> CallType]
        /\ reqs[r].session \in Ids \cup {NoSession} /\ reqs[r].answer \in Cookies
    BY <1>t DEF RequestType
  <2>1. CASE Arrive(r)
    <3>1. reqs' \in [Overlapping -> RequestType]
      BY <2>1, <1>t, <1>n, Zenon DEF Arrive, RequestType, Stage
    <3> QED BY <2>1, <3>1, <1>t, <1>m DEF SessionsTypeOK, Arrive
  <2>2. CASE RenewSession(r)
    <3>1. PICK id \in Ids : NewSession(id)
                            /\ reqs' = [reqs EXCEPT ![r] = [Stripped(r) EXCEPT !.session = id]]
      BY <2>2, Zenon DEF RenewSession
    <3>2. reqs' \in [Overlapping -> RequestType]
      BY <3>1, <1>t, <1>n, <2>q, Zenon DEF Stripped, RequestType
    <3>3. changes' \in Int
      BY <2>2, <1>t DEF RenewSession, Change
    <3>4. /\ exp' \in [Made' -> Int] /\ Made' \subseteq Ids /\ store' \subseteq Made'
          /\ lastClean' \in Int /\ cleaner' \in [Cleaners -> CleanerType]
      BY <3>1, NewSessionFacts
    <3> QED BY <2>2, <3>2, <3>3, <3>4, <1>t DEF SessionsTypeOK, RenewSession
  <2>3. CASE SetExpire(r)
    <3>1. PICK t \in {now - 1, now + Expire} : exp' = [exp EXCEPT ![reqs[r].session] = t]
      BY <2>3, Zenon DEF SetExpire
    <3>2. t \in Int
      BY <1>t, TimesAssumption
    <3>3. exp' \in [Made -> Int] /\ Made' = Made
      BY <3>1, <3>2, <1>t, Zenon DEF Made
    <3>4. ended' \subseteq Ids
      BY <2>3, <1>t, <2>q DEF SetExpire
    <3>5. changes' \in Int
      BY <2>3, <1>t DEF SetExpire, Change
    <3> QED BY <2>3, <3>3, <3>4, <3>5, <1>t DEF SessionsTypeOK, SetExpire
  <2>4. CASE Delete(r)
    BY <2>4, <1>t, <1>m DEF SessionsTypeOK, Delete, Change
  <2>5. ASSUME NEW c \in Callers[r],
               SessionCall(r, c) \/ SessionAgain(r, c) \/ GetSession(r, c) \/ SessionAssign(r, c)
        PROVE  SessionsTypeOK'
    <3>c. call[r][c].at \in {"ready", "lock", "assign", "done"}
          /\ call[r][c].val \in Ids \cup {NoSession}
      BY <2>q DEF CallType
    <3>d. ASSUME NEW x \in CallType, call' = [call EXCEPT ![r][c] = x]
          PROVE  DOMAIN call' = Overlapping
                 /\ \A q \in Overlapping : call'[q] \in [Callers[q] -> CallType]
      BY <3>d, <1>t
    <3>1. CASE SessionCall(r, c)
      <4>1. PICK x \in CallType : call' = [call EXCEPT ![r][c] = x]
        BY <3>1, <2>q, Zenon DEF SessionCall, CallType
      <4> QED BY <3>1, <4>1, <3>d, <1>t, <1>m DEF SessionsTypeOK, SessionCall
    <3>2. CASE SessionAgain(r, c)
      <4>1. PICK x \in CallType : call' = [call EXCEPT ![r][c] = x]
        BY <3>2, <2>q, Zenon DEF SessionAgain, CallType
      <4> QED BY <3>2, <4>1, <3>d, <1>t, <1>m DEF SessionsTypeOK, SessionAgain
    <3>3. CASE GetSession(r, c)
      <4>1. CASE UNCHANGED <<exp, store, lastClean, cleaner, reqs>>
                 /\ call' = [call EXCEPT ![r][c] = [at |-> "assign", val |-> reqs[r].cookie.id]]
                 /\ reqs[r].cookie.id \in store
        <5>1. [at |-> "assign", val |-> reqs[r].cookie.id] \in CallType
          BY <4>1, <1>t DEF CallType
        <5> QED BY <3>3, <4>1, <5>1, <3>d, <1>t, <1>m DEF SessionsTypeOK, GetSession
      <4>2. CASE \E id \in Ids :
                   /\ NewSession(id)
                   /\ call' = [call EXCEPT ![r][c] = [at |-> "assign", val |-> id]]
                   /\ reqs' = [reqs EXCEPT ![r] = Stripped(r)]
        <5>1. PICK id \in Ids :
                   /\ NewSession(id)
                   /\ call' = [call EXCEPT ![r][c] = [at |-> "assign", val |-> id]]
                   /\ reqs' = [reqs EXCEPT ![r] = Stripped(r)]
          BY <4>2, Zenon
        <5>2. [at |-> "assign", val |-> id] \in CallType
          BY DEF CallType
        <5>3. reqs' \in [Overlapping -> RequestType]
          BY <5>1, <1>t, <1>n, <2>q, Zenon DEF Stripped, RequestType
        <5>4. /\ exp' \in [Made' -> Int] /\ Made' \subseteq Ids /\ store' \subseteq Made'
              /\ lastClean' \in Int /\ cleaner' \in [Cleaners -> CleanerType]
          BY <5>1, NewSessionFacts
        <5> QED BY <3>3, <5>1, <5>2, <5>3, <5>4, <3>d, <1>t DEF SessionsTypeOK, GetSession
      <4> QED BY <3>3, <4>1, <4>2 DEF GetSession
    <3>4. CASE SessionAssign(r, c)
      <4>1. reqs' \in [Overlapping -> RequestType]
        BY <3>4, <1>t, <2>q, <3>c DEF SessionAssign, RequestType
      <4>2. DOMAIN call' = Overlapping
            /\ \A q \in Overlapping : call'[q] \in [Callers[q] -> CallType]
        BY <3>4, <1>t, <2>q DEF SessionAssign, CallType
      <4> QED BY <3>4, <4>1, <4>2, <1>t, <1>m DEF SessionsTypeOK, SessionAssign
    <3> QED BY <2>5, <3>1, <3>2, <3>3, <3>4
  <2>6. CASE UpdateSessionCookie(r)
    <3>1. [id |-> reqs[r].session, ts |-> now + Expire] \in Cookies
      BY <2>q, <1>t, TimesAssumption DEF Cookies
    <3>2. reqs' \in [Overlapping -> RequestType]
      BY <2>6, <3>1, <1>t, <1>n, <2>q, Zenon DEF UpdateSessionCookie, RequestType, Stage
    <3> QED BY <2>6, <3>2, <1>t, <1>m DEF SessionsTypeOK, UpdateSessionCookie
  <2>7. CASE SaveTest(r)
    <3>1. PICK due \in DueNow : reqs' = [reqs EXCEPT ![r].at = "clean", ![r].due = due]
      BY <2>7, Zenon DEF SaveTest
    <3>2. due \in BOOLEAN
      <4>1. Due \in BOOLEAN
        BY DEF Due
      <4> QED BY <3>1, <4>1, Zenon DEF DueNow
    <3>3. reqs' \in [Overlapping -> RequestType]
      BY <3>1, <3>2, <1>t, <2>q, Zenon DEF RequestType, Stage
    <3> QED BY <2>7, <3>3, <1>t, <1>m DEF SessionsTypeOK, SaveTest
  <2>8. CASE SaveClean(r)
    <3>1. reqs' \in [Overlapping -> RequestType]
      BY <2>8, <1>t, <2>q DEF SaveClean, RequestType, Stage
    <3>2. lastClean' \in Int /\ cleaner' \in [Cleaners -> CleanerType]
      BY <2>8, CleanSessionsType DEF SaveClean
    <3> QED BY <2>8, <3>1, <3>2, <1>t, <1>m DEF SessionsTypeOK, SaveClean
  <2>9. CASE SaveStore(r)
    <3>1. reqs' \in [Overlapping -> RequestType]
      BY <2>9, <1>t, <2>q DEF SaveStore, RequestType, Stage
    <3>2. reqs[r].session \in Made
      BY <2>9 DEF SaveStore, RequestInv, InUseMade, Named, Staged, Saving
    <3>3. store' \subseteq Made
      BY <2>9, <3>2, <1>t DEF SaveStore
    <3> QED BY <2>9, <3>1, <3>3, <1>t, <1>m DEF SessionsTypeOK, SaveStore
  <2>10. CASE Answer(r)
    <3>1. reqs' \in [Overlapping -> RequestType]
      BY <2>10, <1>t, <1>n DEF Answer
    <3>2. DOMAIN call' = Overlapping
          /\ \A q \in Overlapping : call'[q] \in [Callers[q] -> CallType]
      BY <2>10, <1>t, <1>n DEF Answer
    <3> QED BY <2>10, <3>1, <3>2, <2>q, <1>t, <1>m DEF SessionsTypeOK, Answer
  <2>11. CASE WriteHead(r)
    <3>1. reqs' \in [Overlapping -> RequestType]
      BY <2>11, <1>t, <2>q, Zenon DEF WriteHead, RequestType
    <3> QED BY <2>11, <3>1, <1>t, <1>m DEF SessionsTypeOK, WriteHead
  <2> QED BY <1>2, <2>1, <2>2, <2>3, <2>4, <2>5, <2>6, <2>7, <2>8, <2>9, <2>10, <2>11 DEF RequestStep
<1>3. ASSUME NEW k \in Cleaners, CleanerStep(k) PROVE SessionsTypeOK'
  <2>k. cleaner[k] \in CleanerType
    BY <1>t
  <2>1. CASE CleanerLook(k)
    <3>1. PICK id \in Ids :
            cleaner' = [cleaner EXCEPT ![k].seen = @ \cup {id},
                                       ![k].hit = IF IsExpire(id) THEN {id} ELSE {}]
      BY <2>1, <1>t DEF CleanerLook
    <3>2. cleaner' \in [Cleaners -> CleanerType]
      BY <3>1, <2>k, <1>t DEF CleanerType
    <3> QED BY <2>1, <3>2, <1>t, <1>m DEF SessionsTypeOK, CleanerLook
  <2>2. CASE CleanerDelete(k)
    <3>1. cleaner' \in [Cleaners -> CleanerType]
      BY <2>2, <2>k, <1>t DEF CleanerDelete, CleanerType
    <3> QED BY <2>2, <3>1, <1>t, <1>m DEF SessionsTypeOK, CleanerDelete
  <2>3. CASE CleanerEnd(k)
    <3>1. cleaner' \in [Cleaners -> CleanerType]
      BY <2>3, <2>k, <1>t DEF CleanerEnd, CleanerType, NoCleaner
    <3> QED BY <2>3, <3>1, <1>t, <1>m DEF SessionsTypeOK, CleanerEnd
  <2> QED BY <1>3, <2>1, <2>2, <2>3 DEF CleanerStep
<1>4. CASE UNCHANGED sessionsVars
  BY <1>4, <1>t, <1>m DEF SessionsTypeOK, sessionsVars
<1> QED BY <1>1, <1>2, <1>3, <1>4 DEF SessionsNext

-----------------------------------------------------------------------------
(* The sessions of a request.                                              *)

\* A request begins without a session and without calls.
LEMMA RequestInit == SessionsInit => RequestInv
BY DEF SessionsInit, RequestInv, InUseMade, Named, Staged, NoCallOpen, Followed, Agreed,
       NoRequest, NoCall, NoCookie, NoSession, Saving

\* Sessions made are not forgotten.
LEMMA MadeGrows == SessionsTypeOK /\ [SessionsNext]_sessionsVars => Made \subseteq Made'
<1> SUFFICES ASSUME SessionsTypeOK, [SessionsNext]_sessionsVars PROVE Made \subseteq Made'
  OBVIOUS
<1>m. UNCHANGED exp => Made \subseteq Made'
  BY DEF Made
<1>n. ASSUME NEW id \in Ids, NewSession(id) PROVE Made \subseteq Made'
  BY <1>n, NewSessionFacts
<1>1. ASSUME NEW r \in Overlapping, RequestStep(r) PROVE Made \subseteq Made'
  <2>1. CASE RenewSession(r) BY <2>1, <1>n DEF RenewSession
  <2>2. CASE SetExpire(r) BY <2>2 DEF SetExpire, Made
  <2>3. ASSUME NEW c \in Callers[r], GetSession(r, c) PROVE Made \subseteq Made'
    BY <2>3, <1>m, <1>n DEF GetSession
  <2> QED
    BY <1>1, <1>m, <2>1, <2>2, <2>3
    DEF RequestStep, Arrive, Delete, SessionCall, SessionAgain, SessionAssign,
        WriteHead, UpdateSessionCookie, SaveTest, SaveClean, SaveStore, Answer
<1> QED
  BY <1>1, <1>m
     DEF SessionsNext, Tick, CleanerStep, CleanerLook, CleanerDelete, CleanerEnd, sessionsVars

\* A step of request r leaves the other requests and their calls alone.
LEMMA OthersUntouched ==
  ASSUME SessionsTypeOK, NEW r \in Overlapping, RequestStep(r), NEW q \in Overlapping, q # r
  PROVE  reqs'[q] = reqs[q] /\ call'[q] = call[q] /\ (q \in renewed' <=> q \in renewed)
BY DEF SessionsTypeOK, RequestStep, Arrive, RenewSession, SetExpire, Delete, SessionCall, SessionAgain,
       GetSession, SessionAssign, WriteHead, UpdateSessionCookie, SaveTest, SaveClean, SaveStore, Answer

\* What a request has stays right while it does nothing.
LEMMA RequestUntouched ==
  ASSUME NEW q \in Overlapping, RequestInv, Made \subseteq Made',
         reqs'[q] = reqs[q], call'[q] = call[q], q \in renewed' <=> q \in renewed
  PROVE  InUseMade(q)' /\ Staged(q)' /\ Followed(q)' /\ Agreed(q)'
BY DEF RequestInv, InUseMade, Named, Staged, NoCallOpen, Followed, Agreed

\* Each operation of a request keeps its session, its cookies and its calls in
\* step with each other.
LEMMA RequestStepInv ==
  ASSUME SessionsTypeOK, RequestInv, Made \subseteq Made', NEW r \in Overlapping, RequestStep(r)
  PROVE  InUseMade(r)' /\ Staged(r)' /\ Followed(r)' /\ Agreed(r)'
<1>t. /\ reqs \in [Overlapping -> RequestType] /\ reqs[r] \in RequestType
      /\ DOMAIN call = Overlapping /\ call[r] \in [Callers[r] -> CallType]
      /\ jar \in Cookies
  BY DEF SessionsTypeOK
<1>i. InUseMade(r) /\ Staged(r) /\ Followed(r) /\ Agreed(r)
  BY DEF RequestInv
<1> USE <1>t, <1>i
<1> USE DEF InUseMade, Named, Staged, NoCallOpen, Followed, Agreed, Saving
<1>1. CASE Arrive(r)
  <2>1. reqs'[r] = [NoRequest EXCEPT !.at = "running", !.sent = jar, !.cookie = jar]
        /\ reqs[r].at = "idle" /\ UNCHANGED <<call, renewed>>
    BY <1>1 DEF Arrive
  <2>2. /\ reqs'[r].at = "running" /\ reqs'[r].sent = jar /\ reqs'[r].cookie = jar
        /\ reqs'[r].session = NoSession
    BY <2>1 DEF NoRequest
  <2>3. \A c \in Callers[r] : call'[r][c].at = "ready" /\ call'[r][c].val \in Named'
    BY <2>1
  <2> QED BY <2>2, <2>3
<1>2. CASE RenewSession(r)
  <2>1. PICK id \in Ids : NewSession(id)
                          /\ reqs' = [reqs EXCEPT ![r] = [Stripped(r) EXCEPT !.session = id]]
    BY <1>2, Zenon DEF RenewSession
  <2>2. /\ reqs'[r].at = reqs[r].at /\ reqs[r].at = "running"
        /\ reqs'[r].cookie = NoCookie /\ reqs'[r].session = id
    BY <1>2, <2>1, Zenon DEF RenewSession, Change, Stripped, RequestType
  <2>3. id \in Made' /\ r \in renewed' /\ UNCHANGED call
    BY <1>2, <2>1, NewSessionFacts DEF RenewSession
  <2> QED BY <2>2, <2>3
<1>3. ASSUME NEW c \in Callers[r], SessionCall(r, c) \/ SessionAgain(r, c)
      PROVE  InUseMade(r)' /\ Staged(r)' /\ Followed(r)' /\ Agreed(r)'
  <2>1. /\ UNCHANGED <<reqs, renewed>> /\ call[r][c].at \in {"ready", "lock"}
        /\ reqs[r].at = "running"
        /\ \/ reqs[r].session # NoSession
              /\ call' = [call EXCEPT ![r][c] = [at |-> "done", val |-> reqs[r].session]]
           \/ call' = [call EXCEPT ![r][c] = [at |-> "lock", val |-> NoSession]]
    BY <1>3 DEF SessionCall, SessionAgain
  <2>2. \A d \in Callers[r] : d # c => call'[r][d] = call[r][d]
    BY <2>1
  <2>3. CASE reqs[r].session # NoSession
             /\ call'[r][c] = [at |-> "done", val |-> reqs[r].session]
    BY <2>1, <2>2, <2>3
  <2>4. CASE call'[r][c] = [at |-> "lock", val |-> NoSession]
    BY <2>1, <2>2, <2>4
  <2> QED BY <2>1, <2>3, <2>4
<1>4. ASSUME NEW c \in Callers[r], GetSession(r, c)
      PROVE  InUseMade(r)' /\ Staged(r)' /\ Followed(r)' /\ Agreed(r)'
  <2>1. /\ UNCHANGED renewed /\ reqs[r].session = NoSession /\ reqs[r].at = "running"
        /\ \A d \in Callers[r] : call[r][d].at # "assign"
    BY <1>4 DEF GetSession, NeedsSession, Locked
  <2>2. CASE /\ Honoured(reqs[r].cookie) /\ reqs[r].cookie.id \in store
             /\ call' = [call EXCEPT ![r][c] = [at |-> "assign", val |-> reqs[r].cookie.id]]
             /\ UNCHANGED reqs
    <3>1. reqs[r].cookie.id # NoSession /\ reqs[r].cookie.id \in Made'
      BY <2>2 DEF Honoured, SessionsTypeOK
    <3>2. /\ call'[r][c] = [at |-> "assign", val |-> reqs[r].cookie.id]
          /\ \A d \in Callers[r] : d # c => call'[r][d] = call[r][d]
      BY <2>2
    <3> QED BY <2>1, <2>2, <3>1, <3>2
  <2>3. ASSUME NEW id \in Ids, NewSession(id),
               call' = [call EXCEPT ![r][c] = [at |-> "assign", val |-> id]],
               reqs' = [reqs EXCEPT ![r] = Stripped(r)]
        PROVE  InUseMade(r)' /\ Staged(r)' /\ Followed(r)' /\ Agreed(r)'
    <3>1. id # NoSession /\ id \in Made'
      BY <2>3, NewSessionFacts, IdsAssumption DEF NoSession
    <3>2. /\ call'[r][c] = [at |-> "assign", val |-> id]
          /\ \A d \in Callers[r] : d # c => call'[r][d] = call[r][d]
      BY <2>3
    <3>3. /\ reqs'[r].at = reqs[r].at /\ reqs'[r].cookie = NoCookie
          /\ reqs'[r].session = reqs[r].session
      BY <2>3 DEF Stripped, RequestType
    <3> QED BY <2>1, <3>1, <3>2, <3>3
  <2> QED BY <1>4, <2>2, <2>3 DEF GetSession
<1>5. ASSUME NEW c \in Callers[r], SessionAssign(r, c)
      PROVE  InUseMade(r)' /\ Staged(r)' /\ Followed(r)' /\ Agreed(r)'
  <2>1. /\ call[r][c].at = "assign" /\ UNCHANGED renewed
        /\ reqs'[r] = [reqs[r] EXCEPT !.session = call[r][c].val]
        /\ call'[r] = [call[r] EXCEPT ![c] = [call[r][c] EXCEPT !.at = "done"]]
    BY <1>5 DEF SessionAssign
  <2>2. /\ reqs'[r].at = reqs[r].at /\ reqs'[r].cookie = reqs[r].cookie
        /\ reqs'[r].sent = reqs[r].sent /\ reqs'[r].session = call[r][c].val
        /\ reqs[r].at = "running"
    BY <2>1 DEF RequestType
  <2>3. /\ call'[r][c].at = "done" /\ call'[r][c].val = call[r][c].val
        /\ \A d \in Callers[r] : d # c => call'[r][d] = call[r][d]
    BY <2>1 DEF CallType
  <2>4. \A d \in Callers[r] : d # c => call[r][d].at # "assign"
    BY <2>1
  <2>5. r \notin renewed => \A d \in Callers[r] : call[r][d].at # "done"
    BY <2>1
  <2> QED BY <2>1, <2>2, <2>3, <2>4, <2>5
<1>6. CASE UpdateSessionCookie(r)
  <2>1. reqs[r].at = "running" /\ NoCallOpen(r) /\ UNCHANGED <<call, renewed>>
    BY <1>6 DEF UpdateSessionCookie
  <2>2. CASE reqs[r].session = NoSession
    <3>1. reqs'[r] = [reqs[r] EXCEPT !.at = "answer"]
      BY <1>6, <2>2 DEF UpdateSessionCookie
    <3>2. /\ reqs'[r].at = "answer" /\ reqs'[r].session = reqs[r].session
          /\ reqs'[r].cookie = reqs[r].cookie /\ reqs'[r].sent = reqs[r].sent
      BY <3>1 DEF RequestType
    <3> QED BY <2>1, <3>2
  <2>3. CASE reqs[r].session # NoSession
    <3> DEFINE answer == IF Stale(reqs[r].cookie) /\ ~reqs[r].head
                         THEN [id |-> reqs[r].session, ts |-> now + Expire] ELSE NoCookie
    <3>1. reqs'[r] = [reqs[r] EXCEPT !.at = "save", !.answer = answer]
      BY <1>6, <2>3 DEF UpdateSessionCookie
    <3>2. /\ reqs'[r].at = "save" /\ reqs'[r].session = reqs[r].session
          /\ reqs'[r].cookie = reqs[r].cookie /\ reqs'[r].sent = reqs[r].sent
          /\ reqs'[r].head = reqs[r].head /\ reqs'[r].answer = answer
      BY <3>1 DEF RequestType
    <3>3. CASE Stale(reqs[r].cookie) /\ ~reqs[r].head
      <4>1. answer.id = reqs[r].session /\ answer # NoCookie
        BY <2>3, <3>3 DEF NoCookie
      <4> QED BY <2>1, <2>3, <3>2, <4>1
    <3>4. CASE reqs[r].cookie # NoCookie /\ ~(Stale(reqs[r].cookie) /\ ~reqs[r].head)
      <4>1. reqs[r].cookie # NoCookie /\ answer = NoCookie
        BY <3>4
      <4>2. reqs[r].sent.id = reqs[r].session
        BY <2>1, <2>3, <4>1
      <4> HIDE DEF answer
      <4> QED BY <2>1, <2>3, <3>2, <4>1, <4>2
    <3>5. CASE reqs[r].cookie = NoCookie /\ reqs[r].head
      <4> HIDE DEF answer
      <4> QED BY <2>1, <2>3, <3>2, <3>5
    <3> QED BY <3>3, <3>4, <3>5 DEF Stale
  <2> QED BY <2>2, <2>3
<1>7. CASE SaveTest(r) \/ SaveClean(r) \/ SaveStore(r)
  <2> DEFINE Kept == /\ reqs'[r].at \in Saving \cup {"answer"}
                     /\ reqs'[r].session = reqs[r].session /\ reqs'[r].cookie = reqs[r].cookie
                     /\ reqs'[r].sent = reqs[r].sent /\ reqs'[r].answer = reqs[r].answer
                     /\ reqs'[r].head = reqs[r].head
  <2>1. reqs[r].at \in Saving /\ UNCHANGED <<call, renewed>>
    BY <1>7 DEF SaveTest, SaveClean, SaveStore
  <2>2. ASSUME SaveTest(r) PROVE Kept
    <3>1. PICK due \in DueNow : reqs'[r] = [reqs[r] EXCEPT !.at = "clean", !.due = due]
      BY <2>2 DEF SaveTest
    <3> QED BY <3>1 DEF RequestType
  <2>3. ASSUME SaveClean(r) PROVE Kept
    <3>1. reqs'[r] = [reqs[r] EXCEPT !.at = "store", !.due = FALSE]
      BY <2>3 DEF SaveClean
    <3> QED BY <3>1 DEF RequestType
  <2>4. ASSUME SaveStore(r) PROVE Kept
    <3>1. reqs'[r] = [reqs[r] EXCEPT !.at = "answer"]
      BY <2>4 DEF SaveStore
    <3> QED BY <3>1 DEF RequestType
  <2>5. Kept
    BY <1>7, <2>2, <2>3, <2>4
  <2> QED BY <2>1, <2>5
<1>8. CASE Answer(r)
  <2>1. reqs'[r] = NoRequest /\ call'[r] = [c \in Callers[r] |-> NoCall]
    BY <1>8 DEF Answer
  <2>2. /\ reqs'[r].at = "idle" /\ reqs'[r].session = NoSession
        /\ reqs'[r].cookie = NoCookie
    BY <2>1 DEF NoRequest
  <2>3. \A c \in Callers[r] : call'[r][c].at = "ready" /\ call'[r][c].val = NoSession
    BY <2>1 DEF NoCall
  <2> QED BY <2>2, <2>3
<1>9. CASE SetExpire(r) \/ Delete(r)
  BY <1>9 DEF SetExpire, Delete
<1>10. CASE WriteHead(r)
  <2>1. /\ UNCHANGED <<call, renewed>> /\ reqs[r].at = "running"
        /\ reqs'[r] = [reqs[r] EXCEPT !.head = TRUE]
    BY <1>10 DEF WriteHead
  <2>2. /\ reqs'[r].at = reqs[r].at /\ reqs'[r].session = reqs[r].session
        /\ reqs'[r].cookie = reqs[r].cookie /\ reqs'[r].sent = reqs[r].sent
    BY <2>1 DEF RequestType
  <2> QED BY <2>1, <2>2
<1> QED BY <1>1, <1>2, <1>3, <1>4, <1>5, <1>6, <1>7, <1>8, <1>9, <1>10 DEF RequestStep

\* Every step keeps RequestInv.
LEMMA RequestInvStep == SessionsTypeOK /\ RequestInv /\ [SessionsNext]_sessionsVars => RequestInv'
<1> SUFFICES ASSUME SessionsTypeOK, RequestInv, [SessionsNext]_sessionsVars, NEW q \in Overlapping
             PROVE  InUseMade(q)' /\ Staged(q)' /\ Followed(q)' /\ Agreed(q)'
  BY DEF RequestInv
<1>m. Made \subseteq Made'
  BY MadeGrows
<1>1. ASSUME NEW r \in Overlapping, RequestStep(r)
      PROVE  InUseMade(q)' /\ Staged(q)' /\ Followed(q)' /\ Agreed(q)'
  <2>1. CASE q = r BY <1>1, <1>m, <2>1, RequestStepInv
  <2>2. CASE q # r
    <3>1. reqs'[q] = reqs[q] /\ call'[q] = call[q] /\ (q \in renewed' <=> q \in renewed)
      BY <1>1, <2>2, OthersUntouched
    <3> QED BY <1>m, <3>1, RequestUntouched
  <2> QED BY <2>1, <2>2
<1>2. CASE UNCHANGED <<reqs, call, renewed>>
  BY <1>m, <1>2, RequestUntouched
<1> QED
  BY <1>1, <1>2
     DEF SessionsNext, Tick, CleanerStep, CleanerLook, CleanerDelete, CleanerEnd, sessionsVars

-----------------------------------------------------------------------------
(* What is in the provider.                                                *)

\* At first nothing has lapsed, and the session made before is stored.
LEMMA KeptInit == SessionsInit => Lapsed /\ LiveSessionKept
<1> SUFFICES ASSUME SessionsInit PROVE Lapsed /\ LiveSessionKept
  OBVIOUS
<1>1. now = 0 /\ \A k \in Cleaners : cleaner[k].hit = {}
  BY DEF SessionsInit, NoCleaner
<1>2. Made = store /\ \A id \in Made : exp[id] = Expire
  <2>1. CASE exp = <<>> /\ store = {}
    BY <2>1 DEF Made
  <2>2. ASSUME NEW id \in Ids, exp = [i \in {id} |-> Expire], store = {id}
        PROVE  Made = store /\ \A i \in Made : exp[i] = Expire
    BY <2>2 DEF Made
  <2> QED BY <2>1, <2>2, Zenon DEF SessionsInit
<1> QED BY <1>1, <1>2, TimesAssumption DEF Lapsed, LiveSessionKept

\* A session made just now is stored, and does not lapse at once.
LEMMA NewSessionKept ==
  ASSUME SessionsTypeOK, Lapsed, LiveSessionKept, NEW id \in Ids, NewSession(id),
         UNCHANGED <<now, ended>>
  PROVE  (Lapsed /\ LiveSessionKept)'
<1>1. /\ Made' = Made \cup {id} /\ store' = store \cup {id}
      /\ \A i \in Made : exp'[i] = exp[i]
      /\ exp'[id] = now + Expire
      /\ \A k \in Cleaners : cleaner'[k].hit = {} \/ cleaner'[k].hit = cleaner[k].hit
  BY NewSessionFacts
<1>2. ~(exp'[id] < now)
  BY <1>1, TimesAssumption DEF SessionsTypeOK
<1> QED BY <1>1, <1>2 DEF Lapsed, LiveSessionKept

\* Every step keeps both: only what has ended leaves the provider.
LEMMA KeptStep ==
  SessionsTypeOK /\ RequestInv /\ Lapsed /\ LiveSessionKept /\ [SessionsNext]_sessionsVars
    => (Lapsed /\ LiveSessionKept)'
<1> SUFFICES ASSUME SessionsTypeOK, RequestInv, Lapsed, LiveSessionKept, [SessionsNext]_sessionsVars
             PROVE  (Lapsed /\ LiveSessionKept)'
  OBVIOUS
<1>t. /\ now \in Int /\ exp \in [Made -> Int] /\ store \subseteq Made
      /\ cleaner \in [Cleaners -> CleanerType]
  BY DEF SessionsTypeOK
<1>u. ASSUME UNCHANGED <<now, exp, cleaner, ended>>, store \subseteq store'
      PROVE  (Lapsed /\ LiveSessionKept)'
  BY <1>u DEF Lapsed, LiveSessionKept, Made
<1>1. CASE Tick
  BY <1>1 DEF Tick, Lapsed, LiveSessionKept, Made
<1>2. ASSUME NEW r \in Overlapping, RequestStep(r) PROVE (Lapsed /\ LiveSessionKept)'
  <2>1. CASE RenewSession(r)
    BY <2>1, NewSessionKept DEF RenewSession
  <2>2. CASE SetExpire(r)
    <3>1. PICK t \in {now - 1, now + Expire} :
            /\ exp' = [exp EXCEPT ![reqs[r].session] = t]
            /\ ended' = IF t < now THEN ended \cup {reqs[r].session} ELSE ended
      BY <2>2, Zenon DEF SetExpire
    <3>2. Made' = Made /\ UNCHANGED <<now, store, cleaner>>
      BY <2>2, <3>1 DEF SetExpire, Made
    <3>3. \A id \in Made : id # reqs[r].session => exp'[id] = exp[id]
      BY <3>1, <1>t
    <3>4. reqs[r].session \in Made => exp'[reqs[r].session] = t
      BY <3>1, <1>t
    <3> QED BY <3>1, <3>2, <3>3, <3>4 DEF Lapsed, LiveSessionKept
  <2>3. CASE Delete(r)
    BY <2>3 DEF Delete, Lapsed, LiveSessionKept, Made
  <2>4. ASSUME NEW c \in Callers[r], GetSession(r, c) PROVE (Lapsed /\ LiveSessionKept)'
    BY <2>4, <1>u, NewSessionKept DEF GetSession
  <2>5. CASE SaveClean(r)
    <3>1. UNCHANGED <<now, exp, store, ended>>
          /\ \A k \in Cleaners : cleaner'[k].hit = {} \/ cleaner'[k].hit = cleaner[k].hit
      BY <2>5, CleanSessionsType DEF SaveClean
    <3> QED BY <3>1 DEF Lapsed, LiveSessionKept, Made
  <2> QED
    BY <1>2, <1>u, <2>1, <2>2, <2>3, <2>4, <2>5
    DEF RequestStep, Arrive, SessionCall, SessionAgain, SessionAssign, WriteHead, UpdateSessionCookie,
        SaveTest, SaveStore, Answer
<1>3. ASSUME NEW k \in Cleaners, CleanerStep(k) PROVE (Lapsed /\ LiveSessionKept)'
  <2>k. cleaner[k] \in CleanerType
    BY <1>t
  <2>1. CASE CleanerLook(k)
    <3>1. PICK id \in store :
            cleaner' = [cleaner EXCEPT ![k].seen = @ \cup {id},
                                       ![k].hit = IF IsExpire(id) THEN {id} ELSE {}]
      BY <2>1, Zenon DEF CleanerLook
    <3>2. cleaner'[k].hit \subseteq ended
      BY <3>1, <2>k, <1>t DEF CleanerType, IsExpire, Lapsed
    <3>3. \A j \in Cleaners : j # k => cleaner'[j] = cleaner[j]
      BY <3>1, <1>t
    <3> QED BY <2>1, <3>2, <3>3, Zenon DEF CleanerLook, Lapsed, LiveSessionKept, Made
  <2>2. CASE CleanerDelete(k)
    <3>1. \A j \in Cleaners : cleaner'[j].hit = cleaner[j].hit \/ cleaner'[j].hit = {}
      BY <2>2, <2>k, <1>t DEF CleanerDelete, CleanerType
    <3> QED BY <2>2, <3>1 DEF CleanerDelete, Lapsed, LiveSessionKept, Made
  <2>3. CASE CleanerEnd(k)
    <3>1. \A j \in Cleaners : cleaner'[j].hit = cleaner[j].hit \/ cleaner'[j].hit = {}
      BY <2>3, <2>k, <1>t DEF CleanerEnd, NoCleaner
    <3> QED BY <2>3, <3>1 DEF CleanerEnd, Lapsed, LiveSessionKept, Made
  <2> QED BY <1>3, <2>1, <2>2, <2>3 DEF CleanerStep
<1>4. CASE UNCHANGED sessionsVars
  BY <1>4, <1>u DEF sessionsVars
<1> QED BY <1>1, <1>2, <1>3, <1>4 DEF SessionsNext

-----------------------------------------------------------------------------
(* The theorems.                                                           *)

\* The initial states satisfy the inductive invariant.
LEMMA SessionsInvInit == SessionsInit => SessionsInv
BY SessionsTypeInit, RequestInit, KeptInit DEF SessionsInv

\* Every step keeps it.
LEMMA SessionsInvStep == SessionsInv /\ [SessionsNext]_sessionsVars => SessionsInv'
<1> SUFFICES ASSUME SessionsInv, [SessionsNext]_sessionsVars PROVE SessionsInv'
  OBVIOUS
<1>1. SessionsTypeOK' /\ RequestInv'
  BY SessionsTypeStep, RequestInvStep DEF SessionsInv
<1>2. (Lapsed /\ LiveSessionKept)'
  BY KeptStep DEF SessionsInv
<1> QED BY <1>1, <1>2 DEF SessionsInv

\* Every reachable state has it.
LEMMA SessionsInvHolds == SessionsSpec => []SessionsInv
BY SessionsInvInit, SessionsInvStep, PTL DEF SessionsSpec

\* The clock, the requests, their calls, the provider and its cleaners keep their
\* types: in particular what is stored was made (SessionProvider.sessions).
THEOREM SessionsTyped == SessionsSpec => []SessionsTypeOK
<1>1. SessionsInv => SessionsTypeOK
  BY DEF SessionsInv
<1> QED BY <1>1, SessionsInvHolds, PTL

\* However saves, cleaners and requests overlap, a session that was neither
\* deleted nor ever past its expiry is in the provider (cleanSessions, Save).
THEOREM LiveKept == SessionsSpec => []LiveSessionKept
<1>1. SessionsInv => LiveSessionKept
  BY DEF SessionsInv
<1> QED BY <1>1, SessionsInvHolds, PTL

\* What the browser has after a response names the session the request saved,
\* unless the response was streamed and the session not the cookie's (_NewSession,
\* _UpdateSessionCookie, which is deferred).
THEOREM CookieNames == SessionsSpec => []CookieNamesSession
<1>1. SessionsInv => CookieNamesSession
  BY DEF SessionsInv, RequestInv, Followed, CookieNamesSession, Saving
<1> QED BY <1>1, SessionsInvHolds, PTL

\* The goroutines of a request that was not renewed get the same session
\* (Request.Session, tested again with the lock).
THEOREM OneSession == SessionsSpec => []OneSessionPerRequest
<1>1. SessionsInv => OneSessionPerRequest
  BY DEF SessionsInv, RequestInv, Agreed, OneSessionPerRequest
<1> QED BY <1>1, SessionsInvHolds, PTL

=============================================================================
