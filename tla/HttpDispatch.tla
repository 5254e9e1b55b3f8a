---------------------------- MODULE HttpDispatch ----------------------------
(***************************************************************************)
(* One HTTP request on its way through DispatchHandler.Read                *)
(* (ghttp/httpdispatchhandler.go): acceptances, the callbacks of its task  *)
(* (ghttp/httphandlertask.go), the deferred calls that follow them however *)
(* they end, and the way of the response through LogHandler, GZipHandler   *)
(* and the channel to net/http's writer.  Instead of one answer a task may *)
(* write server-sent events, one write at a time.                          *)
(*                                                                         *)
(* A body is who made it, which piece of a content it is (where it begins, *)
(* its length, the content's length), and whether it is compressed.  User  *)
(* code does to the response what it likes and ends as it likes: with nil, *)
(* with an error, or with a panic.                                         *)
(***************************************************************************)
EXTENDS Integers, Sequences, FiniteSets

CONSTANTS Requests,    \* the requests, as the route answers them
          Lengths,     \* lengths of the bodies that user code sets
          FileLen,     \* length of a static file
          ErrorLen,    \* length of the JSON of an error response
          PageLen,     \* length of the page for 404
          Threshold,   \* shorter bodies are not compressed (128)
          MaxMessages  \* bound: server-sent events of a request

Optional(S) == S \subseteq Nat /\ \A m, n \in S : m = n

\* What net/http has parsed: a number of a range is there or not.
ASSUME RequestsAssumption ==
  \A q \in Requests :
    /\ q.task \in {"user", "static", "other"} /\ q.acceptances \in Nat
    /\ q.range.kind \in {"none", "bad", "bytes"}
    /\ Optional(q.range.first) /\ Optional(q.range.last)
ASSUME LengthsAssumption ==
  /\ Lengths \subseteq Nat
  /\ {FileLen, ErrorLen, PageLen, Threshold, MaxMessages} \subseteq Nat

VARIABLES
  req,       \* the request
  pc,        \* where Read is
  todo,      \* acceptances still to be asked
  resp,      \* Response: status, body, Content-Length and Content-Range (sets, of
             \* at most one), a header without value
  separate,  \* Pack.writeSeparateMode
  headed,    \* Response.headerWritten
  fault,     \* how user code failed: "none"; an error that was "returned", or
             \* "notImplemented", or "thrown" (a panic with an error); "panic";
             \* or an acceptance that "refused" or made an "interrupt"
  ret,       \* where the write under way returns to
  active,    \* the channel is active: else its writes fail
  wire,      \* what net/http's writer got
  cache,     \* StaticFilesHandlerTask.cacheMap holds the file
  sent,      \* history: server-sent events that were written
  settled    \* history: After changed the response

vars == <<req, pc, todo, resp, separate, headed, fault, ret, active, wire, cache,
          sent, settled>>

None == "none"
Body(by, len) == [by |-> by, off |-> 0, len |-> len, of |-> len, gz |-> FALSE]
Empty == Body(None, 0)

Methods == {"GET", "POST", "PUT", "DELETE", "OPTIONS", "PATCH", "TRACE", "CONNECT"}

\* ServeHTTP has wrapped the request and made a new response.
Init ==
  /\ req \in Requests
  /\ pc = "route"
  /\ todo = req.acceptances
  /\ resp = [status |-> 0, body |-> Empty, clen |-> {}, crange |-> {},
             hollow |-> FALSE]
  /\ separate = FALSE /\ headed = FALSE
  /\ fault = "none"
  /\ ret = None
  /\ active = TRUE
  /\ wire = <<>>
  /\ cache \in {FALSE, req.task = "static"}
  /\ sent = 0
  /\ settled = FALSE

Goto(l) == pc' = l
Quiet == UNCHANGED <<ret, wire, cache, sent, active, req>>

----------------------------------------------------------------------------
(* What callbacks do.                                                      *)

\* Responses after a callback of a user's task or acceptance: untouched, a
\* status and body, either alone, or a header set to no value.
Touched(r) ==
  {r} \cup {[r EXCEPT !.status = 200, !.body = Body("user", n)] : n \in Lengths}
      \cup {[r EXCEPT !.body = Body("user", n)] : n \in Lengths}
      \cup {[r EXCEPT !.status = 404], [r EXCEPT !.hollow = TRUE]}

\* StaticFilesHandlerTask.Get and _Load: the cached file or the one found, a
\* path outside the folder or no such file, or a file that cannot be read.
StaticFile(r) ==
  LET served == [r EXCEPT !.status = 200, !.body = Body("user", FileLen)]
  IN IF cache THEN {<<served, TRUE>>, <<[r EXCEPT !.status = 404], TRUE>>}
     ELSE {<<served, TRUE>>, <<[r EXCEPT !.status = 404], FALSE>>,
           <<[r EXCEPT !.status = 500], FALSE>>}

\* Failures of the task's own callbacks.
TaskFaults == {"returned", "notImplemented", "thrown", "panic"}

\* The status of the error response for a failure: 400 stands for any status
\* an error may have, but NotImplemented has none.
ErrorStatus(f) == CASE f = "panic" -> 500 [] f = "notImplemented" -> 0 [] OTHER -> 400

\* Response.ResponseError; the headers that are set stay.
ResponseError(r, f) ==
  [r EXCEPT !.status = ErrorStatus(f), !.body = Body("error", ErrorLen)]

\* A callback changes the response and then goes on to l, or fails: an error
\* is returned to Read, a panic unwinds to the deferred calls.
Callback(from, l) ==
  /\ pc = from
  /\ \E r \in Touched(resp) :
       /\ req.task = "user" \/ r = resp
       /\ resp' = r
       /\ settled' = (settled \/ (from = "after" /\ r # resp))
  /\ \/ Goto(l) /\ UNCHANGED fault
     \/ /\ req.task = "user"
        /\ Goto("cors")
        /\ fault' \in TaskFaults
  /\ UNCHANGED <<todo, separate, headed>> /\ Quiet

----------------------------------------------------------------------------
(* DispatchHandler.Read.                                                   *)

\* A task that is not for HTTP is left to the handlers behind.
Route ==
  /\ pc = "route" /\ req.found
  /\ Goto(IF req.task = "other" THEN "passed" ELSE "accept")
  /\ UNCHANGED <<todo, resp, separate, headed, fault, settled>> /\ Quiet

\* A path without an endpoint.
NotFound ==
  /\ pc = "route" /\ ~req.found
  /\ resp' = [resp EXCEPT !.status = 404]
  /\ Goto("cookie")
  /\ UNCHANGED <<todo, separate, headed, fault, settled>> /\ Quiet

\* An acceptance may let the request pass, interrupt it, refuse it with an
\* error response, which is used unless a status is set already, refuse it
\* with any other error, or panic.
Acceptance ==
  /\ pc = "accept"
  /\ \/ /\ todo = 0 \/ (req.method = "OPTIONS" /\ req.skipOptions)
        /\ Goto("preCheck")
        /\ UNCHANGED <<todo, resp, fault>>
     \/ /\ todo > 0 /\ ~(req.method = "OPTIONS" /\ req.skipOptions)
        /\ \E r \in Touched(resp) :
             \/ resp' = r /\ todo' = todo - 1 /\ UNCHANGED <<pc, fault>>
             \/ /\ Goto("cors") /\ UNCHANGED todo
                /\ \/ resp' = r /\ fault' \in {"interrupt", "thrown", "panic"}
                   \/ resp' = r /\ fault' = "refused"
                   \/ /\ resp' = IF r.status = 0 THEN ResponseError(r, "refused") ELSE r
                      /\ fault' = "refused"
  /\ UNCHANGED <<separate, headed, settled>> /\ Quiet

\* invokeMethod.
PreCheck ==
  \/ ~(req.method = "OPTIONS" /\ req.skipPreCheck) /\ Callback("preCheck", "before")
  \/ /\ pc = "preCheck" /\ req.method = "OPTIONS" /\ req.skipPreCheck
     /\ Goto("before")
     /\ UNCHANGED <<todo, resp, separate, headed, fault, settled>> /\ Quiet

Before == Callback("before", "index")

\* Index for GET and Create for POST, if the path ends with the node's name:
\* what they do not implement is left to Get and Post.
Index ==
  \/ /\ req.method \in {"GET", "POST"} /\ req.isLast /\ req.task = "user"
     /\ Callback("index", "range")
  \/ /\ pc = "index"
     /\ Goto("method")
     /\ UNCHANGED <<todo, resp, separate, headed, fault, settled>> /\ Quiet

\* The method's callback, none if the method is unknown.  A user's may turn to
\* server-sent events, as far as it has not failed.
Method ==
  \/ req.method \in Methods /\ req.task = "user" /\ Callback("method", "range")
  \/ /\ pc = "method" /\ req.method \in Methods /\ req.task = "user"
     /\ separate' = TRUE
     /\ Goto("sse")
     /\ UNCHANGED <<todo, resp, headed, fault, settled>> /\ Quiet
  \/ /\ pc = "method" /\ req.method = "GET" /\ req.task = "static"
     /\ \E f \in StaticFile(resp) : resp' = f[1] /\ cache' = f[2]
     /\ Goto("range")
     /\ UNCHANGED <<req, todo, separate, headed, fault, settled, ret, active, wire, sent>>
  \/ /\ pc = "method"
     /\ req.method \notin Methods \/ (req.task = "static" /\ req.method # "GET")
     /\ Goto("range")
     /\ UNCHANGED <<todo, resp, separate, headed, fault, settled>> /\ Quiet

\* ParseRange, for "bytes=first-last" with either number left out (an empty
\* set); the rest of what it refuses is the kind "bad".
ParseRange(spec, size) ==
  LET no == [valid |-> FALSE, start |-> 0, end |-> 0]
      yes(a, b) == [valid |-> TRUE, start |-> a, end |-> b]
      first == CHOOSE n \in spec.first : TRUE
      last == CHOOSE n \in spec.last : TRUE
  IN CASE spec.kind = "bad" \/ spec.first \cup spec.last = {} -> no
       [] spec.kind # "bad" /\ spec.first = {} /\ spec.last # {} ->
            IF last = 0 THEN no
            ELSE yes(IF last > size THEN 0 ELSE size - last, size - 1)
       [] spec.kind # "bad" /\ spec.first # {} /\ spec.last = {} ->
            IF first >= size THEN no ELSE yes(first, size - 1)
       [] OTHER -> IF last < first \/ first >= size THEN no
                   ELSE yes(first, IF last >= size THEN size - 1 ELSE last)

\* Mutant of Slice: the end of the range taken for the excluded end of a Go slice.
SliceShort(body, p) == [body EXCEPT !.off = p.start, !.len = p.end - p.start]

\* The content from start to end, end included.
Slice(body, p) == [body EXCEPT !.off = p.start, !.len = p.end + 1 - p.start]

\* The headers state the range and the length of the piece.
HandleAutoRange ==
  /\ pc = "range"
  /\ resp' = IF resp.body.len = 0 \/ req.range.kind = None THEN resp
             ELSE LET size == resp.body.len
                      p == ParseRange(req.range, size)
                      piece == Slice(resp.body, p)
                  IN IF p.valid
                     THEN [resp EXCEPT !.status = 206, !.body = piece, !.clen = {piece.len},
                             !.crange = {[first |-> p.start, last |-> p.end, size |-> size]}]
                     ELSE [resp EXCEPT !.status = 416]
  /\ Goto("after")
  /\ UNCHANGED <<todo, separate, headed, fault, settled>> /\ Quiet

After == Callback("after", "cors")

----------------------------------------------------------------------------
(* The deferred calls, last one first.                                     *)

CORSHelper ==
  /\ pc = "cors"
  /\ Goto("catch")
  /\ fault' \in {fault} \cup (IF req.task = "user" THEN {"panic"} ELSE {})
  /\ UNCHANGED <<todo, resp, separate, headed, settled>> /\ Quiet

\* Mutant of PanicCatch: a status that was set already is kept.
PanicCatchKeeps ==
  /\ pc = "catch"
  /\ resp' = IF fault \in TaskFaults /\ resp.status = 0 THEN ResponseError(resp, fault)
             ELSE resp
  /\ Goto("cookie")
  /\ UNCHANGED <<todo, separate, headed, fault, settled>> /\ Quiet

\* _PanicCatch: a panic or an error that the task returned goes to the task's
\* ErrorCaught, whose default makes it the response.  What an acceptance
\* returned does not.
PanicCatch ==
  /\ pc = "catch"
  /\ \/ /\ fault \in TaskFaults
        /\ resp' = ResponseError(resp, fault)
     \/ /\ fault \in {"none", "interrupt", "refused"}
        /\ UNCHANGED resp
  /\ Goto("cookie")
  /\ UNCHANGED <<todo, separate, headed, fault, settled>> /\ Quiet

\* _UpdateSessionCookie is in module Sessions.
Cookie ==
  /\ pc = "cookie"
  /\ Goto("write")
  /\ UNCHANGED <<todo, resp, separate, headed, fault, settled>> /\ Quiet

\* The defaults of callWrite and callWriteHeader: a page for a bare 404, and a
\* status.
Defaults(r) ==
  LET paged == IF r.status = 404 /\ r.body.len = 0
               THEN [r EXCEPT !.body = Body("page", PageLen)] ELSE r
  IN IF paged.status = 0 THEN [paged EXCEPT !.status = 200] ELSE paged

\* Mutant of CallWrite: separate mode is not left alone.
CallWriteAlways ==
  /\ pc = "write"
  /\ resp' = Defaults(resp) /\ Goto("log") /\ ret' = "done"
  /\ UNCHANGED <<req, todo, separate, headed, fault, active, wire, cache, sent, settled>>

CallWrite ==
  /\ pc = "write"
  /\ \/ /\ separate
        /\ Goto("done") /\ UNCHANGED <<resp, ret>>
     \/ /\ ~separate
        /\ resp' = Defaults(resp) /\ Goto("log") /\ ret' = "done"
  /\ UNCHANGED <<req, todo, separate, headed, fault, active, wire, cache, sent, settled>>

----------------------------------------------------------------------------
(* Server-sent events.                                                     *)

\* WriteMessage writes the header first.  An empty message, or an empty list of
\* them, writes nothing (and fails); WriteHeader does nothing the second time.
WriteMessage ==
  /\ pc = "sse" /\ headed /\ sent < MaxMessages
  /\ resp' = [resp EXCEPT !.body = Body("user", 1)]
  /\ Goto("log") /\ ret' = "sse"
  /\ sent' = sent + 1
  /\ UNCHANGED <<req, todo, separate, headed, fault, active, wire, cache, settled>>

WriteHeader ==
  /\ pc = "sse" /\ ~headed
  /\ resp' = Defaults(resp)
  /\ Goto("log") /\ ret' = "sse"
  /\ UNCHANGED <<req, todo, separate, headed, fault, active, wire, cache, sent, settled>>

\* The callback that writes events ends like any other.
EndMessages ==
  /\ pc = "sse"
  /\ \/ Goto("range") /\ UNCHANGED fault
     \/ Goto("cors") /\ fault' \in TaskFaults
  /\ UNCHANGED <<todo, resp, separate, headed, settled>> /\ Quiet

----------------------------------------------------------------------------
(* The write of a pack, from the dispatcher outwards; its caller waits.    *)

\* LogHandler.Write reads the first value of every header: a header without
\* one makes it panic, and it recovers without passing the write on, so that
\* the caller's Sync never returns.  A filter may leave the request alone.
LogWrite ==
  /\ pc = "log"
  /\ \/ Goto("gzip")
     \/ resp.hollow /\ Goto("hung")
  /\ UNCHANGED <<todo, resp, separate, headed, fault, settled>> /\ Quiet

\* GZipHandler.Write: the constant, not CompressThreshold, decides.
GzipWrite ==
  /\ pc = "gzip"
  /\ resp' = IF resp.body.len >= Threshold /\ ~separate /\ req.gzip
             THEN [resp EXCEPT !.body.gz = TRUE] ELSE resp
  /\ Goto("transport")
  /\ UNCHANGED <<todo, separate, headed, fault, settled>> /\ Quiet

\* Channel.UnsafeWrite: head and body at once, or one of them.  The write of a
\* channel that went down fails instead; the caller's wait is over either way.
UnsafeWrite ==
  /\ pc = "transport"
  /\ LET head == [kind |-> "head", status |-> resp.status, clen |-> resp.clen,
                  crange |-> resp.crange]
         body == [kind |-> "body", body |-> resp.body]
     IN \/ /\ active
           /\ wire' = CASE separate /\ ~headed -> Append(wire, head)
                        [] separate /\ headed -> Append(wire, body)
                        [] OTHER -> wire \o <<head, body>>
           /\ headed' = (headed \/ separate)
        \/ /\ ~active
           /\ UNCHANGED <<wire, headed>>
  /\ Goto(ret)
  /\ ret' = None
  /\ UNCHANGED <<req, todo, resp, separate, fault, active, cache, sent, settled>>

\* The connection is lost; the channel goes down.
Lose ==
  /\ active /\ pc \notin {"done", "hung", "passed"}
  /\ active' = FALSE
  /\ UNCHANGED <<req, pc, todo, resp, separate, headed, fault, ret, wire, cache, sent,
                 settled>>

----------------------------------------------------------------------------
Terminated == pc \in {"done", "hung", "passed"} /\ UNCHANGED vars

Next ==
  \/ Route \/ NotFound \/ Acceptance \/ PreCheck \/ Before \/ Index \/ Method
  \/ HandleAutoRange \/ After
  \/ CORSHelper \/ PanicCatch \/ Cookie \/ CallWrite
  \/ WriteHeader \/ WriteMessage \/ EndMessages
  \/ LogWrite \/ GzipWrite \/ UnsafeWrite
  \/ Lose \/ Terminated

Spec == Init /\ [][Next]_vars

----------------------------------------------------------------------------
(* Properties.                                                             *)

\* Where the heads and the bodies are on the wire.
Heads == {i \in 1..Len(wire) : wire[i].kind = "head"}
Bodies == {i \in 1..Len(wire) : wire[i].kind = "body"}

\* Whatever acceptances, callbacks and panics did, a request that was not
\* passed on is answered once: one head and one body, or one head and then each
\* event once.  Nothing is written twice on the way, and nothing but a header
\* without a value keeps Read from returning.
AnsweredOnce ==
  /\ Cardinality(Heads) <= 1 /\ (wire # <<>> => wire[1].kind = "head")
  /\ Cardinality(Bodies) <= IF separate THEN sent ELSE 1
  /\ pc = "passed" => wire = <<>>
  /\ pc = "hung" => resp.hollow
  /\ pc = "done" /\ active =>
       IF separate THEN Cardinality(Bodies) = sent
       ELSE Cardinality(Heads) = 1 /\ Cardinality(Bodies) = 1

\* An error or a panic of the task reaches the client as an error response,
\* although status and body may have been set before it, except after the
\* switch to server-sent events, and with status 200 if it is NotImplemented;
\* and a request that no acceptance and no callback refused is not answered by
\* an error response.
ErrorNotMasked ==
  pc = "done" /\ wire # <<>> /\ ~separate =>
    /\ fault \in TaskFaults =>
         /\ wire[1].status >= 400 \/ fault = "notImplemented"
         /\ wire[2].body.by = "error"
    /\ fault = "none" => wire[2].body.by # "error"

\* The bytes of a content of some size that a range asks for: from the first to
\* the last, to the end if there is no last, and the last so many without a first.
Asked(range, size) ==
  {i \in 0..(size - 1) :
     /\ range.kind = "bytes"
     /\ IF range.first = {} THEN \E n \in range.last : i + n >= size
        ELSE (\A n \in range.first : i >= n) /\ (\A n \in range.last : i <= n)}

\* What a client puts together from partial contents is the content: a body with
\* status 206 is the bytes that the request asked for, its Content-Range says
\* which of how many they are, and the Content-Length, unless the body is
\* compressed, how long it is; and 416 says truly that no such byte is there.
\* Whatever the callbacks, errors and panics after the range did: only a change
\* that After made to the response is its own (handleAutoRange, ParseRange).
PartialContentAsked ==
  wire # <<>> /\ ~separate /\ ~settled =>
    LET head == wire[1]
        body == wire[2].body
        last == body.off + body.len - 1
    IN /\ head.status = 206 =>
            /\ body.off..last = Asked(req.range, body.of)
            /\ head.crange = {[first |-> body.off, last |-> last, size |-> body.of]}
            /\ body.gz \/ head.clen = {body.len}
       /\ head.status = 416 => Asked(req.range, body.of) = {}
=============================================================================
