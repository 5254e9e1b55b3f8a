------------------------------ MODULE Sessions ------------------------------
(***************************************************************************)
(* Sessions of a browser: Request.Session (ghttp/httpobjects.go), the      *)
(* cookie that names a session (ghttp/httpsessionservice.go and            *)
(* DispatchHandler._UpdateSessionCookie), and the memory provider with its *)
(* cleaner (ghttp/httpsession/memory).                                     *)
(*                                                                         *)
(* Requests of one browser overlap.  The handler of a request may ask for  *)
(* its session from several goroutines, renew it, move its expiry or       *)
(* delete it.  A session is a pointer, so all requests that have it see    *)
(* the same expiry; a cookie is the id of a session and a time, which the  *)
(* time hash carries.                                                      *)
(***************************************************************************)
EXTENDS Integers, FiniteSets

CONSTANTS Ids,         \* ids of sessions, a UUID each; the bound on sessions
          Overlapping, \* requests that may overlap
          Streaming,   \* requests that may be answered with server-sent events
          Callers,     \* of a request: goroutines of its handler that call Session
          Times,       \* instants at which something happens, 0 the first
          Expire,      \* SessionExpireTime
          CleanEvery,  \* seconds between two cleanings (10)
          Cleaners,    \* bound: cleaners at a time
          MaxRequests, \* bound: requests of the browser
          MaxChanges   \* bound: times a handler renews, deletes or moves the expiry

ASSUME IdsAssumption == "none" \notin Ids /\ "lost" \notin Ids
ASSUME TimesAssumption == Times \subseteq Int /\ Expire \in Nat /\ CleanEvery \in Nat

VARIABLES
  now,
  exp,        \* DefaultSession.expired of the sessions made so far
  store,      \* keys of SessionProvider.sessions
  lastClean,
  cleaner,    \* a cleaner: the keys Range must visit and has, and the key it
              \* found expired and is about to delete
  jar,        \* the browser's cookie
  reqs,       \* a request: its stage, the cookie it came with and the one its
              \* header has by now, its session, whether the head of its response
              \* is on the wire, the cookie that head has
  call,       \* a goroutine's call of Session: where it is, what it returns
  arrived,    \* number of requests so far
  changes,    \* number of renewals, deletions and moves of an expiry so far
  renewed,    \* history: requests whose session was renewed
  ended       \* history: sessions that were once expired or deleted

sessionsVars == <<now, exp, store, lastClean, cleaner, jar, reqs, call, arrived,
                  changes, renewed, ended>>

NoSession == "none"
NoCookie == [id |-> NoSession, ts |-> 0]
Made == DOMAIN exp

NoCleaner == [on |-> FALSE, must |-> {}, seen |-> {}, hit |-> {}]
NoRequest == [at |-> "idle", sent |-> NoCookie, cookie |-> NoCookie,
              session |-> NoSession, head |-> FALSE, answer |-> NoCookie, due |-> FALSE]
NoCall == [at |-> "ready", val |-> NoSession]

\* The browser has no cookie, one of a session that the server made and saved
\* just before, or one of a server that has since been started anew.  Without a
\* session lastClean is the zero time, so that the first Save cleans.
SessionsInit ==
  /\ now = 0
  /\ \/ /\ exp = <<>> /\ store = {} /\ lastClean = -CleanEvery - 1
        /\ jar \in {NoCookie, [id |-> "lost", ts |-> Expire]}
     \/ \E id \in Ids :
          /\ exp = [i \in {id} |-> Expire] /\ store = {id} /\ lastClean = 0
          /\ jar = [id |-> id, ts |-> Expire]
  /\ cleaner = [k \in Cleaners |-> NoCleaner]
  /\ reqs = [r \in Overlapping |-> NoRequest]
  /\ call = [r \in Overlapping |-> [c \in Callers[r] |-> NoCall]]
  /\ arrived = 0
  /\ changes = 0
  /\ renewed = {}
  /\ ended = {}

-----------------------------------------------------------------------------
\* The memory provider.

\* Mutant: the last second of a session no longer counts.
IsExpireEarly(id) == exp[id] <= now

IsExpire(id) == exp[id] < now

Due == now - lastClean > CleanEvery

\* A save between its test of lastClean and its write: lastClean is not
\* guarded, so a test meanwhile may have either outcome.
Racing == \E r \in Overlapping : reqs[r].at = "clean" /\ reqs[r].due
DueNow == IF Racing THEN BOOLEAN ELSE {Due}

\* cleanSessions after its test: the time is noted and a cleaner started.
CleanSessions(due) ==
  IF due
  THEN /\ lastClean' = now
       /\ \E k \in Cleaners :
            /\ ~cleaner[k].on
            /\ cleaner' = [cleaner EXCEPT ![k] = [NoCleaner EXCEPT !.on = TRUE, !.must = store]]
  ELSE UNCHANGED <<lastClean, cleaner>>

\* NewSession: a session with a fresh id, saved at once.
NewSession(id) ==
  /\ id \notin Made
  /\ exp' = [i \in Made \cup {id} |-> IF i = id THEN now + Expire ELSE exp[i]]
  /\ \E due \in DueNow : CleanSessions(due)
  /\ store' = store \cup {id}

\* Range visits a key and tests its session ...
CleanerLook(k) ==
  /\ cleaner[k].on /\ cleaner[k].hit = {}
  /\ \E id \in store \ cleaner[k].seen :
       cleaner' = [cleaner EXCEPT ![k].seen = @ \cup {id},
                                  ![k].hit = IF IsExpire(id) THEN {id} ELSE {}]
  /\ UNCHANGED <<now, exp, store, lastClean, jar, reqs, call, arrived, changes, renewed, ended>>

\* ... the cleaner deletes it, whatever the key stands for by now ...
CleanerDelete(k) ==
  /\ cleaner[k].hit # {}
  /\ store' = store \ cleaner[k].hit
  /\ cleaner' = [cleaner EXCEPT ![k].hit = {}]
  /\ UNCHANGED <<now, exp, lastClean, jar, reqs, call, arrived, changes, renewed, ended>>

\* ... and Range ends when it has visited all keys that were there throughout.
CleanerEnd(k) ==
  /\ cleaner[k].on /\ cleaner[k].hit = {}
  /\ cleaner[k].must \cap store \subseteq cleaner[k].seen
  /\ cleaner' = [cleaner EXCEPT ![k] = NoCleaner]
  /\ UNCHANGED <<now, exp, store, lastClean, jar, reqs, call, arrived, changes, renewed, ended>>

-----------------------------------------------------------------------------
\* A request and its session.

\* The browser sends a request with the cookie it has.
Arrive(r) ==
  /\ reqs[r].at = "idle" /\ arrived < MaxRequests
  /\ reqs' = [reqs EXCEPT ![r] = [NoRequest EXCEPT !.at = "running",
                                                 !.sent = jar, !.cookie = jar]]
  /\ arrived' = arrived + 1
  /\ UNCHANGED <<now, exp, store, lastClean, cleaner, jar, call, changes, renewed, ended>>

\* Mutant: the header keeps the old cookie.
StrippedNot(r) == reqs[r]

\* _NewSession takes the session's cookie out of the request's header.
Stripped(r) == [reqs[r] EXCEPT !.cookie = NoCookie]

\* GetSession honours a cookie whose time has not come ...
Honoured(ck) == ck.id # NoSession /\ now < ck.ts

\* Session, first half: the test without the lock.
SessionCall(r, c) ==
  /\ reqs[r].at = "running" /\ call[r][c].at = "ready"
  /\ call' = [call EXCEPT ![r][c] = IF reqs[r].session # NoSession
                                    THEN [at |-> "done", val |-> reqs[r].session]
                                    ELSE [at |-> "lock", val |-> NoSession]]
  /\ UNCHANGED <<now, exp, store, lastClean, cleaner, jar, reqs, arrived, changes, renewed, ended>>

Locked(r) == \E c \in Callers[r] : call[r][c].at = "assign"

\* With the lock the test is made again ...
SessionAgain(r, c) ==
  /\ call[r][c].at = "lock" /\ ~Locked(r)
  /\ reqs[r].session # NoSession
  /\ call' = [call EXCEPT ![r][c] = [at |-> "done", val |-> reqs[r].session]]
  /\ UNCHANGED <<now, exp, store, lastClean, cleaner, jar, reqs, arrived, changes, renewed, ended>>

\* Mutant: the session is not looked at again with the lock.
NeedsSessionUnchecked(r, c) == call[r][c].at = "lock" /\ ~Locked(r)

\* ... and GetSession called if there is still no session: it finds the session
\* of the cookie, or makes one.
NeedsSession(r, c) == call[r][c].at = "lock" /\ ~Locked(r) /\ reqs[r].session = NoSession

GetSession(r, c) ==
  /\ NeedsSession(r, c)
  /\ LET ck == reqs[r].cookie IN
       \/ /\ Honoured(ck) /\ ck.id \in store
          /\ call' = [call EXCEPT ![r][c] = [at |-> "assign", val |-> ck.id]]
          /\ UNCHANGED <<exp, store, lastClean, cleaner, reqs>>
       \/ /\ ~(Honoured(ck) /\ ck.id \in store)
          /\ \E id \in Ids :
               /\ NewSession(id)
               /\ call' = [call EXCEPT ![r][c] = [at |-> "assign", val |-> id]]
          /\ reqs' = [reqs EXCEPT ![r] = Stripped(r)]
  /\ UNCHANGED <<now, jar, arrived, changes, renewed, ended>>

\* Session assigns what it got and returns the session.
SessionAssign(r, c) ==
  /\ call[r][c].at = "assign"
  /\ reqs' = [reqs EXCEPT ![r].session = call[r][c].val]
  /\ call' = [call EXCEPT ![r][c].at = "done"]
  /\ UNCHANGED <<now, exp, store, lastClean, cleaner, jar, arrived, changes, renewed, ended>>

Change(r) ==
  /\ reqs[r].at = "running" /\ changes < MaxChanges
  /\ changes' = changes + 1

\* RenewSession, which takes no lock.
RenewSession(r) ==
  /\ Change(r)
  /\ \E id \in Ids :
       /\ NewSession(id)
       /\ reqs' = [reqs EXCEPT ![r] = [Stripped(r) EXCEPT !.session = id]]
  /\ renewed' = renewed \cup {r}
  /\ UNCHANGED <<now, jar, call, arrived, ended>>

\* The handler moves the expiry of its session, to the past or by Expire.
SetExpire(r) ==
  /\ Change(r) /\ reqs[r].session # NoSession
  /\ \E t \in {now - 1, now + Expire} :
       /\ t # exp[reqs[r].session]
       /\ exp' = [exp EXCEPT ![reqs[r].session] = t]
       /\ ended' = IF t < now THEN ended \cup {reqs[r].session} ELSE ended
  /\ UNCHANGED <<now, store, lastClean, cleaner, jar, reqs, call, arrived, renewed>>

\* The handler deletes its session from the provider.
Delete(r) ==
  /\ Change(r) /\ reqs[r].session \in store
  /\ store' = store \ {reqs[r].session}
  /\ ended' = ended \cup {reqs[r].session}
  /\ UNCHANGED <<now, exp, lastClean, cleaner, jar, reqs, call, arrived, renewed>>

\* The handler answers with server-sent events: the first writes the head, with
\* the cookies it has by then.
WriteHead(r) ==
  /\ r \in Streaming /\ reqs[r].at = "running" /\ ~reqs[r].head
  /\ reqs' = [reqs EXCEPT ![r].head = TRUE]
  /\ UNCHANGED <<now, exp, store, lastClean, cleaner, jar, call, arrived, changes, renewed, ended>>

-----------------------------------------------------------------------------
\* The end of a request.

NoCallOpen(r) == \A c \in Callers[r] : call[r][c].at \in {"ready", "done"}

\* _UpdateSessionCookie: a request without a session gets no cookie; else the
\* response names the session unless the request's cookie is there and has
\* more than a tenth of its time left.  It is deferred, so a head that the
\* handler wrote goes without the cookie.
Stale(ck) == ck = NoCookie \/ ck.ts < now + (Expire \div 10)

UpdateSessionCookie(r) ==
  /\ reqs[r].at = "running" /\ NoCallOpen(r)
  /\ LET q == reqs[r] IN
     reqs' = [reqs EXCEPT ![r] =
       IF q.session = NoSession THEN [q EXCEPT !.at = "answer"]
       ELSE [q EXCEPT !.at = "save",
                      !.answer = IF Stale(q.cookie) /\ ~q.head
                                 THEN [id |-> q.session, ts |-> now + Expire]
                                 ELSE NoCookie]]
  /\ UNCHANGED <<now, exp, store, lastClean, cleaner, jar, call, arrived, changes, renewed, ended>>

\* Save: whether to clean ...
SaveTest(r) ==
  /\ reqs[r].at = "save"
  /\ \E due \in DueNow : reqs' = [reqs EXCEPT ![r].at = "clean", ![r].due = due]
  /\ UNCHANGED <<now, exp, store, lastClean, cleaner, jar, call, arrived, changes, renewed, ended>>

SaveClean(r) ==
  /\ reqs[r].at = "clean"
  /\ CleanSessions(reqs[r].due)
  /\ reqs' = [reqs EXCEPT ![r].at = "store", ![r].due = FALSE]
  /\ UNCHANGED <<now, exp, store, jar, call, arrived, changes, renewed, ended>>

\* ... and the session is stored, deleted meanwhile or not.
SaveStore(r) ==
  /\ reqs[r].at = "store"
  /\ store' = store \cup {reqs[r].session}
  /\ reqs' = [reqs EXCEPT ![r].at = "answer"]
  /\ UNCHANGED <<now, exp, lastClean, cleaner, jar, call, arrived, changes, renewed, ended>>

\* The response reaches the browser, in any order with others, or is lost.
Answer(r) ==
  /\ reqs[r].at = "answer"
  /\ reqs' = [reqs EXCEPT ![r] = NoRequest]
  /\ call' = [call EXCEPT ![r] = [c \in Callers[r] |-> NoCall]]
  /\ renewed' = renewed \ {r}
  /\ jar' \in {jar, IF reqs[r].answer = NoCookie THEN jar ELSE reqs[r].answer}
  /\ UNCHANGED <<now, exp, store, lastClean, cleaner, arrived, changes, ended>>

Later == {t \in Times : t > now}

Tick ==
  /\ now' \in Later
  /\ ended' = ended \cup {id \in Made : exp[id] < now'}
  /\ UNCHANGED <<exp, store, lastClean, cleaner, jar, reqs, call, arrived, changes, renewed>>

RequestStep(r) ==
  \/ Arrive(r) \/ RenewSession(r) \/ SetExpire(r) \/ Delete(r)
  \/ \E c \in Callers[r] : SessionCall(r, c) \/ SessionAgain(r, c) \/ GetSession(r, c)
                          \/ SessionAssign(r, c)
  \/ WriteHead(r) \/ UpdateSessionCookie(r) \/ SaveTest(r) \/ SaveClean(r) \/ SaveStore(r) \/ Answer(r)

CleanerStep(k) == CleanerLook(k) \/ CleanerDelete(k) \/ CleanerEnd(k)

SessionsNext ==
  \/ Tick
  \/ \E r \in Overlapping : RequestStep(r)
  \/ \E k \in Cleaners : CleanerStep(k)

SessionsSpec == SessionsInit /\ [][SessionsNext]_sessionsVars

-----------------------------------------------------------------------------
\* The cleaner, the saves and the requests take nothing away that is in use: a
\* session that has never been past its expiry, and that nobody deleted, is in
\* the provider (SessionProvider.cleanSessions, Save).
LiveSessionKept == \A id \in Made \ ended : id \in store

\* What the browser has after the response names the session the request ended
\* with, and names it for a while: whenever GetSession did not follow the cookie
\* the response carries a new one (_NewSession's header, _UpdateSessionCookie).
\* One kind of response does not, and the browser is never told of the session: a
\* request that did not get its session by its cookie and had written its head.
CookieNamesSession ==
  \A r \in Overlapping :
    /\ reqs[r].at \in {"save", "clean", "store"}
    /\ reqs[r].head => reqs[r].cookie # NoCookie
    => LET ck == IF reqs[r].answer = NoCookie THEN reqs[r].sent ELSE reqs[r].answer
       IN  ck.id = reqs[r].session

\* The goroutines of a request that was not renewed agree on its session, and no
\* session is made that the request then forgets (Request.Session).
OneSessionPerRequest ==
  \A r \in Overlapping \ renewed : \A c, d \in Callers[r] :
    {call[r][c].at, call[r][d].at} = {"done"} => call[r][c].val = call[r][d].val

=============================================================================
