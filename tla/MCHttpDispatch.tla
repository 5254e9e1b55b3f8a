--------------------------- MODULE MCHttpDispatch ---------------------------
(***************************************************************************)
(* Model-checking instance of HttpDispatch: requests of every kind that    *)
(* the route and the headers tell apart, bodies shorter and longer than    *)
(* the threshold for compression, and ranges within, across and beyond     *)
(* them.                                                                   *)
(***************************************************************************)
EXTENDS HttpDispatch

Range(first, last) == [kind |-> "bytes", first |-> first, last |-> last]
Bad == [kind |-> "bad", first |-> {}, last |-> {}]
NoRange == [kind |-> None, first |-> {}, last |-> {}]

\* A range is valid exactly if it asks for some byte of the content, and the
\* bytes from start to end are the ones it asks for.
ASSUME RangeAgrees ==
  \A size \in 1..4 : \A a, b \in {{}} \cup {{n} : n \in 0..5} :
    LET p == ParseRange(Range(a, b), size)
    IN /\ p.valid <=> Asked(Range(a, b), size) # {}
       /\ p.valid => p.start..p.end = Asked(Range(a, b), size)

Request(m, t, last, r) ==
  [method |-> m, task |-> t, isLast |-> last, range |-> r, found |-> TRUE,
   acceptances |-> 1, skipOptions |-> TRUE,
   skipPreCheck |-> TRUE, gzip |-> TRUE]

MCRequests ==
  {[Request("GET", t, last, r) EXCEPT !.gzip = gz] :
     t \in {"user", "static"}, last \in BOOLEAN, gz \in BOOLEAN,
     r \in {NoRange, Bad, Range({1}, {1}), Range({0}, {2}), Range({2}, {9}),
            Range({3}, {}), Range({}, {2})}}
  \cup {Request(m, "user", last, NoRange) :
          m \in {"POST", "OPTIONS", "BREW"}, last \in BOOLEAN}
  \cup {Request("GET", "other", TRUE, NoRange), Request("PUT", "static", TRUE, NoRange),
        [Request("GET", "user", TRUE, NoRange) EXCEPT !.found = FALSE],
        [Request("OPTIONS", "user", TRUE, NoRange) EXCEPT !.skipOptions = FALSE],
        [Request("OPTIONS", "user", TRUE, NoRange) EXCEPT !.skipPreCheck = FALSE]}
=============================================================================
