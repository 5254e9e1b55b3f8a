------------------------------ MODULE MCRoutes ------------------------------
(***************************************************************************)
(* Model-checking instance of Routes: patterns that share prefixes, so     *)
(* that a call meets nodes of earlier ones as a group, as an endpoint and  *)
(* as its last segment, with every kind of placeholder; and all paths of   *)
(* up to four segments over the names and an id.  Parameters are not named *)
(* like nodes.                                                             *)
(***************************************************************************)
EXTENDS Routes

P(k, t) == [kind |-> k, text |-> t]

MCPatterns ==
  {<<Lit("a")>>,
   <<Lit("a"), Lit("b")>>,
   <<Lit("a"), P("id", "x")>>,
   <<Lit("a"), P("brace", "y"), Lit("b")>>,
   <<Lit("a"), P("colon", "z"), Lit("b"), P("id", "w")>>,
   <<Lit("a"), Lit("b"), P("braceid", "v")>>,
   <<Lit("a"), P("wild", "*"), Lit("b")>>,
   <<Lit("b"), Lit("a"), P("brace", "u")>>,
   <<Lit("a"), P("brace", "x"), Lit("a"), P("id", "y")>>,
   <<P("id", "q")>>}

MCGiven == {[task |-> "t", accs |-> {}], [task |-> "u", accs |-> {"check"}]}

MCPaths ==
  UNION {[1..k -> {"a", "b", "1"}] : k \in 1..4} \cup {<<"a", "*", "b">>, <<"a", "*", "1">>}
============================================================================
