----------------------------- MODULE MCPipeline -----------------------------
(***************************************************************************)
(* Model-checking instance of Pipeline: up to two handlers, and one event  *)
(* that walks the list while it changes.  Events only read the list, so    *)
(* that one event at a time shows all that can happen to it.               *)
(***************************************************************************)
EXTENDS Pipeline, TLC

CONSTANTS h1, h2, ev

TwoContexts == {h1, h2}
OneEvent == {ev}

\* Handlers are interchangeable.
HandlerSymmetry == Permutations(Contexts)
============================================================================
