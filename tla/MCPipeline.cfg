SPECIFICATION Spec
CONSTANTS
  h1 = h1
  h2 = h2
  ev = ev
  Contexts <- TwoContexts
  Events <- OneEvent
SYMMETRY HandlerSymmetry
INVARIANTS RemoveIsSafe
PROPERTIES ImplementsHandlerList
