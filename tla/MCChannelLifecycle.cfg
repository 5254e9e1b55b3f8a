SPECIFICATION Spec
CONSTANTS
  c1 = c1
  c2 = c2
  d1 = d1
  g1 = g1
  r1 = r1
  Connects <- TwoConnects
  Disconnects <- OneDisconnect
  Deregisters <- OneDeregister
  Reads = {}
  MaxData = 0
INVARIANTS OneTeardownPerActivation DisconnectTakesEffect ConnectionReleased
SYMMETRY CallSymmetry
