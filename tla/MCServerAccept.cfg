SPECIFICATION ServerFairSpec
CONSTANTS
  x = x
  k1 = k1
  u = u
  Conns <- OneConn
  Closers <- OneClose
  Deregisters <- OneDeregister
INVARIANTS EldersClosedFirst ChildMapDrains
PROPERTIES CloseCompletes ChildrenGoDown
