SPECIFICATION Spec
CONSTANTS
  p1 = p1
  p2 = p2
  w1 = w1
  s1 = s1
  Conns <- AllConns
  WebSockets <- SomeWebSockets
  Slow <- SlowOnes
  Together <- TwoOrOne
  MaxMessages <- FewMessages
INVARIANTS QueueBounded WSPaired NoneOutlivesConnection
SYMMETRY RequestSymmetry
CHECK_DEADLOCK FALSE
