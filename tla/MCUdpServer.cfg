SPECIFICATION UdpSpec
CONSTANTS
  u1 = u1
  u2 = u2
  k1 = k1
  k2 = k2
  b1 = b1
  b2 = b2
  b3 = b3
  Clients <- TwoClients
  Children <- SomeChildren
  Pooled <- OneChild
  Buffers <- SomeBuffers
  NoBytes = {1}
  MaxArrivals = 3
SYMMETRY Symmetry
INVARIANTS OwnDatagrams EachDatagramOnce
CHECK_DEADLOCK FALSE
