SPECIFICATION FairSpec
CONSTANTS
  c1 = c1
  c2 = c2
  d1 = d1
  g1 = g1
  r1 = r1
  Connects <- OneConnect
  Disconnects <- OneDisconnect
  Deregisters = {}
  Reads <- OneRead
  MaxData = 2
PROPERTIES DownIsClosed DeadPeerNoticed
