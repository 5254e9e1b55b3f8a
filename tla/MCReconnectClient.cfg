SPECIFICATION FairSpec
CONSTANTS
  MaxChannels = 3
  KeepsAlive = TRUE
  Breaking = {1, 3}
INVARIANTS OneConnection ClientHoldsLive DisconnectIsFinal UserToldInOrder
PROPERTIES StartsReturn
