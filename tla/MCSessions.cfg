SPECIFICATION SessionsSpec
CONSTANTS
  i1 = i1
  i2 = i2
  r1 = r1
  r2 = r2
  c1 = c1
  c2 = c2
  k1 = k1
  Ids <- TwoIds
  Overlapping <- TwoRequests
  Callers <- MixedCallers
  Streaming <- TheSimpler
  Times <- Instants
  Cleaners <- OneCleaner
  Expire = 20
  CleanEvery = 10
  MaxRequests = 2
  MaxChanges = 1
SYMMETRY Symmetry
INVARIANTS LiveSessionKept CookieNamesSession OneSessionPerRequest
CHECK_DEADLOCK FALSE
