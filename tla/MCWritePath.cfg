SPECIFICATION FairSpec
CONSTANTS
  a = a
  b = b
  n = n
  Calls <- MCCalls
  NilCalls <- MCNilCalls
  MaxConnects = 1
INVARIANTS SingleFlusher WireOrder NoStrandedWrite QuiescentResolved
PROPERTIES ImplementsContract QueuedIsAnswered WriteReturns
