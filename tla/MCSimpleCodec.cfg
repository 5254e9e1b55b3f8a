SPECIFICATION CodecSpec
CONSTANTS
  Base = 5
  Messages <- SomeMessages
  BufferSize = 12
  MaxSent = 3
  MaxRepeats = 1
INVARIANTS StreamFaithful DatagramsStandAlone
