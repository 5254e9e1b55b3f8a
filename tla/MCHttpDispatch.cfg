SPECIFICATION Spec
CONSTANTS
  Requests <- MCRequests
  Lengths = {1, 3}
  FileLen = 4
  ErrorLen = 2
  PageLen = 2
  Threshold = 3
  MaxMessages = 2
INVARIANTS AnsweredOnce ErrorNotMasked PartialContentAsked
