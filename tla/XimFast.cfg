SPECIFICATION FairSpec
CONSTANTS
  c1 = c1
  c2 = c2
  Clients = {c1}
  NoClient = NoClient
  MaxLen = 2
  IdSpace = 2
  MaxICs = 1
  MaxBuffer = 3
  Keyboard <- MCKeyboard
  MaxKeys = 4
  MaxFocus = 2
  MaxRequests = 1
  Patient = FALSE
INVARIANTS
  TypeOK
  PendingMeansSync
  SyncHasReplyComing
  KeysHandledInOrder
PROPERTIES
  PendingIsEmptied
  HeldKeyIsReleased
CHECK_DEADLOCK FALSE
