SPECIFICATION Spec
CONSTANTS
  c1 = c1
  c2 = c2
  Clients = {c1}
  NoClient = NoClient
  MaxLen = 2
  IdSpace = 3
  MaxICs = 2
  MaxBuffer = 3
  Keyboard <- MCKeyboardShift
  MaxKeys = 4
  MaxFocus = 3
  MaxRequests = 1
  Patient = TRUE
INVARIANTS
  EffectInOrder
  NothingLost
  DisplayIsTheWord
CHECK_DEADLOCK FALSE
