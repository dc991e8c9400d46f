SPECIFICATION Spec
CONSTANTS
  c1 = c1
  c2 = c2
  Clients = {c1}
  NoClient = NoClient
  MaxLen = 2
  IdSpace = 2
  MaxICs = 1
  MaxBuffer = 3
  Keyboard <- MCKeyboard
  MaxKeys = 3
  MaxFocus = 3
  MaxRequests = 1
  Patient = FALSE
INVARIANTS
  EffectInOrder
CHECK_DEADLOCK FALSE
