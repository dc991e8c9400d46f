SPECIFICATION Spec
CONSTANTS
  c1 = c1
  c2 = c2
  Clients = {c1, c2}
  NoClient = NoClient
  MaxLen = 2
  IdSpace = 3
  MaxICs = 2
  MaxBuffer = 3
  Keyboard <- MCKeyboard
  MaxKeys = 2
  MaxFocus = 3
  MaxRequests = 1
  Patient = FALSE
INVARIANTS
  PreeditInStep
  KeyInOnePlace
SYMMETRY Swap
CHECK_DEADLOCK FALSE
