SPECIFICATION Spec
CONSTANTS
  MaxBuffer = 4
  k1 = k1
  k2 = k2
  NoKey = NoKey
  Key <- MCKey
PROPERTIES
  RingIsAQueue
