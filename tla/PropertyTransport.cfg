SPECIFICATION Spec
CONSTANTS
  Properties = 2
  DataLimit = 4
  Lengths <- MCLengths
  MaxSent = 7
INVARIANTS
  TypeOK
  OffsetInStep
PROPERTIES
  TransportIsFifo
  EveryMessageArrives
CHECK_DEADLOCK FALSE
