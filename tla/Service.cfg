SPECIFICATION ServiceSpec
CONSTANTS
  s1 = s1
  s2 = s2
  Apps = {s1, s2}
  OrderOf <- MCOrderOf
  IdSpace = 2
  MaxICs = 3
  MaxDead = 1
  Instances = {i1, i2}
  None = None
  This = i1
INVARIANTS
  TypeOK
  OneRecordEach
  ReadInItsOrder
  ContextIsItsOwners
  OnlyTheDeadBreakIt
  NoOneWaitsInVain
  ServerIsFound
PROPERTIES
  OnlyTheAskerHears
  RefusedForALiveServer
CHECK_DEADLOCK FALSE
