SPECIFICATION Spec
CONSTANTS
  MaxItems = 2
  ByteSizes = {0, 1, 2, 3, 4}
  EmptyLists = FALSE
INVARIANTS
  TypeOK
  InsideTheMessage
  WrittenAsSpecified
  ReadAsSent
