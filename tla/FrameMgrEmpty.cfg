SPECIFICATION Spec
CONSTANTS
  MaxItems = 1
  ByteSizes = {0, 3}
  EmptyLists = TRUE
INVARIANTS
  EmptyListHasNoItem
