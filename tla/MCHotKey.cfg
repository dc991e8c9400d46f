SPECIFICATION Spec
CONSTANTS
  MaxLen = 2
  Keyboard <- MCKeyboard
  MaxPresses = 4
  MaxElsewhere = 2
INVARIANTS
  TypeOK
  ChordSwitchesOnce
  DisabledHoldsNoWord
PROPERTIES
  SwitchNeedsChord
CHECK_DEADLOCK FALSE
