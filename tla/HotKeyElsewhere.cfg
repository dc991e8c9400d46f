SPECIFICATION Spec
CONSTANTS
  MaxLen = 2
  Keyboard <- MCKeyboard
  MaxPresses = 4
  MaxElsewhere = 1
PROPERTIES
  OnlyChordsSwitch
CHECK_DEADLOCK FALSE
