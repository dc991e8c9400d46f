SPECIFICATION Spec
CONSTANTS
  MaxLen = 4
  Rules <- MCRules
  Keys <- MCKeys
INVARIANTS
  TypeOK
  ToneIsDrawn
  GlyphShowsItsLetter
  ToneKeyIsFree
  ToneKeyTwiceIsLiteral
PROPERTIES
  RefusedLeavesWord
  PromiseKept
CHECK_DEADLOCK FALSE
