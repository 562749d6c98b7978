SPECIFICATION Spec
CONSTANTS
  LED_MEDIUM_BLINKS = 3
  LED_FAST_BLINKS = 2
  Letters = {"i"}
  Size = 6
  MaxArgs = 1
  Identify <- MCIdentify
INVARIANTS
  ScreenShowsLine
  ParseIsWords
PROPERTIES
  IdentifyEnds
