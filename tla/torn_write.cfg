SPECIFICATION Spec
CONSTANTS
  ArrayLen = 2
  Toggles = {1}
  Volts = {9000}
  Amps = {0}
  Watts = {0}
  Ohms = {500}
INVARIANTS
  ValidIsComplete
