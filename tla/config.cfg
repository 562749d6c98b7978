SPECIFICATION Spec
CONSTANTS
  ArrayLen = 2
  Toggles = {1}
  Volts = {0}
  Amps = {0}
  Watts = {0}
  Ohms = {500}
INVARIANTS
  ShellTypeOK
  OneValid
  EmptyIsErased
  CacheCoherent
PROPERTIES
  ImplementsStore
