SPECIFICATION Spec
CONSTANTS
  f = f
  g = g
  GateCount = 3
  LengthMod = 65536
  Isrs = {f, g}
  NULL = NULL
  Junk = Junk
  Torn = Torn
INVARIANT GateServed
PROPERTY TableSpec
