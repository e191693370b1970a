SPECIFICATION FairIrqSpec
CONSTANTS
  f = f
  g = g
  Lines = {1, 4, 9, 12}
  Handlers = {f, g}
  None = None
INVARIANT MasterFree
PROPERTY MasterServed
