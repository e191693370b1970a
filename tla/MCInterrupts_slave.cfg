SPECIFICATION IrqSpec
CONSTANTS
  f = f
  g = g
  Lines = {1, 4, 12}
  Handlers = {f, g}
  None = None
INVARIANT HandlerOfLine
