SPECIFICATION Spec
CONSTANTS
  d = d
  m = m
  Chars = {d, m}
  NUL = NUL
  ENTER = ENTER
  InpSize = 5
  dir <- ShortDir
  demo <- ShortDemo
INVARIANT TableWhole
PROPERTY RunsExactly
