SPECIFICATION Spec
CONSTANTS
  a = a
  b = b
  Letters = {a, b}
  SPACE = SPACE
  NEWLINE = NEWLINE
  SHELL_BUFFER_SIZE = 7
  ARGS = 3
  ARG_SIZE = 4
  MaxShown = 8
  test <- Test
  help <- Help
  color <- Color
  clear <- Clear
  exit <- Exit
CHECK_DEADLOCK FALSE
PROPERTY RunsShown
