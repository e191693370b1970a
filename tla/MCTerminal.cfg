SPECIFICATION Spec
CONSTANTS
  a = a
  b = b
  Chars = {a, b}
  NUL = NUL
  BufferSize = 4
  Columns = 6
  KernelPrompt = 2
  RootPrompt = 2
  PromptMod = 8
  LocMod = 16
  WdSize = 6
  ArgLengths = {1, 2}
  MaxLine = 5
INVARIANT LineShown
PROPERTY OverrunExplained
