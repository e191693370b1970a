SPECIFICATION Spec
CONSTANTS
  t1 = t1
  t2 = t2
  console = console
  user = user
  Threads = {t1, t2}
  Isr = Isr
  Ttys = {console, user}
  default_tty = console
  NoTty = NoTty
  NoThread = NoThread
  ThreadTty <- SameTty
  tty_width = 2
  tty_height = 2
  SizeMod = 8
  Jobs <- TextJobs
  IrqJob <- Newline
  PanicJob <- Screen
INVARIANTS MutualExclusion CursorFollows PanicVisible
PROPERTY MonitorSpec
