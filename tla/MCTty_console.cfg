SPECIFICATION FairSpec
CONSTANTS
  t1 = t1
  t2 = t2
  console = console
  user = user
  Threads = {t1, t2}
  Isr = Isr
  Ttys = {console}
  default_tty = console
  NoTty = NoTty
  NoThread = NoThread
  ThreadTty <- Console
  tty_width = 2
  tty_height = 2
  SizeMod = 8
  Jobs <- ConsoleJobs
  IrqJob <- Message
  PanicJob <- Screen
INVARIANT MemorySafe
PROPERTIES InterruptEnds LockReleased
