-------------------------------- MODULE Tty --------------------------------
(***************************************************************************)
(* The virtual terminals of kernel/tty.c and the two interrupt paths of    *)
(* include/interrupt.c that print on them without taking their lock: the   *)
(* message for an IRQ nobody handles, and the CPU exception screen.        *)
(*                                                                         *)
(* One step is one access to shared memory (the Makefile compiles without  *)
(* -O, so "++tty->x" is a load and a store).  Threads are preempted        *)
(* between any two steps; an interrupt runs to completion above them.      *)
(* A local that is not read again goes back to its initial value.          *)
(* What is printed is abstracted to the six kinds of characters that       *)
(* tty_print tells apart; the contents of a cell and the colour are left   *)
(* out.                                                                    *)
(***************************************************************************)
EXTENDS Integers, Sequences

CONSTANTS
  Threads,      \* the kernel threads that use the k* wrappers
  Isr,          \* the interrupt context, one CPU
  Ttys,         \* ttys[TTY_COUNT]
  default_tty,  \* &ttys[0]
  NoTty,        \* NULL
  NoThread,     \* a spinlock that is free
  ThreadTty,    \* thread_t.tty
  tty_width,
  tty_height,
  SizeMod,      \* 2^32, the modulus of size_t
  Jobs,         \* what each thread may print between ktty_enter and ktty_leave
  IrqJob,       \* the kprint calls of irq_dispatch for an IRQ without handler
  PanicJob      \* the k* calls of interrupt_handler for a CPU exception

Actors == Threads \cup {Isr}

\* The characters tty_print distinguishes, and the call kfill_color.
Chars == {"char", "newline", "return", "backspace", "escape"}
Fill  == <<"fill">>
Call  == Seq(Chars) \cup {Fill}

ASSUME ActorAssumption ==
  /\ Isr \notin Threads
  /\ NoThread \notin Actors

ASSUME TtyAssumption ==
  /\ default_tty \in Ttys
  /\ NoTty \notin Ttys
  /\ ThreadTty \in [Threads -> Ttys]

ASSUME SizeAssumption ==
  /\ tty_width \in Nat \ {0}
  /\ tty_height \in Nat \ {0}
  /\ SizeMod \in Nat
  /\ tty_width * (tty_height + 1) < SizeMod

ASSUME JobAssumption ==
  /\ Jobs \in [Threads -> SUBSET Seq(Call)]
  /\ IrqJob \in Seq(Call)
  /\ PanicJob \in Seq(Call) /\ PanicJob # <<>>

VARIABLES
  lock,            \* tty_t.lock: its holder or NoThread
  x, y,            \* tty_t.x, tty_t.y
  current_screen,
  current_tty,
  shown,           \* driver: the tty on the display
  cursor,          \* driver: the tty whose cursor was drawn last, and where
  pc,              \* per actor: the next step
  out,             \* per actor: the k* calls still to make
  ptr,             \* per actor: the tty parameter of the call under way
  str,             \* per actor: what tty_print has still to print
  reg,             \* per actor: a loaded x or y
  row,             \* per actor: the y the driver has read for the cursor
  arg,             \* per actor: the argument of update_cursor_location
  ret,             \* per actor: where tty_update_cursor_location returns to
  panic,           \* the interrupt under way is a CPU exception
  intruded,        \* history: an interrupt has printed on default_tty in the
                   \* middle of other output there
  stray,           \* history: the ttys written outside their buffer
  late             \* history: the driver's last update of the "screen", of the
                   \* "cursor", was out of date when it was made

shared == <<lock, x, y, current_screen, current_tty>>
driver == <<shown, cursor>>
locals == <<out, ptr, str, reg, row, arg, ret>>
ghosts == <<panic, intruded, stray, late>>
vars   == <<shared, driver, locals, ghosts, pc>>

-----------------------------------------------------------------------------
(* Arithmetic of size_t. *)

Size   == 0 .. SizeMod - 1
Inc(n) == IF n = SizeMod - 1 THEN 0 ELSE n + 1
Dec(n) == IF n = 0 THEN SizeMod - 1 ELSE n - 1

\* x + y * tty_width, the index tty_set_char writes.
Cell(column, line) ==
  LET i == column + line * tty_width
  IN  IF i >= SizeMod THEN i - SizeMod ELSE i

-----------------------------------------------------------------------------
(* Control.  While an interrupt is served no thread runs. *)

Running(a) == a = Isr \/ pc[Isr] = "idle"
At(a, l)   == Running(a) /\ pc[a] = l
Goto(a, l) == pc' = [pc EXCEPT ![a] = l]

tty_current_process(a) ==
  IF current_tty # NoTty THEN current_tty
  ELSE IF a \in Threads THEN ThreadTty[a] ELSE default_tty

\* Mutant: a thread returns without ktty_leave.
DoneUnreleased(a) == IF a \in Threads THEN "idle" ELSE IF panic THEN "halt" ELSE "irq_leave"

\* The step after the last k* call.
Done(a) == IF a \in Threads THEN "leave" ELSE IF panic THEN "halt" ELSE "irq_leave"

-----------------------------------------------------------------------------
(* ktty_enter, the k* calls, ktty_leave. *)

\* A thread decides to print; its first step is ktty_enter.
StartJob(p) ==
  /\ At(p, "idle")
  /\ \E job \in Jobs[p] : out' = [out EXCEPT ![p] = job]
  /\ Goto(p, "enter")
  /\ UNCHANGED <<shared, driver, ptr, str, reg, row, arg, ret, ghosts>>

ktty_enter(p) ==
  /\ At(p, "enter")
  /\ lock[tty_current_process(p)] = NoThread
  /\ lock' = [lock EXCEPT ![tty_current_process(p)] = p]
  /\ Goto(p, "call")
  /\ UNCHANGED <<x, y, current_screen, current_tty, driver, locals, ghosts>>

\* Mutant: the call prints on the tty that is on the display.
kcall_shown(a) ==
  /\ At(a, "call")
  /\ IF out[a] = <<>>
     THEN /\ Goto(a, Done(a))
          /\ UNCHANGED <<out, ptr, str>>
     ELSE /\ out' = [out EXCEPT ![a] = Tail(out[a])]
          /\ ptr' = [ptr EXCEPT ![a] = current_screen]
          /\ IF Head(out[a]) = Fill
             THEN Goto(a, "fill_y") /\ UNCHANGED str
             ELSE Goto(a, "loop") /\ str' = [str EXCEPT ![a] = Head(out[a])]
  /\ UNCHANGED <<shared, driver, reg, row, arg, ret, ghosts>>

\* kprint or kfill_color: the tty is looked up again for every call.
kcall(a) ==
  /\ At(a, "call")
  /\ IF out[a] = <<>>
     THEN /\ Goto(a, Done(a))
          /\ UNCHANGED <<out, ptr, str>>
     ELSE /\ out' = [out EXCEPT ![a] = Tail(out[a])]
          /\ ptr' = [ptr EXCEPT ![a] = tty_current_process(a)]
          /\ IF Head(out[a]) = Fill
             THEN Goto(a, "fill_y") /\ UNCHANGED str
             ELSE Goto(a, "loop") /\ str' = [str EXCEPT ![a] = Head(out[a])]
  /\ UNCHANGED <<shared, driver, reg, row, arg, ret, ghosts>>

ktty_leave(p) ==
  /\ At(p, "leave")
  /\ lock' = [lock EXCEPT ![tty_current_process(p)] = NoThread]
  /\ ptr' = [ptr EXCEPT ![p] = default_tty]
  /\ Goto(p, "idle")
  /\ UNCHANGED <<x, y, current_screen, current_tty, driver,
                 out, str, reg, row, arg, ret, ghosts>>

-----------------------------------------------------------------------------
(* tty_print, one action per branch of its loop. *)

Consume(a)    == str' = [str EXCEPT ![a] = Tail(str[a])]
Reading(a, c) == At(a, "loop") /\ str[a] # <<>> /\ Head(str[a]) = c

\* The end of the string: is the cursor to be updated?
PrintEnd(a) ==
  /\ At(a, "loop")
  /\ str[a] = <<>>
  /\ IF ptr[a] = current_screen
     THEN Goto(a, "cursor_load") /\ ret' = [ret EXCEPT ![a] = "call"]
     ELSE Goto(a, "call") /\ UNCHANGED ret
  /\ UNCHANGED <<shared, driver, out, ptr, str, reg, row, arg, ghosts>>

\* TTY_CMD_SET_COLOR takes the next character as the colour; a string that
\* ends there is cut off.
PrintSetColor(a) ==
  /\ Reading(a, "escape")
  /\ str' = [str EXCEPT ![a] = IF Len(str[a]) = 1 THEN <<>> ELSE Tail(Tail(str[a]))]
  /\ UNCHANGED <<shared, driver, out, ptr, reg, row, arg, ret, ghosts, pc>>

PrintNewline(a) ==
  /\ Reading(a, "newline")
  /\ Consume(a)
  /\ Goto(a, "nl_x")
  /\ UNCHANGED <<shared, driver, out, ptr, reg, row, arg, ret, ghosts>>

PrintReturn(a) ==
  /\ Reading(a, "return")
  /\ Consume(a)
  /\ x' = [x EXCEPT ![ptr[a]] = 0]
  /\ UNCHANGED <<lock, y, current_screen, current_tty, driver,
                 out, ptr, reg, row, arg, ret, ghosts, pc>>

\* if (tty->x) --tty->x: the test, then a load and a store.
PrintBackspace(a) ==
  /\ Reading(a, "backspace")
  /\ Consume(a)
  /\ Goto(a, IF x[ptr[a]] # 0 THEN "bs_load" ELSE "loop")
  /\ UNCHANGED <<shared, driver, out, ptr, reg, row, arg, ret, ghosts>>

BackspaceLoad(a) ==
  /\ At(a, "bs_load")
  /\ reg' = [reg EXCEPT ![a] = x[ptr[a]]]
  /\ Goto(a, "bs_store")
  /\ UNCHANGED <<shared, driver, out, ptr, str, row, arg, ret, ghosts>>

BackspaceStore(a) ==
  /\ At(a, "bs_store")
  /\ x' = [x EXCEPT ![ptr[a]] = Dec(reg[a])]
  /\ reg' = [reg EXCEPT ![a] = 0]
  /\ Goto(a, "loop")
  /\ UNCHANGED <<lock, y, current_screen, current_tty, driver,
                 out, ptr, str, row, arg, ret, ghosts>>

\* tty_set_char at the cursor.
tty_set_char(a) ==
  /\ Reading(a, "char")
  /\ Consume(a)
  /\ stray' = IF Cell(x[ptr[a]], y[ptr[a]]) < tty_width * tty_height
              THEN stray ELSE stray \cup {ptr[a]}
  /\ Goto(a, "x_load")
  /\ UNCHANGED <<shared, driver, out, ptr, reg, row, arg, ret, panic, intruded, late>>

AdvanceLoad(a) ==
  /\ At(a, "x_load")
  /\ reg' = [reg EXCEPT ![a] = x[ptr[a]]]
  /\ Goto(a, "x_store")
  /\ UNCHANGED <<shared, driver, out, ptr, str, row, arg, ret, ghosts>>

AdvanceStore(a) ==
  /\ At(a, "x_store")
  /\ x' = [x EXCEPT ![ptr[a]] = Inc(reg[a])]
  /\ reg' = [reg EXCEPT ![a] = 0]
  /\ Goto(a, "x_test")
  /\ UNCHANGED <<lock, y, current_screen, current_tty, driver,
                 out, ptr, str, row, arg, ret, ghosts>>

Wrap(a) ==
  /\ At(a, "x_test")
  /\ Goto(a, IF x[ptr[a]] >= tty_width THEN "nl_x" ELSE "loop")
  /\ UNCHANGED <<shared, driver, locals, ghosts>>

-----------------------------------------------------------------------------
(* tty_newline and tty_scroll. *)

NewlineColumn(a) ==
  /\ At(a, "nl_x")
  /\ x' = [x EXCEPT ![ptr[a]] = 0]
  /\ Goto(a, "nl_load")
  /\ UNCHANGED <<lock, y, current_screen, current_tty, driver, locals, ghosts>>

NewlineLoad(a) ==
  /\ At(a, "nl_load")
  /\ reg' = [reg EXCEPT ![a] = y[ptr[a]]]
  /\ Goto(a, "nl_store")
  /\ UNCHANGED <<shared, driver, out, ptr, str, row, arg, ret, ghosts>>

NewlineStore(a) ==
  /\ At(a, "nl_store")
  /\ y' = [y EXCEPT ![ptr[a]] = Inc(reg[a])]
  /\ reg' = [reg EXCEPT ![a] = 0]
  /\ Goto(a, "nl_test")
  /\ UNCHANGED <<lock, x, current_screen, current_tty, driver,
                 out, ptr, str, row, arg, ret, ghosts>>

\* Mutant: the last row is taken for one more.
NewlineTestLate(a) ==
  /\ At(a, "nl_test")
  /\ Goto(a, IF y[ptr[a]] > tty_height THEN "scroll" ELSE "loop")
  /\ UNCHANGED <<shared, driver, locals, ghosts>>

NewlineTest(a) ==
  /\ At(a, "nl_test")
  /\ Goto(a, IF y[ptr[a]] >= tty_height THEN "scroll" ELSE "loop")
  /\ UNCHANGED <<shared, driver, locals, ghosts>>

\* The rows move up inside the buffer; the screen is redrawn if it is shown.
tty_scroll(a) ==
  /\ At(a, "scroll")
  /\ IF ptr[a] = current_screen
     THEN Goto(a, "cursor_load") /\ ret' = [ret EXCEPT ![a] = "last_row"]
     ELSE Goto(a, "last_row") /\ UNCHANGED ret
  /\ UNCHANGED <<shared, driver, out, ptr, str, reg, row, arg, ghosts>>

LastRow(a) ==
  /\ At(a, "last_row")
  /\ y' = [y EXCEPT ![ptr[a]] = tty_height - 1]
  /\ Goto(a, "loop")
  /\ UNCHANGED <<lock, x, current_screen, current_tty, driver, locals, ghosts>>

-----------------------------------------------------------------------------
(* tty_update_cursor_location: current_screen is read when it is called,   *)
(* whatever tty the caller compared with it.  The driver then reads x and  *)
(* y of its argument and moves the cursor; nothing locks these steps.      *)

CursorLoad(a) ==
  /\ At(a, "cursor_load")
  /\ arg' = [arg EXCEPT ![a] = current_screen]
  /\ Goto(a, "cursor_col")
  /\ UNCHANGED <<shared, driver, out, ptr, str, reg, row, ret, ghosts>>

CursorColumn(a) ==
  /\ At(a, "cursor_col")
  /\ reg' = [reg EXCEPT ![a] = x[arg[a]]]
  /\ Goto(a, "cursor_row")
  /\ UNCHANGED <<shared, driver, out, ptr, str, row, arg, ret, ghosts>>

CursorRow(a) ==
  /\ At(a, "cursor_row")
  /\ row' = [row EXCEPT ![a] = y[arg[a]]]
  /\ Goto(a, "cursor_draw")
  /\ UNCHANGED <<shared, driver, out, ptr, str, reg, arg, ret, ghosts>>

\* Where the cursor belongs.
CursorHome == [tty |-> current_screen, col |-> x[current_screen], row |-> y[current_screen]]

\* The history of an update of the driver that was, or was not, out of date.
Judged(update, outdated) == late' = IF outdated THEN late \cup {update} ELSE late \ {update}

CursorDraw(a) ==
  /\ At(a, "cursor_draw")
  /\ cursor' = [tty |-> arg[a], col |-> reg[a], row |-> row[a]]
  /\ Judged("cursor", cursor' # CursorHome)
  /\ reg' = [reg EXCEPT ![a] = 0]
  /\ row' = [row EXCEPT ![a] = 0]
  /\ arg' = [arg EXCEPT ![a] = default_tty]
  /\ ret' = [ret EXCEPT ![a] = "call"]
  /\ Goto(a, ret[a])
  /\ UNCHANGED <<shared, shown, out, ptr, str, panic, intruded, stray>>

-----------------------------------------------------------------------------
(* tty_fill_color (kclear, kfill_color): tty->x = tty->y = 0 stores y, x. *)

FillRow(a) ==
  /\ At(a, "fill_y")
  /\ y' = [y EXCEPT ![ptr[a]] = 0]
  /\ Goto(a, "fill_x")
  /\ UNCHANGED <<lock, x, current_screen, current_tty, driver, locals, ghosts>>

FillColumn(a) ==
  /\ At(a, "fill_x")
  /\ x' = [x EXCEPT ![ptr[a]] = 0]
  /\ Goto(a, "fill_test")
  /\ UNCHANGED <<lock, y, current_screen, current_tty, driver, locals, ghosts>>

FillEnd(a) ==
  /\ At(a, "fill_test")
  /\ IF ptr[a] = current_screen
     THEN Goto(a, "cursor_load") /\ ret' = [ret EXCEPT ![a] = "call"]
     ELSE Goto(a, "call") /\ UNCHANGED ret
  /\ UNCHANGED <<shared, driver, out, ptr, str, reg, row, arg, ghosts>>

-----------------------------------------------------------------------------
(* tty_switch. *)

\* Any thread may call it, and it takes no lock.
StartSwitch(p) ==
  /\ At(p, "idle")
  /\ \E t \in Ttys : ptr' = [ptr EXCEPT ![p] = t]
  /\ Goto(p, "sw_test")
  /\ UNCHANGED <<shared, driver, out, str, reg, row, arg, ret, ghosts>>

SwitchTest(a) ==
  /\ At(a, "sw_test")
  /\ Goto(a, IF current_screen = ptr[a] THEN "sw_end" ELSE "sw_set")
  /\ UNCHANGED <<shared, driver, locals, ghosts>>

SwitchSet(a) ==
  /\ At(a, "sw_set")
  /\ current_screen' = ptr[a]
  /\ Goto(a, "sw_draw")
  /\ UNCHANGED <<lock, x, y, current_tty, driver, locals, ghosts>>

\* Mutant: tty_switch leaves the cursor alone.
SwitchDrawOnly(a) ==
  /\ At(a, "sw_draw")
  /\ shown' = ptr[a]
  /\ Judged("screen", ptr[a] # current_screen)
  /\ Goto(a, "sw_end")
  /\ UNCHANGED <<shared, cursor, locals, panic, intruded, stray>>

\* tty_driver.switch_handler
SwitchDraw(a) ==
  /\ At(a, "sw_draw")
  /\ shown' = ptr[a]
  /\ Judged("screen", ptr[a] # current_screen)
  /\ ret' = [ret EXCEPT ![a] = "sw_end"]
  /\ Goto(a, "cursor_load")
  /\ UNCHANGED <<shared, cursor, out, ptr, str, reg, row, arg, panic, intruded, stray>>

\* A thread returns from tty_switch; the exception handler goes on with
\* tty_set_current(default_tty) and its printing.
SwitchEnd(a) ==
  /\ At(a, "sw_end")
  /\ ptr' = [ptr EXCEPT ![a] = default_tty]
  /\ IF a = Isr
     THEN Goto(a, "call") /\ current_tty' = default_tty
     ELSE Goto(a, "idle") /\ UNCHANGED current_tty
  /\ UNCHANGED <<lock, x, y, current_screen, driver,
                 out, str, reg, row, arg, ret, ghosts>>

-----------------------------------------------------------------------------
(* Interrupts. *)

\* The handler is about to print on default_tty: is somebody's output there
\* under way, a thread's or that of an interrupt handler?
Intrude ==
  intruded' = (intruded \/ lock[default_tty] # NoThread \/ pc[Isr] # "idle")

\* Mutant: the handler takes the lock of the tty.
IrqEnterLocking ==
  /\ pc[Isr] = "idle"
  /\ current_tty' = default_tty
  /\ out' = [out EXCEPT ![Isr] = IrqJob]
  /\ IF lock[default_tty] = NoThread THEN Goto(Isr, "call") ELSE Goto(Isr, "enter")
  /\ Intrude
  /\ UNCHANGED <<lock, x, y, current_screen, driver,
                 ptr, str, reg, row, arg, ret, panic, stray, late>>

\* irq_dispatch for an IRQ >= 1 without handler.
IrqEnter ==
  /\ pc[Isr] = "idle"
  /\ current_tty' = default_tty
  /\ out' = [out EXCEPT ![Isr] = IrqJob]
  /\ Goto(Isr, "call")
  /\ Intrude
  /\ UNCHANGED <<lock, x, y, current_screen, driver,
                 ptr, str, reg, row, arg, ret, panic, stray, late>>

\* Mutant: tty_set_current(NULL) is forgotten.
IrqLeaveRedirected ==
  /\ pc[Isr] = "irq_leave"
  /\ ptr' = [ptr EXCEPT ![Isr] = default_tty]
  /\ Goto(Isr, "idle")
  /\ UNCHANGED <<shared, driver, out, str, reg, row, arg, ret, ghosts>>

\* tty_set_current(NULL), send_eoi and the return from the interrupt.
IrqLeave ==
  /\ pc[Isr] = "irq_leave"
  /\ current_tty' = NoTty
  /\ ptr' = [ptr EXCEPT ![Isr] = default_tty]
  /\ Goto(Isr, "idle")
  /\ UNCHANGED <<lock, x, y, current_screen, driver,
                 out, str, reg, row, arg, ret, ghosts>>

\* Mutant: the exception prints without tty_switch.
ExceptionUnswitched ==
  /\ ~panic
  /\ panic' = TRUE
  /\ current_tty' = default_tty
  /\ out' = [out EXCEPT ![Isr] = PanicJob]
  /\ Goto(Isr, "call")
  /\ Intrude
  /\ UNCHANGED <<lock, x, y, current_screen, driver, ptr, str, reg, row, arg, ret, stray, late>>

\* interrupt_handler for a CPU exception, which may strike a thread or an
\* interrupt handler and never returns.
Exception ==
  /\ ~panic
  /\ panic' = TRUE
  /\ out' = [out EXCEPT ![Isr] = PanicJob]
  /\ ptr' = [ptr EXCEPT ![Isr] = default_tty]
  /\ str' = [str EXCEPT ![Isr] = <<>>]
  /\ reg' = [reg EXCEPT ![Isr] = 0]
  /\ row' = [row EXCEPT ![Isr] = 0]
  /\ arg' = [arg EXCEPT ![Isr] = default_tty]
  /\ ret' = [ret EXCEPT ![Isr] = "call"]
  /\ Goto(Isr, "sw_test")
  /\ Intrude
  /\ UNCHANGED <<shared, driver, stray, late>>

\* for (;;) { cli; hlt; }
Halt ==
  /\ pc[Isr] = "halt"
  /\ UNCHANGED vars

-----------------------------------------------------------------------------
Init ==  \* init_tty has run
  /\ lock = [t \in Ttys |-> NoThread]
  /\ x = [t \in Ttys |-> 0]
  /\ y = [t \in Ttys |-> 0]
  /\ current_screen = default_tty
  /\ current_tty = NoTty
  /\ shown = default_tty
  /\ cursor = [tty |-> default_tty, col |-> 0, row |-> 0]
  /\ pc = [a \in Actors |-> "idle"]
  /\ out = [a \in Actors |-> <<>>]
  /\ ptr = [a \in Actors |-> default_tty]
  /\ str = [a \in Actors |-> <<>>]
  /\ reg = [a \in Actors |-> 0]
  /\ row = [a \in Actors |-> 0]
  /\ arg = [a \in Actors |-> default_tty]
  /\ ret = [a \in Actors |-> "call"]
  /\ panic = FALSE
  /\ intruded = FALSE
  /\ stray = {}
  /\ late = {}

TtyPrint(a) ==
  \/ PrintEnd(a) \/ PrintSetColor(a) \/ PrintNewline(a) \/ PrintReturn(a)
  \/ PrintBackspace(a) \/ BackspaceLoad(a) \/ BackspaceStore(a)
  \/ tty_set_char(a) \/ AdvanceLoad(a) \/ AdvanceStore(a) \/ Wrap(a)
  \/ NewlineColumn(a) \/ NewlineLoad(a) \/ NewlineStore(a) \/ NewlineTest(a)
  \/ tty_scroll(a) \/ LastRow(a)

Step(a) ==
  \/ kcall(a)
  \/ TtyPrint(a)
  \/ FillRow(a) \/ FillColumn(a) \/ FillEnd(a)
  \/ SwitchTest(a) \/ SwitchSet(a) \/ SwitchDraw(a) \/ SwitchEnd(a)
  \/ CursorLoad(a) \/ CursorColumn(a) \/ CursorRow(a) \/ CursorDraw(a)

Next ==
  \/ \E p \in Threads : StartJob(p) \/ ktty_enter(p) \/ ktty_leave(p) \/ StartSwitch(p)
  \/ \E a \in Actors : Step(a)
  \/ IrqEnter \/ IrqLeave \/ Exception \/ Halt

Spec == Init /\ [][Next]_vars

-----------------------------------------------------------------------------
(* Fairness.  An interrupt handler runs to completion: nothing preempts    *)
(* it.  The scheduler gives every thread a step again and again, between   *)
(* interrupts; a thread that wants a lock is promised nothing, the         *)
(* spinlock has no queue.                                                  *)

FairSpec ==
  /\ Spec
  /\ WF_vars(Step(Isr) \/ IrqLeave)
  /\ \A p \in Threads : SF_vars(Step(p) \/ ktty_leave(p))

-----------------------------------------------------------------------------
(* Properties. *)

CursorPcs == {"cursor_load", "cursor_col", "cursor_row", "cursor_draw"}
PrintPcs  == {"loop", "bs_load", "bs_store", "x_load", "x_store", "x_test",
              "nl_x", "nl_load", "nl_store", "nl_test", "scroll", "last_row"}
FillPcs   == {"fill_y", "fill_x", "fill_test"}
SwitchPcs == {"sw_test", "sw_set", "sw_draw", "sw_end"}
Pcs == {"idle", "enter", "call", "leave", "irq_leave", "halt"}
         \cup CursorPcs \cup PrintPcs \cup FillPcs \cup SwitchPcs

TypeOK ==
  /\ lock \in [Ttys -> Threads \cup {NoThread}]
  /\ x \in [Ttys -> Size]
  /\ y \in [Ttys -> Size]
  /\ current_screen \in Ttys
  /\ current_tty \in Ttys \cup {NoTty}
  /\ shown \in Ttys
  /\ cursor \in [tty : Ttys, col : Size, row : Size]
  /\ pc \in [Actors -> Pcs]
  /\ out \in [Actors -> Seq(Call)]
  /\ ptr \in [Actors -> Ttys]
  /\ str \in [Actors -> Seq(Chars)]
  /\ reg \in [Actors -> Size]
  /\ row \in [Actors -> Size]
  /\ arg \in [Actors -> Ttys]
  /\ ret \in [Actors -> {"call", "last_row", "sw_end"}]
  /\ panic \in BOOLEAN
  /\ intruded \in BOOLEAN
  /\ stray \subseteq Ttys
  /\ late \subseteq {"screen", "cursor"}

\* a is inside tty_print or tty_fill_color, on the tty ptr[a].
Writing(a) ==
  \/ pc[a] \in PrintPcs \cup FillPcs
  \/ pc[a] \in CursorPcs /\ ret[a] # "sw_end"

\* p is between ktty_enter and ktty_leave.
InSection(p) == pc[p] \in {"call", "leave"} \/ Writing(p)

\* Between ktty_enter and ktty_leave a thread has the tty of its process to
\* itself, although both calls and every kprint in between look the tty up
\* again (tty_current_process) and an interrupt redirects that look-up with
\* tty_set_current.
MutualExclusion ==
  \A p, q \in Threads :
    InSection(p) /\ InSection(q) /\ ThreadTty[p] = ThreadTty[q] => p = q

\* tty_set_char writes inside tty->mem, with one exception: on default_tty,
\* after an interrupt has printed there in the middle of other output
\* (irq_dispatch and interrupt_handler print without the lock).
MemorySafe ==
  /\ stray \subseteq {default_tty}
  /\ stray # {} => intruded

\* The cursor on the display is where the next character goes: when nobody
\* is printing on the current screen or updating the cursor, it stands at x and
\* y of the current screen, with one exception: the last update of the driver
\* was out of date already when it was made, because between its load of
\* current_screen, its reads of x and y and the move of the cursor another
\* thread switched the screen or somebody printed on it.  Nobody repeats such
\* an update.  (PanicVisible says where an exception leaves the cursor.)
CursorFollows ==
  (/\ ~panic
   /\ "cursor" \notin late
   /\ \A a \in Actors : /\ pc[a] \notin CursorPcs \cup {"sw_draw"}
                        /\ Writing(a) => ptr[a] # current_screen)
  => cursor = CursorHome

\* The exception screen is the one that stays: when the CPU halts, default_tty
\* is the current screen, its cursor is the one drawn, and it is on display
\* unless tty_switch returned early for one of two reasons: the exception struck
\* while a thread was switching to default_tty and had not called the driver
\* yet, or two threads have switched at once and the driver was called last
\* for the screen that was stored first.
PanicVisible ==
  pc[Isr] = "halt" =>
    /\ current_screen = default_tty
    /\ cursor = CursorHome
    /\ \/ shown = default_tty
       \/ \E p \in Threads : pc[p] = "sw_draw" /\ ptr[p] = default_tty
       \/ "screen" \in late

MovesGuarded ==
  \A t \in Ttys : x'[t] # x[t] \/ y'[t] # y[t] =>
    \/ t = default_tty /\ pc[Isr] # "idle"
    \/ \E p \in Threads : lock[t] = p /\ (pc'[p] # pc[p] \/ str'[p] # str[p])

\* Nobody moves the position of a tty but the thread that holds its lock, and
\* the interrupt handlers on default_tty.
PositionGuarded == [][MovesGuarded]_vars

\* The refinement mapping: who is between ktty_enter and ktty_leave, and where
\* each tty's next character goes.
Inside   == [t \in Ttys |-> {p \in Threads : ThreadTty[p] = t /\ InSection(p)}]
Position == [t \in Ttys |-> <<x[t], y[t]>>]

Monitor == INSTANCE TtyMonitor WITH
  Home <- ThreadTty, Console <- default_tty, Positions <- Size \X Size, Start <- <<0, 0>>,
  inside <- Inside, position <- Position

\* Every step of the threads, the handlers and the driver, down to single loads
\* and stores, is a step of a monitor or none: ktty_enter and ktty_leave let one
\* thread at a time into the tty of its process, whatever interrupts and
\* tty_switch do in between.
MonitorSpec == Monitor!Spec

\* An interrupt handler never waits for the thread it interrupted: its
\* output ends, and it returns or the exception handler halts the CPU.
InterruptEnds == pc[Isr] # "idle" ~> pc[Isr] \in {"idle", "halt"}

\* A tty is not locked for ever, unless an exception stops the system.
LockReleased == \A t \in Ttys : lock[t] # NoThread ~> lock[t] = NoThread \/ panic

-----------------------------------------------------------------------------
(* The inductive invariant behind MutualExclusion and MemorySafe. *)

\* Threads never see a redirected current_tty; the handlers print on the
\* console only.
RedirectInv ==
  /\ pc[Isr] = "idle" => current_tty = NoTty
  /\ pc[Isr] \in {"call", "irq_leave", "halt"} \/ Writing(Isr) => current_tty = default_tty
  /\ Writing(Isr) => ptr[Isr] = default_tty
  /\ pc[Isr] \notin {"enter", "leave"}

\* A thread in its section owns the lock and prints on the tty it locked.
OwnerInv ==
  \A p \in Threads :
    /\ InSection(p) => lock[ThreadTty[p]] = p
    /\ Writing(p) => ptr[p] = ThreadTty[p]
    /\ pc[p] \notin {"irq_leave", "halt"}

\* An interrupt above a thread in its section on the console is an intrusion.
IntrusionInv ==
  \A p \in Threads :
    InSection(p) /\ ThreadTty[p] = default_tty /\ pc[Isr] # "idle" => intruded

Undisturbed(t) == t # default_tty \/ ~intruded

\* Where a's output may have left the position of its tty.
PositionOK(a) ==
  LET t == ptr[a] IN
    /\ x[t] <= tty_width
    /\ x[t] = tty_width => pc[a] \in {"x_test", "nl_x"}
    /\ y[t] <= tty_height
    /\ y[t] = tty_height => \/ pc[a] \in {"nl_test", "scroll", "last_row"}
                            \/ pc[a] \in CursorPcs /\ ret[a] = "last_row"
    /\ pc[a] \in {"x_store", "bs_store"} => reg[a] = x[t]
    /\ pc[a] \in {"bs_load", "bs_store"} => x[t] > 0
    /\ pc[a] = "nl_store" => reg[a] = y[t]

WriterInv == \A a \in Actors : Writing(a) /\ Undisturbed(ptr[a]) => PositionOK(a)

RestInv ==
  \A t \in Ttys : Undisturbed(t) /\ (\A a \in Actors : Writing(a) => ptr[a] # t)
    => x[t] < tty_width /\ y[t] < tty_height

IInv == TypeOK /\ RedirectInv /\ OwnerInv /\ IntrusionInv /\ WriterInv /\ RestInv /\ MemorySafe

=============================================================================
