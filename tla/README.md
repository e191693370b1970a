# 88os: TLA+ models, model checking and proofs

88os is a collection of small x86 kernels and boot loaders that grew side by
side: a terminal layer with interrupt dispatch (`kernel/tty.c`,
`include/interrupt.c`), descriptor table code (`include/idt.c`), the MiniOS32
kernel with its own keyboard handler and disk driver (`kernel_main.c`), the
LevOS kernel with its late initialisation, login and terminal
(`kernel/main.c`), a C++ kernel (`kernel/src/kernel_main.cpp`), an installer
and several boot sectors.  They are separate programs; what they have in common
is that code runs above other code (interrupt handlers above threads, tasks
beside tasks) on state that few locks protect.  The models are about that.

## Inventory

| Component | State | Operations | Hard behaviour | What makes it correct |
|---|---|---|---|---|
| Virtual terminals (`kernel/tty.c`) | per tty: lock, x, y, colour, memory; `current_screen`, `current_tty` | `ktty_enter/leave`, `kprint`, `kclear`, `kfill_color`, `tty_switch`, `tty_scroll`, cursor update | every `k*` call looks its tty up again; `x`, `y`, `current_screen` are read and written without lock by interrupts and by switches | a thread has its tty to itself; writes stay in the tty's memory; the cursor is where the next character goes; an exception is visible |
| Exceptions and IRQs (`include/interrupt.c`) | `irq_handlers[16]` | `interrupt_handler`, `irq_dispatch`, `register_irq_handler` | print on a tty without its lock; two controllers | every interrupt is acknowledged; the right handler runs; no handler waits |
| Descriptor table (`include/idt.c`) | gates and wrappers at fixed addresses, count, `idtr_info`; a second table `idt`, `idtp` | `idt_install_interrupt`, `idt_load`, `idt_set_gate`, `idt_install` | the CPU reads the table between any two stores | a reachable gate leads to the ISR installed |
| PIO disk driver (`kernel_main.c` 842-970) | the drive's registers | `int13h_read_o`, `int13h_write_o` | called by `main` and, above it, by `isr_keyb`; busy, failing drive | a read returns the sectors asked for, a write puts them there; calls return |
| Keyboard line and monitor (`kernel_main.c` 71-619) | `inp[100]`, `cntr`, the installed ISRs | `isr_keyb`; boot and monitor commands of `main` | keys between any two steps of `main`; what one line leaves for the next | a command runs exactly when its line was typed |
| Late initialisation (`kernel/main.c` 254-292) | pids | `START`, `START_AND_WAIT` | a dozen tasks side by side, some never waited for | order of the drivers, login reached, terminal restarted |
| Kernel terminal (`kernel/main.c` 293-575) | `buffer[256]`, `loc`, `wd`, `prompt_size`, `root_mounted` | line editor, `cd`, `fl`, `write`, `touch`, programs | backspace goes by the display's column; statics survive a crash | what is on the screen is what is executed |
| Login (`kernel/main.c` 65-117) | a 64-byte buffer, its index | name, password, retry | unbounded input; what one line leaves for the next | accepts exactly the two words, in order; the terminal waits for it |
| Line shell (`include/shell.c` 131-317) | `shell_buffer`, `shell_buffersize`, `running` | keys, backspace, newline, five commands | a full buffer drops what does not fit, the final zero too; `argv` of 32 words of 32 bytes | the line that runs is the line on the screen |
| C++ kernel (`kernel/src/kernel_main.cpp`) | three driver pointers, `buffer`, `ide_disk`, `ahci_disk`, `diskIndex`, the USB disks | allocation, probing, search for the boot disk, file system; scheduler loop | failing reads nobody looks at, missing controllers, USB disks that come and go | the file system is on the disk the kernel came from; no disk is passed over |
| Boot loader (`bootloader/oldbootloader1.asm`, `oldbootloader2.asm`) | the A20 gate, the keyboard controller, `VbeModeList`, `VbeModeInfo`, the memory map, the sectors read, the page tables | enabling A20 in three ways, loading the second stage, VBE list, `do_e820`, `load_kernel`, mode search, paging, copy and call of the kernel | BIOS calls that fail, keys pressed while the controller is in use, a mode list that does not fit, any drive geometry | the kernel is whole and in order; the gate is open; the mode is one the system knows; a boot ends |
| Installer (`install.cpp`) | the partitions and their files, `hdd:`, CWD, the registry process | choose, format, mount, unpack, configure, GRUB, answers, save the registry | failures nobody looks at, an exception nobody catches, power failures, a second run over the remains of the first | a GRUB image finds its identification file; an archive fits its partition; nothing is formatted unasked |
| Boot sectors of the other loaders, string and timer helpers | registers | printing, conversions | - | not modelled, see below |

Interaction: `include/interrupt.c` prints through `kernel/tty.c` (composed in
`Tty`, whose interrupt actor is the code of `interrupt.c`); `isr_keyb` uses the
disk driver above `main` (composed in `AtaPio`, whose two callers they are);
`late_init` starts and waits for `__login` (composed in `LateInit`) and then
starts, waits for and restarts `_test` (`LateInit` has the task, `Terminal` its
inside and its restart); the boot loader calls `kernel_main` of the C++ kernel
and hands it the memory map (`BootDisk` extends `BootLoader`, one boot from
0x7c00 to the file system).

## Modules

**Tty** models `kernel/tty.c` with the two paths of `include/interrupt.c` that
print.  Actors are the threads and one interrupt context `Isr`; `pc`, `ptr`,
`str`, `reg`, `row`, `arg`, `ret` are an actor's locals.  One step is one access to
shared memory, because the Makefile compiles without `-O` and `++tty->x` is a
load and a store.  Threads interleave freely; while `pc[Isr] # "idle"` no thread
moves.  `Jobs`, `IrqJob`, `PanicJob` say what is printed, in the six kinds of
characters `tty_print` tells apart.  `size_t` wraps at `SizeMod`.  History
variables: `stray` (ttys written outside their memory), `intruded` (an interrupt
printed on the console in the middle of other output), `late` (the driver's last
update of the screen or of the cursor was out of date when it was made).  The
driver's update of the cursor is external and takes no lock: the load of
`current_screen`, the reads of `x` and of `y` and the move of the cursor are four
steps, and another actor may print or switch between any two.  Any thread may
call `tty_switch`, two of them at once.

**TtyMonitor** is what the lock promises: a tty is a monitor.  At most one thread
is inside the tty of its process, only it moves the tty's position, and the
console moves under interrupts.  `Tty` implements it under the mapping `inside`
<- the threads between `ktty_enter` and `ktty_leave` (`Inside`), `position` <-
`x` and `y`; look-ups, half-finished prints, scrolls and cursor updates are
moves or stutters.

**Idt** models `include/idt.c`, one store per step; `__set_isr_wrapper` copies a
packed structure of 11 bytes, so its address goes through a torn value.  Memory
at the fixed addresses starts as junk, present bits included.  `installed` is
the history of what was asked for.

**HandlerTable** is what that promises: a table in which only the entry of the
number being installed changes, is whole again when the installation ends, and
in which a load only adds numbers.  `Idt` implements it under the mapping
`reached` <- where the CPU arrives now through limit, present bit, offset and
wrapper (`Arrives`), `promised` <- `installed`, `busy` <- the number under way.

**Interrupts** models the dispatch of hardware interrupts with both 8259A
controllers (external, from how `send_eoi` and the vectors use them): a line is
requested, its controller has it in service, the CPU runs `interrupt_handler`
and acknowledges it.

**AtaPio** models the two disk functions of `kernel_main.c`, one port access per
step, with two callers, the second above the first, and an external drive that
may fail, and that may take or ignore what is written while it is busy.
Addresses are four digits to the base `Digit`; a word read is known by its
sector.  `mixed` marks a call that met another one under way.

**Keyboard** models `isr_keyb` (one key is one step: the handler is not
interrupted) and the installation of the ISRs by `main` and by its command
`x`.  `keys` is the history of the line typed; `left` of the newlines earlier
lines have left in `inp`; `rebuilt` says that `x` has rebuilt the table, without
the gate of `isr_keyb`.  A key then finds no gate, nor does the fault it causes:
`KeyFault` resets the machine, where the model ends.

**LateInit** models `late_init` as the script of its calls and the tasks that
run beside it.  `START_AND_WAIT`, and `START` followed by a loop on
`is_pid_running`, are steps that wait.  One of the tasks is **Login**: `__login`,
one key or one line per step, over its buffer of `BufSize` bytes.  `typed` is the
history of the line; `wild` says that a byte went behind the buffer, after
which the only thing the model still allows the login is to crash.

**BootLoader** models the two stages of `oldbootloader1.asm` and
`oldbootloader2.asm`: one step per BIOS call, per byte given to or taken from the
keyboard controller, per pass of a loop.  The controller is an actor of its own
(`Controller`), and so is the user who presses a key (`KeyPress`) or reboots.
`TestA20` works on the two bytes it writes, which are one byte while the gate is
closed.  `list` is what was copied behind `VbeModeList`, which has `ListWords`
words; `Beyond` stands for the other words of the segment, of which nobody knows
what they hold: `di`, 16 bits, walks through them and back to the list until it
meets 0xffff, or for ever.  A list read from a wrong address, or after a failed
4f00, is any memory; without 0xffff in it the copy runs over the loader itself,
where the model ends (`"overwritten"`).  `screen` is the mode the display is in.  `kernel` is, for
each of the 240 sectors at 0x100000, the sector of the disk that is there.
External: the BIOS and the controller.

**BootDisk** extends it with `kernel_main` of `kernel/src/kernel_main.cpp` up to
the file system: the count of the memory (`ReadMemoryMap`), then the search for
the boot disk.  `buffer` is the disk whose first sector it holds, so that a
failed read, which nobody looks at, leaves the sector of the disk before; `heap`
are the blocks allocated and not freed.  The drivers are external; `UsbChange` is
the user.

**Install** models `main` of `install.cpp`, one step per call of the system or
program started.  A file is what has been put into its placeholders.  `Child`
is a program that does its work, fails by itself, or cannot because it or what
it needs is not there: the installer notices none of that, but a file that
cannot be opened makes `replace_in_file` throw.  `replace_in_file` truncates the
file in one step and writes it in another (`write_back`); either may fail
unnoticed, and so may the creation of the identification file.  `PowerFailure`
and `Again` are what lies between two runs.  History: `failed` (how many calls of
this run failed), `astray` (partitions written to by a run that had chosen
another), `torn` (files whose rewriting failed or was cut off), `unwritten`
(identification files that could not be created).

**Shell** models the shell of `include/shell.c`, one key per step.  `shown` is
the line on the screen, `dropped` says that a key of it was not stored, `beyond`
that the interpreter has left its arrays, where the model ends.

**Terminal** models `_test`: one key is one step, one command is one step,
other tasks print in between (`ForeignOutput`), `Crash` and `Restart` are the
loop at the end of `late_init`.  `cx` is the display's column; `line` is what
the user sees, `trusted` says that nothing has moved the prompt from where
backspace takes it to be.  `wd` is the lengths of the path up to each of its
slashes: `strlen(wd)` is the last of them, `cd` adds one, `cd ..` drops one.

`MC*` modules hold the constants for TLC.  `TtyProofs`, `IdtProofs`,
`AtaPioProofs`, `KeyboardProofs`, `TerminalProofs`, `ShellProofs`,
`BootDiskProofs` and `InstallProofs` hold the theorems; `IdtProofs` those about
`Interrupts` too, `TerminalProofs` all those about `kernel/main.c` (`Terminal`,
`LateInit`, `Login`).  Definitions marked *Mutant* are mistaken
variants of the definition that follows them; replacing it by one of them must
make TLC report the property `PROJECT.json` names.

## Runs

| Run | Checks | Instance |
|---|---|---|
| `tty_shared` | `MutualExclusion`, `CursorFollows`, `PanicVisible`, `MonitorSpec` (the abstract specification) | two threads on one tty, a second tty as console, a 2x2 screen: every second line scrolls it (lines that wrap, and threads that clear the screen, are in `tty_console`); texts with newline, backspace, colour command at the end of the string; both threads switch, IRQs, one exception |
| `tty_console` | `MemorySafe`, `InterruptEnds`, `LockReleased` | both threads on the console itself, the only tty, so that interrupts land inside their prints; with fairness |
| `idt` | `GateServed`, `TableSpec` (the abstract specification) | 3 gates (a gap, an end, a re-installation), 2 ISRs, present and absent gates |
| `interrupts` | `MasterFree`, `MasterServed` | two lines of each controller, around line 2 where the slave sits |
| `interrupts_slave` | `HandlerOfLine`, violated | see Findings |
| `ata_shared` | `TypeOK`, `ReadExact`, `WriteLands`, `InsidePartition`, `DriveLeftIdle`, `UndisturbedReturns` | `main` reads 2 sectors, or one too far, or from an offset so high that the sum wraps past the bounds check; `isr_keyb` reads 1, writes 2 or writes none above it, in a partition of 4 sectors that starts at 5 (all four address digits are in use, the highest of them 0 or 1: `Top` = 2); the drive counts sectors modulo `CountMod` = 3 and takes 0 for 3; drive may fail; with fairness |
| `keyboard` | `TableWhole`, `RunsExactly` | words of 1 and 2 letters that share a prefix, `inp` of 5: lines shorter, longer and too long |
| `late_init` | `BootOrder`, `BootGoesOn`, `LoginExact` | the script as it is; login words of 2 letters over an alphabet of 2, a buffer of 4: lines that match, differ, are prefixes, fill and leave the buffer |
| `terminal` | `LineShown`, `OverrunExplained` | buffer of 4, 6 columns, prompts of 2 and more, `prompt_size` modulo 8, lines up to 5 keys (`MaxLine`), a path up to `WdSize` = 6: lines wrap, overrun, prompts exceed both a row and `prompt_size` |
| `boot_disk` | `TypeOK`, `A20Sound`, `ResetExplained`, `KernelWhole`, `ModeFits`, `RamCounted`, `FsOnBootDisk`, `SearchComplete`, `DriversLive`, `BootEnds` | the loader: gate open or not, a controller or none, mode lists of 0 to 3 entries for a `VbeModeList` of `ListWords` = 2 words (`Beyond` = 3 words more in the segment): lists that fit with their end mark, whose end mark is in `CurrentMode`, and whose end mark the search overwrites, a pointer into the information block and one into ROM, up to `MaxEntries` = 2 memory entries of which `MinRam` = 2 must be usable, three geometries (a hard disk, a floppy, a drive without a fourth sector on a track).  The kernel: any of the three controllers, 4 IDE, 2 AHCI and 2 USB disks of which up to two hold something (blank, the signature only, a bootable system): enough for one disk to be mistaken for another; `UsbBase` = 7 is the first number behind the AHCI disks, as 0x81 would be with 124 of them |
| `install` | `ImageFinds`, `ArchiveFits`, `Complete`, `FormatAsked`, `RegistryEnds` | two partitions of one disk, one with FAT and one to be formatted first (`FirstFs`), `MaxRuns` = 2, up to `MaxFailures` = 2 failures in each: the second run meets whatever a failed, aborted or cut-off first one left, on the same partition or with `hdd:` on the other |
| `shell` | `RunsShown` | a buffer of 7, `argv` of 3 words of 4, two letters and the space, commands of 1 and 2 letters, lines up to 8 keys (`MaxShown`): lines that just fit, fill the buffer, overflow it, and have one word or one letter too many |

Bounds.  The sizes are those of the smallest instance in which the boundary in
question is reached several times: a screen that wraps and scrolls, a gap in the
table, a partition smaller than the address space, a line longer than its
buffer.  The only bounds that cut behaviour off are `MaxLine` and the guard of
`CdInto` in Terminal and `MaxShown` in Shell (all past the overrun they lead to),
`MaxEntries` in BootLoader (a longer map only repeats; `Beyond` cuts nothing off,
a search goes round the segment), `MaxRuns` and `MaxFailures` in Install (the
theorems hold for any numbers),
and in Keyboard, Login, Shell and BootLoader the end of the model once memory
behind the buffer, or the loader, has been overwritten or read.  There is no
symmetry: the instances are small enough without.  The type
invariants of AtaPio and BootDisk are theorems, and the runs check them too
because the arithmetic they bound (registers, counters) is where a mistake of the
code would show first; those of the other modules are theorems that no run
repeats.

Fairness.  `Tty`: an interrupt handler runs to completion (weak fairness of its
steps: nothing preempts it); the scheduler gives every thread a step again and
again, between interrupts that disable it over and over (strong fairness of a
thread's own steps, not of getting a lock: the spinlock has no queue).
`Interrupts`: interrupts are enabled in threads, handlers return.  `AtaPio`: a
drive ends its busy phases, the code goes on when it can.  `LateInit`: the idle
thread is scheduled, and the four tasks it waits for during initialisation end;
nothing is assumed of the tasks it does not wait for, of the user's login or of
the terminal.  `BootDisk`: the only processor runs the loader and the kernel, a
keyboard controller takes what it is given (a machine without one is excluded
from `BootEnds`: `WaitCommand` then hangs).  `Install`: the programs it waits for
end and the user answers.

Deadlock is checked everywhere but in `shell` and `install`, programs that end;
the places where the code loops (`Halt`, `Spin`, `schedule_noirq`,
`MonitorCommand`, `Halted`, `Hang`) are stuttering steps.

### What the runs show

* The lock of a tty works although both ends of the critical section look the
  tty up through `current_tty`, which interrupts redirect: they restore it
  before any thread runs.
* `tty_set_char` stays inside the buffer, with one exception: on the console,
  once an interrupt has printed in the middle of other output, `x` and `y` can
  leave the screen (`x` can even wrap below 0), because neither `irq_dispatch`
  nor the exception handler takes the lock.  If they did, `InterruptEnds` would
  fail; the mutant of that property shows it.
* When nobody prints on the current screen, the cursor stands where its next
  character goes, except after an update of the driver that was out of date
  already when it was made: `tty_update_cursor_location` takes no lock, and
  whoever prints or switches between its reads and the move of the cursor may
  have made an update of their own before it.  Such a cursor stays until the
  next update.
* An exception screen is displayed except when the exception strikes inside a
  `tty_switch` to the console, between the store and the driver call, or after
  two threads have switched at once and called the driver in the other order
  than they stored `current_screen`: `tty_switch` then finds the console current
  and returns.
* A gate inside the loaded limit leads to its ISR, with one window: while a
  number is being installed its gate is present before its wrapper is there.
* No line of the master stays in service while a thread runs, so none is lost
  there.  A line of the slave is served once at most: the acknowledgement goes
  to the master alone (see Findings).
* The monitor command that rebuilds the descriptor table does so with interrupts
  off from its first store to its last; no interrupt meets a table without
  the gates of the timer and of the default ISR.  It does not put the gate of the
  keyboard back (`kernel_main.c` 346-347): the next key resets the machine.
* A read or a write of the disk that has the drive to itself is exact.  Calls
  that overlap are promised nothing: `isr_keyb` does not look whether `main` is
  using the drive.  A call that has the drive to itself and meets no error
  returns; one that meets an error polls for ever, reads on DRQ, writes on ERR,
  although "Returns 0 on success and non-zero on failure"
  (`kernel_main.c:843`).  Every sector touched lies inside the partition unless
  the sum in the bounds check wraps (then sectors before it are read) or no
  sector was asked for: the check lets an empty request pass at the end of the
  partition, and the drive takes 0 for its largest number.  After any other
  call the drive is left idle, with no sector to fetch.
* After a line of length n, a command of length n - 1 is not recognised until a
  longer line has been typed: `isr_keyb` clears the characters of `inp` and not
  the newline.  "dir" fails right after "demo".
* The login accepts exactly its two words, whatever was tried before.  The
  terminal is started only after it, or after a line longer than its buffer.
* The boot waits for the tasks in an order that keeps drivers behind the device
  manager.  It does not wait for all of them: the comment "We now wait till all
  the late_inits have finished" (`kernel/main.c:277`) stands above a loop on the
  pid of `pci_init` alone, and keyboard, vfs, loader, ELF, clock and modules may
  still be coming up when the login starts.
* The C++ kernel mounts the disk whose sector it has compared, failed reads and
  vanishing USB disks included: the search stops at the first match, so `buffer`
  never holds a signature that the current disk has not supplied.  It also says
  "not found" only if the read of every signed disk failed.
* The kernel at 0x100000 is whole for any geometry: `getchs` and the BIOS's own
  arithmetic are inverse to each other.  The loader goes on exactly with an open
  gate, and `TestA20` leaves both bytes as they were although they are one byte
  while it is closed.
* The processor is reset on the way only by the byte written to the controller's
  output port, and only if a key was pressed between `cli` and the controller's
  0xAD: its scan code is taken for the port's old value.
* The display is in the better of the two modes the system knows, and
  `VbeModeInfo` describes it, except after a failed
  `int 10h`, whose status nobody looks at, the one that sets the mode included; with a list that does not fit
  `VbeModeList` (its end mark may still lie in `CurrentMode`; behind that, in
  `VbeModeInfo`, the search itself overwrites it); with a list
  pointer whose segment is not 0 (the segment is added as if it were an offset);
  and on a floppy disk, where `int 13h` 08h changes `es`.
* A boot ends, with a message, a reset or a kernel, with two exceptions: the copy of a mode list
  that is not where the loader looks may meet no 0xffff and run over the loader;
  and a search with `es` lost, or in a list whose end mark it has overwritten, may
  go round the segment for ever.
* The kernel counts the memory the BIOS reported, unless the upper half of
  `mem_map_entries_count`, stored with 16 bits and read with 32, was not 0.
* Wherever the installer is cut off, an image looks for an identification file
  that is not there only if exactly that file could not be created, which nobody
  looks at: the file is written before `load_cfg` names it, and the image is made
  after.  A mount that fails unnoticed lets the installer write to the partition
  of the run before; that is the one way an archive names another partition than
  its own.  A rewriting that fails or is cut off between the truncation of the
  file and its writing is the one way an image has no UUID, or an archive a
  placeholder or an empty configuration; it may have been in an earlier run, if
  unpacking fails in this one.  The `fs` recorded is the one before formatting,
  and `$MBR$` is recorded as true after a no too, because `install_grub` returns
  true whatever was answered.  A disk without a label, or an exception in
  `replace_in_file`, ends the installer at once; the latter leaves the registry
  process running.
* The line shell runs the line on the screen as long as the line has never been
  longer than the buffer; a line that leaves no room for the zero makes the
  interpreter read on behind it.
* Behind a prompt that nobody has moved, the terminal executes what is on the
  screen, wrapped lines included.  Other output, a program that ends without a
  newline, a crash in the middle of a line or with a root mounted, or a prompt
  beyond 255 columns make backspace run `loc` below 0.

### Findings

* `interrupts_slave`: `interrupt_handler` subtracts `INTERRUPT_VECTOR_IRQ8` for
  the lines 8 to 15, so `IRQ_MOUSE` (12) runs the handler of line 4, and the
  slave controller is never acknowledged.

## Proofs

`tlapm` checks all of them, for every value of the constants that satisfies the
named assumptions.

**TtyProofs** (any number of threads and ttys, any screen, any output).
`TypeCorrect`, `MutexCorrect`, `MemoryCorrect`, `PositionGuardedCorrect`,
`CursorCorrect`, `PanicCorrect`, `MonitorImplemented`.
`MutualExclusion` is not inductive: a thread could release another's lock if
`current_tty` were redirected while it runs.  `IInv` adds `RedirectInv`
(`current_tty` is NULL whenever a thread can run, and the console while a
handler prints), `OwnerInv` (a thread in its section owns the lock of its own
tty and prints there), and for memory `WriterInv` and `RestInv`: where each
half-finished print may have left the position of its tty (`PositionOK`), and
that a tty nobody prints on is inside the screen.  Both hold for ttys that no
interrupt has intruded on; `IntrusionInv` says that an interrupt above a section
on the console is recorded.  `CursorFollows` is inductive with the types:
whoever moves a position owes the cursor a redraw (`Redraws`), no step of
another actor takes that debt away (`Owes`), and the only step that pays it,
`CursorDraw`, either moves the cursor to where it belongs or is recorded in `late`
as out of date.  `PanicVisible` needs `ScreenInv`: who is about to show the
current screen, or that a switch was overtaken (`ShownInv`), and what the
exception handler has reached, and read for the cursor, by each of its steps
(`PanicInv`).  `MonitorImplemented` is the
refinement: under `IInv` only `ktty_enter` and `ktty_leave` change who is inside
(`SectionChange`); an entry finds the tty empty because whoever were inside would
own the lock (`EnterMonitor`); and a step that moves a position is one of the
thread inside, or of a handler on the console (`MoveMonitor`, from
`PositionGuarded`).  Assumptions: `ActorAssumption`, `TtyAssumption`,
`SizeAssumption` (the screen fits `size_t`), `JobAssumption` (jobs are sequences
of calls; that of the exception is not empty).

**IdtProofs** (any number of gates and ISRs).  `TypeCorrect`,
`GateServedCorrect`, `ReachableCorrect` from `IInv`: how far the count has got at
each step (`CountInv`), that neither length nor loaded limit passes the count
(`LimitInv`), that counted gates have been written (`WrittenInv`, `RewriteInv`)
and that a gate of the gap is absent before it is counted (`GapInv`).  Without
`LimitInv` the CPU could reach a gate that is still junk.  `TableImplemented`
is the refinement: the initial states map to an empty table, and under `IInv`
every store maps to a change of the busy entry or to nothing, `idt_load` to an
abstract load, the last store to the end of the installation.
About Interrupts (any handlers, any set of lines without the cascade 2): `DispatchTyped`,
`MasterAlwaysFree`, `MasterAlwaysReady`, `SlaveServedOnce` from `IrqInv`, which
adds to the types what each step of the dispatch owes the controllers
(`MasterInv`): while the CPU is in a handler, its line (2 for one of the slave's)
is the only one in service at the master, and the acknowledgement that ends the
handler clears it.
`SlaveServedOnce` is the other side, for every line of the slave: it never leaves
the in-service state once it is there, whatever is registered.  Assumption:
`LineAssumption`.

**AtaPioProofs** (any partition, any widths of registers, counters and words, any
requests of the two contexts).  `PioTypes`, `ReadsExact`, `WritesLand`,
`StaysInside`, `LeavesDriveIdle` from `PioInv`: a call that has not met another
one is the only one under way (`Alone`, `Owned`); the registers it has written
hold the digits of its address, and from the command to the return the drive is
at the sector and the word that `iterator` and the inner counter say (`Phase`),
with what has been transferred in the buffer or on the disk (`Buffer`, `Disk`).  The lemmas under it are about
arithmetic: quotient and remainder are unique, the digits of an address put
together again give the address, a sum modulo the width of a word is the same
sum modulo the width of an address.  Assumption: `PioAssumption`; it has the
partition inside the address space (`part_start_lba + part_length <= LbaMod`),
four digits make an address, and the 32-bit sum wraps at a multiple of the
28-bit one (`WordMod % LbaMod = 0`).

**KeyboardProofs** (any words, any buffer size).  `TypeCorrect`,
`ResidueCorrect`, `RunsExactlyCorrect`: the residue in `inp` is the invariant
from which it follows for which lines `strcmp` succeeds.  `TableAlwaysWhole`:
no interrupt is taken while `main` rebuilds the descriptor table, and only a key
behind command x meets a missing gate; it needs that `main` works on the table
with interrupts off only and that x is remembered (`RebuildInv`).
Assumptions: `CharAssumption`, `WordAssumption`.

**TerminalProofs** (any sizes of buffer, display, counters and path, any prompts).
`TerminalTypes`, `AlwaysShown`, `AlwaysExplained`.  `LineShown` is not inductive:
backspace looks at the column, which wraps, and never at `loc`.  `LineInv` adds
that the column is at most `prompt_size` plus the length of the line (`EditInv`;
that is enough: a column behind the prompt means that the line is not empty),
and that `loc`, which is static, is 0 between two lines unless the terminal died
in one (`LocInv`).  Assumption: `TerminalAssumption` (the buffer is smaller than
the range of `loc`, the prompt of the kernel fits a row).
About `late_init` and the login (any alphabet, any two words that fit, any
buffer): `BootTypes`, `BootOrdered`, `LoginAlwaysExact`, `AlwaysInTurn` from
`BootInv`.  `BootOrder` speaks of tasks started; it follows from where the script
is (`ScriptInv`: the calls before the current one have been made, the current
and later ones have not, and a call that waits was passed only when its task had
ended).  That the terminal stands behind an accepted login needs `LoginEnded`: the
login ends by accepting or over its buffer only.  `LoginExact` needs `LoginInv`:
while the line fits, the buffer holds the line and a zero behind it whatever lines
were tried before, so that `strcmp` compares the line.  Assumption:
`LoginAssumption`.

**ShellProofs** (any alphabet, commands and sizes).  `TypeCorrect`,
`BufferAlwaysShown`: `shell_buffer` is the line on the screen until a key is
dropped.  The two are inductive together.  Assumption: `ShellAssumption`.

**BootDiskProofs** (any lists of modes and memory, any set of geometries with 1
to 63 sectors and 1 to 256 heads, any number of disks).  `Loaded`:
`LoadInv`, which adds to `A20Sound` and `KernelWhole` which half of the kernel is
where at which stage, that nobody talks to the controller outside
`tryUsingKeyboardController`, and that a drive was found before it is read.
`KernelAlwaysWhole` rests on the lemma `ChsInverse` (sector to cylinder, head and
sector and back is the identity), `A20AlwaysSound` on `TestTells` (what the test
returns and leaves).  `Searched`: `SearchInv`, because neither `FsOnBootDisk` nor
`SearchComplete` is inductive: `FoundInv` ties `diskIndex`, the pointers and
`buffer` together, `DriversInv` the pointers to the hardware, and `IdeSeen`,
`AhciSeen`, `PortsSeen`, `UsbSeen` say of each part of the search that the signed
disks behind it were missed by a read of their own.  `FsAlwaysOnBootDisk` and
`SearchAlwaysComplete` follow.  `ResetsExplained` rests on `KeyInv`: at each step
of the conversation with the keyboard controller the byte written to the output
port has been read from the controller, and one that resets the processor is
the scan code of a key pressed meanwhile.  `ModesFit` rests on
`VideoInv`: as long as the list is whole and no call has failed, the search is inside
it and has passed no mode it looks for (`SeekInv`), `VbeModeInfo` is of the
mode looked at last (`InfoInv`), and the display is in the mode chosen unless the
call that sets it failed (`ChoiceInv`).
`DriversAlwaysLive` rests on `HeapInv`: which blocks are allocated at each step
from the first allocation on.  `Typed` is the type invariant of the whole boot.
Assumptions: `LoaderAssumption`, `DiskAssumption`.

**InstallProofs** (any number of partitions, disks and runs).  `Installed`: `IInv`
is `BaseInv` (there is a partition chosen after `select_partition`), `ImageInv`
(`load_cfg` names an identification file that is there, or one whose writing
failed, or is itself known to be cut off), `ArchiveInv` (the configuration names
its own partition unless it is known not to, because it was written at a wrong
place or cut off) and `CwdInv`; without the middle two an image or an archive
made by a second run could take over what a first run left half done, between
the truncation and the write of `replace_in_file` too.  `ImageAlwaysFinds`,
`ArchiveAlwaysFits`, `CwdAlwaysRestored`, `TypeCorrect`.  `AlwaysComplete` needs
`RunInv`: while nothing has failed, `hdd:` is the partition chosen, and what each
step has left there (configuration, archive, identification file, image, boot
sector, answers, registry) stays until the end.  `AlwaysAsked` needs `AskInv`:
the line typed last names the partition chosen when the question is put, and
from the identification file on no write can leave a partition empty.
Assumption: `InstallAssumption` (a file that is missing, one with its
placeholders still in it and one cut off are three different things, and none of
them is a partition or an identifier; every partition has a file system).

Only model-checked: all liveness (`InterruptEnds`, `LockReleased`,
`MasterServed`, `UndisturbedReturns`, `BootGoesOn`, `BootEnds`, `RegistryEnds`),
which is out of the prover's reach; `RunsShown` and `RamCounted`, which are about
folds over a line and over the memory map and would need induction over
them.  `HandlerOfLine` is violated and has no theorem.

## Not modelled

The scheduler loop of the C++ kernel (`kernel_main.cpp` 328-344): it only looks
at what a timer interrupt does that is not in the repository; the desktop before
it is drawing.  Two statements of `kernel_main` that the model passes over
because the machine's answer is not known: the store through `ehci_driver` when it
is 0 (264) and the one `malloc` whose result is not tested (176).  In the
installer `get_env` for values of more than 128 bytes, where the buffer is never
filled (`install.cpp` 40-52): values are taken to be shorter.  `idt_install` loading `idtr_info`
instead of the `idtp` it has just filled (`idt.c:170`): `Idt` has both and the
load as it is, no property speaks of the second table.  The length of `wd` is
bounded and its overrun recorded (`stray`), what follows it is not modelled.
String and timer helpers (`lib/string.c`, `include/timer.c`): sequential
conversions whose result a unit test settles.  `boot/boot.asm` and the other
boot sectors: one BIOS call and a message.  The other command functions of `include/shell.c`
(1-129) and the commands of `_test` that only print.  Drawing (`drawtext`, lines, circles): arithmetic on
pixels without state beyond the position.  FAT, the scheduler, device and file
system layers: used by the code, not in the repository.  The remaining kernels
(`kernel.c`, `kmain.c`, `kernel/kernel.c`, `kerneltesting.c`) print banners.
System calls: `syscall_dispatch` is not in the repository.

## Plan

1. Done: Tty with TtyMonitor, Idt with HandlerTable, Interrupts, AtaPio,
   Keyboard, LateInit with Login, Terminal, BootLoader with BootDisk, Install,
   Shell; proofs of every safety property of theirs that is not about a fold, and
   of both refinements.
2. Abstract specifications left: a line editor (a sequence of keys) that Terminal
   and Shell implement while nothing has been dropped.
3. Modules left: the text cursor of `drawtext` (`kernel_main.c` 634-720).
