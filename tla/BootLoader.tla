----------------------------- MODULE BootLoader -----------------------------
(***************************************************************************)
(* The two stages of the boot loader, bootloader/oldbootloader1.asm and    *)
(* oldbootloader2.asm, from 0x7c00 to the call of the kernel: the A20      *)
(* gate, the list of video modes, the memory map, the 240 sectors of the   *)
(* kernel, the video mode, paging.  The BIOS, the keyboard controller and  *)
(* the user at the keyboard are the environment: every call may fail, and  *)
(* int 19h starts over with the memory as it is.                           *)
(*                                                                         *)
(* The answers of the controller are not interpreted further than bit 0 of *)
(* its output port, which holds the processor's reset line.  Memory that   *)
(* nobody has written does not describe a video mode by chance.            *)
(***************************************************************************)
EXTENDS Integers, Sequences

CONSTANTS
  Lists,        \* the mode lists a video BIOS may have, or other memory may look like
  ListWords,    \* the words of VbeModeList (128)
  Beyond,       \* bound: the other words of the segment, until di is back at VbeModeList
  Pointers,     \* VideoModePtr: records with seg and off
  Entries,      \* the answers of int 15h e820: records with cx, valid, len, type
  MaxEntries,   \* bound: answers before the BIOS ends its list
  Geometries    \* the drives: records with spt, heads and floppy

Mode  == {"1024x768", "1280x1024", "other"}
End   == "0xffff"
None  == "none"
NoDrive == [spt |-> 1, heads |-> 1, floppy |-> FALSE]
Cells == {"low", "high"}           \* physical bytes 0x500 and 0x100500
Memory0 == [low |-> 1, high |-> 2] \* what is there before the loader

ASSUME LoaderAssumption ==
  /\ Lists \subseteq Seq(Mode) /\ <<>> \in Lists
  /\ ListWords \in Nat /\ Beyond \in Nat \ {0} /\ MaxEntries \in Nat
  /\ Pointers \subseteq [seg : Nat, off : Nat]
  /\ Entries \subseteq [cx : {0, 20, 24}, valid : BOOLEAN, len : Nat, type : Nat]
  /\ Geometries \subseteq [spt : 1 .. 63, heads : 1 .. 256, floppy : BOOLEAN]

VARIABLES
  stage,        \* the label the loader is at
  a20, memory,  \* the gate; the two bytes TestA20 writes
  kstep, al,    \* step of tryUsingKeyboardController, the byte it has read
  kbc,          \* the controller: its two buffers, the command it is in
  offered, list,\* the modes of the BIOS; VbeModeList up to its 0xffff
  answered, map,\* history: the answers of e820; the entries stored at 0x30000
  dirty,        \* the upper half of mem_map_entries_count is not 0
  disk,         \* the drive's geometry
  loaded,       \* the first sector read to 0x9000 and to 0x18000
  es, di, cx,   \* es is 0; place in VbeModeList; mode number
  info, mode,   \* the mode VbeModeInfo describes; CurrentMode
  screen,       \* the mode the display is in
  failed,       \* history: the places where a call for or about a mode failed
  mapped,       \* the 4 MB regions with a page table
  kernel,       \* the sector of the disk at 0x100000 + 512 * k
  pressed       \* history: a key was pressed while the controller was in use

gate    == <<a20, memory, kstep, al, kbc, pressed>>
modes   == <<offered, list>>
e820    == <<answered, map, dirty>>
sectors == <<disk, loaded>>
video   == <<es, di, cx, info, mode, screen, failed>>
entry   == <<mapped, kernel>>
loader  == <<stage, gate, modes, e820, sectors, video, entry>>

-----------------------------------------------------------------------------
(* Stage 1: the A20 gate. *)

\* Mutant: the two saved bytes are popped in the wrong order.
TestA20Swapped(on) ==
  LET high == IF on THEN "high" ELSE "low"
      test == [[memory EXCEPT !.low = 0] EXCEPT ![high] = 255]
  IN [ax |-> test.low # 255, memory |-> [[test EXCEPT ![high] = memory.low] EXCEPT !.low = memory[high]]]

\* Without A20, 0x100500 is 0x500 again.  Both bytes are put back.
TestA20(on) ==
  LET high == IF on THEN "high" ELSE "low"
      test == [[memory EXCEPT !.low = 0] EXCEPT ![high] = 255]
  IN [ax |-> test.low # 255, memory |-> [[test EXCEPT ![high] = memory[high]] EXCEPT !.low = memory.low]]

\* Call TestA20 with the gate now on or off.
A20Check(on, next) ==
  /\ a20' = on
  /\ memory' = TestA20(on).memory
  /\ stage' = IF TestA20(on).ax THEN "LoadSecondStage" ELSE next

EnableA20Gate ==
  /\ stage = "start"
  /\ A20Check(a20, "BIOS")
  /\ UNCHANGED <<kstep, al, kbc, pressed, modes, e820, sectors, video, entry>>

\* int 15h 2401; cli.
tryUsingBIOS ==
  /\ stage = "BIOS"
  /\ \E on \in {a20, TRUE} : A20Check(on, "KeyboardController")
  /\ kstep' = 1
  /\ UNCHANGED <<al, kbc, pressed, modes, e820, sectors, video, entry>>

\* Mutant: what is in the output buffer is taken without waiting for it.
WaitDataNot == al' = kbc.out /\ kbc' = [kbc EXCEPT !.out = None]

WaitData == kbc.out # None /\ al' = kbc.out /\ kbc' = [kbc EXCEPT !.out = None]

\* WaitCommand, then a byte for the controller.
WaitCommand(byte) == kbc.in = None /\ kbc' = [kbc EXCEPT !.in = byte] /\ UNCHANGED al

\* 0xAD: keyboard off; 0xD0: read the output port; 0xD1: write it; 0xAE: keyboard on.
tryUsingKeyboardController ==
  /\ stage = "KeyboardController" /\ kstep \in 1 .. 6
  /\ \/ kstep \in {1, 2, 4, 6} /\ WaitCommand(<<"AD", "D0", None, "D1", None, "AE">>[kstep])
     \/ kstep = 3 /\ WaitData
     \/ kstep = 5 /\ WaitCommand("data")
  /\ kstep' = kstep + 1
  /\ UNCHANGED <<stage, a20, memory, pressed, modes, e820, sectors, video, entry>>

\* sti: the BIOS fetches what is left in the output buffer.
A20KeyboardCheck ==
  /\ stage = "KeyboardController" /\ kstep = 7 /\ kbc.in = None
  /\ A20Check(a20, "FastA20")
  /\ kbc' = [kbc EXCEPT !.out = None] /\ kstep' = 0
  /\ UNCHANGED <<al, pressed, modes, e820, sectors, video, entry>>

UseFastA20Method ==
  /\ stage = "FastA20"
  /\ \E on \in {a20, TRUE} : A20Check(on, "A20Error")
  /\ UNCHANGED <<kstep, al, kbc, pressed, modes, e820, sectors, video, entry>>

\* The controller takes a byte.  It answers 0xD0 when its output buffer is free;
\* the byte after 0xD1 is its output port, and bit 0 clear resets the processor.
Controller ==
  /\ kbc.in \in {"AD", "AE", "D1", "data"} \/ (kbc.in = "D0" /\ kbc.out = None)
  /\ kbc' = [in |-> None, out |-> IF kbc.in = "D0" THEN "port" ELSE kbc.out,
             off |-> IF kbc.in \in {"AD", "AE"} THEN kbc.in = "AD" ELSE kbc.off]
  /\ IF kbc.in = "data"
     THEN /\ a20' \in {a20, TRUE}
          /\ stage' = IF al \in {"port", "odd key"} THEN stage ELSE "reset"
     ELSE UNCHANGED <<a20, stage>>
  /\ UNCHANGED <<memory, kstep, al, pressed, modes, e820, sectors, video, entry>>

\* A key while interrupts are off: its scan code waits in the output buffer.
KeyPress ==
  /\ stage = "KeyboardController" /\ kbc.in # "stuck" /\ kbc.out = None /\ ~kbc.off /\ ~pressed
  /\ \E key \in {"odd key", "even key"} : kbc' = [kbc EXCEPT !.out = key]
  /\ pressed' = TRUE
  /\ UNCHANGED <<stage, a20, memory, kstep, al, modes, e820, sectors, video, entry>>

ControllerUnused == kstep' = 0 /\ al' = None /\ pressed' = FALSE

\* mov al, 2: what the controller said is gone.
LoadSecondStage ==
  /\ stage = "LoadSecondStage"
  /\ stage' \in {"GetVesaControllerInfo", "disk_error"}
  /\ ControllerUnused
  /\ UNCHANGED <<a20, memory, kbc, modes, e820, sectors, video, entry>>

\* The variables of the second stage, all written before they are read.
SecondStageUnset ==
  /\ offered' = <<>> /\ list' = <<>> /\ answered' = <<>> /\ map' = <<>>
  /\ disk' = NoDrive /\ loaded' = [w \in {"0x9000", "0x18000"} |-> -1]
  /\ es' = TRUE /\ di' = 1 /\ cx' = None /\ info' = None /\ mode' = None
  /\ screen' = None /\ failed' = {}
  /\ mapped' = 0 /\ kernel' = <<>>

\* A key, int 19h; after a reset the processor starts over by itself.
Reboot ==
  /\ stage \in {"A20Error", "disk_error", "reset"}
  /\ stage' = "start"
  /\ kbc' = [kbc EXCEPT !.out = None, !.off = FALSE] /\ ControllerUnused
  /\ SecondStageUnset
  /\ UNCHANGED <<a20, memory, dirty>>

-----------------------------------------------------------------------------
(* Stage 2: the list of video modes and the memory map. *)

\* Where a far pointer points, and where the loader looks.
Linear(p)      == 16 * p.seg + p.off
ListAddress(p) == 16 * (p.off \div 16) + ((p.seg + (p.off % 16)) % 65536)

\* 4f00, whose status nobody looks at, and the copy up to the first 0xffff,
\* whatever the space behind VbeModeList holds.  From another address, or from
\* the pointer of a call that failed, it is a copy of any memory; a segment
\* without 0xffff is copied over the loader itself.
save_available_video_modes ==
  /\ stage = "GetVesaControllerInfo"
  /\ \E l \in Lists, p \in Pointers, ok \in BOOLEAN :
       /\ offered' = l
       /\ \/ ok /\ ListAddress(p) = Linear(p) /\ list' = l /\ stage' = "do_e820"
          \/ /\ ~ok \/ ListAddress(p) # Linear(p)
             /\ list' \in Lists /\ stage' \in {"do_e820", "overwritten"}
  /\ answered' = <<>> /\ map' = <<>>
  /\ UNCHANGED <<gate, dirty, sectors, video, entry>>

\* The answers .jmpin stores: an answer of 24 bytes says itself whether it counts.
Usable(e) == e.cx # 0 /\ (e.cx > 20 => e.valid) /\ e.len # 0

\* One call.  ebx is 0 with the last answer, or the call after it sets carry;
\* a list of one entry, no list and an unsupported call are errors.
do_e820 ==
  /\ stage = "do_e820"
  /\ \/ \E e \in Entries, last \in BOOLEAN :
          /\ Len(answered) < MaxEntries
          /\ answered' = Append(answered, e)
          /\ IF answered = <<>> /\ last
             THEN stage' = "memory_error" /\ UNCHANGED map
             ELSE /\ map' = IF Usable(e) THEN Append(map, e) ELSE map
                  /\ stage' = IF last THEN "load_kernel" ELSE "do_e820"
     \/ /\ stage' = IF answered = <<>> THEN "memory_error" ELSE "load_kernel"
        /\ UNCHANGED <<answered, map>>
  /\ UNCHANGED <<gate, modes, dirty, sectors, video, entry>>

-----------------------------------------------------------------------------
(* The kernel. *)

\* Mutant: sectors are counted from 0.
getchsZero(lba) ==
  LET track == lba \div disk.spt
  IN [sect |-> lba % disk.spt, cyl |-> track \div disk.heads, head |-> track % disk.heads]

getchs(lba) ==
  LET track == lba \div disk.spt
  IN [sect |-> (lba % disk.spt) + 1, cyl |-> track \div disk.heads, head |-> track % disk.heads]

\* int 13h: the sector the BIOS starts at.
Lba(c) == (c.cyl * disk.heads + c.head) * disk.spt + c.sect - 1

\* 120 sectors from c; the call fails, or there is no such sector.
Read120(c, where, next) ==
  \/ /\ c.sect <= disk.spt
     /\ loaded' = [loaded EXCEPT ![where] = Lba(c)]
     /\ stage' = next
  \/ stage' = "disk_error" /\ UNCHANGED loaded

\* Drive parameters.  For a floppy disk the BIOS also returns a pointer in es.
load_kernel ==
  /\ stage = "load_kernel"
  /\ \/ stage' = "read1" /\ disk' \in Geometries /\ es' = ~disk'.floppy
     \/ stage' = "disk_error" /\ UNCHANGED <<disk, es>>
  /\ UNCHANGED <<gate, modes, e820, loaded, di, cx, info, mode, screen, failed, entry>>

FirstHalf ==
  /\ stage = "read1"
  /\ Read120([sect |-> 4, cyl |-> 0, head |-> 0], "0x9000", "read2")
  /\ UNCHANGED <<gate, modes, e820, disk, video, entry>>

SecondHalf ==
  /\ stage = "read2"
  /\ Read120(getchs(123), "0x18000", "switch_video_mode")
  /\ di' = 1 /\ failed' = {}
  /\ UNCHANGED <<gate, modes, e820, disk, es, cx, info, mode, screen, entry>>

-----------------------------------------------------------------------------
(* The video mode. *)

\* The words at [es:di].  The second word behind VbeModeList is in VbeModeInfo,
\* which the search itself writes; with another es it is any memory, and nothing
\* says that there is an end mark in it.
WordsAt(i) ==
  IF ~es \/ i > ListWords + 1 THEN Mode \cup {End}
  ELSE IF i <= Len(list) THEN {list[i]} ELSE {End}

\* add di, 2: 16 bits.
NextWord(i) == IF i = ListWords + Beyond THEN 1 ELSE i + 1

\* int 10h 4f01, of which nobody looks at the status, for mode number cx'.
ModeInfo(search) ==
  \/ info' = (IF es THEN cx' ELSE info) /\ UNCHANGED failed
  \/ failed' = failed \cup {search} /\ UNCHANGED info

\* Mutant: the second search goes on where the first one ended.
SearchModesOn(search, wanted, next) ==
  /\ stage = search
  /\ \E w \in WordsAt(di) :
       IF w = End
       THEN stage' = next /\ UNCHANGED <<di, cx, info, failed>>
       ELSE /\ cx' = w
            /\ ModeInfo(search)
            /\ IF info' = wanted THEN stage' = "found_mode" /\ UNCHANGED di
                                 ELSE di' = NextWord(di) /\ UNCHANGED stage
  /\ UNCHANGED <<gate, modes, e820, sectors, es, mode, screen, entry>>

\* Mutant: the place in the list is not advanced.
SearchModesStuck(search, wanted, next) ==
  /\ stage = search
  /\ \E w \in WordsAt(di) :
       IF w = End
       THEN stage' = next /\ di' = 1 /\ UNCHANGED <<cx, info, failed>>
       ELSE /\ cx' = w
            /\ ModeInfo(search)
            /\ UNCHANGED di
            /\ IF info' = wanted THEN stage' = "found_mode" ELSE UNCHANGED stage
  /\ UNCHANGED <<gate, modes, e820, sectors, es, mode, screen, entry>>

SearchModes(search, wanted, next) ==
  /\ stage = search
  /\ \E w \in WordsAt(di) :
       IF w = End
       THEN stage' = next /\ di' = 1 /\ UNCHANGED <<cx, info, failed>>
       ELSE /\ cx' = w
            /\ ModeInfo(search)
            /\ IF info' = wanted THEN stage' = "found_mode" /\ UNCHANGED di
                                 ELSE di' = NextWord(di) /\ UNCHANGED stage
  /\ UNCHANGED <<gate, modes, e820, sectors, es, mode, screen, entry>>

switch_video_mode == SearchModes("switch_video_mode", "1024x768", "next_mode")
next_mode         == SearchModes("next_mode", "1280x1024", "no_mode_found")

found_mode ==
  /\ stage = "found_mode"
  /\ mode' = cx /\ UNCHANGED cx
  /\ ModeInfo("found_mode")
  /\ stage' = "set_mode"
  /\ UNCHANGED <<gate, modes, e820, sectors, es, di, screen, entry>>

\* int 10h 4f02, of which nobody looks at the status either.
set_mode ==
  /\ stage = "set_mode"
  /\ \/ screen' = cx /\ UNCHANGED failed
     \/ failed' = failed \cup {"set_mode"} /\ UNCHANGED screen
  /\ stage' = "EnablePaging"
  /\ UNCHANGED <<gate, modes, e820, sectors, es, di, cx, info, mode, entry>>

-----------------------------------------------------------------------------
(* Protected mode. *)

\* Two page tables that map the first 8 MB to themselves.
EnablePaging ==
  /\ stage = "EnablePaging"
  /\ mapped' = 2
  /\ stage' = "BEGIN_PM"
  /\ UNCHANGED <<gate, modes, e820, sectors, video, kernel>>

\* The last bytes touched while only these tables exist: the stack, the copy of
\* the kernel, the page tables for the whole memory from 2 MB on.
Touched == {2031616 - 4, 1048576 + 512 * 240 - 1, 2097152 + 4 * 1048576 - 1}

\* Copy, page tables for 4 GB, call.  Without A20 the copy is not at 0x100000.
\* Nobody has written the upper half of mem_map_entries_count.
BEGIN_PM ==
  /\ stage = "BEGIN_PM"
  /\ dirty' \in BOOLEAN
  /\ IF \A a \in Touched : a \div 4194304 < mapped
     THEN /\ kernel' = [k \in 0 .. 239 |->
               IF ~a20 THEN -1
               ELSE IF k < 120 THEN loaded["0x9000"] + k ELSE loaded["0x18000"] + k - 120]
          /\ mapped' = 1024
          /\ stage' = "kernel"
     ELSE stage' = "reset" /\ UNCHANGED entry
  /\ UNCHANGED <<gate, modes, answered, map, sectors, video>>

\* jmp $ after a message; a loader that has overwritten itself, of which nothing
\* more is said; WaitCommand on a machine without a controller, where the status
\* reads 0xff.
Hang ==
  /\ \/ stage \in {"memory_error", "no_mode_found", "overwritten"}
     \/ (stage = "KeyboardController" /\ kbc.in = "stuck")
  /\ UNCHANGED loader

-----------------------------------------------------------------------------
LoaderInit ==
  /\ stage = "start"
  /\ a20 \in BOOLEAN /\ memory = Memory0 /\ dirty = FALSE
  /\ kbc \in [in : {None, "stuck"}, out : {None}, off : {FALSE}]
  /\ kstep = 0 /\ al = None /\ pressed = FALSE
  /\ offered = <<>> /\ list = <<>> /\ answered = <<>> /\ map = <<>>
  /\ disk = NoDrive /\ loaded = [w \in {"0x9000", "0x18000"} |-> -1]
  /\ es = TRUE /\ di = 1 /\ cx = None /\ info = None /\ mode = None
  /\ screen = None /\ failed = {}
  /\ mapped = 0 /\ kernel = <<>>

\* What is left when the kernel has read the information block: nothing that is
\* looked at again.
LoaderForgotten ==
  /\ stage' = "kernel_main"
  /\ a20' = TRUE /\ memory' = Memory0 /\ dirty' = FALSE
  /\ kbc' = [in |-> None, out |-> None, off |-> FALSE] /\ ControllerUnused
  /\ SecondStageUnset

\* The loader itself, and everything that happens before the kernel runs.
LoaderStep ==
  \/ EnableA20Gate \/ tryUsingBIOS \/ tryUsingKeyboardController \/ A20KeyboardCheck
  \/ UseFastA20Method \/ LoadSecondStage
  \/ save_available_video_modes \/ do_e820 \/ load_kernel \/ FirstHalf \/ SecondHalf
  \/ switch_video_mode \/ next_mode \/ found_mode \/ set_mode \/ EnablePaging \/ BEGIN_PM

LoaderNext == LoaderStep \/ Controller \/ KeyPress \/ Reboot \/ Hang

-----------------------------------------------------------------------------
(* Properties. *)

A20Stages == {"start", "BIOS", "KeyboardController", "FastA20", "A20Error", "reset"}
Stops     == {"A20Error", "disk_error", "memory_error", "no_mode_found", "reset", "kernel"}

\* The second stage is loaded only with the gate open, the loader gives up only
\* with the gate closed, and TestA20, run up to four times with the gate in
\* either state, leaves both bytes it writes as they were.
A20Sound ==
  /\ stage \notin A20Stages => a20
  /\ stage = "A20Error" => ~a20
  /\ memory = Memory0

\* The processor is not reset on the way to the kernel, by a byte written to the
\* controller's output port or by a page that is not there, unless a key pressed
\* between cli and the controller's 0xAD was taken for the output port.
ResetExplained == stage = "reset" => pressed

\* At the kernel's first instruction, 0x100000 holds the 240 sectors from the
\* fourth sector of the disk on, in their order, for any geometry of the drive.
KernelWhole == stage = "kernel" => kernel = [k \in 0 .. 239 |-> 3 + k]

\* VbeModeInfo describes CurrentMode unless the last call for it failed, and the
\* display is in that mode unless the call that sets it failed; the mode is one
\* of the two the system knows unless a call of the second search failed, which
\* leaves the information of another mode; and if no call failed and the list was
\* copied whole, its end mark not behind CurrentMode, it is the better one the
\* BIOS has, and the loader gives up only if it has none.
Intact == list = offered /\ Len(list) <= ListWords /\ es
Best   == IF \E i \in DOMAIN offered : offered[i] = "1024x768" THEN "1024x768" ELSE "1280x1024"
ModeFits ==
  /\ stage = "kernel" /\ "found_mode" \notin failed => info = mode
  /\ stage = "kernel" /\ "set_mode" \notin failed => screen = mode
  /\ stage = "kernel" /\ "next_mode" \notin failed => mode \in {"1024x768", "1280x1024"}
  /\ stage = "kernel" /\ Intact /\ failed = {} => mode = Best
  /\ stage = "no_mode_found" /\ Intact /\ failed = {} =>
       \A i \in DOMAIN offered : offered[i] = "other"

LoaderTypeOK ==
  /\ stage \in A20Stages \cup Stops \cup
       {"LoadSecondStage", "GetVesaControllerInfo", "do_e820", "load_kernel", "read1", "read2",
        "switch_video_mode", "next_mode", "found_mode", "set_mode", "EnablePaging", "BEGIN_PM", "kernel_main",
        "overwritten"}
  /\ a20 \in BOOLEAN /\ memory \in [Cells -> 0 .. 255] /\ dirty \in BOOLEAN /\ pressed \in BOOLEAN
  /\ kstep \in 0 .. 7 /\ al \in {None, "port", "odd key", "even key"}
  /\ kbc.in \in {None, "stuck", "AD", "D0", "D1", "AE", "data"} /\ kbc.off \in BOOLEAN
  /\ kbc.out \in {None, "port", "odd key", "even key"}
  /\ offered \in Lists /\ list \in Lists
  /\ answered \in Seq(Entries) /\ map \in Seq(Entries)
  /\ disk \in Geometries \cup {NoDrive}
  /\ loaded \in [{"0x9000", "0x18000"} -> Int]
  /\ es \in BOOLEAN /\ di \in 1 .. ListWords + Beyond
  /\ cx \in Mode \cup {None} /\ info \in Mode \cup {None} /\ mode \in Mode \cup {None}
  /\ screen \in Mode \cup {None}
  /\ failed \subseteq {"switch_video_mode", "next_mode", "found_mode", "set_mode"}
  /\ mapped \in {0, 2, 1024} /\ kernel \in {<<>>} \cup [0 .. 239 -> Int]

-----------------------------------------------------------------------------
(* The inductive invariant behind A20Sound and KernelWhole. *)

HalfRead  == {"read2", "switch_video_mode", "next_mode", "found_mode", "set_mode", "EnablePaging",
              "BEGIN_PM"}
WholeRead == HalfRead \ {"read2"}

LoadInv ==
  /\ A20Sound /\ KernelWhole
  /\ a20 \in BOOLEAN
  \* Nobody talks to the controller outside tryUsingKeyboardController.
  /\ DOMAIN kbc = {"in", "out", "off"}
  /\ stage # "KeyboardController" => kbc.in \in {None, "stuck"}
  /\ stage = "read1" \/ stage \in HalfRead => disk \in Geometries
  /\ DOMAIN loaded = {"0x9000", "0x18000"}
  /\ stage \in HalfRead => loaded["0x9000"] = 3
  /\ stage \in WholeRead => loaded["0x18000"] = 123

=============================================================================
