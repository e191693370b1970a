--------------------------- MODULE BootDiskProofs ---------------------------
(***************************************************************************)
(* Proofs about BootLoader and BootDisk: for every geometry of the drive   *)
(* the kernel is in memory whole and in order, and for any number of disks *)
(* and ports the file system is made on the disk that was found, and no    *)
(* disk is passed over; what resets the processor, which video mode is set,*)
(* which drivers are alive; and the types of both modules.                 *)
(***************************************************************************)
EXTENDS BootDisk, TLAPS

-----------------------------------------------------------------------------
(* Stage 1 and the reading of the kernel. *)

\* TestA20 tells the truth and leaves memory alone.
LEMMA TestTells ==
  ASSUME memory = Memory0, NEW on \in BOOLEAN
  PROVE  TestA20(on).ax = on /\ TestA20(on).memory = memory
<1>1. CASE on = TRUE
  <2>1. TestA20(on) = LET test == [[memory EXCEPT !.low = 0] EXCEPT !.high = 255] IN
          [ax |-> test.low # 255,
           memory |-> [[test EXCEPT !.high = memory.high] EXCEPT !.low = memory.low]]
    BY <1>1, ZenonT(60) DEF TestA20
  <2> DEFINE test == [[memory EXCEPT !.low = 0] EXCEPT !.high = 255]
             back == [[test EXCEPT !.high = memory.high] EXCEPT !.low = memory.low]
  <2>2. test = [low |-> 0, high |-> 255]
    <3>1. [memory EXCEPT !.low = 0] = [low |-> 0, high |-> 2]
      BY DEF Memory0
    <3>2. [[low |-> 0, high |-> 2] EXCEPT !.high = 255] = [low |-> 0, high |-> 255]
      OBVIOUS
    <3> QED BY <3>1, <3>2
  <2>3. back = memory
    <3>1. memory.low = 1 /\ memory.high = 2
      BY DEF Memory0
    <3>2. [test EXCEPT !.high = memory.high] = [low |-> 0, high |-> 2]
      <4>1. [[low |-> 0, high |-> 255] EXCEPT !.high = memory.high] = [low |-> 0, high |-> 2]
        BY <3>1
      <4> HIDE DEF test
      <4> QED BY <2>2, <4>1
    <3>3. [[low |-> 0, high |-> 2] EXCEPT !.low = memory.low] = [low |-> 1, high |-> 2]
      BY <3>1
    <3> QED BY <3>2, <3>3 DEF Memory0
  <2>4. TestA20(on) = [ax |-> test.low # 255, memory |-> back]
    BY <2>1
  <2>5. test.low # 255
    BY <2>2
  <2> HIDE DEF test, back
  <2>6. TestA20(on).memory = memory
    BY <2>3, <2>4
  <2>7. TestA20(on).ax = (test.low # 255)
    BY <2>4
  <2> QED BY <1>1, <2>5, <2>6, <2>7, Zenon
<1>2. CASE on = FALSE
  BY <1>2, ZenonT(60) DEF TestA20, Memory0
<1> QED BY <1>1, <1>2

\* Division with remainder.
LEMMA DivMod ==
  ASSUME NEW a \in Nat, NEW b \in Nat \ {0}
  PROVE  /\ a \div b \in Nat /\ a % b \in 0 .. b - 1
         /\ a = (a \div b) * b + (a % b)
  OBVIOUS

LEMMA ChsArithmetic ==
  ASSUME NEW spt \in Nat \ {0}, NEW heads \in Nat \ {0}, NEW lba \in Nat
  PROVE  (((lba \div spt) \div heads) * heads + ((lba \div spt) % heads)) * spt + ((lba % spt) + 1) - 1 = lba
<1>1. PICK track \in Nat : track = lba \div spt
  BY DivMod
<1>2. PICK rest \in Nat : rest = lba % spt /\ lba = track * spt + rest
  <2>1. lba % spt \in Nat
    BY DivMod
  <2>2. lba = (lba \div spt) * spt + (lba % spt)
    BY DivMod
  <2> QED BY <1>1, <2>1, <2>2, Zenon
<1>3. (track \div heads) * heads + (track % heads) = track
  BY DivMod
<1>4. track * spt \in Nat
  OBVIOUS
<1>5. track * spt + (rest + 1) - 1 = lba
  BY <1>2, <1>4
<1> QED BY <1>1, <1>2, <1>3, <1>5

\* The BIOS starts at the sector that getchs was asked for.
LEMMA ChsInverse ==
  ASSUME disk.spt \in Nat \ {0}, disk.heads \in Nat \ {0}, NEW lba \in Nat
  PROVE  Lba(getchs(lba)) = lba
<1>1. /\ getchs(lba).sect = (lba % disk.spt) + 1
      /\ getchs(lba).cyl = (lba \div disk.spt) \div disk.heads
      /\ getchs(lba).head = (lba \div disk.spt) % disk.heads
  BY DEF getchs
<1>2. Lba(getchs(lba)) = (((lba \div disk.spt) \div disk.heads) * disk.heads + ((lba \div disk.spt) % disk.heads)) * disk.spt
                           + ((lba % disk.spt) + 1) - 1
  BY <1>1, Zenon DEF Lba
<1> QED BY <1>2, ChsArithmetic, Zenon

LEMMA LoaderStarts == LoaderInit => LoadInv
<1> SUFFICES ASSUME LoaderInit PROVE LoadInv
  OBVIOUS
<1>1. stage = "start" /\ memory = Memory0 /\ a20 \in BOOLEAN /\ kbc \in [in : {None, "stuck"}, out : {None}, off : {FALSE}]
  BY DEF LoaderInit
<1>2. DOMAIN kbc = {"in", "out", "off"} /\ kbc.in \in {None, "stuck"}
  BY <1>1
<1>3. DOMAIN loaded = {"0x9000", "0x18000"}
  BY DEF LoaderInit
<1> QED BY <1>1, <1>2, <1>3 DEF LoadInv, A20Sound, KernelWhole, A20Stages, HalfRead, WholeRead

\* A check of the gate, which is open or not, after which the loader goes on or
\* tries the next way.
LEMMA CheckStep ==
  ASSUME LoadInv, NEW on \in BOOLEAN, NEW next \in {"BIOS", "KeyboardController", "FastA20", "A20Error"},
         A20Check(on, next),
         DOMAIN kbc' = {"in", "out", "off"}, kbc'.in \in {None, "stuck"},
         loaded' = loaded, disk' = disk
  PROVE  LoadInv'
<1>1. TestA20(on).ax = on /\ TestA20(on).memory = Memory0
  BY TestTells DEF LoadInv, A20Sound
<1>2. a20' = on /\ memory' = Memory0
  BY <1>1 DEF A20Check
<1>3. (on /\ stage' = "LoadSecondStage") \/ (~on /\ stage' = next)
  BY <1>1 DEF A20Check
<1> QED BY <1>2, <1>3 DEF LoadInv, A20Sound, KernelWhole, A20Stages, HalfRead, WholeRead

LEMMA GateSteps ==
  ASSUME LoadInv,
         EnableA20Gate \/ tryUsingBIOS \/ tryUsingKeyboardController \/ A20KeyboardCheck \/ UseFastA20Method
         \/ Controller \/ KeyPress
  PROVE  LoadInv'
<1>1. CASE EnableA20Gate
  <2>1. kbc' = kbc /\ loaded' = loaded /\ disk' = disk /\ stage = "start" /\ A20Check(a20, "BIOS")
    BY <1>1 DEF EnableA20Gate, sectors
  <2> QED BY <2>1, CheckStep DEF LoadInv
<1>2. CASE tryUsingBIOS
  <2>1. kbc' = kbc /\ loaded' = loaded /\ disk' = disk /\ stage = "BIOS"
    BY <1>2 DEF tryUsingBIOS, sectors
  <2>2. PICK on \in {a20, TRUE} : A20Check(on, "KeyboardController")
    BY <1>2 DEF tryUsingBIOS
  <2>3. on \in BOOLEAN
    BY DEF LoadInv
  <2> QED BY <2>1, <2>2, <2>3, CheckStep DEF LoadInv
<1>3. CASE tryUsingKeyboardController
  <2>1. /\ stage = "KeyboardController" /\ stage' = stage /\ a20' = a20 /\ memory' = memory
        /\ loaded' = loaded /\ disk' = disk /\ kernel' = kernel
    BY <1>3 DEF tryUsingKeyboardController, sectors, entry
  <2>2. DOMAIN kbc' = {"in", "out", "off"}
    BY <1>3 DEF tryUsingKeyboardController, WaitCommand, WaitData, LoadInv
  <2> QED BY <2>1, <2>2 DEF LoadInv, A20Sound, KernelWhole, A20Stages, HalfRead, WholeRead
<1>4. CASE A20KeyboardCheck
  <2>1. loaded' = loaded /\ disk' = disk /\ A20Check(a20, "FastA20")
    BY <1>4 DEF A20KeyboardCheck, sectors
  <2>2. DOMAIN kbc' = {"in", "out", "off"} /\ kbc'.in \in {None, "stuck"}
    BY <1>4 DEF A20KeyboardCheck, LoadInv
  <2> QED BY <2>1, <2>2, CheckStep DEF LoadInv
<1>5. CASE UseFastA20Method
  <2>1. kbc' = kbc /\ loaded' = loaded /\ disk' = disk /\ stage = "FastA20"
    BY <1>5 DEF UseFastA20Method, sectors
  <2>2. PICK on \in {a20, TRUE} : A20Check(on, "A20Error")
    BY <1>5 DEF UseFastA20Method
  <2>3. on \in BOOLEAN
    BY DEF LoadInv
  <2> QED BY <2>1, <2>2, <2>3, CheckStep DEF LoadInv
<1>6. CASE Controller
  <2>1. stage = "KeyboardController"
    BY <1>6 DEF Controller, LoadInv, None
  <2>2. /\ memory' = memory /\ loaded' = loaded /\ disk' = disk /\ kernel' = kernel
        /\ kbc'.in = None /\ DOMAIN kbc' = {"in", "out", "off"}
    BY <1>6 DEF Controller, sectors, entry
  <2>3. stage' \in {stage, "reset"} /\ a20' \in {a20, TRUE}
    BY <1>6 DEF Controller
  <2> QED BY <2>1, <2>2, <2>3 DEF LoadInv, A20Sound, KernelWhole, A20Stages, HalfRead, WholeRead
<1>7. CASE KeyPress
  <2>1. /\ stage = "KeyboardController" /\ stage' = stage /\ a20' = a20 /\ memory' = memory
        /\ loaded' = loaded /\ disk' = disk /\ kernel' = kernel
    BY <1>7 DEF KeyPress, sectors, entry
  <2>2. DOMAIN kbc' = {"in", "out", "off"}
    BY <1>7 DEF KeyPress, LoadInv
  <2> QED BY <2>1, <2>2 DEF LoadInv, A20Sound, KernelWhole, A20Stages, HalfRead, WholeRead
<1> QED BY <1>1, <1>2, <1>3, <1>4, <1>5, <1>6, <1>7

\* Steps that lead to a place before the kernel is read.
LEMMA PlainSteps ==
  ASSUME LoadInv, LoadSecondStage \/ Reboot \/ save_available_video_modes \/ do_e820
  PROVE  LoadInv'
<1>1. CASE LoadSecondStage
  <2>1. /\ a20' = a20 /\ memory' = memory /\ kbc' = kbc /\ loaded' = loaded /\ disk' = disk
        /\ stage = "LoadSecondStage" /\ stage' \in {"GetVesaControllerInfo", "disk_error"}
    BY <1>1 DEF LoadSecondStage, sectors
  <2> QED BY <2>1 DEF LoadInv, A20Sound, KernelWhole, A20Stages, HalfRead, WholeRead
<1>2. CASE Reboot
  <2>1. a20' = a20 /\ memory' = memory /\ stage' = "start" /\ stage \in {"A20Error", "disk_error", "reset"}
    BY <1>2 DEF Reboot
  <2>2. kbc' = [kbc EXCEPT !.out = None, !.off = FALSE]
    BY <1>2 DEF Reboot
  <2>3. DOMAIN kbc' = {"in", "out", "off"} /\ kbc'.in \in {None, "stuck"}
    BY <2>1, <2>2 DEF LoadInv
  <2>4. DOMAIN loaded' = {"0x9000", "0x18000"}
    BY <1>2 DEF Reboot, SecondStageUnset
  <2> QED BY <2>1, <2>3, <2>4 DEF LoadInv, A20Sound, KernelWhole, A20Stages, HalfRead, WholeRead
<1>3. CASE save_available_video_modes
  <2>1. /\ a20' = a20 /\ memory' = memory /\ kbc' = kbc /\ loaded' = loaded /\ disk' = disk
        /\ stage = "GetVesaControllerInfo" /\ stage' \in {"do_e820", "overwritten"}
    BY <1>3 DEF save_available_video_modes, sectors, gate
  <2> QED BY <2>1 DEF LoadInv, A20Sound, KernelWhole, A20Stages, HalfRead, WholeRead
<1>4. CASE do_e820
  <2>1. /\ a20' = a20 /\ memory' = memory /\ kbc' = kbc /\ loaded' = loaded /\ disk' = disk
        /\ stage = "do_e820"
    BY <1>4 DEF do_e820, sectors, gate
  <2>2. stage' \in {"memory_error", "load_kernel", "do_e820"}
    BY <1>4, Zenon DEF do_e820
  <2> QED BY <2>1, <2>2 DEF LoadInv, A20Sound, KernelWhole, A20Stages, HalfRead, WholeRead
<1> QED BY <1>1, <1>2, <1>3, <1>4

\* A drive of the machine can be divided by.
LEMMA GeometryOk ==
  ASSUME disk \in Geometries
  PROVE  disk.spt \in Nat \ {0} /\ disk.heads \in Nat \ {0}
<1>1. disk \in [spt : 1 .. 63, heads : 1 .. 256, floppy : BOOLEAN]
  BY LoaderAssumption
<1>2. disk.spt \in 1 .. 63 /\ disk.heads \in 1 .. 256
  BY <1>1
<1> QED BY <1>2

\* The two halves are the sectors from 3 and from 123 on, whatever the geometry.
LEMMA ReadSteps ==
  ASSUME LoadInv, load_kernel \/ FirstHalf \/ SecondHalf
  PROVE  LoadInv'
<1>1. a20' = a20 /\ memory' = memory /\ kbc' = kbc /\ kernel' = kernel
  BY DEF load_kernel, FirstHalf, SecondHalf, gate, entry
<1>2. CASE load_kernel
  <2>1. /\ stage = "load_kernel" /\ loaded' = loaded
        /\ (stage' = "read1" /\ disk' \in Geometries) \/ stage' = "disk_error"
    BY <1>2 DEF load_kernel
  <2> QED BY <1>1, <2>1 DEF LoadInv, A20Sound, KernelWhole, A20Stages, HalfRead, WholeRead
<1>3. CASE FirstHalf
  <2>1. stage = "read1" /\ disk' = disk /\ disk \in Geometries
    BY <1>3 DEF FirstHalf, LoadInv
  <2>2. Lba([sect |-> 4, cyl |-> 0, head |-> 0]) = 3
    <3>1. Lba([sect |-> 4, cyl |-> 0, head |-> 0]) = (0 * disk.heads + 0) * disk.spt + 4 - 1
      BY DEF Lba
    <3> QED BY <2>1, <3>1, GeometryOk
  <2>3. \/ stage' = "read2" /\ loaded' = [loaded EXCEPT !["0x9000"] = 3]
        \/ stage' = "disk_error" /\ loaded' = loaded
    BY <1>3, <2>2 DEF FirstHalf, Read120
  <2>4. /\ DOMAIN loaded' = {"0x9000", "0x18000"}
        /\ stage' = "disk_error" \/ (stage' = "read2" /\ loaded'["0x9000"] = 3)
    BY <2>3 DEF LoadInv
  <2> QED BY <1>1, <2>1, <2>4 DEF LoadInv, A20Sound, KernelWhole, A20Stages, HalfRead, WholeRead
<1>4. CASE SecondHalf
  <2>1. stage = "read2" /\ disk' = disk /\ disk \in Geometries /\ loaded["0x9000"] = 3
    BY <1>4 DEF SecondHalf, LoadInv, HalfRead
  <2>2. Lba(getchs(123)) = 123
    BY <2>1, GeometryOk, ChsInverse
  <2>3. \/ stage' = "switch_video_mode" /\ loaded' = [loaded EXCEPT !["0x18000"] = 123]
        \/ stage' = "disk_error" /\ loaded' = loaded
    BY <1>4, <2>2 DEF SecondHalf, Read120
  <2>4. /\ DOMAIN loaded' = {"0x9000", "0x18000"}
        /\ \/ stage' = "disk_error"
           \/ stage' = "switch_video_mode" /\ loaded'["0x9000"] = 3 /\ loaded'["0x18000"] = 123
    BY <2>1, <2>3 DEF LoadInv
  <2> QED BY <1>1, <2>1, <2>4 DEF LoadInv, A20Sound, KernelWhole, A20Stages, HalfRead, WholeRead
<1> QED BY <1>2, <1>3, <1>4

LEMMA VideoSteps ==
  ASSUME LoadInv, switch_video_mode \/ next_mode \/ found_mode \/ set_mode \/ EnablePaging
  PROVE  LoadInv'
<1>1. a20' = a20 /\ memory' = memory /\ kbc' = kbc /\ loaded' = loaded /\ disk' = disk
  BY DEF switch_video_mode, next_mode, SearchModes, found_mode, set_mode, EnablePaging, gate, sectors
<1>2. stage \in WholeRead /\ stage' \in WholeRead \cup {"no_mode_found"}
  <2>1. CASE switch_video_mode
    BY <2>1, Zenon DEF switch_video_mode, SearchModes, WholeRead, HalfRead
  <2>2. CASE next_mode
    BY <2>2, Zenon DEF next_mode, SearchModes, WholeRead, HalfRead
  <2>3. CASE found_mode \/ set_mode \/ EnablePaging
    BY <2>3 DEF found_mode, set_mode, EnablePaging, WholeRead, HalfRead
  <2> QED BY <2>1, <2>2, <2>3
<1> QED BY <1>1, <1>2 DEF LoadInv, A20Sound, KernelWhole, A20Stages, HalfRead, WholeRead

\* The two halves are copied one behind the other.
LEMMA CopyStep ==
  ASSUME LoadInv, BEGIN_PM
  PROVE  LoadInv'
<1>1. /\ a20' = a20 /\ memory' = memory /\ kbc' = kbc /\ loaded' = loaded /\ disk' = disk
      /\ stage = "BEGIN_PM" /\ stage' \in {"kernel", "reset"}
  BY DEF BEGIN_PM, gate, sectors
<1>2. a20 /\ loaded["0x9000"] = 3 /\ loaded["0x18000"] = 123
  BY <1>1 DEF LoadInv, A20Sound, A20Stages, HalfRead, WholeRead
<1>3. ASSUME stage' = "kernel" PROVE kernel' = [k \in 0 .. 239 |-> 3 + k]
  <2>1. kernel' = [k \in 0 .. 239 |->
               IF ~a20 THEN -1
               ELSE IF k < 120 THEN loaded["0x9000"] + k ELSE loaded["0x18000"] + k - 120]
    BY <1>3 DEF BEGIN_PM
  <2>2. kernel' = [k \in 0 .. 239 |-> IF k < 120 THEN 3 + k ELSE 123 + k - 120]
    BY <1>2, <2>1
  <2>3. \A k \in 0 .. 239 : (IF k < 120 THEN 3 + k ELSE 123 + k - 120) = 3 + k
    OBVIOUS
  <2> QED BY <2>2, <2>3
<1> QED BY <1>1, <1>2, <1>3 DEF LoadInv, A20Sound, KernelWhole, A20Stages, HalfRead, WholeRead

\* The loader, its environment, and the kernel, which forgets what was loaded.
LEMMA LoaderKept ==
  ASSUME LoadInv, [Next]_vars
  PROVE  LoadInv'
<1>1. CASE LoaderNext
  <2>1. CASE Hang
    BY <2>1 DEF Hang, loader, gate, sectors, entry, LoadInv, A20Sound, KernelWhole
  <2> QED BY <1>1, <2>1, GateSteps, PlainSteps, ReadSteps, VideoSteps, CopyStep DEF LoaderNext, LoaderStep
<1>2. CASE ReadMemoryMap
  <2>1. /\ stage' = "kernel_main" /\ a20' = TRUE /\ memory' = Memory0
        /\ kbc' = [in |-> None, out |-> None, off |-> FALSE]
        /\ loaded' = [w \in {"0x9000", "0x18000"} |-> -1]
    BY <1>2 DEF ReadMemoryMap, LoaderForgotten, SecondStageUnset
  <2>2. DOMAIN kbc' = {"in", "out", "off"} /\ kbc'.in = None /\ DOMAIN loaded' = {"0x9000", "0x18000"}
    BY <2>1
  <2> QED BY <2>1, <2>2 DEF LoadInv, A20Sound, KernelWhole, A20Stages, HalfRead, WholeRead
<1>3. CASE UNCHANGED loader
  BY <1>3 DEF loader, gate, sectors, entry, LoadInv, A20Sound, KernelWhole
<1>4. LoaderNext \/ ReadMemoryMap \/ UNCHANGED loader
  BY DEF Next, kernel_main, vars, UsbChange, Machine, OutOfMemory, Malloc, ProbeControllers, Probe, IdeDisk,
     AhciDisk, CheckPort, UsbDisk, SearchGoesOn, BootDiskNotFound, FileSystem
<1> QED BY <1>1, <1>2, <1>3, <1>4

\* The invariant of the loader holds in every reachable state.
THEOREM Loaded == Spec => []LoadInv
<1>1. Init => LoadInv
  BY LoaderStarts DEF Init
<1> QED BY <1>1, LoaderKept, PTL DEF Spec

\* For every geometry of the drive, every way the gate is opened and every
\* number of restarts, the kernel is at 0x100000 whole and in order when it is
\* called (oldbootloader2.asm, load_kernel, getchs and BEGIN_PM).
THEOREM KernelAlwaysWhole == Spec => []KernelWhole
<1>1. LoadInv => KernelWhole
  BY DEF LoadInv
<1> QED BY Loaded, <1>1, PTL

\* The loader goes on exactly with an open A20 gate, and TestA20 leaves memory
\* as it was (oldbootloader1.asm).
THEOREM A20AlwaysSound == Spec => []A20Sound
<1>1. LoadInv => A20Sound
  BY DEF LoadInv
<1> QED BY Loaded, <1>1, PTL

-----------------------------------------------------------------------------
(* The conversation with the keyboard controller. *)

KeyOK ==
  /\ kstep \in 0 .. 7 /\ al \in {None, "port", "odd key", "even key"}
  /\ kbc.in \in {None, "stuck", "AD", "D0", "D1", "AE", "data"}
  /\ kbc.out \in {None, "port", "odd key", "even key"}

\* The byte written to the output port was read from the controller.
PortRead   == kstep \in {4, 5, 6, 7} \/ kbc.in = "data" => al # None
\* A byte that would reset the processor is the scan code of a key.
KeyTaken   == al = "even key" \/ kbc.out = "even key" => pressed
BufferFree == stage \notin {"KeyboardController", "reset"} => kbc.out = None
Paged      == stage = "BEGIN_PM" => mapped = 2

TalkInv == KeyOK /\ PortRead /\ BufferFree /\ Paged
KeyInv  == TalkInv /\ KeyTaken /\ ResetExplained

LEMMA KeyStarts == LoaderInit => KeyInv
<1> SUFFICES ASSUME LoaderInit PROVE KeyInv
  OBVIOUS
<1>1. kbc \in [in : {None, "stuck"}, out : {None}, off : {FALSE}]
  BY DEF LoaderInit
<1>2. kbc.in \in {None, "stuck"} /\ kbc.out = None
  BY <1>1
<1>3. stage = "start" /\ kstep = 0 /\ al = None
  BY DEF LoaderInit
<1> QED BY <1>2, <1>3 DEF KeyInv, TalkInv, KeyOK, PortRead, KeyTaken, BufferFree, Paged, ResetExplained, None

\* The steps of the loader that do not talk to the controller.
LEMMA TalkAside ==
  ASSUME LoadInv, TalkInv, stage # "KeyboardController", stage # "reset",
         kbc'.in = kbc.in, kbc'.out = kbc.out,
         kstep' \in {kstep, 0, 1}, al' = al \/ (al' = None /\ kstep' = 0),
         stage' = "BEGIN_PM" => mapped' = 2
  PROVE  TalkInv'
<1>1. kbc'.in \in {None, "stuck"} /\ kbc'.out = None
  BY DEF LoadInv, TalkInv, BufferFree
<1>2. KeyOK'
  <2>1. kstep' \in 0 .. 7
    <3>1. 0 \in 0 .. 7 /\ 1 \in 0 .. 7
      OBVIOUS
    <3> QED BY <3>1, Zenon DEF TalkInv, KeyOK
  <2> QED BY <1>1, <2>1, Zenon DEF TalkInv, KeyOK
<1>3. BufferFree' /\ Paged'
  BY <1>1 DEF BufferFree, Paged
<1>4. kbc'.in # "data"
  BY <1>1 DEF None
<1>5. kstep' \in {4, 5, 6, 7} => kstep \in {4, 5, 6, 7} /\ al' = al
  OBVIOUS
<1>6. PortRead'
  BY <1>4, <1>5 DEF TalkInv, PortRead
<1> QED BY <1>2, <1>3, <1>6 DEF TalkInv

LEMMA KeyAside ==
  ASSUME LoadInv, KeyInv, stage # "KeyboardController", stage # "reset",
         kbc'.in = kbc.in, kbc'.out = kbc.out, kstep' \in {kstep, 0, 1},
         (al' = al /\ pressed' = pressed) \/ (al' = None /\ kstep' = 0),
         stage' # "reset", stage' = "BEGIN_PM" => mapped' = 2
  PROVE  KeyInv'
<1>1. TalkInv'
  <2>1. TalkInv /\ (al' = al \/ (al' = None /\ kstep' = 0))
    BY Zenon DEF KeyInv
  <2> QED BY <2>1, TalkAside, Zenon
<1>2. kbc'.out = None /\ None # "even key"
  BY DEF KeyInv, TalkInv, BufferFree, None
<1>3. KeyTaken' /\ ResetExplained'
  BY <1>2, Zenon DEF KeyInv, KeyTaken, ResetExplained
<1> QED BY <1>1, <1>3, Zenon DEF KeyInv

LEMMA KeySteps ==
  ASSUME LoadInv, KeyInv,
         tryUsingKeyboardController \/ A20KeyboardCheck \/ Controller \/ KeyPress \/ Reboot
  PROVE  KeyInv'
<1>1. DOMAIN kbc = {"in", "out", "off"}
  BY DEF LoadInv
<1>2. TalkInv /\ KeyTaken /\ ResetExplained
  BY DEF KeyInv
<1>3. CASE tryUsingKeyboardController
  <2>1. stage = "KeyboardController" /\ stage' = stage /\ kstep \in 1 .. 6 /\ kstep' = kstep + 1
    BY <1>3 DEF tryUsingKeyboardController
  <2>2. pressed' = pressed
    BY <1>3 DEF tryUsingKeyboardController
  <2>3. CASE kstep = 3
    <3>1. kbc.out # None /\ al' = kbc.out /\ kbc' = [kbc EXCEPT !.out = None]
      BY <1>3, <2>3 DEF tryUsingKeyboardController, WaitData
    <3>2. kbc'.in = kbc.in /\ kbc'.out = None
      BY <1>1, <3>1
    <3>3. TalkInv'
      <4>1. KeyOK'
        <5>1. kstep' \in 0 .. 7
          BY <2>1
        <5> QED BY <1>2, <3>1, <3>2, <5>1, Zenon DEF TalkInv, KeyOK
      <4> QED BY <2>1, <3>1, <3>2, <4>1 DEF TalkInv, PortRead, BufferFree, Paged
    <3>4. None # "even key"
      BY DEF None
    <3>5. KeyTaken' /\ ResetExplained'
      BY <1>2, <2>1, <2>2, <3>1, <3>2, <3>4, Zenon DEF KeyTaken, ResetExplained
    <3> QED BY <3>3, <3>5 DEF KeyInv
  <2>4. CASE kstep # 3
    <3>1. PICK byte \in {"AD", "D0", "D1", "AE", "data"} :
            /\ WaitCommand(byte)
            /\ byte = "data" => kstep = 5
      <4>1. CASE kstep = 5
        BY <1>3, <4>1 DEF tryUsingKeyboardController
      <4>2. CASE kstep = 1
        BY <1>3, <4>2 DEF tryUsingKeyboardController
      <4>3. CASE kstep = 2
        BY <1>3, <4>3 DEF tryUsingKeyboardController
      <4>4. CASE kstep = 4
        BY <1>3, <4>4 DEF tryUsingKeyboardController
      <4>5. CASE kstep = 6
        BY <1>3, <4>5 DEF tryUsingKeyboardController
      <4> QED BY <2>1, <2>4, <4>1, <4>2, <4>3, <4>4, <4>5
    <3>2. kbc' = [kbc EXCEPT !.in = byte] /\ al' = al
      BY <3>1 DEF WaitCommand
    <3>3. kbc'.in = byte /\ kbc'.out = kbc.out
      BY <1>1, <3>2
    <3>4. kstep' \in {4, 5, 6, 7} => kstep \in {4, 5, 6, 7}
      BY <2>1, <2>4
    <3>5. kstep' \in 0 .. 7
      BY <2>1
    <3>6. KeyOK' /\ BufferFree' /\ Paged'
      BY <1>2, <2>1, <3>2, <3>3, <3>5 DEF TalkInv, KeyOK, BufferFree, Paged
    <3>7. PortRead'
      BY <1>2, <3>1, <3>2, <3>3, <3>4 DEF TalkInv, PortRead
    <3>8. KeyTaken' /\ ResetExplained'
      BY <1>2, <2>1, <2>2, <3>2, <3>3, Zenon DEF KeyTaken, ResetExplained
    <3> QED BY <3>6, <3>7, <3>8 DEF KeyInv, TalkInv
  <2> QED BY <2>3, <2>4
<1>4. CASE A20KeyboardCheck
  <2>1. stage = "KeyboardController" /\ stage' \in {"LoadSecondStage", "FastA20"} /\ kbc.in = None
        /\ kbc' = [kbc EXCEPT !.out = None] /\ kstep' = 0 /\ al' = al
    BY <1>4 DEF A20KeyboardCheck, A20Check
  <2>2. pressed' = pressed
    BY <1>4 DEF A20KeyboardCheck
  <2>3. kbc'.in = None /\ kbc'.out = None /\ stage' # "reset" /\ None # "even key"
    BY <1>1, <2>1 DEF None
  <2>4. TalkInv'
    <3>1. KeyOK' /\ BufferFree' /\ Paged'
      <4>1. kstep' \in 0 .. 7 /\ stage' # "BEGIN_PM"
        BY <2>1
      <4> QED BY <1>2, <2>1, <2>3, <4>1, Zenon DEF TalkInv, KeyOK, BufferFree, Paged
    <3>2. kstep' \notin {4, 5, 6, 7} /\ kbc'.in # "data"
      BY <2>1, <2>3 DEF None
    <3> QED BY <3>1, <3>2 DEF TalkInv, PortRead
  <2>5. KeyTaken' /\ ResetExplained'
    BY <1>2, <2>1, <2>2, <2>3, Zenon DEF KeyTaken, ResetExplained
  <2> QED BY <2>4, <2>5 DEF KeyInv
<1>5. CASE Controller
  <2>1. kbc.in \in {"AD", "AE", "D0", "D1", "data"} /\ kstep' = kstep /\ al' = al /\ mapped' = mapped
    BY <1>5 DEF Controller, entry
  <2>2. pressed' = pressed
    BY <1>5 DEF Controller
  <2>3. stage = "KeyboardController"
    BY <2>1 DEF LoadInv, None
  <2>4. kbc'.in = None /\ kbc'.out \in {"port", kbc.out}
    BY <1>5 DEF Controller
  <2>5. stage' = stage \/ (stage' = "reset" /\ kbc.in = "data" /\ al \notin {"port", "odd key"})
    BY <1>5 DEF Controller
  <2>6. stage' = "reset" => al = "even key"
    BY <1>2, <2>3, <2>5 DEF TalkInv, KeyOK, PortRead
  <2>7. TalkInv'
    BY <1>2, <2>1, <2>3, <2>4, <2>5 DEF TalkInv, KeyOK, PortRead, BufferFree, Paged, None
  <2>8. KeyTaken' /\ ResetExplained'
    BY <1>2, <2>1, <2>2, <2>4, <2>6, Zenon DEF KeyTaken, ResetExplained
  <2> QED BY <2>7, <2>8 DEF KeyInv
<1>6. CASE KeyPress
  <2>1. stage = "KeyboardController" /\ stage' = stage /\ kstep' = kstep /\ al' = al
    BY <1>6 DEF KeyPress
  <2>2. pressed'
    BY <1>6 DEF KeyPress
  <2>3. PICK key \in {"odd key", "even key"} : kbc' = [kbc EXCEPT !.out = key]
    BY <1>6 DEF KeyPress
  <2>4. kbc'.in = kbc.in /\ kbc'.out = key
    BY <1>1, <2>3
  <2>5. TalkInv'
    BY <1>2, <2>1, <2>4 DEF TalkInv, KeyOK, PortRead, BufferFree, Paged
  <2> QED BY <2>2, <2>5 DEF KeyInv, KeyTaken, ResetExplained
<1>7. CASE Reboot
  <2>1. stage # "KeyboardController" /\ stage' = "start" /\ kstep' = 0 /\ al' = None
    BY <1>7 DEF Reboot, ControllerUnused
  <2>2. kbc'.in = kbc.in /\ kbc'.out = None /\ kbc.in \in {None, "stuck"}
    BY <1>1, <1>7, <2>1 DEF Reboot, LoadInv
  <2>3. TalkInv'
    BY <2>1, <2>2 DEF TalkInv, KeyOK, PortRead, BufferFree, Paged, None
  <2>4. KeyTaken' /\ ResetExplained'
    BY <2>1, <2>2 DEF KeyTaken, ResetExplained, None
  <2> QED BY <2>3, <2>4 DEF KeyInv
<1> QED BY <1>3, <1>4, <1>5, <1>6, <1>7

\* All that the loader touches while only two page tables exist is in the first
\* 8 MB.
LEMMA TouchedMapped == \A a \in Touched : a \div 4194304 < 2
<1>1. Touched = {2031612, 1171455, 6291455}
  BY SMT DEF Touched
<1>2. 2031612 \div 4194304 < 2 /\ 1171455 \div 4194304 < 2 /\ 6291455 \div 4194304 < 2
  BY SMT
<1> QED BY <1>1, <1>2, SMT

LEMMA SecondStageSteps ==
  ASSUME LoadInv, KeyInv,
         \/ EnableA20Gate \/ tryUsingBIOS \/ UseFastA20Method \/ LoadSecondStage
         \/ save_available_video_modes \/ do_e820 \/ load_kernel \/ FirstHalf \/ SecondHalf
         \/ switch_video_mode \/ next_mode \/ found_mode \/ set_mode \/ EnablePaging \/ BEGIN_PM
  PROVE  KeyInv'
<1>1. CASE EnableA20Gate \/ tryUsingBIOS \/ UseFastA20Method
  <2>1. /\ stage \in {"start", "BIOS", "FastA20"} /\ kbc' = kbc /\ kstep' \in {kstep, 1} /\ al' = al
        /\ stage' \in {"LoadSecondStage", "BIOS", "KeyboardController", "A20Error"}
    BY <1>1 DEF EnableA20Gate, tryUsingBIOS, UseFastA20Method, A20Check
  <2>2. pressed' = pressed
    BY <1>1 DEF EnableA20Gate, tryUsingBIOS, UseFastA20Method
  <2> QED BY <2>1, <2>2, KeyAside
<1>2. CASE LoadSecondStage
  <2>1. /\ stage = "LoadSecondStage" /\ kbc' = kbc /\ kstep' = 0 /\ al' = None
        /\ stage' \in {"GetVesaControllerInfo", "disk_error"}
    BY <1>2 DEF LoadSecondStage, ControllerUnused
  <2> QED BY <2>1, KeyAside
<1>3. CASE save_available_video_modes \/ do_e820 \/ load_kernel \/ FirstHalf \/ SecondHalf
           \/ switch_video_mode \/ next_mode \/ found_mode \/ set_mode \/ EnablePaging
  <2>1. kbc' = kbc /\ kstep' = kstep /\ al' = al
    BY <1>3 DEF save_available_video_modes, do_e820, load_kernel, FirstHalf, SecondHalf, switch_video_mode,
                next_mode, SearchModes, found_mode, set_mode, EnablePaging, gate
  <2>2. pressed' = pressed
    BY <1>3 DEF save_available_video_modes, do_e820, load_kernel, FirstHalf, SecondHalf, switch_video_mode,
                next_mode, SearchModes, found_mode, set_mode, EnablePaging, gate
  <2>3. stage \notin {"KeyboardController", "reset"}
    BY <1>3 DEF save_available_video_modes, do_e820, load_kernel, FirstHalf, SecondHalf, switch_video_mode,
                next_mode, SearchModes, found_mode, set_mode, EnablePaging
  <2>4. stage' # "reset" /\ (stage' = "BEGIN_PM" => mapped' = 2)
    <3>1. CASE do_e820
      <4>1. stage' \in {"memory_error", "load_kernel", "do_e820"}
        BY <3>1, Zenon DEF do_e820
      <4> QED BY <4>1
    <3>2. CASE switch_video_mode \/ next_mode
      <4>1. stage' \in {"switch_video_mode", "next_mode", "found_mode", "no_mode_found"}
        BY <3>2, Zenon DEF switch_video_mode, next_mode, SearchModes
      <4> QED BY <4>1
    <3>3. CASE FirstHalf \/ SecondHalf
      BY <3>3 DEF FirstHalf, SecondHalf, Read120
    <3>4. CASE save_available_video_modes \/ load_kernel \/ found_mode \/ set_mode \/ EnablePaging
      BY <3>4 DEF save_available_video_modes, load_kernel, found_mode, set_mode, EnablePaging
    <3> QED BY <1>3, <3>1, <3>2, <3>3, <3>4
  <2> QED BY <2>1, <2>2, <2>3, <2>4, KeyAside
<1>4. CASE BEGIN_PM
  <2>1. stage = "BEGIN_PM"
    BY <1>4, SMT DEF BEGIN_PM
  <2>2. mapped = 2
    BY <2>1 DEF KeyInv, TalkInv, Paged
  <2>3. \A a \in Touched : a \div 4194304 < mapped
    BY <2>2, TouchedMapped, SMT
  <2>4. stage' = "kernel" /\ kbc' = kbc /\ kstep' = kstep /\ al' = al
    BY <1>4, <2>3, SMT DEF BEGIN_PM, gate
  <2>5. pressed' = pressed
    BY <1>4, SMT DEF BEGIN_PM, gate
  <2> QED BY <2>1, <2>4, <2>5, KeyAside
<1> QED BY <1>1, <1>2, <1>3, <1>4

\* Every step is one of the loader, the kernel's first, which forgets the
\* loader's memory, or one that leaves the loader alone.
LEMMA LoaderOrKernel ==
  ASSUME [Next]_vars
  PROVE  LoaderNext \/ ReadMemoryMap \/ UNCHANGED loader
BY DEF Next, kernel_main, vars, UsbChange, Machine, OutOfMemory, Malloc, ProbeControllers, Probe, IdeDisk,
     AhciDisk, CheckPort, UsbDisk, SearchGoesOn, BootDiskNotFound, FileSystem

LEMMA KeyStill ==
  ASSUME KeyInv, UNCHANGED loader
  PROVE  KeyInv'
<1>1. kbc' = kbc /\ kstep' = kstep /\ al' = al /\ stage' = stage /\ mapped' = mapped
  BY DEF loader, gate, entry
<1>2. pressed' = pressed
  BY DEF loader, gate
<1>3. TalkInv'
  BY <1>1 DEF KeyInv, TalkInv, KeyOK, PortRead, BufferFree, Paged
<1>4. KeyTaken' /\ ResetExplained'
  BY <1>1, <1>2, Zenon DEF KeyInv, KeyTaken, ResetExplained
<1> QED BY <1>3, <1>4 DEF KeyInv

LEMMA KeyKept ==
  ASSUME LoadInv, KeyInv, [Next]_vars
  PROVE  KeyInv'
<1>1. CASE LoaderNext
  BY <1>1, KeyStill, KeySteps, SecondStageSteps DEF LoaderNext, LoaderStep, Hang
<1>2. CASE ReadMemoryMap
  <2>1. /\ stage' = "kernel_main" /\ kstep' = 0 /\ al' = None
        /\ kbc'.in = None /\ kbc'.out = None
    BY <1>2 DEF ReadMemoryMap, LoaderForgotten, ControllerUnused
  <2>2. TalkInv'
    BY <2>1 DEF TalkInv, KeyOK, PortRead, BufferFree, Paged, None
  <2>3. KeyTaken' /\ ResetExplained'
    BY <2>1 DEF KeyTaken, ResetExplained, None
  <2> QED BY <2>2, <2>3 DEF KeyInv
<1>3. CASE UNCHANGED loader
  BY <1>3, KeyStill
<1> QED BY <1>1, <1>2, <1>3, LoaderOrKernel

\* The invariant of the conversation holds in every reachable state.
THEOREM Conversed == Spec => []KeyInv
<1>1. Init => KeyInv
  BY KeyStarts DEF Init
<1> QED BY <1>1, KeyKept, Loaded, PTL DEF Spec

\* The processor is not reset on the way to the kernel unless a key was pressed
\* while the controller was asked for its output port (oldbootloader1.asm,
\* tryUsingKeyboardController; oldbootloader2.asm, EnablePaging and BEGIN_PM).
THEOREM ResetsExplained == Spec => []ResetExplained
<1>1. KeyInv => ResetExplained
  BY DEF KeyInv
<1> QED BY Conversed, <1>1, PTL

-----------------------------------------------------------------------------
(* The video mode. *)

Wanted    == "1024x768"
Second    == "1280x1024"
Searching == {"switch_video_mode", "next_mode"}
Set       == {"EnablePaging", "BEGIN_PM", "kernel"}
Chosen    == Set \cup {"set_mode"}
Video     == Searching \cup Chosen \cup {"found_mode", "no_mode_found", "reset"}

\* The list is in its place and no call has failed.
Whole == Intact /\ failed = {}

\* The BIOS does not offer m, or not before the place of the search.
Lacks(m)  == \A i \in DOMAIN offered : offered[i] # m
Passed(m) == \A i \in DOMAIN offered : i < di => offered[i] # m

ListsOK == list \in Seq(Mode) /\ offered \in Seq(Mode) /\ di \in Nat \ {0}

\* VbeModeInfo is written only if es leads to it, and during the first search
\* it does not describe the wanted mode, or the search would have ended.
InfoInv ==
  /\ info # None => es
  /\ stage \notin Video => info = None
  /\ stage = "switch_video_mode" => info # Wanted

\* Where a search of a whole list is.
SeekInv ==
  /\ stage \in Searching /\ Whole => di <= Len(list) + 1
  /\ stage = "switch_video_mode" /\ Whole => Passed(Wanted)
  /\ stage = "next_mode" /\ Whole => Lacks(Wanted) /\ Passed(Second)
  /\ stage = "no_mode_found" /\ Whole => Lacks(Wanted) /\ Lacks(Second)

\* What is known of the mode m that was found.
Fits(m) ==
  /\ "next_mode" \notin failed => m \in {Wanted, Second}
  /\ Whole => m = Best

ChoiceInv ==
  /\ stage = "found_mode" => Fits(cx) /\ info # None
  /\ stage \in Chosen => Fits(mode) /\ ("found_mode" \notin failed => info = mode)
  /\ stage = "set_mode" => cx = mode
  /\ stage \in Set /\ "set_mode" \notin failed => screen = mode

VideoInv == ListsOK /\ InfoInv /\ SeekInv /\ ChoiceInv

\* In a whole list the search reads the words of the list, and then its end.
LEMMA WordsOfList ==
  ASSUME ListsOK, Intact, di <= Len(list) + 1
  PROVE  WordsAt(di) = IF di <= Len(list) THEN {list[di]} ELSE {End}
<1>1. es
  BY DEF Intact
<1>2. di \in Nat /\ Len(list) \in Nat /\ Len(list) <= ListWords
  BY DEF ListsOK, Intact
<1>3. ListWords \in Nat
  BY LoaderAssumption
<1>4. ~(di > ListWords + 1)
  BY <1>2, <1>3
<1> QED BY <1>1, <1>4, Zenon DEF WordsAt

\* What a step of either search does.
LEMMA Seek ==
  ASSUME ListsOK, InfoInv, NEW label \in Searching, NEW wanted \in {Wanted, Second}, NEW next,
         SearchModes(label, wanted, next), Whole => di <= Len(list) + 1 /\ Passed(wanted)
  PROVE  /\ offered' = offered /\ mode' = mode /\ ListsOK'
         /\ Whole' => Whole
         /\ info' # None => es'
         /\ \/ /\ stage' = next /\ di' = 1 /\ info' = info /\ failed' = failed
               /\ Whole => Lacks(wanted)
            \/ /\ stage' = "found_mode" /\ info' = wanted /\ failed \subseteq failed'
               /\ label \notin failed' \/ info # wanted => cx' = wanted
               /\ Whole' => \E i \in DOMAIN offered : offered[i] = wanted
            \/ /\ stage' = stage /\ info' # wanted
               /\ Whole' => di' <= Len(list') + 1 /\ Passed(wanted)'
<1>1. PICK w \in WordsAt(di) :
        IF w = End
        THEN stage' = next /\ di' = 1 /\ UNCHANGED <<cx, info, failed>>
        ELSE /\ cx' = w
             /\ ModeInfo(label)
             /\ IF info' = wanted THEN stage' = "found_mode" /\ UNCHANGED di
                                  ELSE di' = NextWord(di) /\ UNCHANGED stage
  BY Zenon DEF SearchModes
<1>2. list' = list /\ offered' = offered /\ mode' = mode
  BY DEF SearchModes, modes
<1>3. es' = es
  BY DEF SearchModes
<1>4. Intact' <=> Intact
  BY <1>2, <1>3, Zenon DEF Intact
<1>5. di \in Nat \ {0} /\ Len(list) \in Nat /\ list \in Seq(Mode)
  BY DEF ListsOK
<1>6. di' \in Nat \ {0}
  <2>1. di' \in {1, di, di + 1}
    BY <1>1, Zenon DEF NextWord
  <2> QED BY <1>5, <2>1
<1>7. ListsOK'
  BY <1>2, <1>6 DEF ListsOK
<1>8. failed \subseteq failed'
  BY <1>1, Zenon DEF ModeInfo
<1>9. Whole' => Whole
  BY <1>4, <1>8 DEF Whole
<1>10. info' # None => es'
  <2>1. CASE w = End
    BY <1>1, <1>3, <2>1, Zenon DEF InfoInv
  <2>2. CASE w # End
    BY <1>1, <1>3, <2>2, Zenon DEF ModeInfo, InfoInv
  <2> QED BY <2>1, <2>2
<1>11. ASSUME Whole
       PROVE  \/ w = End /\ di > Len(list)
              \/ w # End /\ di \in DOMAIN offered /\ offered[di] = w
  <2>1. Intact /\ di <= Len(list) + 1 /\ list = offered
    BY <1>11 DEF Whole, Intact
  <2>2. w \in IF di <= Len(list) THEN {list[di]} ELSE {End}
    BY <2>1, WordsOfList
  <2>3. CASE di <= Len(list)
    <3>1. w = list[di] /\ di \in DOMAIN list
      BY <1>5, <2>2, <2>3
    <3>2. w \in Mode
      BY <1>5, <3>1
    <3> QED BY <2>1, <3>1, <3>2 DEF Mode, End
  <2>4. CASE di > Len(list)
    BY <1>5, <2>2, <2>4
  <2> QED BY <1>5, <2>3, <2>4
<1>12. CASE w = End
  <2>1. stage' = next /\ di' = 1 /\ info' = info /\ failed' = failed
    BY <1>1, <1>12
  <2>2. Whole => Lacks(wanted)
    <3> SUFFICES ASSUME Whole, NEW i \in DOMAIN offered PROVE offered[i] # wanted
      BY DEF Lacks
    <3>1. di > Len(list) /\ list = offered /\ Passed(wanted)
      BY <1>11, <1>12 DEF Whole, Intact
    <3>2. i < di
      BY <1>5, <3>1
    <3> QED BY <3>1, <3>2 DEF Passed
  <2> QED BY <1>2, <1>7, <1>9, <1>10, <2>1, <2>2
<1>13. CASE w # End
  <2>1. cx' = w /\ ModeInfo(label)
    BY <1>1, <1>13
  <2>2. label \notin failed' => info' = IF es THEN w ELSE info
    BY <2>1, Zenon DEF ModeInfo
  <2>3. info' = info \/ info' = w
    BY <2>1, Zenon DEF ModeInfo
  <2>4. CASE info' = wanted
    <3>1. stage' = "found_mode"
      BY <1>1, <1>13, <2>4
    <3>2. wanted # None
      BY DEF Wanted, Second, None
    <3>3. label \notin failed' => w = wanted
      <4>1. ASSUME label \notin failed', ~es PROVE FALSE
        <5>1. info = wanted
          BY <2>2, <2>4, <4>1
        <5> QED BY <3>2, <4>1, <5>1 DEF InfoInv
      <4> QED BY <2>2, <2>4, <4>1
    <3>4. info # wanted => w = wanted
      BY <2>3, <2>4
    <3>5. ASSUME Whole' PROVE \E i \in DOMAIN offered : offered[i] = wanted
      <4>1. Whole /\ label \notin failed'
        BY <1>9, <3>5 DEF Whole
      <4> QED BY <1>11, <1>13, <3>3, <4>1
    <3> QED BY <1>2, <1>7, <1>8, <1>9, <1>10, <2>1, <2>4, <3>1, <3>3, <3>4, <3>5
  <2>5. CASE info' # wanted
    <3>1. di' = NextWord(di) /\ stage' = stage
      BY <1>1, <1>13, <2>5
    <3>2. ASSUME Whole' PROVE di' <= Len(list') + 1 /\ Passed(wanted)'
      <4>1. Whole /\ label \notin failed' /\ es
        BY <1>9, <3>2 DEF Whole, Intact
      <4>2. di \in DOMAIN offered /\ offered[di] = w /\ list = offered
        BY <1>11, <1>13, <4>1 DEF Whole, Intact
      <4>3. info' = w
        BY <2>2, <4>1
      <4>4. di <= Len(list)
        BY <1>5, <4>2
      <4>5. di' = di + 1
        <5>1. Len(list) <= ListWords /\ ListWords \in Nat /\ Beyond \in Nat \ {0}
          BY <4>1, LoaderAssumption DEF Whole, Intact
        <5>2. di # ListWords + Beyond
          BY <1>5, <4>4, <5>1
        <5> QED BY <3>1, <5>2 DEF NextWord
      <4>6. di' <= Len(list') + 1
        BY <1>2, <1>5, <4>4, <4>5
      <4>7. Passed(wanted)'
        <5> SUFFICES ASSUME NEW i \in DOMAIN offered, i < di' PROVE offered[i] # wanted
          BY <1>2 DEF Passed
        <5>1. i = di \/ i < di
          BY <1>5, <4>2, <4>5
        <5> QED BY <2>5, <4>1, <4>2, <4>3, <5>1 DEF Passed
      <4> QED BY <4>6, <4>7
    <3> QED BY <1>2, <1>7, <1>9, <1>10, <2>5, <3>1, <3>2
  <2> QED BY <2>4, <2>5
<1> QED BY <1>12, <1>13

LEMMA FirstSearch ==
  ASSUME VideoInv, switch_video_mode
  PROVE  VideoInv'
<1>1. ListsOK /\ InfoInv /\ SeekInv
  BY DEF VideoInv
<1>2. stage = "switch_video_mode" /\ SearchModes("switch_video_mode", Wanted, "next_mode")
  BY DEF switch_video_mode, SearchModes, Wanted
<1>3. info # Wanted /\ (Whole => di <= Len(list) + 1 /\ Passed(Wanted))
  BY <1>1, <1>2 DEF InfoInv, SeekInv, Searching
<1>4. /\ offered' = offered /\ ListsOK'
      /\ Whole' => Whole
      /\ info' # None => es'
      /\ \/ /\ stage' = "next_mode" /\ di' = 1 /\ info' = info /\ failed' = failed
            /\ Whole => Lacks(Wanted)
         \/ /\ stage' = "found_mode" /\ info' = Wanted /\ cx' = Wanted
            /\ Whole' => \E i \in DOMAIN offered : offered[i] = Wanted
         \/ /\ stage' = stage /\ info' # Wanted
            /\ Whole' => di' <= Len(list') + 1 /\ Passed(Wanted)'
  <2>1. "switch_video_mode" \in Searching
    BY DEF Searching
  <2> HIDE DEF Wanted
  <2> QED BY <1>1, <1>2, <1>3, <2>1, Seek
<1>5. CASE stage' = "next_mode" /\ di' = 1 /\ (Whole => Lacks(Wanted))
  <2>1. InfoInv'
    BY <1>4, <1>5 DEF InfoInv, Video, Searching
  <2>2. ASSUME Whole' PROVE di' <= Len(list') + 1 /\ Lacks(Wanted)' /\ Passed(Second)'
    <3>1. Lacks(Wanted)'
      BY <1>4, <1>5, <2>2 DEF Lacks
    <3>2. Passed(Second)'
      BY <1>4, <1>5 DEF Passed, ListsOK
    <3>3. di' <= Len(list') + 1
      BY <1>4, <1>5 DEF ListsOK
    <3> QED BY <3>1, <3>2, <3>3
  <2>3. SeekInv' /\ ChoiceInv'
    BY <1>5, <2>2 DEF SeekInv, ChoiceInv, Searching, Chosen, Set
  <2> QED BY <1>4, <2>1, <2>3 DEF VideoInv
<1>6. CASE stage' = "found_mode" /\ info' = Wanted /\ cx' = Wanted
           /\ (Whole' => \E i \in DOMAIN offered : offered[i] = Wanted)
  <2>1. InfoInv' /\ SeekInv'
    BY <1>4, <1>6 DEF InfoInv, SeekInv, Video, Searching, Chosen, Set
  <2>2. Whole' => Best' = Wanted
    BY <1>4, <1>6 DEF Best, Wanted
  <2>3. Fits(cx)' /\ info' # None
    BY <1>6, <2>2 DEF Fits, Wanted, None
  <2> QED BY <1>4, <1>6, <2>1, <2>3 DEF VideoInv, ChoiceInv, Chosen, Set
<1>7. CASE stage' = stage /\ info' # Wanted /\ (Whole' => di' <= Len(list') + 1 /\ Passed(Wanted)')
  BY <1>2, <1>4, <1>7 DEF VideoInv, InfoInv, SeekInv, ChoiceInv, Video, Searching, Chosen, Set
<1> QED BY <1>4, <1>5, <1>6, <1>7

LEMMA SecondSearch ==
  ASSUME VideoInv, next_mode
  PROVE  VideoInv'
<1>1. ListsOK /\ InfoInv /\ SeekInv
  BY DEF VideoInv
<1>2. stage = "next_mode" /\ SearchModes("next_mode", Second, "no_mode_found")
  BY DEF next_mode, SearchModes, Second
<1>3. Whole => di <= Len(list) + 1 /\ Passed(Second) /\ Lacks(Wanted)
  BY <1>1, <1>2 DEF SeekInv, Searching
<1>4. /\ offered' = offered /\ ListsOK'
      /\ Whole' => Whole
      /\ info' # None => es'
      /\ \/ /\ stage' = "no_mode_found" /\ di' = 1 /\ info' = info /\ failed' = failed
            /\ Whole => Lacks(Second)
         \/ /\ stage' = "found_mode" /\ info' = Second
            /\ "next_mode" \notin failed' => cx' = Second
         \/ /\ stage' = stage
            /\ Whole' => di' <= Len(list') + 1 /\ Passed(Second)'
  <2>1. "next_mode" \in Searching
    BY DEF Searching
  <2> HIDE DEF Second
  <2> QED BY <1>1, <1>2, <1>3, <2>1, Seek
<1>5. Whole' => Lacks(Wanted)'
  BY <1>3, <1>4 DEF Lacks
<1>6. CASE stage' = "no_mode_found" /\ (Whole => Lacks(Second))
  <2>1. Whole' => Lacks(Second)'
    BY <1>4, <1>6 DEF Lacks
  <2> QED BY <1>4, <1>5, <1>6, <2>1 DEF VideoInv, InfoInv, SeekInv, ChoiceInv, Video, Searching, Chosen, Set
<1>7. CASE stage' = "found_mode" /\ info' = Second /\ ("next_mode" \notin failed' => cx' = Second)
  <2>1. InfoInv' /\ SeekInv'
    BY <1>4, <1>7 DEF InfoInv, SeekInv, Video, Searching, Chosen, Set
  <2>2. Whole' => Best' = Second /\ "next_mode" \notin failed'
    BY <1>4, <1>5 DEF Best, Wanted, Second, Lacks, Whole
  <2>3. Fits(cx)' /\ info' # None
    BY <1>7, <2>2 DEF Fits, Second, None
  <2> QED BY <1>4, <1>7, <2>1, <2>3 DEF VideoInv, ChoiceInv, Chosen, Set
<1>8. CASE stage' = stage /\ (Whole' => di' <= Len(list') + 1 /\ Passed(Second)')
  BY <1>2, <1>4, <1>5, <1>8 DEF VideoInv, InfoInv, SeekInv, ChoiceInv, Video, Searching, Chosen, Set
<1> QED BY <1>4, <1>6, <1>7, <1>8

\* The mode that was found is set, and stays.
LEMMA ChoiceSteps ==
  ASSUME VideoInv, found_mode \/ set_mode \/ EnablePaging \/ BEGIN_PM
  PROVE  VideoInv'
<1>1. list' = list /\ offered' = offered /\ di' = di
  BY SMT DEF found_mode, set_mode, EnablePaging, BEGIN_PM, modes, video
<1>2. es' = es
  BY SMT DEF found_mode, set_mode, EnablePaging, BEGIN_PM, video
<1>3. Intact' <=> Intact
  BY <1>1, <1>2, Zenon DEF Intact
<1>4. Best' = Best
  BY <1>1 DEF Best
<1>5. ListsOK'
  BY <1>1 DEF VideoInv, ListsOK
<1>6. CASE found_mode
  <2>1. stage = "found_mode" /\ stage' = "set_mode" /\ mode' = cx /\ cx' = cx /\ ModeInfo("found_mode")
    BY <1>6 DEF found_mode
  <2>2. Fits(cx) /\ info # None
    BY <2>1 DEF VideoInv, ChoiceInv
  <2>3. es
    BY <2>2, Zenon DEF VideoInv, InfoInv
  <2>4. failed' = failed \/ failed' = failed \cup {"found_mode"}
    BY <2>1, Zenon DEF ModeInfo
  <2>5. info' = cx \/ "found_mode" \in failed'
    BY <2>1, <2>3, Zenon DEF ModeInfo
  <2>6. Whole' => Whole
    BY <1>3, <2>4 DEF Whole
  <2>7. ("next_mode" \in failed' <=> "next_mode" \in failed)
    BY <2>4
  <2>8. Fits(mode)'
    BY <1>4, <2>1, <2>2, <2>6, <2>7 DEF Fits
  <2>9. es'
    BY <1>2, <2>3, Zenon
  <2>10. InfoInv'
    BY <2>1, <2>9 DEF InfoInv, Video, Searching, Chosen, Set
  <2> QED BY <1>5, <2>1, <2>5, <2>8, <2>10 DEF VideoInv, SeekInv, ChoiceInv, Searching, Chosen, Set
<1>7. CASE EnablePaging \/ BEGIN_PM
  <2>1. info' = info /\ failed' = failed /\ mode' = mode /\ screen' = screen
    BY <1>7, SMT DEF EnablePaging, BEGIN_PM, video
  <2>2. stage \in {"EnablePaging", "BEGIN_PM"} /\ stage' \in {"BEGIN_PM", "kernel", "reset"}
    BY <1>7, SMT DEF EnablePaging, BEGIN_PM
  <2>3. Whole' <=> Whole
    BY <1>3, <2>1 DEF Whole
  <2>4. Fits(mode) <=> Fits(mode)'
    BY <1>4, <2>1, <2>3 DEF Fits
  <2>5. info' # None => es'
    BY <1>2, <2>1, Zenon DEF VideoInv, InfoInv
  <2> QED BY <1>5, <2>1, <2>2, <2>4, <2>5
          DEF VideoInv, InfoInv, SeekInv, ChoiceInv, Video, Searching, Chosen, Set
<1>8. CASE set_mode
  <2>1. /\ stage = "set_mode" /\ stage' = "EnablePaging" /\ info' = info /\ mode' = mode
        /\ (screen' = cx /\ failed' = failed) \/ failed' = failed \cup {"set_mode"}
    BY <1>8 DEF set_mode
  <2>2. Whole' => Whole
    BY <1>3, <2>1 DEF Whole
  <2>3. /\ "next_mode" \in failed' <=> "next_mode" \in failed
        /\ "found_mode" \in failed' <=> "found_mode" \in failed
    BY <2>1
  <2>4. Fits(mode) /\ ("found_mode" \notin failed => info = mode) /\ cx = mode
    BY <2>1 DEF VideoInv, ChoiceInv, Chosen, Set
  <2>5. Fits(mode)'
    BY <1>4, <2>1, <2>2, <2>3, <2>4 DEF Fits
  <2>6. info' # None => es'
    BY <1>2, <2>1, Zenon DEF VideoInv, InfoInv
  <2> QED BY <1>5, <2>1, <2>3, <2>4, <2>5, <2>6
          DEF VideoInv, InfoInv, SeekInv, ChoiceInv, Video, Searching, Chosen, Set
<1> QED BY <1>6, <1>7, <1>8

\* Outside the search VbeModeInfo has not been written.
LEMMA Unsearched ==
  ASSUME ListsOK', info' = None, stage' \notin Video \/ stage' = "reset"
  PROVE  VideoInv'
BY DEF VideoInv, InfoInv, SeekInv, ChoiceInv, Video, Searching, Chosen, Set

\* The steps before the search.
LEMMA BeforeSearch ==
  ASSUME VideoInv,
         \/ EnableA20Gate \/ tryUsingBIOS \/ tryUsingKeyboardController \/ A20KeyboardCheck
         \/ UseFastA20Method \/ LoadSecondStage \/ KeyPress
         \/ save_available_video_modes \/ do_e820 \/ load_kernel \/ FirstHalf
  PROVE  VideoInv'
<1>1. di' = di /\ info' = info
  BY DEF EnableA20Gate, tryUsingBIOS, tryUsingKeyboardController, A20KeyboardCheck, UseFastA20Method,
         LoadSecondStage, KeyPress, save_available_video_modes, do_e820, load_kernel, FirstHalf, video
<1>2. stage \notin Video
  BY DEF EnableA20Gate, tryUsingBIOS, tryUsingKeyboardController, A20KeyboardCheck, UseFastA20Method,
         LoadSecondStage, KeyPress, save_available_video_modes, do_e820, load_kernel, FirstHalf,
         Video, Searching, Chosen, Set
<1>3. info' = None
  BY <1>1, <1>2 DEF VideoInv, InfoInv
<1>4. stage' \notin Video
  <2>1. CASE do_e820
    <3>1. stage' = "memory_error" \/ stage' = "load_kernel" \/ stage' = "do_e820"
      BY <2>1, Zenon DEF do_e820
    <3> QED BY <3>1 DEF Video, Searching, Chosen, Set
  <2>2. CASE tryUsingKeyboardController \/ KeyPress
    <3>1. stage' = stage
      BY <2>2, Zenon DEF tryUsingKeyboardController, KeyPress
    <3> QED BY <1>2, <3>1
  <2>3. CASE EnableA20Gate \/ tryUsingBIOS \/ A20KeyboardCheck \/ UseFastA20Method \/ LoadSecondStage
    <3>1. stage' \in {"LoadSecondStage", "BIOS", "KeyboardController", "FastA20", "A20Error",
                     "GetVesaControllerInfo", "disk_error"}
      BY <2>3 DEF EnableA20Gate, tryUsingBIOS, A20KeyboardCheck, UseFastA20Method, LoadSecondStage, A20Check
    <3> QED BY <3>1 DEF Video, Searching, Chosen, Set
  <2>4. CASE save_available_video_modes \/ load_kernel \/ FirstHalf
    BY <2>4 DEF save_available_video_modes, load_kernel, FirstHalf, Read120, Video, Searching, Chosen, Set
  <2> QED BY <2>1, <2>2, <2>3, <2>4
<1>5. ListsOK'
  <2>1. CASE save_available_video_modes
    <3>1. offered' \in Lists /\ list' \in Lists
      BY <2>1 DEF save_available_video_modes
    <3> QED BY <1>1, <3>1, LoaderAssumption DEF VideoInv, ListsOK
  <2>2. CASE ~save_available_video_modes
    <3>1. offered' = offered /\ list' = list
      BY <2>2 DEF EnableA20Gate, tryUsingBIOS, tryUsingKeyboardController, A20KeyboardCheck, UseFastA20Method,
                  LoadSecondStage, KeyPress, do_e820, load_kernel, FirstHalf, modes
    <3> QED BY <1>1, <3>1 DEF VideoInv, ListsOK
  <2> QED BY <2>1, <2>2
<1> QED BY <1>3, <1>4, <1>5, Unsearched

\* The first search starts at the head of the list, with no call made.
LEMMA SearchBegins ==
  ASSUME VideoInv, SecondHalf
  PROVE  VideoInv'
<1>1. stage = "read2" /\ info' = info /\ di' = 1 /\ list' = list /\ offered' = offered
  BY DEF SecondHalf, modes
<1>2. info' = None
  BY <1>1 DEF VideoInv, InfoInv, Video, Searching, Chosen, Set
<1>3. ListsOK'
  BY <1>1 DEF VideoInv, ListsOK
<1>4. CASE stage' = "disk_error"
  BY <1>2, <1>3, <1>4, Unsearched DEF Video, Searching, Chosen, Set
<1>5. CASE stage' = "switch_video_mode"
  <2>1. di' <= Len(list') + 1
    BY <1>1, <1>3 DEF ListsOK
  <2>2. Passed(Wanted)'
    BY <1>1, <1>3 DEF Passed, ListsOK
  <2> QED BY <1>2, <1>3, <1>5, <2>1, <2>2
          DEF VideoInv, InfoInv, SeekInv, ChoiceInv, Video, Searching, Chosen, Set, Wanted, None
<1> QED BY <1>4, <1>5 DEF SecondHalf, Read120

LEMMA VideoStill ==
  ASSUME VideoInv, UNCHANGED loader
  PROVE  VideoInv'
<1>1. stage' = stage /\ list' = list /\ offered' = offered /\ di' = di /\ cx' = cx /\ info' = info
      /\ mode' = mode /\ screen' = screen /\ failed' = failed
  BY DEF loader, modes, video
<1>2. es' = es
  BY DEF loader, video
<1>3. Whole' <=> Whole
  BY <1>1, <1>2, Zenon DEF Whole, Intact
<1>4. info' # None => es'
  BY <1>1, <1>2, Zenon DEF VideoInv, InfoInv
<1> QED BY <1>1, <1>3, <1>4 DEF VideoInv, ListsOK, InfoInv, SeekInv, ChoiceInv, Fits, Lacks, Passed, Best

LEMMA VideoKept ==
  ASSUME LoadInv, VideoInv, [Next]_vars
  PROVE  VideoInv'
<1>1. CASE Controller
  <2>1. stage = "KeyboardController"
    <3>1. kbc.in \in {"AD", "AE", "D0", "D1", "data"}
      BY <1>1 DEF Controller
    <3> QED BY <3>1 DEF LoadInv, None
  <2>2. stage' = stage \/ stage' = "reset"
    BY <1>1 DEF Controller
  <2>3. ListsOK' /\ info' = None
    BY <1>1, <2>1 DEF Controller, modes, video, VideoInv, ListsOK, InfoInv, Video, Searching, Chosen, Set
  <2> QED BY <2>1, <2>2, <2>3, Unsearched DEF Video, Searching, Chosen, Set
<1>2. CASE Reboot \/ ReadMemoryMap
  <2>1. SecondStageUnset /\ stage' \in {"start", "kernel_main"}
    BY <1>2 DEF Reboot, ReadMemoryMap, LoaderForgotten
  <2>2. ListsOK' /\ info' = None
    BY <2>1 DEF SecondStageUnset, ListsOK
  <2> QED BY <2>1, <2>2, Unsearched DEF Video, Searching, Chosen, Set
<1>3. CASE LoaderStep \/ KeyPress
  BY <1>3, BeforeSearch, SearchBegins, FirstSearch, SecondSearch, ChoiceSteps DEF LoaderStep
<1>4. CASE UNCHANGED loader
  BY <1>4, VideoStill
<1> QED BY <1>1, <1>2, <1>3, <1>4, LoaderOrKernel DEF LoaderNext, Hang

\* The invariant of the search for a mode holds in every reachable state.
THEOREM VideoSought == Spec => []VideoInv
<1>1. Init => VideoInv
  <2> SUFFICES ASSUME Init PROVE VideoInv
    OBVIOUS
  <2>1. stage = "start" /\ offered = <<>> /\ list = <<>> /\ di = 1 /\ info = None
    BY DEF Init, LoaderInit
  <2> QED BY <2>1 DEF VideoInv, ListsOK, InfoInv, SeekInv, ChoiceInv, Video, Searching, Chosen, Set
<1> QED BY <1>1, VideoKept, Loaded, PTL DEF Spec

\* The mode the display is in is the one VbeModeInfo describes, one the system knows,
\* and the better one of a whole list, as far as the BIOS calls succeeded
\* (oldbootloader2.asm, switch_video_mode, next_mode and found_mode, with the
\* ignored status of 4f01 and 4f02).
THEOREM ModesFit == Spec => []ModeFits
<1>1. VideoInv => ModeFits
  <2> SUFFICES ASSUME VideoInv PROVE ModeFits
    OBVIOUS
  <2>1. ASSUME stage = "no_mode_found", Whole, NEW i \in DOMAIN offered PROVE offered[i] = "other"
    <3>1. offered[i] # Wanted /\ offered[i] # Second
      BY <2>1 DEF VideoInv, SeekInv, Lacks
    <3>2. offered[i] \in Mode
      BY <2>1 DEF VideoInv, ListsOK
    <3> QED BY <3>1, <3>2 DEF Mode, Wanted, Second
  <2>2. stage = "kernel" => /\ Fits(mode)
                            /\ "found_mode" \notin failed => info = mode
                            /\ "set_mode" \notin failed => screen = mode
    BY DEF VideoInv, ChoiceInv, Chosen, Set
  <2> QED BY <2>1, <2>2 DEF ModeFits, Fits, Whole, Wanted, Second
<1> QED BY <1>1, VideoSought, PTL

-----------------------------------------------------------------------------
(* The search for the boot disk. *)

LEMMA SearchStarts == Init => SearchInv
<1> SUFFICES ASSUME Init PROVE SearchInv
  OBVIOUS
<1>1. pc = "off" /\ diskIndex = 0 /\ buffer = NoDisk /\ plugged = UsbDisks /\ pulled = {} /\ mass = {}
  BY DEF Init
<1> QED BY <1>1 DEF SearchInv, CounterInv, FoundInv, FsOnBootDisk, DriversInv, IdeSeen, AhciSeen, PortsSeen, UsbSeen,
                    Early, Search, Signed

\* Steps of kernel_main before the search.
LEMMA EarlySteps ==
  ASSUME SearchInv, ReadMemoryMap \/ Machine \/ OutOfMemory \/ Malloc
  PROVE  SearchInv'
<1>1. /\ pc \in {"off", "machine", "alloc"} /\ pc' \in {"machine", "alloc", "ide_init", "returned"}
      /\ plugged' = plugged /\ pulled' = pulled /\ mass' = mass
      /\ diskIndex' = diskIndex /\ buffer' = buffer
  BY DEF ReadMemoryMap, Machine, OutOfMemory, Malloc, Goto, usb, found, search
<1>2. pc' = "ide_init" => drivers' = Controllers
  BY DEF ReadMemoryMap, Machine, OutOfMemory, Malloc, Goto
<1>3. diskIndex = 0 /\ buffer = NoDisk
  BY <1>1 DEF SearchInv, FoundInv, Early
<1>4. DriversInv'
  BY <1>1, <1>2 DEF DriversInv, Search, Controllers
<1>5. PortsSeen'
  BY <1>1 DEF SearchInv, PortsSeen, Search, UsbDisks
<1> QED BY <1>1, <1>3, <1>4, <1>5 DEF SearchInv, CounterInv, FoundInv, FsOnBootDisk, IdeSeen, AhciSeen, UsbSeen,
                                      Early, Search, Signed

\* A controller that is not there loses its driver.
LEMMA ProbeStep ==
  ASSUME SearchInv, ProbeControllers
  PROVE  SearchInv'
<1>1. PICK c \in Controllers, here \in Early, next \in Early \cup {"ide"} :
         /\ Probe(c, here, next)
         /\ <<c, here, next>> \in {<<"ide", "ide_init", "ahci_init">>, <<"ahci", "ahci_init", "ehci_init">>,
                                  <<"ehci", "ehci_init", "ide">>}
  BY DEF ProbeControllers, Controllers, Early
<1>2. /\ pc = here /\ pc' = next /\ n' = 0
      /\ hardware' = hardware /\ content' = content
      /\ plugged' = plugged /\ pulled' = pulled /\ mass' = mass
      /\ diskIndex' = diskIndex /\ buffer' = buffer
      /\ drivers' = IF c \in hardware THEN drivers ELSE drivers \ {c}
  BY <1>1 DEF Probe, Goto, usb, search, machine
<1>3. diskIndex = 0 /\ buffer = NoDisk
  BY <1>2 DEF SearchInv, FoundInv
<1>4. DriversInv'
  BY <1>1, <1>2 DEF SearchInv, DriversInv, Search
<1>5. PortsSeen'
  BY <1>1, <1>2 DEF SearchInv, PortsSeen, Search, UsbDisks
<1>6. CounterInv' /\ FoundInv'
  BY <1>1, <1>2, <1>3 DEF CounterInv, FoundInv, Signed
<1>7. IdeSeen'
  BY <1>1, <1>2 DEF IdeSeen, Search
<1> QED BY <1>1, <1>2, <1>4, <1>5, <1>6, <1>7 DEF SearchInv, FsOnBootDisk, AhciSeen, UsbSeen, Search

\* A disk is read and compared while nothing has been found: either it is the
\* one, and index is its number, or it is missed, or it has no signature.
LEMMA ReadCompare ==
  ASSUME FoundInv, diskIndex = 0, content' = content, NEW d, NEW index, index # 0, Read(d), Compare(index)
  PROVE  /\ \/ diskIndex' = 0 /\ ~Signed(buffer')
            \/ diskIndex' = index /\ buffer' = d /\ Signed(buffer')
         /\ missed \subseteq missed'
         /\ diskIndex' = 0 /\ Signed(d) => d \in missed'
<1>1. ~Signed(buffer)
  BY DEF FoundInv
<1>2. CASE buffer' = d /\ missed' = missed
  BY <1>2 DEF Compare
<1>3. CASE missed' = missed \cup {d} /\ buffer' = buffer
  BY <1>1, <1>3 DEF Compare
<1> QED BY <1>2, <1>3 DEF Read

\* FoundInv after a disk was read whose number is index.
LEMMA FoundKept ==
  ASSUME FoundInv, diskIndex = 0, content' = content, NEW d, NEW index \in Nat \ {0},
         Read(d), Compare(index), pc' \notin Early,
         index >= UsbBase => d = <<"usb", index - UsbBase>>,
         index < UsbBase /\ index > 4 => d = ahci_disk',
         index <= 4 => d = ide_disk'
  PROVE  FoundInv'
<1>1. \/ diskIndex' = 0 /\ ~Signed(buffer')
      \/ diskIndex' = index /\ buffer' = d /\ Signed(buffer')
  BY ReadCompare
<1>2. Signed(buffer)' <=> Signed(buffer')
  BY DEF Signed
<1>3. CASE diskIndex' = 0 /\ ~Signed(buffer')
  BY <1>2, <1>3 DEF FoundInv
<1>4. CASE diskIndex' = index /\ buffer' = d /\ Signed(buffer')
  <2>1. UsbBase \in Nat /\ 5 <= UsbBase
    BY DiskAssumption
  <2>2. FileSystemDisk' = d
    <3>1. CASE index >= UsbBase
      BY <1>4, <3>1 DEF FileSystemDisk
    <3>2. CASE index < UsbBase /\ index > 4
      BY <1>4, <2>1, <3>2 DEF FileSystemDisk
    <3>3. CASE index <= 4
      BY <1>4, <2>1, <3>3 DEF FileSystemDisk
    <3> QED BY <2>1, <3>1, <3>2, <3>3
  <2> QED BY <1>2, <1>4, <2>2 DEF FoundInv
<1> QED BY <1>1, <1>3, <1>4

LEMMA IdeStep ==
  ASSUME SearchInv, IdeDisk
  PROVE  SearchInv'
<1>1. /\ pc = "ide" /\ "ide" \in drivers /\ n \in 0 .. 3
      /\ \/ n < 3 /\ pc' = "ide" /\ n' = n + 1
         \/ n >= 3 /\ pc' = "ahci" /\ n' = 0
      /\ hardware' = hardware /\ content' = content /\ drivers' = drivers
      /\ plugged' = plugged /\ pulled' = pulled /\ mass' = mass
  BY DEF IdeDisk, Goto, usb, machine, SearchInv, CounterInv
<1>2. CounterInv' /\ DriversInv' /\ PortsSeen'
  BY <1>1, DiskAssumption DEF SearchInv, CounterInv, DriversInv, PortsSeen, Search, UsbDisks
<1>3. FsOnBootDisk' /\ AhciSeen' /\ UsbSeen'
  <2>1. pc' = "ahci" => n' = 0
    BY <1>1
  <2> QED BY <1>1, <2>1 DEF FsOnBootDisk, AhciSeen, UsbSeen, Search
<1>4. CASE diskIndex = 0 /\ content[<<"ide", n + 1>>] # "empty"
  <2>1. Read(<<"ide", n + 1>>) /\ Compare(n + 1) /\ ide_disk' = <<"ide", n + 1>>
    BY <1>4 DEF IdeDisk
  <2>2. n + 1 \in 1 .. 4 /\ n + 1 < UsbBase
    BY <1>1, DiskAssumption
  <2>3. FoundInv'
    BY <1>1, <1>4, <2>1, <2>2, DiskAssumption, FoundKept DEF SearchInv, Early
  <2>4. /\ missed \subseteq missed'
        /\ diskIndex' = 0 /\ Signed(<<"ide", n + 1>>) => <<"ide", n + 1>> \in missed'
    BY <1>1, <1>4, <2>1, <2>2, ReadCompare DEF SearchInv
  <2>5. IdeSeen'
    <3> SUFFICES ASSUME diskIndex' = 0, NEW k \in 1 .. 4, pc' = "ide" => k <= n', Signed(<<"ide", k>>)'
                 PROVE  <<"ide", k>> \in missed'
      BY DEF IdeSeen
    <3>1. Signed(<<"ide", k>>)
      BY <1>1 DEF Signed
    <3>2. CASE k = n + 1
      BY <2>4, <3>1, <3>2
    <3>3. CASE k # n + 1
      <4>1. k <= n
        BY <1>1, <3>3
      <4> QED BY <1>1, <1>4, <2>4, <3>1, <4>1 DEF SearchInv, IdeSeen, Search
    <3> QED BY <3>2, <3>3
  <2> QED BY <1>1, <1>2, <1>3, <2>3, <2>5 DEF SearchInv
<1>5. CASE ~(diskIndex = 0 /\ content[<<"ide", n + 1>>] # "empty")
  <2>1. buffer' = buffer /\ missed' = missed /\ diskIndex' = diskIndex /\ ide_disk' = ide_disk /\ ahci_disk' = ahci_disk
    BY <1>5 DEF IdeDisk
  <2>2. FoundInv'
    BY <1>1, <2>1 DEF SearchInv, FoundInv, Early, Signed, FileSystemDisk
  <2>3. diskIndex = 0 => ~Signed(<<"ide", n + 1>>)
    BY <1>5 DEF Signed
  <2>4. IdeSeen'
    <3> SUFFICES ASSUME diskIndex' = 0, NEW k \in 1 .. 4, pc' = "ide" => k <= n', Signed(<<"ide", k>>)'
                 PROVE  <<"ide", k>> \in missed'
      BY DEF IdeSeen
    <3>1. Signed(<<"ide", k>>)
      BY <1>1 DEF Signed
    <3>2. k # n + 1
      BY <2>1, <2>3, <3>1
    <3>3. k <= n
      BY <1>1, <3>2
    <3> QED BY <1>1, <2>1, <3>1, <3>3 DEF SearchInv, IdeSeen, Search
  <2> QED BY <1>1, <1>2, <1>3, <2>2, <2>4 DEF SearchInv
<1> QED BY <1>4, <1>5

LEMMA AhciStep ==
  ASSUME SearchInv, AhciDisk
  PROVE  SearchInv'
<1>1. /\ pc = "ahci" /\ "ahci" \in drivers /\ diskIndex = 0 /\ n \in 0 .. numDisks /\ n < numDisks
      /\ pc' = "ahci" /\ n' = n + 1
      /\ hardware' = hardware /\ content' = content /\ drivers' = drivers
      /\ plugged' = plugged /\ pulled' = pulled /\ mass' = mass
      /\ Read(<<"ahci", n>>) /\ Compare(5 + n) /\ ahci_disk' = <<"ahci", n>>
  BY DEF AhciDisk, Goto, usb, machine, SearchInv, CounterInv
<1>2. 5 + n \in Nat \ {0} /\ 5 + n > 4 /\ 5 + n < UsbBase /\ UsbBase \in Nat /\ n + 1 \in 0 .. numDisks
  BY <1>1, DiskAssumption
<1>3. CounterInv' /\ DriversInv' /\ PortsSeen'
  BY <1>1, <1>2 DEF SearchInv, CounterInv, DriversInv, PortsSeen, Search, UsbDisks
<1>4. FoundInv'
  BY <1>1, <1>2, FoundKept DEF SearchInv, Early
<1>5. /\ missed \subseteq missed'
      /\ diskIndex' = 0 /\ Signed(<<"ahci", n>>) => <<"ahci", n>> \in missed'
  BY <1>1, <1>2, ReadCompare DEF SearchInv
<1>6. IdeSeen'
  BY <1>1, <1>5 DEF SearchInv, IdeSeen, Search, Signed
<1>7. AhciSeen'
  <2> SUFFICES ASSUME diskIndex' = 0, NEW j \in 0 .. numDisks - 1, j < n', Signed(<<"ahci", j>>)'
               PROVE  <<"ahci", j>> \in missed'
    BY <1>1 DEF AhciSeen
  <2>1. Signed(<<"ahci", j>>)
    BY <1>1 DEF Signed
  <2>2. j = n \/ j < n
    BY <1>1, DiskAssumption
  <2> QED BY <1>1, <1>5, <2>1, <2>2 DEF SearchInv, AhciSeen, Search
<1> QED BY <1>1, <1>3, <1>4, <1>6, <1>7 DEF SearchInv, FsOnBootDisk, UsbSeen

LEMMA PortStep ==
  ASSUME SearchInv, CheckPort
  PROVE  SearchInv'
<1>1. /\ pc = "ports" /\ n \in 0 .. numPorts /\ n < numPorts /\ pc' = "ports" /\ n' = n + 1
      /\ hardware' = hardware /\ content' = content /\ drivers' = drivers
      /\ plugged' = plugged /\ pulled' = pulled
      /\ mass' = IF Present(<<"usb", n>>) THEN mass \cup {<<"usb", n>>} ELSE mass
      /\ buffer' = buffer /\ missed' = missed /\ diskIndex' = diskIndex
      /\ ide_disk' = ide_disk /\ ahci_disk' = ahci_disk
  BY DEF CheckPort, Goto, usb, machine, search, SearchInv, CounterInv
<1>2. n + 1 \in 0 .. numPorts /\ <<"usb", n>> \in UsbDisks
  BY <1>1, DiskAssumption DEF UsbDisks
<1>3. CounterInv' /\ DriversInv' /\ IdeSeen' /\ AhciSeen'
  BY <1>1, <1>2 DEF SearchInv, CounterInv, DriversInv, IdeSeen, AhciSeen, Search, Signed
<1>4. FoundInv'
  BY <1>1 DEF SearchInv, FoundInv, Early, Signed, FileSystemDisk
<1>5. PortsSeen'
  <2>1. (UsbDisks \ pulled \subseteq plugged)' /\ (mass \subseteq UsbDisks)'
    BY <1>1, <1>2 DEF SearchInv, PortsSeen, UsbDisks
  <2>2. ASSUME diskIndex' = 0, "ehci" \in drivers', NEW i \in 0 .. numPorts - 1, i < n',
               Signed(<<"usb", i>>)', <<"usb", i>> \notin pulled'
        PROVE  <<"usb", i>> \in mass'
    <3>1. Signed(<<"usb", i>>)
      BY <1>1, <2>2 DEF Signed
    <3>2. CASE i = n
      BY <1>1, <1>2, <2>2, <3>1, <3>2 DEF SearchInv, PortsSeen, Present, Signed
    <3>3. CASE i < n
      BY <1>1, <2>2, <3>1, <3>3 DEF SearchInv, PortsSeen, Search
    <3> QED BY <1>1, <2>2, <3>2, <3>3, DiskAssumption
  <2> QED BY <1>1, <2>1, <2>2 DEF PortsSeen
<1> QED BY <1>1, <1>3, <1>4, <1>5 DEF SearchInv, FsOnBootDisk, UsbSeen

LEMMA UsbStep ==
  ASSUME SearchInv, UsbDisk
  PROVE  SearchInv'
<1>1. /\ pc = "usb" /\ diskIndex = 0 /\ n \in 0 .. numPorts /\ n < numPorts /\ pc' = "usb" /\ n' = n + 1
      /\ hardware' = hardware /\ content' = content /\ drivers' = drivers
      /\ plugged' = plugged /\ pulled' = pulled /\ mass' = mass
      /\ ide_disk' = ide_disk /\ ahci_disk' = ahci_disk
  BY DEF UsbDisk, Goto, usb, machine, SearchInv, CounterInv
<1>2. n + 1 \in 0 .. numPorts /\ UsbBase + n \in Nat \ {0} /\ UsbBase + n >= UsbBase /\ (UsbBase + n) - UsbBase = n
      /\ UsbBase \in Nat /\ 4 < UsbBase
  BY <1>1, DiskAssumption
<1>3. CounterInv' /\ DriversInv' /\ PortsSeen'
  BY <1>1, <1>2 DEF SearchInv, CounterInv, DriversInv, PortsSeen, Search, UsbDisks, Signed
<1>4. /\ FoundInv' /\ missed \subseteq missed'
      /\ diskIndex' = 0 /\ <<"usb", n>> \in mass /\ Signed(<<"usb", n>>) => <<"usb", n>> \in missed'
  <2>1. CASE <<"usb", n>> \in mass
    <3>1. Read(<<"usb", n>>) /\ Compare(UsbBase + n)
      BY <2>1 DEF UsbDisk
    <3>2. FoundInv'
      BY <1>1, <1>2, <3>1, FoundKept DEF SearchInv, Early
    <3> QED BY <1>1, <1>2, <3>1, <3>2, ReadCompare DEF SearchInv
  <2>2. CASE <<"usb", n>> \notin mass
    <3>1. buffer' = buffer /\ missed' = missed /\ diskIndex' = diskIndex
      BY <2>2 DEF UsbDisk
    <3> QED BY <1>1, <2>2, <3>1 DEF SearchInv, FoundInv, Early, Signed, FileSystemDisk
  <2> QED BY <2>1, <2>2
<1>5. IdeSeen' /\ AhciSeen'
  BY <1>1, <1>4 DEF SearchInv, IdeSeen, AhciSeen, Search, Signed
<1>6. UsbSeen'
  <2> SUFFICES ASSUME diskIndex' = 0, "ehci" \in drivers', NEW i \in 0 .. numPorts - 1, i < n',
                      Signed(<<"usb", i>>)', <<"usb", i>> \in mass'
               PROVE  <<"usb", i>> \in missed'
    BY <1>1 DEF UsbSeen
  <2>1. Signed(<<"usb", i>>)
    BY <1>1 DEF Signed
  <2>2. i = n \/ i < n
    BY <1>1, DiskAssumption
  <2> QED BY <1>1, <1>4, <2>1, <2>2 DEF SearchInv, UsbSeen
<1> QED BY <1>1, <1>3, <1>4, <1>5, <1>6 DEF SearchInv, FsOnBootDisk

\* A loop ends only at its bound, with a disk found, or without a driver.
LEMMA LoopEnds ==
  ASSUME SearchInv, SearchGoesOn
  PROVE  SearchInv'
<1>1. /\ hardware' = hardware /\ content' = content /\ drivers' = drivers
      /\ plugged' = plugged /\ pulled' = pulled /\ mass' = mass /\ fs' = fs
      /\ buffer' = buffer /\ missed' = missed /\ diskIndex' = diskIndex
      /\ ide_disk' = ide_disk /\ ahci_disk' = ahci_disk
      /\ n' = 0 /\ pc \in Search /\ pc' \in Search \ {"not_found"}
  BY DEF SearchGoesOn, Goto, usb, machine, found, search, Search
<1>2. \/ pc = "ide" /\ "ide" \notin drivers /\ pc' = "ahci"
      \/ pc = "ahci" /\ ("ahci" \notin drivers \/ diskIndex # 0 \/ n = numDisks) /\ pc' = "ports"
      \/ pc = "ahci" /\ ("ahci" \notin drivers \/ diskIndex # 0 \/ n = numDisks) /\ pc' = "found"
         /\ (diskIndex # 0 \/ "ehci" \notin drivers)
      \/ pc = "ports" /\ n = numPorts /\ pc' = "usb"
      \/ pc = "usb" /\ (diskIndex # 0 \/ n = numPorts) /\ pc' = "found"
  BY DEF SearchGoesOn, Goto
<1>3. numDisks \in Nat /\ numPorts \in Nat
  BY DiskAssumption
<1>4. /\ \A j \in 0 .. numDisks - 1 : j < numDisks
      /\ \A i \in 0 .. numPorts - 1 : i < numPorts /\ ~(i < 0)
      /\ \A j \in 0 .. numDisks - 1 : ~(j < 0)
      /\ 0 \in 0 .. 3 /\ 0 \in 0 .. numDisks /\ 0 \in 0 .. numPorts
  BY <1>3
<1>5. CounterInv' /\ DriversInv'
  BY <1>1, <1>2, <1>4 DEF SearchInv, CounterInv, DriversInv, Search
<1>6. FoundInv' /\ FsOnBootDisk'
  BY <1>1, <1>2 DEF SearchInv, FoundInv, Early, Search, Signed, FileSystemDisk, FsOnBootDisk
<1>7. IdeSeen'
  BY <1>1, <1>2 DEF SearchInv, IdeSeen, Search, Signed
<1>8. AhciSeen'
  BY <1>1, <1>2, <1>4 DEF SearchInv, AhciSeen, Search, Signed
<1>9. PortsSeen'
  BY <1>1, <1>2, <1>4 DEF SearchInv, PortsSeen, Search, Signed, UsbDisks
<1>10. UsbSeen'
  BY <1>1, <1>2, <1>4 DEF SearchInv, UsbSeen, Search, Signed
<1> QED BY <1>1, <1>5, <1>6, <1>7, <1>8, <1>9, <1>10 DEF SearchInv

LEMMA EndSteps ==
  ASSUME SearchInv, BootDiskNotFound \/ FileSystem
  PROVE  SearchInv'
<1>1. /\ hardware' = hardware /\ content' = content /\ drivers' = drivers
      /\ plugged' = plugged /\ pulled' = pulled /\ mass' = mass
      /\ buffer' = buffer /\ missed' = missed /\ diskIndex' = diskIndex
      /\ ide_disk' = ide_disk /\ ahci_disk' = ahci_disk
      /\ pc = "found" /\ pc' \in {"not_found", "ready", "returned"}
      /\ pc' = "not_found" => diskIndex = 0
  BY DEF BootDiskNotFound, FileSystem, Goto, usb, machine, found, search
<1>2. FoundInv'
  BY <1>1 DEF SearchInv, FoundInv, Early, Signed, FileSystemDisk
<1>3. FsOnBootDisk'
  <2>1. CASE pc' = "ready"
    <3>1. diskIndex # 0 /\ content[buffer] = "boot" /\ fs' = [disk |-> FileSystemDisk, sector |-> buffer]
      BY <2>1 DEF BootDiskNotFound, FileSystem, Goto
    <3>2. fs'.disk = buffer /\ fs'.sector = buffer
      BY <3>1 DEF SearchInv, FoundInv
    <3> QED BY <1>1, <3>1, <3>2 DEF FsOnBootDisk
  <2> QED BY <2>1 DEF FsOnBootDisk
<1>4. CounterInv' /\ DriversInv' /\ IdeSeen' /\ AhciSeen' /\ PortsSeen' /\ UsbSeen'
  BY <1>1 DEF SearchInv, CounterInv, DriversInv, IdeSeen, AhciSeen, PortsSeen, UsbSeen, Search, Signed, UsbDisks
<1> QED BY <1>1, <1>2, <1>3, <1>4 DEF SearchInv

\* A USB disk that is pulled out is remembered; the loader does not disturb the
\* kernel.
LEMMA OtherSteps ==
  ASSUME SearchInv, UsbChange \/ UNCHANGED kernel_vars
  PROVE  SearchInv'
<1>1. /\ hardware' = hardware /\ content' = content /\ drivers' = drivers /\ mass' = mass /\ fs' = fs
      /\ buffer' = buffer /\ missed' = missed /\ diskIndex' = diskIndex
      /\ ide_disk' = ide_disk /\ ahci_disk' = ahci_disk /\ pc' = pc /\ n' = n
  BY DEF UsbChange, kernel_vars, machine, found, search
<1>2. pulled \subseteq pulled' /\ (UsbDisks \ pulled' \subseteq plugged')
  BY DEF UsbChange, kernel_vars, usb, SearchInv, PortsSeen
<1>3. PortsSeen'
  BY <1>1, <1>2 DEF SearchInv, PortsSeen, Signed, UsbDisks
<1>4. FoundInv' /\ FsOnBootDisk'
  BY <1>1 DEF SearchInv, FoundInv, FsOnBootDisk, Signed, FileSystemDisk
<1>5. CounterInv' /\ DriversInv' /\ IdeSeen' /\ AhciSeen' /\ UsbSeen'
  BY <1>1 DEF SearchInv, CounterInv, DriversInv, IdeSeen, AhciSeen, UsbSeen, Signed
<1> QED BY <1>1, <1>3, <1>4, <1>5 DEF SearchInv

\* The invariant of the search holds in every reachable state.
THEOREM Searched == Spec => []SearchInv
<1>1. SearchInv /\ [Next]_vars => SearchInv'
  <2> SUFFICES ASSUME SearchInv, [Next]_vars PROVE SearchInv'
    OBVIOUS
  <2>1. CASE kernel_main
    BY <2>1, EarlySteps, ProbeStep, IdeStep, AhciStep, PortStep, UsbStep, LoopEnds, EndSteps DEF kernel_main
  <2>2. CASE UsbChange \/ UNCHANGED kernel_vars
    BY <2>2, OtherSteps
  <2>3. CASE UNCHANGED vars
    BY <2>3, OtherSteps DEF vars, kernel_vars
  <2> QED BY <2>1, <2>2, <2>3 DEF Next
<1> QED BY SearchStarts, <1>1, PTL DEF Spec

\* The file system is made on the disk that was found, from its own first
\* sector, for any number of disks and ports (kernel_main.cpp, from the search
\* to the end).
THEOREM FsAlwaysOnBootDisk == Spec => []FsOnBootDisk
<1>1. SearchInv => FsOnBootDisk
  BY DEF SearchInv
<1> QED BY Searched, <1>1, PTL

\* No disk that could be read is passed over, however USB disks come and go
\* during the search.
THEOREM SearchAlwaysComplete == Spec => []SearchComplete
<1>1. SearchInv => SearchComplete
  <2> SUFFICES ASSUME SearchInv, pc = "not_found", NEW d \in Reachable, Signed(d) PROVE d \in missed
    BY DEF SearchComplete
  <2>1. diskIndex = 0 /\ pc \in Search
    BY DEF SearchInv, Search
  <2>2. CASE "ide" \in hardware /\ d \in IdeDisks
    <3>1. PICK k \in 1 .. 4 : d = <<"ide", k>>
      BY <2>2 DEF IdeDisks
    <3> QED BY <2>1, <2>2, <3>1 DEF SearchInv, IdeSeen, DriversInv
  <2>3. CASE "ahci" \in hardware /\ d \in AhciDisks
    <3>1. PICK j \in 0 .. numDisks - 1 : d = <<"ahci", j>>
      BY <2>3 DEF AhciDisks
    <3> QED BY <2>1, <2>3, <3>1 DEF SearchInv, AhciSeen, DriversInv
  <2>4. CASE "ehci" \in hardware /\ d \in mass \cup (UsbDisks \ pulled)
    <3>1. d \in UsbDisks
      BY <2>4 DEF SearchInv, PortsSeen
    <3>2. PICK i \in 0 .. numPorts - 1 : d = <<"usb", i>>
      BY <3>1 DEF UsbDisks
    <3>3. "ehci" \in drivers
      BY <2>1, <2>4 DEF SearchInv, DriversInv
    <3>4. d \in mass
      BY <2>1, <2>4, <3>2, <3>3 DEF SearchInv, PortsSeen
    <3> QED BY <2>1, <3>2, <3>3, <3>4 DEF SearchInv, UsbSeen
  <2> QED BY <2>2, <2>3, <2>4 DEF Reachable
<1> QED BY Searched, <1>1, PTL

-----------------------------------------------------------------------------
(* The memory of the drivers. *)

\* The memory of the driver of c is there exactly if the pointer to it is, and
\* so is the descriptor it keeps; the IDE descriptor until it is freed.
Lives(c) ==
  /\ c \in drivers <=> Driver[c] \in heap
  /\ c \in drivers /\ (c = "ide" => pc = "ide_init") => Descriptor[c] \in heap

Known == {"ahci_init", "ehci_init", "ready"} \cup Search

HeapInv ==
  /\ pc \in {"off", "machine", "alloc", "ide_init", "returned"} \cup Known
  /\ pc = "alloc" => n \in 1 .. 15 /\ \A i \in 1 .. 15 : i < n => Blocks[i] \in heap
  /\ pc \in {"ide_init"} \cup Known => \A c \in Controllers : Lives(c)

\* Every driver and every descriptor is one of the fifteen blocks.
LEMMA DriverBlocks ==
  /\ Len(Blocks) = 15
  /\ \A c \in Controllers : \E i, j \in 1 .. 15 : Blocks[i] = Driver[c] /\ Blocks[j] = Descriptor[c]
<1>1. Len(Blocks) = 15
  BY DEF Blocks
<1>2. Blocks[6] = Driver["ide"] /\ Blocks[14] = Descriptor["ide"]
  BY DEF Blocks, Driver, Descriptor
<1>3. Blocks[7] = Driver["ahci"] /\ Blocks[13] = Descriptor["ahci"]
  BY DEF Blocks, Driver, Descriptor
<1>4. Blocks[10] = Driver["ehci"] /\ Blocks[15] = Descriptor["ehci"]
  BY DEF Blocks, Driver, Descriptor
<1>5. {6, 14, 7, 13, 10, 15} \subseteq 1 .. 15
  OBVIOUS
<1> QED BY <1>1, <1>2, <1>3, <1>4, <1>5, Zenon DEF Controllers

LEMMA MallocHeap ==
  ASSUME HeapInv, Malloc
  PROVE  HeapInv'
<1>1. /\ n \in 1 .. 15 /\ (\A i \in 1 .. 15 : i < n => Blocks[i] \in heap)
      /\ heap' = heap \cup {Blocks[n]}
  BY DEF HeapInv, Malloc
<1>2. \A i \in 1 .. 15 : i < n + 1 => Blocks[i] \in heap'
  <2> SUFFICES ASSUME NEW i \in 1 .. 15, i < n + 1 PROVE Blocks[i] \in heap'
    OBVIOUS
  <2>1. i = n \/ i < n
    BY <1>1
  <2> QED BY <1>1, <2>1
<1>3. CASE n < 15
  <2>1. pc' = "alloc" /\ n' = n + 1
    BY <1>3, DriverBlocks DEF Malloc, Goto
  <2> QED BY <1>1, <1>2, <1>3, <2>1 DEF HeapInv, Known, Search
<1>4. CASE n = 15
  <2>1. pc' = "ide_init" /\ drivers' = Controllers
    BY <1>4, DriverBlocks DEF Malloc, Goto
  <2>2. \A i \in 1 .. 15 : Blocks[i] \in heap'
    BY <1>2, <1>4
  <2>3. ASSUME NEW c \in Controllers PROVE Lives(c)'
    BY <2>1, <2>2, DriverBlocks DEF Lives
  <2> QED BY <2>1, <2>3 DEF HeapInv
<1> QED BY <1>1, <1>3, <1>4

LEMMA ProbeHeap ==
  ASSUME HeapInv, ProbeControllers
  PROVE  HeapInv'
<1>1. PICK c \in Controllers, here \in {"ide_init", "ahci_init", "ehci_init"},
           next \in {"ahci_init", "ehci_init", "ide"} :
         Probe(c, here, next) /\ (c = "ide" => here = "ide_init")
  BY DEF ProbeControllers, Controllers
<1>2. pc = here /\ pc' = next
  BY <1>1 DEF Probe, Goto
<1>3. /\ c \in hardware => drivers' = drivers /\ heap' = heap \ (IF c = "ide" THEN {Descriptor[c]} ELSE {})
      /\ c \notin hardware => drivers' = drivers \ {c} /\ heap' = heap \ {Driver[c], Descriptor[c]}
  BY <1>1 DEF Probe
<1>4. ASSUME NEW k \in Controllers PROVE Lives(k)'
  <2>1. Lives(k)
    BY <1>2 DEF HeapInv, Known, Search
  <2>2. Driver[k] # Descriptor[c] /\ (k # c => Driver[k] # Driver[c] /\ Descriptor[k] # Descriptor[c])
        /\ Descriptor[k] # Driver[c]
    BY DEF Driver, Descriptor, Controllers
  <2> QED BY <1>2, <1>3, <2>1, <2>2 DEF Lives
<1> QED BY <1>2, <1>4 DEF HeapInv, Known, Search

\* After the controllers are known nobody allocates or frees.
LEMMA OtherHeap ==
  ASSUME HeapInv, [Next]_vars, ~Malloc, ~ProbeControllers
  PROVE  HeapInv'
<1>1. CASE Machine
  BY <1>1 DEF HeapInv, Known, Search, Machine, Goto
<1>2. CASE ~Machine
  <2>1. heap' = heap /\ drivers' = drivers
    BY DEF Next, kernel_main, vars, kernel_vars, ReadMemoryMap, Machine, OutOfMemory, UsbChange, IdeDisk,
           AhciDisk, CheckPort, UsbDisk, SearchGoesOn, BootDiskNotFound, FileSystem, found
  <2>2. (pc' = pc /\ n' = n) \/ pc' = "returned" \/ pc' = "machine" \/ (pc \in Search /\ pc' \in {"ready"} \cup Search)
    <3>1. CASE ReadMemoryMap
      BY <3>1, Zenon DEF ReadMemoryMap, Goto
    <3>2. CASE OutOfMemory \/ UsbChange \/ UNCHANGED kernel_vars \/ UNCHANGED vars
      BY <3>2 DEF OutOfMemory, UsbChange, kernel_vars, vars, Goto
    <3>3. CASE IdeDisk \/ AhciDisk \/ CheckPort \/ UsbDisk
      BY <3>3 DEF IdeDisk, AhciDisk, CheckPort, UsbDisk, Goto, Search
    <3>4. CASE SearchGoesOn \/ BootDiskNotFound \/ FileSystem
      BY <3>4 DEF SearchGoesOn, BootDiskNotFound, FileSystem, Goto, Search
    <3> QED BY <1>2, <3>1, <3>2, <3>3, <3>4 DEF Next, kernel_main
  <2>3. ASSUME pc' \in {"ide_init"} \cup Known, NEW c \in Controllers PROVE Lives(c)'
    <3>1. pc \in {"ide_init"} \cup Known /\ (pc' = "ide_init" => pc = "ide_init")
      BY <2>2, <2>3 DEF Known, Search
    <3> QED BY <2>1, <3>1 DEF HeapInv, Lives
  <2>4. pc' = "alloc" => pc = "alloc" /\ n' = n
    BY <2>2 DEF Search
  <2>5. pc' \in {"off", "machine", "alloc", "ide_init", "returned"} \cup Known
    BY <2>2 DEF HeapInv, Known
  <2> QED BY <2>1, <2>3, <2>4, <2>5 DEF HeapInv
<1> QED BY <1>1, <1>2

\* The invariant of the memory of the drivers holds in every reachable state.
THEOREM Allocated == Spec => []HeapInv
<1>1. Init => HeapInv
  BY DEF Init, HeapInv, Known, Search
<1>2. HeapInv /\ [Next]_vars => HeapInv'
  BY MallocHeap, ProbeHeap, OtherHeap
<1> QED BY <1>1, <1>2, PTL DEF Spec

\* Once the controllers are known, a driver pointer is 0 exactly if the driver
\* has been freed, and the descriptors that drivers keep are not freed
\* (kernel_main.cpp, the probes of the three controllers).
THEOREM DriversAlwaysLive == Spec => []DriversLive
<1>1. HeapInv => DriversLive
  BY DEF HeapInv, DriversLive, Lives, Known, Search
<1> QED BY <1>1, Allocated, PTL

-----------------------------------------------------------------------------
(* Types. *)

Stages == A20Stages \cup Stops \cup
            {"LoadSecondStage", "GetVesaControllerInfo", "do_e820", "load_kernel", "read1", "read2",
             "switch_video_mode", "next_mode", "found_mode", "set_mode", "EnablePaging", "BEGIN_PM", "kernel_main",
             "overwritten"}

FlagTypes  == dirty \in BOOLEAN /\ pressed \in BOOLEAN /\ kbc.off \in BOOLEAN /\ es \in BOOLEAN
ListTypes  == offered \in Lists /\ list \in Lists
MapTypes   == answered \in Seq(Entries) /\ map \in Seq(Entries)
DriveTypes == disk \in Geometries \cup {NoDrive} /\ loaded \in [{"0x9000", "0x18000"} -> Int]
VideoTypes ==
  /\ di \in 1 .. ListWords + Beyond
  /\ cx \in Mode \cup {None} /\ info \in Mode \cup {None} /\ mode \in Mode \cup {None}
  /\ screen \in Mode \cup {None}
  /\ failed \subseteq {"switch_video_mode", "next_mode", "found_mode", "set_mode"}
EntryTypes == mapped \in {0, 2, 1024} /\ kernel \in {<<>>} \cup [0 .. 239 -> Int]

DataTypes  == ListTypes /\ MapTypes /\ DriveTypes /\ VideoTypes /\ EntryTypes

LEMMA GateFrame ==
  ASSUME \/ EnableA20Gate \/ tryUsingBIOS \/ tryUsingKeyboardController \/ A20KeyboardCheck
         \/ UseFastA20Method \/ LoadSecondStage \/ Controller \/ KeyPress
  PROVE  UNCHANGED <<modes, e820, sectors, video, entry>>
BY Zenon DEF EnableA20Gate, tryUsingBIOS, tryUsingKeyboardController, A20KeyboardCheck, UseFastA20Method,
             LoadSecondStage, Controller, KeyPress

LEMMA StageTyped ==
  ASSUME stage \in Stages, LoaderNext \/ ReadMemoryMap \/ UNCHANGED loader
  PROVE  stage' \in Stages
<1>1. CASE do_e820
  <2>1. stage' = "memory_error" \/ stage' = "load_kernel" \/ stage' = "do_e820"
    BY <1>1, Zenon DEF do_e820
  <2> QED BY <2>1 DEF Stages, Stops
<1>2. CASE switch_video_mode \/ next_mode
  <2>1. stage' = stage \/ stage' = "next_mode" \/ stage' = "no_mode_found" \/ stage' = "found_mode"
    BY <1>2, Zenon DEF switch_video_mode, next_mode, SearchModes
  <2> QED BY <2>1 DEF Stages, Stops
<1>3. CASE EnableA20Gate \/ tryUsingBIOS \/ A20KeyboardCheck \/ UseFastA20Method
  BY <1>3 DEF EnableA20Gate, tryUsingBIOS, A20KeyboardCheck, UseFastA20Method, A20Check, Stages, A20Stages
<1>4. CASE EnablePaging \/ BEGIN_PM
  <2>1. stage' = "BEGIN_PM" \/ stage' = "kernel" \/ stage' = "reset"
    BY <1>4, SMT DEF EnablePaging, BEGIN_PM
  <2> QED BY <2>1 DEF Stages, Stops
<1>5. CASE FirstHalf \/ SecondHalf \/ load_kernel \/ save_available_video_modes
           \/ found_mode \/ set_mode \/ LoadSecondStage
  BY <1>5 DEF FirstHalf, SecondHalf, Read120, load_kernel, save_available_video_modes, found_mode,
              set_mode, LoadSecondStage, Stages, Stops
<1>6. CASE Controller \/ KeyPress \/ tryUsingKeyboardController \/ UNCHANGED loader
  BY <1>6 DEF Controller, KeyPress, tryUsingKeyboardController, loader, Stages, Stops
<1>7. CASE Reboot \/ ReadMemoryMap
  BY <1>7 DEF Reboot, ReadMemoryMap, LoaderForgotten, Stages, A20Stages
<1> QED BY <1>1, <1>2, <1>3, <1>4, <1>5, <1>6, <1>7 DEF LoaderNext, LoaderStep, Hang

\* The keyboard is on or off, and a key was pressed or not.
LEMMA KeyboardTyped ==
  ASSUME LoadInv, FlagTypes, LoaderNext \/ ReadMemoryMap \/ UNCHANGED loader
  PROVE  kbc'.off \in BOOLEAN /\ pressed' \in BOOLEAN
<1>1. DOMAIN kbc = {"in", "out", "off"}
  BY DEF LoadInv
<1>2. kbc.off \in BOOLEAN /\ pressed \in BOOLEAN
  BY DEF FlagTypes
<1>3. CASE kbc' = kbc /\ pressed' = pressed
  BY <1>2, <1>3
<1>4. CASE LoadSecondStage
  BY <1>2, <1>4, Zenon DEF LoadSecondStage, ControllerUnused
<1>5. CASE tryUsingKeyboardController \/ A20KeyboardCheck
  <2>1. (\E b : kbc' = [kbc EXCEPT !.in = b]) \/ kbc' = [kbc EXCEPT !.out = None]
    BY <1>5, Zenon DEF tryUsingKeyboardController, A20KeyboardCheck, WaitCommand, WaitData
  <2>2. kbc'.off = kbc.off
    BY <1>1, <2>1
  <2>3. pressed' = pressed
    BY <1>5, Zenon DEF tryUsingKeyboardController, A20KeyboardCheck
  <2> QED BY <1>2, <2>2, <2>3, Zenon
<1>6. CASE Controller
  <2>1. kbc'.off = (kbc.in = "AD") \/ kbc'.off = kbc.off
    BY <1>6, Zenon DEF Controller
  <2>2. pressed' = pressed
    BY <1>6, Zenon DEF Controller
  <2> QED BY <1>2, <2>1, <2>2, Zenon
<1>7. CASE KeyPress
  <2>1. \E key : kbc' = [kbc EXCEPT !.out = key]
    BY <1>7, Zenon DEF KeyPress
  <2>2. kbc'.off = kbc.off
    BY <1>1, <2>1
  <2>3. pressed' = TRUE
    BY <1>7, Zenon DEF KeyPress
  <2> QED BY <1>2, <2>2, <2>3, Zenon
<1>8. CASE Reboot
  <2>1. kbc' = [kbc EXCEPT !.out = None, !.off = FALSE] /\ pressed' = FALSE
    BY <1>8, Zenon DEF Reboot, ControllerUnused
  <2>2. kbc'.off = FALSE
    BY <1>1, <2>1
  <2> QED BY <2>1, <2>2, Zenon
<1>9. CASE ReadMemoryMap
  <2>1. kbc' = [in |-> None, out |-> None, off |-> FALSE] /\ pressed' = FALSE
    BY <1>9, Zenon DEF ReadMemoryMap, LoaderForgotten, ControllerUnused
  <2>2. kbc'.off = FALSE
    BY <2>1
  <2> QED BY <2>1, <2>2, Zenon
<1>10. CASE EnableA20Gate \/ tryUsingBIOS \/ UseFastA20Method
  <2>1. kbc' = kbc /\ pressed' = pressed
    BY <1>10, Zenon DEF EnableA20Gate, tryUsingBIOS, UseFastA20Method
  <2> QED BY <1>3, <2>1
<1>11. CASE UNCHANGED gate
  <2>1. kbc' = kbc /\ pressed' = pressed
    BY <1>11, Zenon DEF gate
  <2> QED BY <1>3, <2>1
<1>12. CASE save_available_video_modes \/ do_e820 \/ load_kernel \/ FirstHalf \/ SecondHalf
            \/ switch_video_mode \/ next_mode \/ found_mode \/ set_mode \/ EnablePaging
  BY <1>11, <1>12, Zenon DEF save_available_video_modes, do_e820, load_kernel, FirstHalf, SecondHalf,
       switch_video_mode, next_mode, SearchModes, found_mode, set_mode, EnablePaging
<1>13. CASE BEGIN_PM
  BY <1>11, <1>13, SMT DEF BEGIN_PM
<1>14. CASE UNCHANGED loader
  BY <1>11, <1>14, Zenon DEF loader
<1> QED BY <1>4, <1>5, <1>6, <1>7, <1>8, <1>9, <1>10, <1>12, <1>13, <1>14, Zenon DEF LoaderNext, LoaderStep, Hang

\* es and the upper half of the number of entries.
LEMMA FlagsTyped ==
  ASSUME LoadInv, FlagTypes, LoaderNext \/ ReadMemoryMap \/ UNCHANGED loader
  PROVE  FlagTypes'
<1>1. es \in BOOLEAN /\ dirty \in BOOLEAN
  BY DEF FlagTypes
<1>2. es' \in BOOLEAN /\ dirty' \in BOOLEAN
  <2>1. CASE UNCHANGED <<es, dirty>>
    BY <1>1, <2>1, Zenon
  <2>2. CASE \/ EnableA20Gate \/ tryUsingBIOS \/ tryUsingKeyboardController \/ A20KeyboardCheck
             \/ UseFastA20Method \/ LoadSecondStage \/ Controller \/ KeyPress
    BY <2>1, <2>2, GateFrame, Zenon DEF video, e820
  <2>3. CASE Reboot \/ ReadMemoryMap
    BY <1>1, <2>3, Zenon DEF Reboot, ReadMemoryMap, LoaderForgotten, SecondStageUnset
  <2>4. CASE save_available_video_modes \/ do_e820 \/ FirstHalf \/ SecondHalf
             \/ switch_video_mode \/ next_mode \/ found_mode \/ set_mode \/ EnablePaging
    BY <2>1, <2>4, Zenon DEF save_available_video_modes, do_e820, FirstHalf, SecondHalf,
         switch_video_mode, next_mode, SearchModes, found_mode, set_mode, EnablePaging, video, e820
  <2>5. CASE load_kernel
    BY <1>1, <2>5, Zenon DEF load_kernel, e820
  <2>6. CASE BEGIN_PM
    <3>1. dirty' \in BOOLEAN
      BY <2>6, SMT DEF BEGIN_PM
    <3>2. es' = es
      BY <2>6, SMT DEF BEGIN_PM, video
    <3> QED BY <1>1, <3>1, <3>2, Zenon
  <2>7. CASE UNCHANGED loader
    BY <2>1, <2>7, Zenon DEF loader, video, e820
  <2> QED BY <2>2, <2>3, <2>4, <2>5, <2>6, <2>7, Zenon DEF LoaderNext, LoaderStep, Hang
<1> QED BY <1>2, KeyboardTyped, Zenon DEF FlagTypes

LEMMA DataStill ==
  ASSUME DataTypes
  PROVE  /\ UNCHANGED modes => ListTypes'
         /\ UNCHANGED <<answered, map>> => MapTypes'
         /\ UNCHANGED sectors => DriveTypes'
         /\ UNCHANGED <<di, cx, info, mode, screen, failed>> => VideoTypes'
         /\ UNCHANGED entry => EntryTypes'
         /\ UNCHANGED e820 => UNCHANGED <<answered, map>>
         /\ UNCHANGED video => UNCHANGED <<di, cx, info, mode, screen, failed>>
<1>1. UNCHANGED modes => ListTypes'
  BY DEF DataTypes, ListTypes, modes
<1>2. UNCHANGED <<answered, map>> => MapTypes'
  BY DEF DataTypes, MapTypes
<1>3. UNCHANGED sectors => DriveTypes'
  BY DEF DataTypes, DriveTypes, sectors
<1>4. UNCHANGED <<di, cx, info, mode, screen, failed>> => VideoTypes'
  BY DEF DataTypes, VideoTypes
<1>5. UNCHANGED entry => EntryTypes'
  BY DEF DataTypes, EntryTypes, entry
<1>6. UNCHANGED e820 => UNCHANGED <<answered, map>>
  BY DEF e820
<1>7. UNCHANGED video => UNCHANGED <<di, cx, info, mode, screen, failed>>
  BY DEF video
<1> QED BY <1>1, <1>2, <1>3, <1>4, <1>5, <1>6, <1>7, Zenon

LEMMA SearchTyped ==
  ASSUME DataTypes, NEW label \in {"switch_video_mode", "next_mode"}, NEW wanted, NEW next,
         SearchModes(label, wanted, next)
  PROVE  VideoTypes'
<1>1. PICK w \in WordsAt(di) :
        IF w = End
        THEN stage' = next /\ di' = 1 /\ UNCHANGED <<cx, info, failed>>
        ELSE /\ cx' = w
             /\ ModeInfo(label)
             /\ IF info' = wanted THEN stage' = "found_mode" /\ UNCHANGED di
                                  ELSE di' = NextWord(di) /\ UNCHANGED stage
  BY Zenon DEF SearchModes
<1>2. mode' = mode /\ screen' = screen
  BY DEF SearchModes
<1>3. VideoTypes /\ ListWords \in Nat /\ Beyond \in Nat \ {0} /\ list \in Seq(Mode)
  BY LoaderAssumption DEF DataTypes, ListTypes
<1>4. CASE w = End
  <2>1. di' = 1 /\ UNCHANGED <<cx, info, failed>>
    BY <1>1, <1>4
  <2> QED BY <1>2, <1>3, <2>1 DEF VideoTypes
<1>5. CASE w # End
  <2>1. cx' = w /\ ModeInfo(label) /\ (di' = di \/ di' = NextWord(di))
    BY <1>1, <1>5, Zenon
  <2>3. w \in Mode
    <3>1. di \in Nat \ {0}
      BY <1>3 DEF VideoTypes
    <3>2. di <= Len(list) => list[di] \in Mode
      BY <1>3, <3>1
    <3>3. WordsAt(di) \subseteq Mode \cup {End}
      BY <3>2, Zenon DEF WordsAt
    <3> QED BY <1>5, <3>3
  <2>4. info' \in Mode \cup {None}
    BY <1>3, <2>1, <2>3, Zenon DEF ModeInfo, VideoTypes
  <2>5. failed' = failed \/ failed' = failed \cup {label}
    BY <2>1, Zenon DEF ModeInfo
  <2>6. di' \in 1 .. ListWords + Beyond
    BY <1>3, <2>1 DEF VideoTypes, NextWord
  <2> QED BY <1>2, <1>3, <2>1, <2>3, <2>4, <2>5, <2>6 DEF VideoTypes
<1> QED BY <1>4, <1>5

LEMMA DataTyped ==
  ASSUME LoadInv, DataTypes, LoaderNext \/ ReadMemoryMap \/ UNCHANGED loader
  PROVE  DataTypes'
<1> USE DataStill
<1>1. CASE UNCHANGED <<modes, e820, sectors, video, entry>>
  BY <1>1, Zenon DEF DataTypes
<1>2. CASE SecondStageUnset
  <2>1. <<>> \in Lists /\ ListWords \in Nat /\ Beyond \in Nat \ {0}
    BY LoaderAssumption
  <2>2. ListTypes'
    BY <1>2, <2>1 DEF SecondStageUnset, ListTypes
  <2>3. MapTypes'
    BY <1>2 DEF SecondStageUnset, MapTypes
  <2>4. DriveTypes'
    BY <1>2 DEF SecondStageUnset, DriveTypes
  <2>5. VideoTypes'
    BY <1>2, <2>1 DEF SecondStageUnset, VideoTypes
  <2>6. EntryTypes'
    BY <1>2 DEF SecondStageUnset, EntryTypes
  <2> QED BY <2>2, <2>3, <2>4, <2>5, <2>6 DEF DataTypes
<1>3. CASE save_available_video_modes
  <2>1. offered' \in Lists /\ list' \in Lists /\ answered' = <<>> /\ map' = <<>>
    BY <1>3, Zenon DEF save_available_video_modes
  <2>2. UNCHANGED <<sectors, video, entry>>
    BY <1>3, Zenon DEF save_available_video_modes
  <2> QED BY <2>1, <2>2 DEF DataTypes, ListTypes, MapTypes
<1>4. CASE do_e820
  <2>1. UNCHANGED <<modes, sectors, video, entry>>
    BY <1>4, Zenon DEF do_e820
  <2>2. answered' = answered \/ \E e \in Entries : answered' = Append(answered, e)
    BY <1>4, Zenon DEF do_e820
  <2>3. map' = map \/ \E e \in Entries : map' = Append(map, e)
    BY <1>4, Zenon DEF do_e820
  <2>4. answered' \in Seq(Entries)
    <3>1. ASSUME NEW e \in Entries PROVE Append(answered, e) \in Seq(Entries)
      BY DEF DataTypes, MapTypes
    <3> QED BY <2>2, <3>1, Zenon DEF DataTypes, MapTypes
  <2>5. map' \in Seq(Entries)
    <3>1. ASSUME NEW e \in Entries PROVE Append(map, e) \in Seq(Entries)
      BY DEF DataTypes, MapTypes
    <3> QED BY <2>3, <3>1, Zenon DEF DataTypes, MapTypes
  <2> QED BY <2>1, <2>4, <2>5, Zenon DEF DataTypes, MapTypes
<1>5. CASE load_kernel
  <2>1. UNCHANGED <<modes, e820, entry>> /\ UNCHANGED <<di, cx, info, mode, screen, failed>> /\ loaded' = loaded
    BY <1>5, Zenon DEF load_kernel
  <2>2. disk' \in Geometries \/ disk' = disk
    BY <1>5, Zenon DEF load_kernel
  <2>3. DriveTypes'
    BY <2>1, <2>2 DEF DataTypes, DriveTypes
  <2> QED BY <2>1, <2>3, Zenon DEF DataTypes
<1>6. CASE FirstHalf \/ SecondHalf
  <2>1. UNCHANGED <<modes, e820, entry>> /\ disk' = disk
    BY <1>6, Zenon DEF FirstHalf, SecondHalf
  <2>2. DriveTypes'
    <3>1. disk \in Geometries
      BY <1>6 DEF FirstHalf, SecondHalf, LoadInv, HalfRead
    <3>2. Lba(getchs(123)) = 123 /\ Lba([sect |-> 4, cyl |-> 0, head |-> 0]) = 3
      <4>1. Lba([sect |-> 4, cyl |-> 0, head |-> 0]) = (0 * disk.heads + 0) * disk.spt + 4 - 1
        BY DEF Lba
      <4> QED BY <3>1, <4>1, GeometryOk, ChsInverse
    <3>3. \/ loaded' = loaded
          \/ loaded' = [loaded EXCEPT !["0x9000"] = 3]
          \/ loaded' = [loaded EXCEPT !["0x18000"] = 123]
      BY <1>6, <3>2 DEF FirstHalf, SecondHalf, Read120
    <3> QED BY <2>1, <3>3 DEF DataTypes, DriveTypes
  <2>3. VideoTypes'
    <3>1. CASE FirstHalf
      BY <3>1, Zenon DEF FirstHalf
    <3>2. CASE SecondHalf
      <4>1. di' = 1 /\ failed' = {} /\ UNCHANGED <<cx, info, mode, screen>>
        BY <3>2, Zenon DEF SecondHalf
      <4> QED BY <4>1, LoaderAssumption DEF DataTypes, VideoTypes
    <3> QED BY <1>6, <3>1, <3>2
  <2> QED BY <2>1, <2>2, <2>3, Zenon DEF DataTypes
<1>7. CASE switch_video_mode \/ next_mode
  <2>1. UNCHANGED <<modes, e820, sectors, entry>>
    BY <1>7, Zenon DEF switch_video_mode, next_mode, SearchModes
  <2>2. VideoTypes'
    BY <1>7, SearchTyped, Zenon DEF switch_video_mode, next_mode
  <2> QED BY <2>1, <2>2, Zenon DEF DataTypes
<1>8. CASE found_mode
  <2>1. UNCHANGED <<modes, e820, sectors, entry>>
    BY <1>8, Zenon DEF found_mode
  <2>2. mode' = cx /\ cx' = cx /\ di' = di /\ screen' = screen /\ (info' = cx \/ info' = info)
        /\ (failed' = failed \/ failed' = failed \cup {"found_mode"})
    BY <1>8, Zenon DEF found_mode, ModeInfo
  <2>3. VideoTypes'
    BY <2>2 DEF DataTypes, VideoTypes
  <2> QED BY <2>1, <2>3, Zenon DEF DataTypes
<1>9. CASE EnablePaging
  <2>1. UNCHANGED <<modes, e820, sectors, video>> /\ kernel' = kernel /\ mapped' = 2
    BY <1>9, Zenon DEF EnablePaging
  <2>2. EntryTypes'
    BY <2>1 DEF DataTypes, EntryTypes
  <2> QED BY <2>1, <2>2, Zenon DEF DataTypes
<1>10. CASE BEGIN_PM
  <2>1. UNCHANGED <<modes, sectors, video>> /\ UNCHANGED <<answered, map>>
    BY <1>10, SMT DEF BEGIN_PM
  <2>2. UNCHANGED entry \/ (mapped' = 1024 /\ kernel' \in [0 .. 239 -> Int])
    <3>1. loaded["0x9000"] \in Int /\ loaded["0x18000"] \in Int
      BY DEF DataTypes, DriveTypes
    <3> DEFINE copy == [k \in 0 .. 239 |->
                 IF ~a20 THEN -1
                 ELSE IF k < 120 THEN loaded["0x9000"] + k ELSE loaded["0x18000"] + k - 120]
    <3>2. UNCHANGED entry \/ (mapped' = 1024 /\ kernel' = copy)
      BY <1>10, SMT DEF BEGIN_PM
    <3>3. \A k \in 0 .. 239 : (IF k < 120 THEN loaded["0x9000"] + k ELSE loaded["0x18000"] + k - 120) \in Int
      BY <3>1
    <3>4. -1 \in Int
      OBVIOUS
    <3>5. copy \in [0 .. 239 -> Int]
      BY <3>3, <3>4, Zenon
    <3> HIDE DEF copy
    <3> QED BY <3>2, <3>5
  <2>3. EntryTypes'
    BY <2>2 DEF DataTypes, EntryTypes
  <2> QED BY <2>1, <2>3, Zenon DEF DataTypes
<1>11. CASE UNCHANGED loader
  BY <1>1, <1>11, Zenon DEF loader
<1>12. CASE Reboot \/ ReadMemoryMap
  BY <1>2, <1>12, Zenon DEF Reboot, ReadMemoryMap, LoaderForgotten
<1>13. CASE set_mode
  <2>1. UNCHANGED <<modes, e820, sectors, entry>>
    BY <1>13, Zenon DEF set_mode
  <2>2. mode' = mode /\ cx' = cx /\ di' = di /\ info' = info /\ (screen' = cx \/ screen' = screen)
        /\ (failed' = failed \/ failed' = failed \cup {"set_mode"})
    BY <1>13, Zenon DEF set_mode
  <2>3. VideoTypes'
    BY <2>2 DEF DataTypes, VideoTypes
  <2> QED BY <2>1, <2>3, Zenon DEF DataTypes
<1> QED BY <1>1, <1>3, <1>4, <1>5, <1>6, <1>7, <1>8, <1>9, <1>10, <1>11, <1>12, <1>13, GateFrame, Zenon
        DEF LoaderNext, LoaderStep, Hang

\* The loader's memory has its types in every reachable state.
THEOREM LoaderTyped == Spec => []LoaderTypeOK
<1> DEFINE Types == stage \in Stages /\ FlagTypes /\ DataTypes
<1>1. Init => Types
  <2> SUFFICES ASSUME LoaderInit PROVE Types
    BY DEF Init
  <2>1. stage \in Stages
    BY DEF LoaderInit, Stages, A20Stages
  <2>2. FlagTypes
    <3>1. kbc.off = FALSE
      BY DEF LoaderInit
    <3> QED BY <3>1, Zenon DEF LoaderInit, FlagTypes
  <2>3. DataTypes
    <3>1. <<>> \in Lists /\ ListWords \in Nat /\ Beyond \in Nat \ {0}
      BY LoaderAssumption
    <3>2. ListTypes /\ MapTypes /\ DriveTypes
      BY <3>1 DEF LoaderInit, ListTypes, MapTypes, DriveTypes
    <3>3. VideoTypes /\ EntryTypes
      BY <3>1 DEF LoaderInit, VideoTypes, EntryTypes
    <3> QED BY <3>2, <3>3 DEF DataTypes
  <2> QED BY <2>1, <2>2, <2>3
<1>2. Types /\ LoadInv /\ [Next]_vars => Types'
  BY StageTyped, FlagsTyped, DataTyped, LoaderOrKernel, Zenon
<1>3. Types /\ LoadInv /\ KeyInv => LoaderTypeOK
  <2> SUFFICES ASSUME Types, LoadInv, KeyInv PROVE LoaderTypeOK
    OBVIOUS
  <2>1. memory \in [Cells -> 0 .. 255]
    <3>1. memory = Memory0
      BY DEF LoadInv, A20Sound
    <3> QED BY <3>1 DEF Memory0, Cells
  <2>2. a20 \in BOOLEAN
    BY DEF LoadInv
  <2> QED BY <2>1, <2>2, ZenonT(30) DEF LoaderTypeOK, Stages, FlagTypes, DataTypes, ListTypes, MapTypes, DriveTypes,
             VideoTypes, EntryTypes, KeyInv, TalkInv, KeyOK
<1> QED BY <1>1, <1>2, <1>3, Loaded, Conversed, PTL DEF Spec

MachineTypes == /\ pc \notin {"off", "machine", "returned"} => content \in Contents
                /\ hardware \subseteq Controllers /\ n \in Nat
UsbTypes     == plugged \subseteq UsbDisks /\ mass \subseteq UsbDisks /\ pulled \subseteq UsbDisks
HeapTypes    == heap \subseteq {Blocks[i] : i \in DOMAIN Blocks} /\ drivers \subseteq Controllers
ReadTypes    == /\ missed \subseteq Disks /\ buffer \in Disks \cup {NoDisk}
                /\ diskIndex \in 0 .. UsbBase + numPorts - 1
DiskTypes    == ide_disk \in IdeDisks \cup {NoDisk} /\ ahci_disk \in AhciDisks \cup {NoDisk}
FsTypes      == fs \in [disk : Disks \cup {NoDisk}, sector : Disks \cup {NoDisk}]
KernelTypes  == MachineTypes /\ UsbTypes /\ HeapTypes /\ ReadTypes /\ DiskTypes /\ FsTypes

LEMMA ReadTyped ==
  ASSUME ReadTypes, NEW d \in Disks, NEW index \in 0 .. UsbBase + numPorts - 1, Read(d), Compare(index)
  PROVE  ReadTypes'
<1>1. missed' \subseteq Disks /\ buffer' \in Disks \cup {NoDisk}
  BY DEF Read, ReadTypes
<1>2. diskIndex' = index \/ diskIndex' = 0
  BY DEF Compare
<1>3. diskIndex' \in 0 .. UsbBase + numPorts - 1
  BY <1>2, DiskAssumption
<1> QED BY <1>1, <1>3 DEF ReadTypes

LEMMA KernelStill ==
  ASSUME KernelTypes
  PROVE  /\ UNCHANGED <<machine, pc, n>> => MachineTypes'
         /\ UNCHANGED usb /\ mass' = mass => UsbTypes'
         /\ heap' = heap /\ drivers' = drivers => HeapTypes'
         /\ UNCHANGED <<buffer, missed, diskIndex>> => ReadTypes'
         /\ UNCHANGED <<ide_disk, ahci_disk>> => DiskTypes'
         /\ fs' = fs => FsTypes'
BY DEF KernelTypes, MachineTypes, UsbTypes, HeapTypes, ReadTypes, DiskTypes, FsTypes, machine, usb

\* The steps that leave the machine, the heap and the disks alone.
LEMMA PlaceTyped ==
  ASSUME KernelTypes, UNCHANGED <<machine, usb, found>>, n' \in Nat,
         pc \in {"off", "machine", "returned"} => pc' \in {"off", "machine", "returned"}
  PROVE  KernelTypes'
<1>1. MachineTypes'
  BY DEF KernelTypes, MachineTypes, machine
<1> QED BY <1>1, KernelStill DEF KernelTypes, found, search

LEMMA KernelTyped ==
  ASSUME KernelTypes, SearchInv, HeapInv, [Next]_vars
  PROVE  KernelTypes'
<1> USE KernelStill
<1>1. n \in Nat /\ (pc \notin {"off", "machine", "returned"} => content \in Contents)
  BY DEF KernelTypes, MachineTypes
<1>2. numDisks \in Nat /\ numPorts \in Nat /\ UsbBase \in Nat /\ 5 + numDisks <= UsbBase
  BY DiskAssumption
<1>3. CASE ReadMemoryMap
  <2>1. pc = "off" /\ (pc' = "machine" \/ pc' = "returned") /\ n' = 0 /\ UNCHANGED <<machine, usb, found>>
    BY <1>3, Zenon DEF ReadMemoryMap, Goto
  <2> QED BY <2>1, PlaceTyped
<1>4. CASE Machine
  <2>1. content' \in Contents /\ hardware' \subseteq Controllers /\ n' = 1 /\ UNCHANGED <<usb, found>>
    BY <1>4 DEF Machine, Goto
  <2>2. MachineTypes'
    BY <2>1 DEF MachineTypes
  <2> QED BY <2>1, <2>2 DEF KernelTypes, found, search
<1>5. CASE OutOfMemory \/ SearchGoesOn \/ BootDiskNotFound
  <2>1. pc \notin {"off", "machine", "returned"} /\ n' = 0 /\ UNCHANGED <<machine, usb, found>>
    BY <1>5 DEF OutOfMemory, SearchGoesOn, BootDiskNotFound, Goto
  <2> QED BY <2>1, PlaceTyped
<1>6. CASE Malloc
  <2>1. pc = "alloc" /\ UNCHANGED <<machine, usb, search, mass, fs>> /\ (n' = n + 1 \/ n' = 0)
        /\ heap' = heap \cup {Blocks[n]} /\ (drivers' = drivers \/ drivers' = Controllers)
    BY <1>6 DEF Malloc, Goto
  <2>2. n \in DOMAIN Blocks
    BY <2>1 DEF HeapInv, Blocks
  <2>3. HeapTypes'
    BY <2>1, <2>2 DEF KernelTypes, HeapTypes
  <2>4. MachineTypes'
    BY <1>1, <2>1 DEF KernelTypes, MachineTypes, machine
  <2> QED BY <2>1, <2>3, <2>4 DEF KernelTypes, search
<1>7. CASE ProbeControllers
  <2>1. PICK c, here, next : Probe(c, here, next) /\ here \notin {"off", "machine", "returned"}
    BY <1>7 DEF ProbeControllers
  <2>2. pc = here /\ n' = 0 /\ UNCHANGED <<machine, usb, search, mass, fs>>
        /\ heap' \subseteq heap /\ drivers' \subseteq drivers
    BY <2>1 DEF Probe, Goto
  <2>3. HeapTypes' /\ MachineTypes'
    BY <1>1, <2>1, <2>2 DEF KernelTypes, HeapTypes, MachineTypes, machine
  <2> QED BY <2>2, <2>3 DEF KernelTypes, search
<1>8. CASE IdeDisk
  <2>1. pc = "ide" /\ n \in 0 .. 3 /\ (n' = n + 1 \/ n' = 0)
        /\ UNCHANGED <<machine, usb, heap, drivers, ahci_disk, mass, fs>>
    BY <1>8 DEF IdeDisk, Goto, SearchInv, CounterInv
  <2>2. <<"ide", n + 1>> \in IdeDisks /\ n + 1 \in 0 .. UsbBase + numPorts - 1
    BY <1>2, <2>1 DEF IdeDisks
  <2>3. \/ Read(<<"ide", n + 1>>) /\ Compare(n + 1) /\ ide_disk' = <<"ide", n + 1>>
        \/ UNCHANGED <<buffer, missed, diskIndex, ide_disk>>
    BY <1>8 DEF IdeDisk
  <2>4. ReadTypes'
    BY <2>2, <2>3, ReadTyped DEF KernelTypes, Disks
  <2>5. DiskTypes'
    BY <2>1, <2>2, <2>3 DEF KernelTypes, DiskTypes
  <2>6. MachineTypes'
    BY <1>1, <2>1 DEF KernelTypes, MachineTypes, machine
  <2> QED BY <2>1, <2>4, <2>5, <2>6 DEF KernelTypes
<1>9. CASE AhciDisk
  <2>1. pc = "ahci" /\ n \in 0 .. numDisks - 1 /\ n' = n + 1
        /\ UNCHANGED <<machine, usb, heap, drivers, ide_disk, mass, fs>>
        /\ ahci_disk' = <<"ahci", n>> /\ Read(<<"ahci", n>>) /\ Compare(5 + n)
    BY <1>2, <1>9 DEF AhciDisk, Goto, SearchInv, CounterInv
  <2>2. <<"ahci", n>> \in AhciDisks /\ 5 + n \in 0 .. UsbBase + numPorts - 1
    BY <1>2, <2>1 DEF AhciDisks
  <2>3. ReadTypes'
    BY <2>1, <2>2, ReadTyped DEF KernelTypes, Disks
  <2>4. DiskTypes' /\ MachineTypes'
    BY <1>1, <2>1, <2>2 DEF KernelTypes, DiskTypes, MachineTypes, machine
  <2> QED BY <2>1, <2>3, <2>4 DEF KernelTypes
<1>10. CASE CheckPort
  <2>1. pc = "ports" /\ n \in 0 .. numPorts - 1 /\ n' = n + 1
        /\ UNCHANGED <<machine, usb, heap, drivers, search, fs>> /\ mass' \subseteq mass \cup {<<"usb", n>>}
    BY <1>2, <1>10 DEF CheckPort, Goto, SearchInv, CounterInv
  <2>2. UsbTypes'
    BY <2>1 DEF KernelTypes, UsbTypes, UsbDisks, usb
  <2>3. MachineTypes'
    BY <1>1, <2>1 DEF KernelTypes, MachineTypes, machine
  <2> QED BY <2>1, <2>2, <2>3 DEF KernelTypes, search
<1>11. CASE UsbDisk
  <2>1. pc = "usb" /\ n \in 0 .. numPorts - 1 /\ n' = n + 1
        /\ UNCHANGED <<machine, usb, heap, drivers, ide_disk, ahci_disk, mass, fs>>
    BY <1>2, <1>11 DEF UsbDisk, Goto, SearchInv, CounterInv
  <2>2. <<"usb", n>> \in UsbDisks /\ UsbBase + n \in 0 .. UsbBase + numPorts - 1
    BY <1>2, <2>1 DEF UsbDisks
  <2>3. (Read(<<"usb", n>>) /\ Compare(UsbBase + n)) \/ UNCHANGED <<buffer, missed, diskIndex>>
    BY <1>11 DEF UsbDisk
  <2>4. ReadTypes'
    BY <2>2, <2>3, ReadTyped DEF KernelTypes, Disks
  <2>5. MachineTypes'
    BY <1>1, <2>1 DEF KernelTypes, MachineTypes, machine
  <2> QED BY <2>1, <2>4, <2>5 DEF KernelTypes
<1>12. CASE FileSystem
  <2>1. pc = "found" /\ n' = 0 /\ diskIndex # 0 /\ UNCHANGED <<machine, usb, heap, drivers, search, mass>>
        /\ (fs' = fs \/ fs' = [disk |-> FileSystemDisk, sector |-> buffer])
    BY <1>12 DEF FileSystem, Goto
  <2>2. FileSystemDisk = buffer
    BY <2>1 DEF SearchInv, FoundInv
  <2>3. FsTypes'
    BY <2>1, <2>2 DEF KernelTypes, ReadTypes, FsTypes
  <2>4. MachineTypes'
    BY <1>1, <2>1 DEF KernelTypes, MachineTypes, machine
  <2> QED BY <2>1, <2>3, <2>4 DEF KernelTypes, search
<1>13. CASE UsbChange
  <2>1. UNCHANGED <<machine, pc, n, found>> /\ plugged' \subseteq UsbDisks /\ pulled' \subseteq UsbDisks
    BY <1>13 DEF UsbChange, KernelTypes, UsbTypes
  <2>2. UsbTypes'
    BY <2>1 DEF KernelTypes, UsbTypes, found
  <2> QED BY <2>1, <2>2 DEF KernelTypes, found, search
<1>14. CASE UNCHANGED kernel_vars
  BY <1>14 DEF kernel_vars, KernelTypes, found, search
<1> QED BY <1>3, <1>4, <1>5, <1>6, <1>7, <1>8, <1>9, <1>10, <1>11, <1>12, <1>13, <1>14
        DEF Next, kernel_main, vars, kernel_vars

\* The variables of the loader and of kernel_main have their types in every
\* reachable state, the number of the disk among them.
THEOREM Typed == Spec => []TypeOK
<1>1. Init => KernelTypes
  <2> SUFFICES ASSUME Init PROVE KernelTypes
    OBVIOUS
  <2>1. MachineTypes /\ UsbTypes /\ HeapTypes
    BY DEF Init, MachineTypes, UsbTypes, HeapTypes
  <2>2. ReadTypes
    BY DiskAssumption DEF Init, ReadTypes
  <2>3. DiskTypes /\ FsTypes
    BY DEF Init, DiskTypes, FsTypes, NoFs
  <2> QED BY <2>1, <2>2, <2>3 DEF KernelTypes
<1>2. KernelTypes /\ SearchInv /\ HeapInv /\ [Next]_vars => KernelTypes'
  BY KernelTyped
<1>3. LoaderTypeOK /\ KernelTypes /\ HeapInv => TypeOK
  <2> SUFFICES ASSUME LoaderTypeOK, KernelTypes, HeapInv PROVE TypeOK
    OBVIOUS
  <2>1. pc \in {"off", "machine", "alloc", "ide_init", "ahci_init", "ehci_init", "ide", "ahci", "ports", "usb",
               "found", "not_found", "returned", "ready"}
    BY DEF HeapInv, Known, Search
  <2> QED BY <2>1, Zenon DEF TypeOK, KernelTypes, MachineTypes, UsbTypes, HeapTypes, ReadTypes, DiskTypes, FsTypes
<1> QED BY <1>1, <1>2, <1>3, LoaderTyped, Searched, Allocated, PTL DEF Spec

=============================================================================
