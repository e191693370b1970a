------------------------------ MODULE BootDisk ------------------------------
(***************************************************************************)
(* kernel_main of kernel/src/kernel_main.cpp, which the boot loader calls, *)
(* up to its last print: memory, the three storage controllers, the search *)
(* for the disk the kernel was loaded from (the one whose first sector has *)
(* os_signature), and the file system on it.  A read may fail, which       *)
(* leaves buffer as it was and is not looked at; USB disks come and go     *)
(* while the search is on.                                                 *)
(*                                                                         *)
(* The drivers are external.  A port and the mass storage device found on  *)
(* it have the same number.  The memory of buffer does not hold the        *)
(* signature by chance before the first read.                              *)
(* Left out: the desktop and its background image; portCanChange, a field  *)
(* of the EHCI driver that is set without a look whether there is one.     *)
(***************************************************************************)
EXTENDS BootLoader, Functions

CONSTANTS
  numDisks,     \* disks of the AHCI controller
  numPorts,     \* ports of the EHCI controller
  UsbBase,      \* 0x81, the diskIndex of the first USB disk
  Contents,     \* the possible contents of the disks
  MinRam        \* the 50 MB of memory kernel_main asks for

IdeDisks  == {<<"ide", k>> : k \in 1 .. 4}
AhciDisks == {<<"ahci", j>> : j \in 0 .. numDisks - 1}
UsbDisks  == {<<"usb", i>> : i \in 0 .. numPorts - 1}
Disks     == IdeDisks \cup AhciDisks \cup UsbDisks
NoDisk    == <<"none", 0>>

\* "boot": the signature and an NTFS partition; "foreign": the signature only.
Content == {"empty", "blank", "foreign", "boot"}

ASSUME DiskAssumption ==
  /\ numDisks \in Nat /\ numPorts \in Nat /\ UsbBase \in Nat
  /\ 5 + numDisks <= UsbBase
  /\ Contents \subseteq [Disks -> Content] /\ Contents # {}
  /\ MinRam \in Nat

\* The blocks kernel_main asks for, in this order, leaving if there is none.
Blocks == <<"kernel_interrupts", "kernel_drivers", "taskManager", "pci", "keyboard",
            "ide_driver", "ahci_driver", "usb_driver", "usbMassStorages", "ehci_driver",
            "fs", "myDesktop", "ahci_descriptor", "ide_descriptor", "ehci_descriptor">>

Controllers == {"ide", "ahci", "ehci"}
Driver      == [ide |-> "ide_driver", ahci |-> "ahci_driver", ehci |-> "ehci_driver"]
Descriptor  == [ide |-> "ide_descriptor", ahci |-> "ahci_descriptor", ehci |-> "ehci_descriptor"]

VARIABLES
  content,      \* what is on each disk
  hardware,     \* the controllers the machine has
  plugged,      \* the USB disks plugged in
  pc, n,        \* kernel_main: where it is, the counter of its loop
  heap,         \* the blocks allocated
  drivers,      \* the controllers whose driver pointer is not 0
  buffer,       \* the disk whose first sector buffer holds
  ide_disk, ahci_disk, diskIndex,
  mass,         \* MassStorageDevices: the USB disks found
  fs,           \* the disk and the sector the file system was made from
  missed,       \* history: the disks whose read failed
  pulled        \* history: the USB disks that have been pulled out

machine == <<content, hardware>>
usb     == <<plugged, pulled>>
search  == <<buffer, ide_disk, ahci_disk, diskIndex, missed>>
found   == <<heap, drivers, search, mass, fs>>
vars    == <<loader, machine, usb, pc, n, found>>

Goto(p, k) == pc' = p /\ n' = k

-----------------------------------------------------------------------------
(* Memory and controllers. *)

\* Mutant: the type is not looked at.
amountofRAMAny(entries) == FoldFunction(+, 0, [i \in DOMAIN entries |-> entries[i].len])

\* The lengths of the entries of type 1.
amountofRAM(entries) == FoldFunction(+, 0, [i \in DOMAIN entries |->
                                              IF entries[i].type = 1 THEN entries[i].len ELSE 0])

\* The number of entries is read as 32 bits, of which the loader wrote 16: with
\* a dirty upper half the sum is that of any memory.  The loader's memory is not
\* read again, and the model forgets it.
ReadMemoryMap ==
  /\ pc = "off" /\ stage = "kernel"
  /\ \E enough \in BOOLEAN :
       /\ ~dirty => enough = (amountofRAM(map) >= MinRam)
       /\ IF enough THEN Goto("machine", 0) ELSE Goto("returned", 0)
  /\ LoaderForgotten
  /\ UNCHANGED <<machine, usb, found>>

\* From here on the controllers and the disks matter, which may be any.
Machine ==
  /\ pc = "machine"
  /\ content' \in Contents /\ hardware' \in SUBSET Controllers
  /\ Goto("alloc", 1)
  /\ UNCHANGED <<loader, usb, found>>

\* There is no block: kernel_main returns.
OutOfMemory ==
  /\ pc = "alloc"
  /\ Goto("returned", 0)
  /\ UNCHANGED <<loader, machine, usb, found>>

Malloc ==
  /\ pc = "alloc"
  /\ heap' = heap \cup {Blocks[n]}
  /\ IF n < Len(Blocks) THEN Goto("alloc", n + 1) ELSE Goto("ide_init", 0)
  /\ drivers' = IF n < Len(Blocks) THEN drivers ELSE Controllers
  /\ UNCHANGED <<loader, machine, usb, search, mass, fs>>

\* Mutant: the pointer to a freed driver is kept.
ProbeDangling(c, here, next) ==
  /\ pc = here
  /\ heap' = IF c \in hardware
             THEN heap \ (IF c = "ide" THEN {Descriptor[c]} ELSE {})
             ELSE heap \ {Driver[c], Descriptor[c]}
  /\ Goto(next, 0)
  /\ UNCHANGED <<loader, machine, drivers, usb, search, mass, fs>>

\* pci->GetDescriptor.  The IDE driver does not keep its descriptor.
Probe(c, here, next) ==
  /\ pc = here
  /\ IF c \in hardware
     THEN /\ heap' = heap \ (IF c = "ide" THEN {Descriptor[c]} ELSE {})
          /\ UNCHANGED drivers
     ELSE /\ heap' = heap \ {Driver[c], Descriptor[c]}
          /\ drivers' = drivers \ {c}
  /\ Goto(next, 0)
  /\ UNCHANGED <<loader, machine, usb, search, mass, fs>>

ProbeControllers ==
  \/ Probe("ide", "ide_init", "ahci_init")
  \/ Probe("ahci", "ahci_init", "ehci_init")
  \/ Probe("ehci", "ehci_init", "ide")

-----------------------------------------------------------------------------
(* The search. *)

Present(d) == content[d] # "empty" /\ (d \in UsbDisks => d \in plugged)
Signed(d)  == d # NoDisk /\ content[d] \in {"foreign", "boot"}

\* Read(0, 1, buffer), of which nobody looks at the status.
Read(d) ==
  \/ Present(d) /\ buffer' = d /\ UNCHANGED missed
  \/ missed' = missed \cup {d} /\ UNCHANGED buffer

\* Mutant: -1 stands for no disk.
CompareMinus(index) == diskIndex' = IF Signed(buffer') THEN index ELSE -1

\* The disk is taken if what is in buffer has the signature.
Compare(index) == diskIndex' = IF Signed(buffer') THEN index ELSE 0

\* Master and slave of two channels, until one is found.
IdeDisk ==
  /\ pc = "ide" /\ "ide" \in drivers
  /\ LET d == <<"ide", n + 1>> IN
       IF diskIndex = 0 /\ content[d] # "empty"
       THEN Read(d) /\ Compare(n + 1) /\ ide_disk' = d
       ELSE UNCHANGED <<buffer, missed, diskIndex, ide_disk>>
  /\ IF n < 3 THEN Goto("ide", n + 1) ELSE Goto("ahci", 0)
  /\ UNCHANGED <<loader, machine, usb, heap, drivers, ahci_disk, mass, fs>>

AhciDisk ==
  /\ pc = "ahci" /\ "ahci" \in drivers /\ diskIndex = 0 /\ n < numDisks
  /\ ahci_disk' = <<"ahci", n>>
  /\ Read(ahci_disk') /\ Compare(5 + n)
  /\ Goto("ahci", n + 1)
  /\ UNCHANGED <<loader, machine, usb, heap, drivers, ide_disk, mass, fs>>

\* CheckPort, after two seconds, of the ports with a device.
CheckPort ==
  /\ pc = "ports" /\ n < numPorts
  /\ mass' = IF Present(<<"usb", n>>) THEN mass \cup {<<"usb", n>>} ELSE mass
  /\ Goto("ports", n + 1)
  /\ UNCHANGED <<loader, machine, usb, heap, drivers, search, fs>>

UsbDisk ==
  /\ pc = "usb" /\ diskIndex = 0 /\ n < numPorts
  /\ LET d == <<"usb", n>> IN
       IF d \in mass THEN Read(d) /\ Compare(UsbBase + n)
                     ELSE UNCHANGED <<buffer, missed, diskIndex>>
  /\ Goto("usb", n + 1)
  /\ UNCHANGED <<loader, machine, usb, heap, drivers, ide_disk, ahci_disk, mass, fs>>

\* Mutant: the ports are looked at only if there is no AHCI controller.
SearchGoesOnShort ==
  /\ \/ pc = "ide" /\ "ide" \notin drivers /\ Goto("ahci", 0)
     \/ pc = "ahci" /\ ("ahci" \notin drivers \/ diskIndex # 0 \/ n = numDisks)
        /\ IF diskIndex = 0 /\ "ehci" \in drivers /\ "ahci" \notin drivers
           THEN Goto("ports", 0) ELSE Goto("found", 0)
     \/ pc = "ports" /\ n = numPorts /\ Goto("usb", 0)
     \/ pc = "usb" /\ (diskIndex # 0 \/ n = numPorts) /\ Goto("found", 0)
  /\ UNCHANGED <<loader, machine, usb, found>>

\* The loops that are skipped or have ended.
SearchGoesOn ==
  /\ \/ pc = "ide" /\ "ide" \notin drivers /\ Goto("ahci", 0)
     \/ pc = "ahci" /\ ("ahci" \notin drivers \/ diskIndex # 0 \/ n = numDisks)
        /\ IF diskIndex = 0 /\ "ehci" \in drivers THEN Goto("ports", 0) ELSE Goto("found", 0)
     \/ pc = "ports" /\ n = numPorts /\ Goto("usb", 0)
     \/ pc = "usb" /\ (diskIndex # 0 \/ n = numPorts) /\ Goto("found", 0)
  /\ UNCHANGED <<loader, machine, usb, found>>

-----------------------------------------------------------------------------
(* The file system. *)

BootDiskNotFound ==
  /\ pc = "found" /\ diskIndex = 0
  /\ Goto("not_found", 0)
  /\ UNCHANGED <<loader, machine, usb, found>>

\* Mutant: the first AHCI disk is taken for an IDE disk.
FileSystemDiskIde ==
  IF diskIndex >= UsbBase THEN <<"usb", diskIndex - UsbBase>>
  ELSE IF diskIndex > 5 THEN ahci_disk ELSE ide_disk

\* The disk that diskIndex stands for.
FileSystemDisk ==
  IF diskIndex >= UsbBase THEN <<"usb", diskIndex - UsbBase>>
  ELSE IF diskIndex > 4 THEN ahci_disk ELSE ide_disk

FileSystem ==
  /\ pc = "found" /\ diskIndex # 0
  /\ IF content[buffer] = "boot"
     THEN fs' = [disk |-> FileSystemDisk, sector |-> buffer] /\ Goto("ready", 0)
     ELSE Goto("returned", 0) /\ UNCHANGED fs
  /\ UNCHANGED <<loader, machine, usb, heap, drivers, search, mass>>

\* A USB disk is plugged in or pulled out.
UsbChange ==
  /\ pc \notin {"off", "machine"}
  /\ \E d \in UsbDisks :
       \/ d \notin plugged /\ plugged' = plugged \cup {d} /\ UNCHANGED pulled
       \/ d \in plugged /\ plugged' = plugged \ {d} /\ pulled' = pulled \cup {d}
  /\ UNCHANGED <<loader, machine, pc, n, found>>

-----------------------------------------------------------------------------
NoFs == [disk |-> NoDisk, sector |-> NoDisk]

Init ==
  /\ LoaderInit
  /\ content = [d \in Disks |-> "empty"] /\ hardware = {}
  /\ plugged = UsbDisks
  /\ pc = "off" /\ n = 0
  /\ heap = {}
  /\ drivers = {}
  /\ buffer = NoDisk /\ ide_disk = NoDisk /\ ahci_disk = NoDisk
  /\ diskIndex = 0
  /\ mass = {}
  /\ fs = NoFs
  /\ missed = {} /\ pulled = {}

kernel_main ==
  \/ ReadMemoryMap \/ Machine \/ OutOfMemory \/ Malloc \/ ProbeControllers
  \/ IdeDisk \/ AhciDisk \/ CheckPort \/ UsbDisk \/ SearchGoesOn
  \/ BootDiskNotFound \/ FileSystem

kernel_vars == <<machine, usb, pc, n, found>>

Next == kernel_main \/ UsbChange \/ (LoaderNext /\ UNCHANGED kernel_vars)

Spec == Init /\ [][Next]_vars

\* The loader and the kernel run, and the keyboard controller takes its bytes.
FairSpec == /\ Spec
            /\ WF_vars(LoaderStep /\ UNCHANGED kernel_vars)
            /\ WF_vars(Controller /\ UNCHANGED kernel_vars)
            /\ WF_vars(kernel_main)

-----------------------------------------------------------------------------
(* Properties. *)

TypeOK ==
  /\ LoaderTypeOK
  /\ pc \notin {"off", "machine", "returned"} => content \in Contents
  /\ hardware \subseteq Controllers
  /\ plugged \subseteq UsbDisks /\ mass \subseteq UsbDisks /\ pulled \subseteq UsbDisks /\ missed \subseteq Disks
  /\ pc \in {"off", "machine", "alloc", "ide_init", "ahci_init", "ehci_init", "ide", "ahci", "ports", "usb",
             "found", "not_found", "returned", "ready"}
  /\ n \in Nat
  /\ heap \subseteq {Blocks[i] : i \in DOMAIN Blocks}
  /\ drivers \subseteq Controllers
  /\ buffer \in Disks \cup {NoDisk}
  /\ ide_disk \in IdeDisks \cup {NoDisk}
  /\ ahci_disk \in AhciDisks \cup {NoDisk}
  /\ diskIndex \in 0 .. UsbBase + numPorts - 1
  /\ fs \in [disk : Disks \cup {NoDisk}, sector : Disks \cup {NoDisk}]

\* The kernel goes on exactly if the BIOS reported enough usable memory in all,
\* although it adds up the loader's copy; unless the upper half of the count,
\* which nobody writes, was not 0.
Reported == SelectSeq(answered, LAMBDA e : e.cx # 0 /\ (e.cx = 24 => e.valid) /\ e.type = 1)
RamCounted ==
  [][pc = "off" /\ pc' # "off" /\ ~dirty =>
       (pc' = "machine" <=> FoldFunction(+, 0, [i \in DOMAIN Reported |-> Reported[i].len]) >= MinRam)]_vars

\* On a machine with a keyboard controller a boot always comes to an end: a
\* message or a reset of the loader, a return of the kernel, or a kernel that has
\* looked at every disk.  Two things can go on for ever, and nothing else: the
\* copy of a list that is not at the address read from the BIOS, which runs over
\* the loader; and a search for a mode with es lost to a floppy disk, or through
\* a list whose end mark lay behind CurrentMode, where the search overwrites it.
Unmarked == ~es \/ Len(list) > ListWords
Astray   == \/ stage = "overwritten"
            \/ stage \in {"switch_video_mode", "next_mode"} /\ Unmarked
BootEnds ==
  (stage = "start" /\ kbc.in # "stuck") ~>
    \/ stage \in Stops \ {"kernel"} \/ pc \in {"returned", "not_found", "ready"}
    \/ []Astray

\* The file system is made on a disk that carries the signature of the boot and
\* from that disk's own first sector, although a failed read leaves the sector
\* of another disk in buffer, and ide_disk and ahci_disk stay set to disks that
\* were only looked at.
FsOnBootDisk == pc = "ready" => /\ fs.disk = fs.sector
                                /\ content[fs.disk] = "boot"

\* "Boot disk not found!" is said only if every signed disk behind a controller
\* of this machine was missed by a failed read of its own; of the USB disks
\* those that CheckPort found, and those plugged in all the time.
Reachable == (IF "ide" \in hardware THEN IdeDisks ELSE {})
        \cup (IF "ahci" \in hardware THEN AhciDisks ELSE {})
        \cup (IF "ehci" \in hardware THEN mass \cup (UsbDisks \ pulled) ELSE {})
SearchComplete == pc = "not_found" => \A d \in Reachable : Signed(d) => d \in missed

\* Once the controllers are known, a driver pointer is 0 exactly if the driver's
\* memory has been freed, and the descriptors that drivers keep are not freed.
DriversLive ==
  pc \notin {"off", "machine", "alloc", "ide_init", "ahci_init", "ehci_init", "returned"} =>
    \A c \in Controllers :
      /\ c \in drivers <=> Driver[c] \in heap
      /\ c \in drivers /\ c # "ide" => Descriptor[c] \in heap

-----------------------------------------------------------------------------
(* The inductive invariant behind FsOnBootDisk and SearchComplete. *)

Early  == {"off", "machine", "alloc", "ide_init", "ahci_init", "ehci_init"}
Search == {"ide", "ahci", "ports", "usb", "found", "not_found"}

CounterInv ==
  /\ pc = "ide" => n \in 0 .. 3
  /\ pc = "ahci" => n \in 0 .. numDisks
  /\ pc \in {"ports", "usb"} => n \in 0 .. numPorts

\* buffer has the signature exactly if diskIndex says so, and then diskIndex
\* leads to the disk that buffer was read from.
FoundInv ==
  /\ pc \in Early => diskIndex = 0 /\ buffer = NoDisk
  /\ diskIndex \in Nat
  /\ Signed(buffer) <=> diskIndex # 0
  /\ diskIndex # 0 => FileSystemDisk = buffer

\* The drivers are those of the hardware, one after the other.
DriversInv ==
  /\ pc = "ide_init" => "ide" \in drivers
  /\ pc \in {"ide_init", "ahci_init"} => "ahci" \in drivers
  /\ pc \in {"ide_init", "ahci_init", "ehci_init"} => "ehci" \in drivers
  /\ pc \in {"ahci_init", "ehci_init"} \cup Search => ("ide" \in drivers <=> "ide" \in hardware)
  /\ pc \in {"ehci_init"} \cup Search => ("ahci" \in drivers <=> "ahci" \in hardware)
  /\ pc \in Search => ("ehci" \in drivers <=> "ehci" \in hardware)

\* As long as nothing is found, every signed disk that was looked at was missed.
IdeSeen ==
  pc \in Search /\ diskIndex = 0 /\ "ide" \in drivers =>
    \A k \in 1 .. 4 : (pc = "ide" => k <= n) /\ Signed(<<"ide", k>>) => <<"ide", k>> \in missed

AhciSeen ==
  pc \in Search \ {"ide"} /\ diskIndex = 0 /\ "ahci" \in drivers =>
    \A j \in 0 .. numDisks - 1 : (pc = "ahci" => j < n) /\ Signed(<<"ahci", j>>) => <<"ahci", j>> \in missed

\* A disk that was never pulled out is plugged in, and CheckPort finds it.
PortsSeen ==
  /\ UsbDisks \ pulled \subseteq plugged
  /\ mass \subseteq UsbDisks
  /\ pc \in Search \ {"ide", "ahci"} /\ diskIndex = 0 /\ "ehci" \in drivers =>
       \A i \in 0 .. numPorts - 1 :
         (pc = "ports" => i < n) /\ Signed(<<"usb", i>>) /\ <<"usb", i>> \notin pulled => <<"usb", i>> \in mass

UsbSeen ==
  pc \in {"usb", "found", "not_found"} /\ diskIndex = 0 /\ "ehci" \in drivers =>
    \A i \in 0 .. numPorts - 1 :
      (pc = "usb" => i < n) /\ Signed(<<"usb", i>>) /\ <<"usb", i>> \in mass => <<"usb", i>> \in missed

SearchInv ==
  /\ pc = "not_found" => diskIndex = 0
  /\ CounterInv /\ FoundInv /\ FsOnBootDisk /\ DriversInv
  /\ IdeSeen /\ AhciSeen /\ PortsSeen /\ UsbSeen

=============================================================================
