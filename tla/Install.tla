------------------------------ MODULE Install -------------------------------
(***************************************************************************)
(* The installer, install.cpp: choose a partition, perhaps format it,      *)
(* mount it, start a registry in memory, install three packages, fill in   *)
(* the configuration, install GRUB, record the answers, save the registry. *)
(* The results of the system's calls and of the programs it starts are not *)
(* looked at, except that a file that cannot be opened makes               *)
(* replace_in_file throw, and nobody catches it.  The installer may be run *)
(* again, after a power failure at any step too.                           *)
(*                                                                         *)
(* External: the system calls, the programs, libparted.  A file is what    *)
(* has been put into its placeholders.  Rewriting a file is two steps, the *)
(* truncation and the writing, and either may fail or be the last before   *)
(* the power fails.  The replacements one after the other in one file are  *)
(* one rewriting: a file is a template as long as it has a placeholder.    *)
(* The questions are asked until there is an answer.                       *)
(***************************************************************************)
EXTENDS Integers, FiniteSets

CONSTANTS
  Partitions,   \* the numbered partitions of all disks with an msdos label
  DeviceOf,     \* the disk of a partition
  FirstFs,      \* its file system before the first run
  MaxRuns,      \* bound: how often the installer is started
  MaxFailures,  \* bound: how many calls may fail in one run
  Missing,      \* a file that is not there
  Template,     \* a file with its placeholders, or a program, as the package has it
  Cut,          \* a file that was truncated and not written again, or not wholly
  NoPart        \* no partition

Fs   == {"fat16", "ext2"}
Uuid == 1 .. MaxRuns           \* a new one in every run
Home == "cwd"                  \* the directory the installer was started in

ASSUME InstallAssumption ==
  /\ MaxRuns \in Nat /\ MaxFailures \in Nat /\ Partitions # {} /\ FirstFs \in [Partitions -> Fs]
  /\ {NoPart, Missing, Template, Cut} \cap Partitions = {}
  /\ {Missing, Template, Cut} \cap Uuid = {}
  /\ Missing # Template /\ Missing # Cut /\ Template # Cut

\* The files of a partition that matter: the programs reg and grubmkim, the
\* configuration and the archive made from it, load_cfg and the GRUB image that
\* contains it, the identification files, the record of the answers, the
\* registry, the boot sector.
NoFiles == [reg |-> Missing, grub |-> Missing, config |-> Missing, tar |-> Missing, load_cfg |-> Missing,
            core |-> Missing, ids |-> {}, setup |-> Missing, db |-> FALSE, boot |-> FALSE]

VARIABLES
  run, step,    \* the run of the installer, where main is
  fs, files,    \* of every partition: its file system and its files
  mbr,          \* the disks with GRUB in their first sector
  hdd,          \* the partition mounted as hdd:
  line,         \* the last line the user typed
  part,         \* ret: the partition with the fs it had when it was listed
  registry,     \* the process: "none", "running" or "killed"
  cwd, saved,   \* the variable CWD and the copy of it
  str,          \* what replace_in_file has in memory and not in the file
  failed,       \* history: how many calls failed unnoticed in this run
  astray,       \* history: the partitions a run wrote to that had chosen another
  torn,         \* history: the files whose rewriting failed or was cut off
  unwritten     \* history: the identification files that could not be created

world   == <<fs, files, mbr, hdd>>
process == <<line, part, registry, cwd, saved, str>>
history == <<astray, torn, unwritten>>
vars    == <<run, step, world, process, failed, history>>

Goto(s) == step' = s
\* Something fails, and the installer does not notice.
Unnoticed == failed < MaxFailures /\ failed' = failed + 1

\* A file on hdd:, and a change of one.
File(f)      == IF hdd = NoPart THEN NoFiles[f] ELSE files[hdd][f]
Write(f, v)  == files' = IF hdd = NoPart THEN files ELSE [files EXCEPT ![hdd] = [@ EXCEPT ![f] = v]]

\* _spawn and _wait: the program does its work if it is there and finds what it
\* needs, or fails by itself.
Child(can, Effect) ==
  \/ can /\ Effect /\ UNCHANGED failed
  \/ can /\ Unnoticed /\ UNCHANGED <<files, mbr>>
  \/ ~can /\ UNCHANGED <<files, mbr, failed>>

-----------------------------------------------------------------------------
(* Partition. *)

Start ==
  /\ step = "idle" /\ run < MaxRuns
  /\ run' = run + 1 /\ failed' = 0
  /\ registry' = "none" /\ cwd' = Home /\ saved' = Home /\ line' = "" /\ part' = [p |-> NoPart, fs |-> "ext2"]
  /\ str' = Missing
  /\ Goto("select")
  /\ UNCHANGED <<world, history>>

\* Mutant: an answer that is not no is yes.
yesnoLoose(l, def) == l # "n"

yesno(l, def) == l = "y" \/ (l = "" /\ def = "y")

\* A disk without a label has no type, and its name is asked for all the same.
\* Else 'q', a number of the list, or an empty line, from which no number is
\* read: partno keeps what it happened to hold.
select_partition ==
  /\ step = "select"
  /\ \/ Goto("aborted") /\ UNCHANGED <<line, part>>
     \/ line' = "q" /\ Goto("exit") /\ UNCHANGED part
     \/ \E p \in Partitions :
          /\ line' \in {p, ""}
          /\ part' = [p |-> p, fs |-> fs[p]]
          /\ Goto("format?")
  /\ UNCHANGED <<run, world, registry, cwd, saved, str, failed, history>>

\* _format, if asked for; without a FAT file system there is no way around it.
\* The fs of ret stays what it was.
FormatQuestion ==
  /\ step = "format?"
  /\ line' \in {"y", "n", ""}
  /\ IF yesno(line', "n")
     THEN /\ Goto("mount")
          /\ \/ /\ fs' = [fs EXCEPT ![part.p] = "fat16"]
                /\ files' = [files EXCEPT ![part.p] = NoFiles]
                /\ UNCHANGED failed
             \/ Unnoticed /\ UNCHANGED <<fs, files>>
     ELSE /\ Goto(IF part.fs = "ext2" THEN "exit" ELSE "mount")
          /\ UNCHANGED <<fs, files, failed>>
  /\ UNCHANGED <<run, mbr, hdd, part, registry, cwd, saved, str, history>>

\* _mount("hdd"): if it fails, as it must when formatting has failed, hdd: is still
\* what it was.  The lines typed before are gone.
mount_partition ==
  /\ step = "mount"
  /\ \/ fs[part.p] = "fat16" /\ hdd' = part.p /\ UNCHANGED failed
     \/ fs[part.p] = "fat16" /\ Unnoticed /\ UNCHANGED hdd
     \/ fs[part.p] # "fat16" /\ failed' = failed + 1 /\ UNCHANGED hdd
  /\ astray' = IF hdd' \in {NoPart, part.p} THEN astray ELSE astray \cup {hdd'}
  /\ line' = "" /\ Goto("registry")
  /\ UNCHANGED <<run, fs, files, mbr, part, registry, cwd, saved, str, torn, unwritten>>

setup_registry ==
  /\ step = "registry"
  /\ \/ registry' = "running" /\ UNCHANGED failed
     \/ Unnoticed /\ UNCHANGED registry
  /\ Goto("base")
  /\ UNCHANGED <<run, world, line, part, cwd, saved, str, history>>

-----------------------------------------------------------------------------
(* Files. *)

\* copy_files: package.elx unpacks over what is there; copy_files is always true.
install_package(package, templates, next) ==
  /\ step = package
  /\ Child(hdd # NoPart,
       files' = [files EXCEPT ![hdd] = [f \in DOMAIN @ |-> IF f \in templates THEN Template ELSE @[f]]])
  /\ Goto(next)
  /\ UNCHANGED <<run, fs, mbr, hdd, process, history>>

copy_files ==
  \/ install_package("base", {"reg"}, "kernel")
  \/ install_package("kernel", {"config", "load_cfg", "grub"}, "install")
  \/ install_package("install", {"setup"}, "configure")

\* The file is read and, by ofs, truncated; or ofs cannot be opened.  A file that
\* is not there has length -1, and reserve throws.
replace_in_file(f, v, write, next) ==
  \/ /\ File(f) = Missing
     /\ Goto("aborted") /\ UNCHANGED <<files, str, failed, torn>>
  \/ /\ File(f) # Missing
     /\ str' = IF File(f) = Template THEN v ELSE File(f)
     /\ Write(f, Cut) /\ Goto(write) /\ UNCHANGED <<failed, torn>>
  \/ /\ File(f) # Missing
     /\ Unnoticed /\ torn' = torn \cup {<<hdd, f>>}
     /\ Goto(next) /\ UNCHANGED <<files, str>>

\* Then str is written, or not wholly (or was not read wholly).
write_back(f, write, next) ==
  /\ step = write /\ Goto(next)
  /\ str' = Missing
  /\ \/ Write(f, str) /\ UNCHANGED <<failed, torn>>
     \/ Unnoticed /\ torn' = torn \cup {<<hdd, f>>} /\ UNCHANGED files
  /\ UNCHANGED <<run, fs, mbr, hdd, line, part, registry, cwd, saved, astray, unwritten>>

\* Mutant: the archive is made before the placeholders are replaced.
configure_installLate ==
  /\ step = "configure"
  /\ IF File("config") = Missing THEN Goto("aborted") /\ UNCHANGED files
     ELSE files' = [files EXCEPT ![hdd].tar = files[hdd].config] /\ Goto("tar")
  /\ UNCHANGED <<run, fs, mbr, hdd, process, failed, history>>

\* $DRIVE$ is hdd always, $DEVICE$ the partition.
configure_install ==
  \/ /\ step = "configure"
     /\ replace_in_file("config", part.p, "configure_write", "tar")
     /\ UNCHANGED <<run, fs, mbr, hdd, line, part, registry, cwd, saved, astray, unwritten>>
  \/ write_back("config", "configure_write", "tar")

\* tar.elx runs in the directory initfs.
make_tar ==
  /\ step = "tar" /\ Goto("uuid")
  /\ saved' = cwd /\ UNCHANGED cwd
  /\ Child(hdd # NoPart, Write("tar", File("config")))
  /\ UNCHANGED <<run, fs, mbr, hdd, line, part, registry, str, history>>

-----------------------------------------------------------------------------
(* install_grub. *)

\* Mutant: the file that load_cfg names is not written.
WriteIdNot ==
  /\ step = "uuid" /\ Goto("load_cfg")
  /\ UNCHANGED <<run, world, process, failed, history>>

\* The file named after the new UUID; nobody looks whether ofs could be opened.
WriteId ==
  /\ step = "uuid"
  /\ \/ hdd = NoPart /\ UNCHANGED <<files, failed, unwritten>>
     \/ /\ hdd # NoPart
        /\ files' = [files EXCEPT ![hdd].ids = @ \cup {run}]
        /\ UNCHANGED <<failed, unwritten>>
     \/ /\ hdd # NoPart
        /\ Unnoticed /\ unwritten' = unwritten \cup {<<hdd, run>>}
        /\ UNCHANGED files
  /\ Goto("load_cfg")
  /\ UNCHANGED <<run, fs, mbr, hdd, process, astray, torn>>

\* load_cfg gets the UUID; then CWD is set.
ReplaceUuid ==
  \/ /\ step = "load_cfg"
     /\ replace_in_file("load_cfg", run, "load_cfg_write", "chdir")
     /\ UNCHANGED <<run, fs, mbr, hdd, line, part, registry, cwd, saved, astray, unwritten>>
  \/ write_back("load_cfg", "load_cfg_write", "chdir")
  \/ /\ step = "chdir" /\ Goto("mkimage")
     /\ saved' = cwd /\ cwd' = "hdd:/"
     /\ UNCHANGED <<run, world, line, part, registry, str, failed, history>>

\* grubmkim.elx: the image contains load_cfg.
MakeImage ==
  /\ step = "mkimage"
  /\ Child(File("grub") # Missing, Write("core", File("load_cfg")))
  /\ Goto("bios")
  /\ UNCHANGED <<run, fs, mbr, hdd, process, history>>

\* grubbios.elx of hdd: for the partition chosen, then the question, for the disk.
InstallBootSector ==
  /\ step = "bios"
  /\ Child(File("grub") # Missing /\ File("core") # Missing,
           files' = [files EXCEPT ![part.p] = [@ EXCEPT !.boot = TRUE]])
  /\ Goto("mbr?")
  /\ UNCHANGED <<run, fs, mbr, hdd, process, history>>

MbrQuestion ==
  /\ step = "mbr?"
  /\ line' \in {"y", "n", ""}
  /\ IF yesno(line', "y")
     THEN Child(File("grub") # Missing /\ File("core") # Missing,
                mbr' = mbr \cup {DeviceOf[part.p]} /\ UNCHANGED files)
     ELSE UNCHANGED <<mbr, files, failed>>
  /\ cwd' = saved
  /\ Goto("answers")
  /\ UNCHANGED <<run, fs, hdd, part, registry, saved, str, history>>

-----------------------------------------------------------------------------
(* The end. *)

\* install_grub returns true whatever was answered.
Answers == [device |-> DeviceOf[part.p], part |-> part.p, fs |-> part.fs, mbr |-> "true"]

write_answers ==
  \/ /\ step = "answers"
     /\ replace_in_file("setup", Answers, "answers_write", "backup")
     /\ UNCHANGED <<run, fs, mbr, hdd, line, part, registry, cwd, saved, astray, unwritten>>
  \/ write_back("setup", "answers_write", "backup")

\* Mutant: the registry is killed before it is saved.
finalise_registryKilled ==
  /\ \/ /\ step = "backup" /\ Goto("kill") /\ registry' = "killed"
        /\ UNCHANGED <<files, failed>>
     \/ /\ step = "kill" /\ Goto("exit")
        /\ Child(registry = "running" /\ File("reg") # Missing, Write("db", TRUE))
        /\ UNCHANGED registry
  /\ UNCHANGED <<run, fs, mbr, hdd, line, part, cwd, saved, str, history>>

\* Mutant: the registry is not killed.
finalise_registryLeft ==
  /\ step = "backup" /\ Goto("exit")
  /\ Child(registry = "running" /\ File("reg") # Missing, Write("db", TRUE))
  /\ UNCHANGED <<run, fs, mbr, hdd, process, history>>

\* reg.elx of the new system saves the registry that runs; then _kill.
finalise_registry ==
  /\ \/ /\ step = "backup" /\ Goto("kill")
        /\ Child(registry = "running" /\ File("reg") # Missing, Write("db", TRUE))
        /\ UNCHANGED registry
     \/ /\ step = "kill" /\ Goto("exit")
        /\ registry' = IF registry = "running" THEN "killed" ELSE registry
        /\ UNCHANGED <<files, failed>>
  /\ UNCHANGED <<run, fs, mbr, hdd, line, part, cwd, saved, str, history>>

\* The installer is started again, with hdd: as it is, or after a power failure.
Again ==
  /\ step \in {"exit", "aborted"} /\ run < MaxRuns
  /\ Goto("idle")
  /\ UNCHANGED <<run, world, process, failed, history>>

\* The file that is truncated when the power fails is lost.
Open == CASE step = "configure_write" -> {<<hdd, "config">>}
          [] step = "load_cfg_write"  -> {<<hdd, "load_cfg">>}
          [] step = "answers_write"   -> {<<hdd, "setup">>}
          [] OTHER                    -> {}

PowerFailure ==
  /\ step \notin {"idle", "select"} /\ run < MaxRuns
  /\ Goto("idle") /\ hdd' = NoPart /\ registry' = "none" /\ torn' = torn \cup Open
  /\ UNCHANGED <<run, fs, files, mbr, line, part, cwd, saved, str, failed, astray, unwritten>>

-----------------------------------------------------------------------------
Init ==
  /\ run = 0 /\ step = "idle"
  /\ fs = FirstFs /\ files = [p \in Partitions |-> NoFiles]
  /\ mbr = {} /\ hdd = NoPart
  /\ line = "" /\ part = [p |-> NoPart, fs |-> "ext2"]
  /\ registry = "none" /\ cwd = Home /\ saved = Home /\ str = Missing
  /\ failed = 0 /\ astray = {} /\ torn = {} /\ unwritten = {}

main ==
  \/ Start \/ select_partition \/ FormatQuestion \/ mount_partition \/ setup_registry \/ copy_files
  \/ configure_install \/ make_tar
  \/ WriteId \/ ReplaceUuid \/ MakeImage \/ InstallBootSector \/ MbrQuestion
  \/ write_answers \/ finalise_registry

Next == main \/ Again \/ PowerFailure

Spec == Init /\ [][Next]_vars

\* The programs started end, and the user answers.
FairSpec == Spec /\ WF_vars(main)

-----------------------------------------------------------------------------
(* Properties. *)

Steps == {"idle", "select", "format?", "mount", "registry", "base", "kernel", "install",
          "configure", "configure_write", "tar", "uuid", "load_cfg", "load_cfg_write", "chdir", "mkimage",
          "bios", "mbr?", "answers", "answers_write", "backup", "kill", "exit", "aborted"}

TypeOK ==
  /\ run \in 0 .. MaxRuns /\ step \in Steps
  /\ fs \in [Partitions -> Fs] /\ hdd \in Partitions \cup {NoPart}
  /\ \A p \in Partitions :
       /\ files[p].config \in {Missing, Template, Cut} \cup Partitions
       /\ files[p].tar \in {Missing, Template, Cut} \cup Partitions
       /\ files[p].load_cfg \in {Missing, Template, Cut} \cup Uuid
       /\ files[p].core \in {Missing, Template, Cut} \cup Uuid
       /\ files[p].ids \subseteq Uuid
  /\ step = "configure_write" => str \in {Cut} \cup Partitions
  /\ step = "load_cfg_write" => str \in {Cut} \cup Uuid
  /\ part.p \in Partitions \cup {NoPart} /\ part.fs \in Fs
  /\ registry \in {"none", "running", "killed"}
  /\ failed \in Nat /\ astray \subseteq Partitions
  /\ torn \subseteq Partitions \X {"config", "load_cfg", "setup"} /\ unwritten \subseteq Partitions \X Uuid

\* The files of a partition go only if it is the one chosen and the user typed y,
\* and the user had typed its number unless the line was empty.
FormatAsked ==
  [][\A p \in Partitions :
       files[p] # NoFiles /\ files'[p] = NoFiles => part.p = p /\ line' = "y" /\ line \in {p, ""}]_vars

\* The identification file u of partition p is there, or could not be created.
Identifies(p, u) == u \in files[p].ids \/ <<p, u>> \in unwritten

\* A GRUB image looks for an identification file that is not on its partition
\* only if exactly that file could not be created; and it is built without a
\* UUID only if a rewriting of the load_cfg of its partition failed or was cut
\* off.  Nothing else that fails, no failed _mount and no power failure in an
\* earlier run, makes an image that does not find its system.
ImageFinds ==
  \A p \in Partitions :
    \/ files[p].core = Missing
    \/ files[p].core \in Uuid /\ Identifies(p, files[p].core)
    \/ files[p].core \in {Template, Cut} /\ <<p, "load_cfg">> \in torn

\* The archive the system boots with names the partition it is on, unless a failed
\* _mount left hdd: on another partition; and it has a placeholder left, or an
\* empty configuration, only if a rewriting of that partition's configuration
\* failed or was cut off, in this run or an earlier one.
ArchiveFits ==
  \A p \in Partitions \ astray :
    \/ files[p].tar \in {Missing, p}
    \/ files[p].tar \in {Template, Cut} /\ <<p, "config">> \in torn

\* A run that came to its end without a failure has left a complete system on a
\* FAT file system: its own UUID in the image, the archive, the boot sector, the
\* saved registry, GRUB in the first sector of the disk unless the user said no,
\* and the device and the partition chosen in the record of the answers.  (The
\* record's fs is the one before formatting, and its mbr is "true" after a no
\* too, so neither is compared.)
Complete ==
  step = "exit" /\ registry # "none" /\ failed = 0 =>
    LET f == files[part.p] IN
      /\ f.core = run /\ f.tar = part.p /\ f.boot /\ f.db
      /\ f.setup.part = part.p /\ f.setup.device = DeviceOf[part.p]
      /\ fs[part.p] = "fat16"
      /\ yesno(line, "y") => DeviceOf[part.p] \in mbr

\* Programs started later find CWD as it was: nobody is left in a directory of
\* the new partition.
CwdRestored == step \in {"answers", "answers_write", "backup", "kill", "exit", "aborted"} => cwd = Home

\* The registry process does not outlive the installer, except when the installer
\* dies of an exception.
RegistryEnds == registry = "running" ~> (registry # "running" \/ step = "aborted")

-----------------------------------------------------------------------------
(* The inductive invariant behind ImageFinds, ArchiveFits and CwdRestored. *)

BaseInv ==
  /\ run \in 0 .. MaxRuns /\ (step # "idle" => run \in Uuid)
  /\ hdd \in Partitions \cup {NoPart} /\ (step = "answers_write" => hdd # NoPart)
  /\ step \notin {"idle", "select", "exit", "aborted"} => part.p \in Partitions
  /\ DOMAIN files = Partitions
  /\ \A p \in Partitions : DOMAIN files[p] = DOMAIN NoFiles

\* What may be in load_cfg of partition p, and in str for it, once it is rewritten.
Names(p, v) == v \in Uuid /\ Identifies(p, v)
Damaged(p, f, v) == v \in {Template, Cut} /\ <<p, f>> \in torn

\* load_cfg names an identification file that is there, as soon as it names one,
\* and is damaged only if a rewriting of it is known to have failed or goes on.
ImageInv ==
  /\ ImageFinds
  /\ \A p \in Partitions : LET v == files[p].load_cfg IN
       \/ v \in {Missing, Template} \/ Names(p, v) \/ Damaged(p, "load_cfg", v)
       \/ step = "load_cfg_write" /\ p = hdd
  /\ step = "load_cfg" /\ hdd # NoPart => Identifies(hdd, run)
  /\ step = "load_cfg_write" => /\ hdd # NoPart /\ files[hdd].load_cfg = Cut
                                /\ Names(hdd, str) \/ Damaged(hdd, "load_cfg", str)
  /\ step \in {"chdir", "mkimage"} =>
       /\ hdd # NoPart
       /\ LET v == files[hdd].load_cfg IN Names(hdd, v) \/ Damaged(hdd, "load_cfg", v)

\* The configuration names its own partition, unless it is known not to.
Mounted == {"registry", "base", "kernel", "install", "configure", "configure_write", "tar"}
ArchiveInv ==
  /\ ArchiveFits
  /\ \A p \in Partitions \ astray : LET v == files[p].config IN
       \/ v \in {Missing, Template, p} \/ Damaged(p, "config", v)
       \/ step = "configure_write" /\ p = hdd
  /\ step \in Mounted => hdd \in {NoPart, part.p} \cup astray
  /\ step = "configure_write" => /\ hdd # NoPart /\ files[hdd].config = Cut
                                 /\ hdd \in astray \/ str = hdd \/ Damaged(hdd, "config", str)
  /\ step = "tar" => /\ hdd # NoPart
                     /\ \/ hdd \in astray \/ files[hdd].config = hdd
                        \/ Damaged(hdd, "config", files[hdd].config)

\* CWD is away only in install_grub, which has a copy.
CwdInv ==
  /\ step \notin {"idle", "mkimage", "bios", "mbr?"} => cwd = Home
  /\ step \in {"mkimage", "bios", "mbr?"} => saved = Home

IInv == BaseInv /\ ImageInv /\ ArchiveInv /\ CwdInv

=============================================================================
