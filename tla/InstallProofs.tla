--------------------------- MODULE InstallProofs ----------------------------
(***************************************************************************)
(* Proofs about Install: for any number of partitions, disks, runs and     *)
(* failures, a GRUB image finds its identification file and an archive     *)
(* fits its partition unless one of the failures that ImageFinds and       *)
(* ArchiveFits name took place there, and CWD is put back; a run in which  *)
(* nothing failed leaves a complete system, and no partition is emptied    *)
(* unasked.                                                                *)
(***************************************************************************)
EXTENDS Install, TLAPS

\* The files that the invariant looks at, and all of them.
Told   == {"config", "tar", "load_cfg", "core", "ids"}
Fields == {"reg", "grub", "config", "tar", "load_cfg", "core", "ids", "setup", "db", "boot"}

\* A step that keeps these files of every partition.
Kept(names) ==
  /\ DOMAIN files' = Partitions
  /\ \A p \in Partitions : DOMAIN files'[p] = Fields
  /\ \A p \in Partitions : \A g \in names : files'[p][g] = files[p][g]

\* A step that changes one file on hdd:, which is a partition.
Changed(f, v) ==
  /\ hdd \in Partitions
  /\ DOMAIN files' = Partitions
  /\ \A p \in Partitions : DOMAIN files'[p] = Fields
  /\ \A p \in Partitions : \A g \in Fields : files'[p][g] = IF p = hdd /\ g = f THEN v ELSE files[p][g]

\* The failures on record are not forgotten.
Recorded == torn \subseteq torn' /\ unwritten \subseteq unwritten'

LEMMA FieldsOf == DOMAIN NoFiles = Fields
  BY DEF NoFiles, Fields

\* What Write does, in terms of single files.
LEMMA WriteEffect ==
  ASSUME BaseInv, NEW f \in Fields, NEW v, Write(f, v)
  PROVE  Changed(f, v) \/ (hdd = NoPart /\ files' = files)
<1>1. CASE hdd = NoPart
  BY <1>1 DEF Write
<1>2. CASE hdd # NoPart
  <2>1. hdd \in Partitions /\ DOMAIN files = Partitions /\ \A p \in Partitions : DOMAIN files[p] = Fields
    BY <1>2, FieldsOf DEF BaseInv
  <2>2. files' = [files EXCEPT ![hdd] = [files[hdd] EXCEPT ![f] = v]]
    BY <1>2 DEF Write
  <2>3. DOMAIN files' = Partitions
    BY <2>1, <2>2
  <2>4. \A p \in Partitions : files'[p] = IF p = hdd THEN [files[hdd] EXCEPT ![f] = v] ELSE files[p]
    BY <2>1, <2>2
  <2>5. \A p \in Partitions : DOMAIN files'[p] = Fields
    BY <2>1, <2>4
  <2>6. \A p \in Partitions : \A g \in Fields : files'[p][g] = IF p = hdd /\ g = f THEN v ELSE files[p][g]
    BY <2>1, <2>4
  <2> QED BY <2>1, <2>3, <2>5, <2>6 DEF Changed
<1> QED BY <1>1, <1>2

\* Without a change of files nothing is lost.
LEMMA SameKept ==
  ASSUME BaseInv, files' = files
  PROVE  Kept(Told)
BY FieldsOf DEF BaseInv, Kept

\* A file the invariant does not look at may be written.
LEMMA OtherKept ==
  ASSUME BaseInv, NEW f \in Fields \ Told, NEW v, Write(f, v)
  PROVE  Kept(Told)
<1>1. CASE files' = files
  BY <1>1, SameKept
<1>2. CASE Changed(f, v)
  BY <1>2 DEF Changed, Kept, Fields, Told
<1> QED BY <1>1, <1>2, WriteEffect

\* The places where the invariant says something of a file in the works.
AtWork == {"configure_write", "tar", "load_cfg", "load_cfg_write", "chdir", "mkimage"}

\* What was so of a file before a step that keeps the files is so after it.
LEMMA ImageKept ==
  ASSUME BaseInv, ImageInv, Kept(Told), Recorded, hdd' \in {hdd, NoPart}, step' \notin AtWork,
         step = "load_cfg_write" => <<hdd, "load_cfg">> \in torn'
  PROVE  ImageInv'
<1> USE DEF Kept, Told, Recorded, Identifies, Names, Damaged
<1>1. ImageFinds'
  BY DEF ImageInv, ImageFinds
<1>2. ASSUME NEW p \in Partitions
      PROVE  (LET v == files[p].load_cfg IN
                v \in {Missing, Template} \/ Names(p, v) \/ Damaged(p, "load_cfg", v))'
  <2>1. files'[p].load_cfg = files[p].load_cfg /\ files'[p].ids = files[p].ids
    OBVIOUS
  <2>2. CASE step = "load_cfg_write" /\ p = hdd
    BY <2>1, <2>2 DEF ImageInv
  <2>3. CASE ~(step = "load_cfg_write" /\ p = hdd)
    BY <2>1, <2>3 DEF ImageInv
  <2> QED BY <2>2, <2>3
<1> QED BY <1>1, <1>2 DEF ImageInv, AtWork

LEMMA ArchiveKept ==
  ASSUME BaseInv, ArchiveInv, Kept(Told), Recorded, astray' = astray, step' \notin AtWork,
         step' \in Mounted => hdd' \in {NoPart, part'.p} \cup astray',
         step = "configure_write" => <<hdd, "config">> \in torn'
  PROVE  ArchiveInv'
<1> USE DEF Kept, Told, Recorded, Damaged
<1>1. ArchiveFits'
  BY DEF ArchiveInv, ArchiveFits
<1>2. ASSUME NEW p \in Partitions \ astray
      PROVE  (LET v == files[p].config IN v \in {Missing, Template, p} \/ Damaged(p, "config", v))'
  <2>1. files'[p].config = files[p].config
    OBVIOUS
  <2>2. CASE step = "configure_write" /\ p = hdd
    BY <2>1, <2>2 DEF ArchiveInv
  <2>3. CASE ~(step = "configure_write" /\ p = hdd)
    BY <2>1, <2>3 DEF ArchiveInv
  <2> QED BY <2>2, <2>3
<1> QED BY <1>1, <1>2 DEF ArchiveInv, AtWork

\* A step from one place of main to another that keeps the files and the mount.
LEMMA QuietStep ==
  ASSUME IInv, Kept(Told), Recorded,
         run' = run, hdd' = hdd, astray' = astray, part'.p = part.p, cwd' = cwd, saved' = saved,
         step' \notin {"idle", "select"} \cup AtWork, step' = "answers_write" => hdd # NoPart,
         step \notin {"configure_write", "load_cfg_write"},
         step \in {"exit", "aborted", "idle", "select"} => step' \in {"exit", "aborted"},
         step = "idle" => run \in Uuid /\ cwd = Home,
         step' \in Mounted => step \in Mounted,
         step \in {"mkimage", "bios", "mbr?"} <=> step' \in {"bios", "mbr?"}
  PROVE  IInv'
<1>1. BaseInv'
  BY FieldsOf DEF IInv, BaseInv, Kept, Told
<1>2. ImageInv'
  BY ImageKept DEF IInv
<1>3. ArchiveInv'
  <2>1. step' \in Mounted => hdd' \in {NoPart, part'.p} \cup astray'
    BY DEF IInv, ArchiveInv
  <2> QED BY <2>1, ArchiveKept DEF IInv
<1>4. CwdInv'
  BY DEF IInv, CwdInv, AtWork
<1> QED BY <1>1, <1>2, <1>3, <1>4 DEF IInv

-----------------------------------------------------------------------------
(* One lemma for each part of main. *)

LEMMA InitInv == Init => IInv
<1> SUFFICES ASSUME Init PROVE IInv
  OBVIOUS
<1>1. DOMAIN files = Partitions /\ \A p \in Partitions : files[p] = NoFiles
  BY DEF Init
<1>2. BaseInv
  <2>1. run \in 0 .. MaxRuns
    <3>1. run = 0 /\ MaxRuns \in Nat
      BY InstallAssumption, Zenon DEF Init
    <3> QED BY <3>1
  <2> QED BY <1>1, <2>1 DEF Init, BaseInv
<1>3. ImageInv
  BY <1>1 DEF Init, ImageInv, ImageFinds, NoFiles
<1>4. ArchiveInv
  BY <1>1 DEF Init, ArchiveInv, ArchiveFits, NoFiles, Mounted
<1>5. CwdInv
  BY DEF Init, CwdInv
<1> QED BY <1>2, <1>3, <1>4, <1>5 DEF IInv

\* The installer is started, restarted, cut off, or done with the question which
\* partition: the files stay, and one that was open is on record.
LEMMA EntrySteps ==
  ASSUME IInv, Start \/ select_partition \/ Again \/ PowerFailure
  PROVE  IInv'
<1>1. files' = files
  BY DEF Start, select_partition, Again, PowerFailure, world
<1>2. Kept(Told)
  BY <1>1, SameKept DEF IInv
<1>3. Recorded /\ astray' = astray
  BY DEF Start, select_partition, Again, PowerFailure, history, Recorded
<1>4. step' \in {"idle", "select", "aborted", "exit", "format?"} /\ hdd' \in {hdd, NoPart}
  BY DEF Start, select_partition, Again, PowerFailure, Goto, world
<1>5. /\ step = "load_cfg_write" => <<hdd, "load_cfg">> \in torn'
      /\ step = "configure_write" => <<hdd, "config">> \in torn'
  BY DEF Start, select_partition, Again, PowerFailure, Open
<1>6. ImageInv'
  BY <1>2, <1>3, <1>4, <1>5, ImageKept DEF IInv, AtWork
<1>7. ArchiveInv'
  BY <1>2, <1>3, <1>4, <1>5, ArchiveKept DEF IInv, AtWork, Mounted
<1>8. CwdInv'
  <2>1. CASE Start
    BY <2>1 DEF Start, CwdInv, Goto
  <2>2. CASE select_partition
    BY <2>2, <1>4 DEF select_partition, IInv, CwdInv
  <2>3. CASE Again \/ PowerFailure
    BY <2>3 DEF Again, PowerFailure, Goto, CwdInv
  <2> QED BY <2>1, <2>2, <2>3
<1>9. BaseInv'
  <2>1. CASE Start
    <3>1. run' \in 0 .. MaxRuns /\ run' \in Uuid
      <4>1. run \in 0 .. MaxRuns /\ run < MaxRuns /\ run' = run + 1 /\ MaxRuns \in Nat
        BY <2>1, InstallAssumption DEF Start, IInv, BaseInv
      <4> QED BY <4>1 DEF Uuid
    <3>2. hdd' = hdd /\ step' = "select"
      BY <2>1 DEF Start, Goto, world
    <3> QED BY <1>1, <3>1, <3>2 DEF IInv, BaseInv
  <2>2. CASE select_partition
    <3>1. run' = run /\ hdd' = hdd /\ step = "select"
      BY <2>2 DEF select_partition, world
    <3>2. step' \in {"exit", "aborted"} \/ \E p \in Partitions : part' = [p |-> p, fs |-> fs[p]]
      BY <2>2, Zenon DEF select_partition, Goto
    <3>3. ASSUME NEW p \in Partitions, part' = [p |-> p, fs |-> fs[p]]
          PROVE  part'.p \in Partitions
      BY <3>3
    <3>4. step' \in {"exit", "aborted"} \/ part'.p \in Partitions
      BY <3>2, <3>3
    <3> QED BY <1>1, <1>4, <3>1, <3>4 DEF IInv, BaseInv
  <2>3. CASE Again \/ PowerFailure
    <3>1. run' = run /\ step' = "idle"
      BY <2>3 DEF Again, PowerFailure, Goto
    <3> QED BY <1>1, <1>4, <3>1 DEF IInv, BaseInv
  <2> QED BY <2>1, <2>2, <2>3
<1> QED BY <1>6, <1>7, <1>8, <1>9 DEF IInv

\* A partition is emptied, or nothing happens to it.
LEMMA FormatStep ==
  ASSUME IInv, FormatQuestion
  PROVE  IInv'
<1>1. /\ run' = run /\ hdd' = hdd /\ part' = part /\ cwd' = cwd /\ saved' = saved
      /\ astray' = astray /\ torn' = torn /\ unwritten' = unwritten
      /\ step = "format?" /\ step' \in {"mount", "exit"}
      /\ files' = files \/ files' = [files EXCEPT ![part.p] = NoFiles]
  BY DEF FormatQuestion, Goto, history
<1>2. CASE files' = files
  <2>1. Kept(Told) /\ Recorded
    BY <1>1, <1>2, SameKept DEF IInv, Recorded
  <2> QED BY <1>1, <2>1, QuietStep DEF Mounted, AtWork
<1>3. CASE files' = [files EXCEPT ![part.p] = NoFiles]
  <2>1. part.p \in Partitions /\ DOMAIN files = Partitions
    BY <1>1 DEF IInv, BaseInv
  <2>2. /\ DOMAIN files' = Partitions
        /\ \A p \in Partitions : files'[p] = IF p = part.p THEN NoFiles ELSE files[p]
    BY <1>3, <2>1
  <2>3. BaseInv'
    BY <1>1, <2>2 DEF IInv, BaseInv
  <2>4. ImageInv'
    BY <1>1, <2>2 DEF IInv, ImageInv, ImageFinds, Identifies, Names, Damaged, NoFiles
  <2>5. ArchiveInv'
    BY <1>1, <2>2 DEF IInv, ArchiveInv, ArchiveFits, Damaged, Mounted, NoFiles
  <2>6. CwdInv'
    BY <1>1 DEF IInv, CwdInv
  <2> QED BY <2>3, <2>4, <2>5, <2>6 DEF IInv
<1> QED BY <1>1, <1>2, <1>3

\* Here astray grows if hdd: is not the partition chosen.
LEMMA MountSteps ==
  ASSUME IInv, mount_partition \/ setup_registry
  PROVE  IInv'
<1>1. files' = files /\ torn' = torn /\ unwritten' = unwritten
  BY DEF mount_partition, setup_registry, world, history
<1>2. CASE mount_partition
  <2>1. /\ run' = run /\ part' = part /\ cwd' = cwd /\ saved' = saved /\ step = "mount" /\ step' = "registry"
        /\ hdd' \in {hdd, part.p}
        /\ astray' = IF hdd' \in {NoPart, part.p} THEN astray ELSE astray \cup {hdd'}
    BY <1>2 DEF mount_partition, Goto
  <2>2. BaseInv'
    BY <1>1, <2>1 DEF IInv, BaseInv
  <2>3. ImageInv'
    BY <1>1, <2>1 DEF IInv, ImageInv, ImageFinds, Identifies, Names, Damaged
  <2>4. ArchiveInv'
    BY <1>1, <2>1 DEF IInv, ArchiveInv, ArchiveFits, Damaged
  <2>5. CwdInv'
    BY <2>1 DEF IInv, CwdInv
  <2> QED BY <2>2, <2>3, <2>4, <2>5 DEF IInv
<1>3. CASE setup_registry
  <2>1. Kept(Told) /\ Recorded
    BY <1>1, SameKept DEF IInv, Recorded
  <2> QED BY <1>3, <2>1, QuietStep DEF setup_registry, Goto, world, history, Mounted, AtWork
<1> QED BY <1>2, <1>3

-----------------------------------------------------------------------------
(* The packages and the configuration. *)

\* Unpacking puts templates where a file may have been.
LEMMA UnpackStep ==
  ASSUME IInv, copy_files
  PROVE  IInv'
<1>1. PICK templates \in SUBSET Fields, package \in Mounted, next \in Mounted :
         /\ install_package(package, templates, next)
         /\ templates \cap {"tar", "core", "ids"} = {}
         /\ package \in {"base", "kernel", "install"} /\ next \in {"kernel", "install", "configure"}
  BY DEF copy_files, Mounted, Fields
<1>2. /\ run' = run /\ hdd' = hdd /\ part' = part /\ cwd' = cwd /\ saved' = saved
      /\ astray' = astray /\ torn' = torn /\ unwritten' = unwritten
      /\ step = package /\ step' = next
  BY <1>1 DEF install_package, Goto, process, history
<1>3. CASE files' = files
  <2>1. Kept(Told) /\ Recorded
    BY <1>2, <1>3, SameKept DEF IInv, Recorded
  <2> QED BY <1>1, <1>2, <2>1, QuietStep DEF Mounted, AtWork
<1>4. CASE files' # files
  <2>1. /\ hdd # NoPart
        /\ files' = [files EXCEPT ![hdd] = [f \in DOMAIN @ |-> IF f \in templates THEN Template ELSE @[f]]]
    BY <1>1, <1>4 DEF install_package, Child
  <2>2. hdd \in Partitions /\ DOMAIN files = Partitions /\ \A p \in Partitions : DOMAIN files[p] = Fields
    BY <2>1, FieldsOf DEF IInv, BaseInv
  <2>3. /\ DOMAIN files' = Partitions
        /\ \A p \in Partitions : p # hdd => files'[p] = files[p]
        /\ files'[hdd] = [f \in Fields |-> IF f \in templates THEN Template ELSE files[hdd][f]]
    BY <2>1, <2>2
  <2>4. /\ files'[hdd].tar = files[hdd].tar /\ files'[hdd].core = files[hdd].core
        /\ files'[hdd].ids = files[hdd].ids
        /\ files'[hdd].config \in {Template, files[hdd].config}
        /\ files'[hdd].load_cfg \in {Template, files[hdd].load_cfg}
    BY <1>1, <2>3 DEF Fields
  <2>5. BaseInv'
    BY <1>1, <1>2, <2>2, <2>3, FieldsOf DEF IInv, BaseInv, Mounted
  <2>6. ImageInv'
    BY <1>1, <1>2, <2>2, <2>3, <2>4 DEF IInv, ImageInv, ImageFinds, Identifies, Names, Damaged
  <2>7. ArchiveInv'
    BY <1>1, <1>2, <2>2, <2>3, <2>4 DEF IInv, ArchiveInv, ArchiveFits, Damaged, Mounted
  <2>8. CwdInv'
    BY <1>1, <1>2 DEF IInv, CwdInv
  <2> QED BY <2>5, <2>6, <2>7, <2>8 DEF IInv
<1> QED BY <1>3, <1>4

\* What replace_in_file does to a file, and when main goes on.
LEMMA ReplaceEffect ==
  ASSUME BaseInv, NEW f \in Fields \ {"ids", "db", "boot"}, NEW v, NEW write, NEW next,
         replace_in_file(f, v, write, next)
  PROVE  \/ step' = "aborted" /\ files' = files /\ torn' = torn
         \/ /\ step' = write /\ torn' = torn
            /\ hdd \in Partitions /\ files[hdd][f] # Missing /\ Changed(f, Cut)
            /\ str' = IF files[hdd][f] = Template THEN v ELSE files[hdd][f]
         \/ /\ step' = next /\ torn' = torn \cup {<<hdd, f>>}
            /\ hdd \in Partitions /\ files[hdd][f] # Missing /\ files' = files
<1>1. CASE File(f) = Missing
  BY <1>1 DEF replace_in_file, Goto
<1>2. CASE File(f) # Missing
  <2>1. hdd # NoPart
    BY <1>2 DEF File, NoFiles, Fields
  <2>2. hdd \in Partitions /\ File(f) = files[hdd][f]
    BY <2>1 DEF BaseInv, File
  <2>3. CASE Write(f, Cut) /\ step' = write /\ torn' = torn
             /\ str' = IF files[hdd][f] = Template THEN v ELSE files[hdd][f]
    <3>1. Changed(f, Cut)
      BY <2>1, <2>3, WriteEffect
    <3> QED BY <1>2, <2>2, <2>3, <3>1
  <2>4. CASE step' = next /\ torn' = torn \cup {<<hdd, f>>} /\ files' = files
    BY <1>2, <2>2, <2>4
  <2> QED BY <1>2, <2>2, <2>3, <2>4 DEF replace_in_file, Goto
<1> QED BY <1>1, <1>2

\* And write_back after it.
LEMMA BackEffect ==
  ASSUME BaseInv, hdd # NoPart, NEW f \in Fields, NEW write, NEW next, write_back(f, write, next)
  PROVE  /\ step = write /\ step' = next /\ hdd \in Partitions
         /\ run' = run /\ hdd' = hdd /\ part' = part /\ cwd' = cwd /\ saved' = saved
         /\ astray' = astray /\ unwritten' = unwritten
         /\ \/ Changed(f, str) /\ torn' = torn
            \/ files' = files /\ torn' = torn \cup {<<hdd, f>>}
<1>1. hdd \in Partitions
  BY DEF BaseInv
<1>2. Write(f, str) => Changed(f, str)
  BY WriteEffect
<1> QED BY <1>1, <1>2 DEF write_back, Goto

\* The configuration gets the partition chosen, which is the one it is on unless
\* that one is astray; or its damage is on record.
LEMMA ConfigureStep ==
  ASSUME IInv, configure_install
  PROVE  IInv'
<1> DEFINE Fine(v) == hdd \in astray \/ v = hdd \/ Damaged(hdd, "config", v)
<1>1. step \in {"configure", "configure_write"}
  BY DEF configure_install, write_back
<1>2. /\ part.p \in Partitions /\ part.p \notin {NoPart, Missing, Template, Cut}
      /\ hdd \in {NoPart, part.p} \cup astray /\ run \in Uuid
  BY <1>1, InstallAssumption DEF IInv, BaseInv, ArchiveInv, Mounted
<1>3. hdd \in Partitions => hdd # NoPart
  BY InstallAssumption
<1>4. /\ run' = run /\ hdd' = hdd /\ part' = part /\ cwd' = cwd /\ saved' = saved
      /\ astray' = astray /\ unwritten' = unwritten
  BY DEF configure_install, write_back
<1>5. ASSUME step' \in {"configure_write", "tar"}, hdd \in Partitions, torn \subseteq torn',
             files' = files \/ \E v : Changed("config", v)
      PROVE  BaseInv' /\ ImageInv' /\ CwdInv' /\ ArchiveFits'
  <2>1. /\ DOMAIN files' = Partitions
        /\ \A p \in Partitions : DOMAIN files'[p] = Fields
        /\ \A p \in Partitions : \A g \in Fields \ {"config"} : files'[p][g] = files[p][g]
    BY <1>5, FieldsOf DEF Changed, IInv, BaseInv
  <2>2. \A p \in Partitions : /\ files'[p].tar = files[p].tar /\ files'[p].core = files[p].core
                              /\ files'[p].ids = files[p].ids /\ files'[p].load_cfg = files[p].load_cfg
    BY <2>1 DEF Fields
  <2>3. BaseInv'
    BY <1>2, <1>4, <1>5, <2>1, FieldsOf DEF IInv, BaseInv
  <2>4. ImageInv'
    BY <1>1, <1>4, <1>5, <2>2 DEF IInv, ImageInv, ImageFinds, Identifies, Names, Damaged
  <2>5. CwdInv'
    BY <1>1, <1>4, <1>5 DEF IInv, CwdInv
  <2>6. ArchiveFits'
    BY <1>4, <1>5, <2>2 DEF IInv, ArchiveInv, ArchiveFits
  <2> QED BY <2>3, <2>4, <2>5, <2>6
<1>6. CASE step = "configure"
  <2>1. replace_in_file("config", part.p, "configure_write", "tar")
    BY <1>6 DEF configure_install, write_back
  <2>2. \/ step' = "aborted" /\ files' = files /\ torn' = torn
        \/ /\ step' = "configure_write" /\ torn' = torn
           /\ hdd \in Partitions /\ files[hdd].config # Missing /\ Changed("config", Cut)
           /\ str' = IF files[hdd].config = Template THEN part.p ELSE files[hdd].config
        \/ /\ step' = "tar" /\ torn' = torn \cup {<<hdd, "config">>}
           /\ hdd \in Partitions /\ files[hdd].config # Missing /\ files' = files
    BY <2>1, ReplaceEffect DEF IInv, Fields
  <2>3. CASE step' = "aborted" /\ files' = files /\ torn' = torn
    <3>1. Kept(Told) /\ Recorded
      BY <1>4, <2>3, SameKept DEF IInv, Recorded
    <3> QED BY <1>4, <1>6, <2>3, <3>1, QuietStep DEF Mounted, AtWork
  <2>4. CASE /\ step' = "configure_write" /\ torn' = torn
             /\ hdd \in Partitions /\ files[hdd].config # Missing /\ Changed("config", Cut)
             /\ str' = IF files[hdd].config = Template THEN part.p ELSE files[hdd].config
    <3>1. BaseInv' /\ ImageInv' /\ CwdInv' /\ ArchiveFits'
      BY <1>5, <2>4
    <3>2. files'[hdd].config = Cut /\ \A p \in Partitions : p # hdd => files'[p].config = files[p].config
      BY <2>4 DEF Changed, Fields
    <3>3. Fine(str')
      BY <1>2, <1>3, <1>6, <2>4 DEF IInv, ArchiveInv, Damaged
    <3>4. ArchiveInv'
      BY <1>2, <1>3, <1>4, <1>6, <2>4, <3>1, <3>2, <3>3 DEF IInv, ArchiveInv, Damaged
    <3> QED BY <3>1, <3>4 DEF IInv
  <2>5. CASE /\ step' = "tar" /\ torn' = torn \cup {<<hdd, "config">>}
             /\ hdd \in Partitions /\ files[hdd].config # Missing /\ files' = files
    <3>1. BaseInv' /\ ImageInv' /\ CwdInv' /\ ArchiveFits'
      BY <1>5, <2>5
    <3>2. hdd \in astray \/ files[hdd].config = hdd \/ files[hdd].config \in {Template, Cut}
      BY <1>6, <2>5 DEF IInv, ArchiveInv, Damaged
    <3>3. ArchiveInv'
      BY <1>2, <1>3, <1>4, <1>6, <2>5, <3>1, <3>2 DEF IInv, ArchiveInv, Damaged
    <3> QED BY <3>1, <3>3 DEF IInv
  <2> QED BY <2>2, <2>3, <2>4, <2>5
<1>7. CASE step = "configure_write"
  <2>1. write_back("config", "configure_write", "tar")
    BY <1>7 DEF configure_install
  <2>2. hdd # NoPart /\ files[hdd].config = Cut /\ Fine(str)
    BY <1>7 DEF IInv, ArchiveInv
  <2>3. /\ step' = "tar" /\ hdd \in Partitions
        /\ \/ Changed("config", str) /\ torn' = torn
           \/ files' = files /\ torn' = torn \cup {<<hdd, "config">>}
    BY <2>1, <2>2, BackEffect DEF IInv, Fields
  <2>4. BaseInv' /\ ImageInv' /\ CwdInv' /\ ArchiveFits'
    BY <1>5, <2>3
  <2>5. CASE Changed("config", str) /\ torn' = torn
    <3>1. files'[hdd].config = str /\ \A p \in Partitions : p # hdd => files'[p].config = files[p].config
      BY <2>3, <2>5 DEF Changed, Fields
    <3>2. ArchiveInv'
      BY <1>2, <1>4, <1>7, <2>2, <2>3, <2>4, <2>5, <3>1 DEF IInv, ArchiveInv, Damaged
    <3> QED BY <2>4, <3>2 DEF IInv
  <2>6. CASE files' = files /\ torn' = torn \cup {<<hdd, "config">>}
    <3>1. ArchiveInv'
      BY <1>2, <1>4, <1>7, <2>2, <2>3, <2>4, <2>6 DEF IInv, ArchiveInv, Damaged
    <3> QED BY <2>4, <3>1 DEF IInv
  <2> QED BY <2>3, <2>5, <2>6
<1> QED BY <1>1, <1>6, <1>7

\* The archive takes the configuration as it is.
LEMMA ArchiveStep ==
  ASSUME IInv, make_tar
  PROVE  IInv'
<1>1. /\ run' = run /\ hdd' = hdd /\ part' = part /\ cwd' = cwd
      /\ astray' = astray /\ torn' = torn /\ unwritten' = unwritten
      /\ step = "tar" /\ step' = "uuid"
      /\ files' = files \/ Write("tar", File("config"))
  BY DEF make_tar, Goto, Child, history
<1>2. /\ hdd # NoPart /\ hdd \in Partitions /\ File("config") = files[hdd].config
      /\ hdd \in astray \/ files[hdd].config = hdd \/ Damaged(hdd, "config", files[hdd].config)
  BY <1>1 DEF IInv, BaseInv, ArchiveInv, File
<1>3. files' = files \/ Changed("tar", files[hdd].config)
  BY <1>1, <1>2, WriteEffect DEF IInv, Fields
<1>4. CwdInv'
  BY <1>1 DEF IInv, CwdInv
<1>5. CASE files' = files
  <2>1. BaseInv'
    BY <1>1, <1>5 DEF IInv, BaseInv
  <2>2. ImageInv'
    BY <1>1, <1>5 DEF IInv, ImageInv, ImageFinds, Identifies, Names, Damaged
  <2>3. ArchiveInv'
    BY <1>1, <1>5 DEF IInv, ArchiveInv, ArchiveFits, Damaged, Mounted
  <2> QED BY <1>4, <2>1, <2>2, <2>3 DEF IInv
<1>6. CASE Changed("tar", files[hdd].config)
  <2>1. BaseInv'
    BY <1>1, <1>6, FieldsOf DEF IInv, BaseInv, Changed
  <2>2. \A p \in Partitions : /\ files'[p].config = files[p].config /\ files'[p].core = files[p].core
                              /\ files'[p].ids = files[p].ids /\ files'[p].load_cfg = files[p].load_cfg
                              /\ files'[p].tar = IF p = hdd THEN files[hdd].config ELSE files[p].tar
    BY <1>6 DEF Changed, Fields
  <2>3. ImageInv'
    BY <1>1, <2>2 DEF IInv, ImageInv, ImageFinds, Identifies, Names, Damaged
  <2>4. ArchiveInv'
    BY <1>1, <1>2, <2>2 DEF IInv, ArchiveInv, ArchiveFits, Damaged, Mounted
  <2> QED BY <1>4, <2>1, <2>3, <2>4 DEF IInv
<1> QED BY <1>3, <1>5, <1>6

-----------------------------------------------------------------------------
(* install_grub and the end. *)

\* The identification file is there before load_cfg names it, or is known to be
\* missing.
LEMMA IdStep ==
  ASSUME IInv, WriteId
  PROVE  IInv'
<1>1. /\ run' = run /\ hdd' = hdd /\ part' = part /\ cwd' = cwd /\ saved' = saved
      /\ astray' = astray /\ torn' = torn
      /\ step = "uuid" /\ step' = "load_cfg"
  BY DEF WriteId, Goto, process
<1>2. CwdInv'
  BY <1>1 DEF IInv, CwdInv
<1>3. CASE files' = files /\ unwritten \subseteq unwritten' /\ (hdd # NoPart => <<hdd, run>> \in unwritten')
  <2>1. BaseInv'
    BY <1>1, <1>3 DEF IInv, BaseInv
  <2>2. ImageInv'
    BY <1>1, <1>3 DEF IInv, ImageInv, ImageFinds, Identifies, Names, Damaged
  <2>3. ArchiveInv'
    BY <1>1, <1>3 DEF IInv, ArchiveInv, ArchiveFits, Damaged, Mounted
  <2> QED BY <1>2, <2>1, <2>2, <2>3 DEF IInv
<1>4. CASE hdd # NoPart /\ files' = [files EXCEPT ![hdd].ids = @ \cup {run}] /\ unwritten' = unwritten
  <2>1. hdd \in Partitions /\ DOMAIN files = Partitions /\ \A p \in Partitions : DOMAIN files[p] = Fields
    BY <1>4, FieldsOf DEF IInv, BaseInv
  <2>2. files' = [files EXCEPT ![hdd] = [files[hdd] EXCEPT !.ids = files[hdd].ids \cup {run}]]
    BY <1>4
  <2>3. /\ DOMAIN files' = Partitions
        /\ \A p \in Partitions : p # hdd => files'[p] = files[p]
        /\ files'[hdd] = [files[hdd] EXCEPT !.ids = files[hdd].ids \cup {run}]
    BY <2>1, <2>2
  <2>4. /\ DOMAIN files'[hdd] = Fields
        /\ files'[hdd].ids = files[hdd].ids \cup {run}
        /\ files'[hdd].tar = files[hdd].tar /\ files'[hdd].core = files[hdd].core
        /\ files'[hdd].config = files[hdd].config /\ files'[hdd].load_cfg = files[hdd].load_cfg
    BY <2>1, <2>3 DEF Fields
  <2>5. BaseInv'
    BY <1>1, <2>1, <2>3, <2>4, FieldsOf DEF IInv, BaseInv
  <2>6. ImageInv'
    BY <1>1, <1>4, <2>1, <2>3, <2>4 DEF IInv, ImageInv, ImageFinds, Identifies, Names, Damaged
  <2>7. ArchiveInv'
    BY <1>1, <2>1, <2>3, <2>4 DEF IInv, ArchiveInv, ArchiveFits, Damaged, Mounted
  <2> QED BY <1>2, <2>5, <2>6, <2>7 DEF IInv
<1> QED BY <1>3, <1>4 DEF WriteId

\* load_cfg names a file that is there, or known to be missing: the one of this
\* run, or that of an earlier one if the packages were not unpacked again; or its
\* damage is on record.
LEMMA UuidStep ==
  ASSUME IInv, ReplaceUuid
  PROVE  IInv'
<1> DEFINE Fine(v) == Names(hdd, v) \/ Damaged(hdd, "load_cfg", v)
<1>1. step \in {"load_cfg", "load_cfg_write", "chdir"}
  BY DEF ReplaceUuid, write_back
<1>2. run \in Uuid /\ run \notin {Missing, Template, Cut} /\ part.p \in Partitions
  BY <1>1, InstallAssumption DEF IInv, BaseInv
<1>3. hdd \in Partitions => hdd # NoPart
  BY InstallAssumption
<1>4. /\ run' = run /\ hdd' = hdd /\ part' = part /\ astray' = astray /\ unwritten' = unwritten
      /\ step # "chdir" => cwd' = cwd /\ saved' = saved
  BY DEF ReplaceUuid, write_back, world, history
<1>5. ASSUME step' \in {"load_cfg_write", "chdir", "mkimage"}, torn \subseteq torn',
             files' = files \/ \E v : Changed("load_cfg", v)
      PROVE  BaseInv' /\ ArchiveInv' /\ ImageFinds'
  <2>1. /\ DOMAIN files' = Partitions
        /\ \A p \in Partitions : DOMAIN files'[p] = Fields
        /\ \A p \in Partitions : \A g \in Fields \ {"load_cfg"} : files'[p][g] = files[p][g]
    BY <1>5, FieldsOf DEF Changed, IInv, BaseInv
  <2>2. \A p \in Partitions : /\ files'[p].tar = files[p].tar /\ files'[p].core = files[p].core
                              /\ files'[p].ids = files[p].ids /\ files'[p].config = files[p].config
    BY <2>1 DEF Fields
  <2>3. BaseInv'
    BY <1>2, <1>4, <1>5, <2>1, FieldsOf DEF IInv, BaseInv
  <2>4. ArchiveInv'
    BY <1>1, <1>4, <1>5, <2>2 DEF IInv, ArchiveInv, ArchiveFits, Damaged, Mounted
  <2>5. ImageFinds'
    BY <1>4, <1>5, <2>2 DEF IInv, ImageInv, ImageFinds, Identifies
  <2> QED BY <2>3, <2>4, <2>5
<1>6. CASE step = "load_cfg"
  <2>1. replace_in_file("load_cfg", run, "load_cfg_write", "chdir")
    BY <1>6 DEF ReplaceUuid, write_back
  <2>2. \/ step' = "aborted" /\ files' = files /\ torn' = torn
        \/ /\ step' = "load_cfg_write" /\ torn' = torn
           /\ hdd \in Partitions /\ files[hdd].load_cfg # Missing /\ Changed("load_cfg", Cut)
           /\ str' = IF files[hdd].load_cfg = Template THEN run ELSE files[hdd].load_cfg
        \/ /\ step' = "chdir" /\ torn' = torn \cup {<<hdd, "load_cfg">>}
           /\ hdd \in Partitions /\ files[hdd].load_cfg # Missing /\ files' = files
    BY <2>1, ReplaceEffect DEF IInv, Fields
  <2>3. hdd # NoPart => Identifies(hdd, run)
    BY <1>6 DEF IInv, ImageInv
  <2>4. CwdInv'
    BY <1>4, <1>6, <2>2 DEF IInv, CwdInv
  <2>5. CASE step' = "aborted" /\ files' = files /\ torn' = torn
    <3>1. Kept(Told) /\ Recorded
      BY <1>4, <2>5, SameKept DEF IInv, Recorded
    <3> QED BY <1>4, <1>6, <2>5, <3>1, QuietStep DEF Mounted, AtWork
  <2>6. CASE /\ step' = "load_cfg_write" /\ torn' = torn
             /\ hdd \in Partitions /\ files[hdd].load_cfg # Missing /\ Changed("load_cfg", Cut)
             /\ str' = IF files[hdd].load_cfg = Template THEN run ELSE files[hdd].load_cfg
    <3>1. BaseInv' /\ ArchiveInv' /\ ImageFinds'
      BY <1>5, <2>6
    <3>2. /\ files'[hdd].load_cfg = Cut
          /\ \A p \in Partitions : p # hdd => files'[p].load_cfg = files[p].load_cfg
          /\ \A p \in Partitions : files'[p].ids = files[p].ids
      BY <2>6 DEF Changed, Fields
    <3>3. Fine(str')
      BY <1>2, <1>3, <1>6, <2>3, <2>6 DEF IInv, ImageInv, Names, Damaged
    <3>4. ImageInv'
      BY <1>3, <1>4, <1>6, <2>6, <3>1, <3>2, <3>3 DEF IInv, ImageInv, Identifies, Names, Damaged
    <3> QED BY <2>4, <3>1, <3>4 DEF IInv
  <2>7. CASE /\ step' = "chdir" /\ torn' = torn \cup {<<hdd, "load_cfg">>}
             /\ hdd \in Partitions /\ files[hdd].load_cfg # Missing /\ files' = files
    <3>1. BaseInv' /\ ArchiveInv' /\ ImageFinds'
      BY <1>5, <2>7
    <3>2. files[hdd].load_cfg \in {Template, Cut} \/ Names(hdd, files[hdd].load_cfg)
      BY <1>6, <2>7 DEF IInv, ImageInv, Damaged
    <3>3. ImageInv'
      BY <1>3, <1>4, <1>6, <2>7, <3>1, <3>2 DEF IInv, ImageInv, Identifies, Names, Damaged
    <3> QED BY <2>4, <3>1, <3>3 DEF IInv
  <2> QED BY <2>2, <2>5, <2>6, <2>7
<1>7. CASE step = "load_cfg_write"
  <2>1. write_back("load_cfg", "load_cfg_write", "chdir")
    BY <1>7 DEF ReplaceUuid
  <2>2. hdd # NoPart /\ files[hdd].load_cfg = Cut /\ Fine(str)
    BY <1>7 DEF IInv, ImageInv
  <2>3. /\ step' = "chdir" /\ hdd \in Partitions
        /\ \/ Changed("load_cfg", str) /\ torn' = torn
           \/ files' = files /\ torn' = torn \cup {<<hdd, "load_cfg">>}
    BY <2>1, <2>2, BackEffect DEF IInv, Fields
  <2>4. BaseInv' /\ ArchiveInv' /\ ImageFinds'
    BY <1>5, <2>3
  <2>5. CwdInv'
    BY <1>4, <1>7, <2>3 DEF IInv, CwdInv
  <2>6. CASE Changed("load_cfg", str) /\ torn' = torn
    <3>1. /\ files'[hdd].load_cfg = str
          /\ \A p \in Partitions : p # hdd => files'[p].load_cfg = files[p].load_cfg
          /\ \A p \in Partitions : files'[p].ids = files[p].ids
      BY <2>3, <2>6 DEF Changed, Fields
    <3>2. ImageInv'
      BY <1>4, <1>7, <2>2, <2>3, <2>4, <2>6, <3>1 DEF IInv, ImageInv, Identifies, Names, Damaged
    <3> QED BY <2>4, <2>5, <3>2 DEF IInv
  <2>7. CASE files' = files /\ torn' = torn \cup {<<hdd, "load_cfg">>}
    <3>1. ImageInv'
      BY <1>4, <1>7, <2>2, <2>3, <2>4, <2>7 DEF IInv, ImageInv, Identifies, Names, Damaged
    <3> QED BY <2>4, <2>5, <3>1 DEF IInv
  <2> QED BY <2>3, <2>6, <2>7
<1>8. CASE step = "chdir"
  <2>1. step' = "mkimage" /\ saved' = cwd /\ files' = files /\ torn' = torn
    BY <1>8 DEF ReplaceUuid, write_back, Goto, world, history
  <2>2. BaseInv' /\ ArchiveInv' /\ ImageFinds'
    BY <1>5, <2>1
  <2>3. ImageInv'
    BY <1>4, <1>8, <2>1, <2>2 DEF IInv, ImageInv, Identifies, Names, Damaged
  <2>4. CwdInv'
    BY <1>8, <2>1 DEF IInv, CwdInv
  <2> QED BY <2>2, <2>3, <2>4 DEF IInv
<1> QED BY <1>1, <1>6, <1>7, <1>8

\* The image takes load_cfg, which has no placeholder by then, or a damage on
\* record.
LEMMA ImageStep ==
  ASSUME IInv, MakeImage
  PROVE  IInv'
<1>1. /\ run' = run /\ hdd' = hdd /\ part' = part /\ cwd' = cwd /\ saved' = saved
      /\ astray' = astray /\ torn' = torn /\ unwritten' = unwritten
      /\ step = "mkimage" /\ step' = "bios"
      /\ files' = files \/ Write("core", File("load_cfg"))
  BY DEF MakeImage, Goto, Child, process, history
<1>2. /\ hdd \in Partitions /\ File("load_cfg") = files[hdd].load_cfg
      /\ Names(hdd, files[hdd].load_cfg) \/ Damaged(hdd, "load_cfg", files[hdd].load_cfg)
  BY <1>1 DEF IInv, BaseInv, ImageInv, File
<1>3. files' = files \/ Changed("core", files[hdd].load_cfg)
  BY <1>1, <1>2, WriteEffect DEF IInv, Fields
<1>4. CASE files' = files
  <2>1. Kept(Told) /\ Recorded
    BY <1>1, <1>4, SameKept DEF IInv, Recorded
  <2> QED BY <1>1, <2>1, QuietStep DEF Mounted, AtWork
<1>5. CASE Changed("core", files[hdd].load_cfg)
  <2>1. BaseInv'
    BY <1>1, <1>5, FieldsOf DEF IInv, BaseInv, Changed
  <2>2. \A p \in Partitions : /\ files'[p].config = files[p].config /\ files'[p].tar = files[p].tar
                              /\ files'[p].ids = files[p].ids /\ files'[p].load_cfg = files[p].load_cfg
                              /\ files'[p].core = IF p = hdd THEN files[hdd].load_cfg ELSE files[p].core
    BY <1>5 DEF Changed, Fields
  <2>3. ImageInv'
    BY <1>1, <1>2, <2>2 DEF IInv, ImageInv, ImageFinds, Identifies, Names, Damaged
  <2>4. ArchiveInv'
    BY <1>1, <2>2 DEF IInv, ArchiveInv, ArchiveFits, Damaged, Mounted
  <2>5. CwdInv'
    BY <1>1 DEF IInv, CwdInv
  <2> QED BY <2>1, <2>3, <2>4, <2>5 DEF IInv
<1> QED BY <1>3, <1>4, <1>5

\* The boot sector of the partition chosen is written.
LEMMA BootKept ==
  ASSUME BaseInv, part.p \in Partitions, files' = [files EXCEPT ![part.p] = [@ EXCEPT !.boot = TRUE]]
  PROVE  /\ Kept(Fields \ {"boot"}) /\ files'[part.p].boot = TRUE
         /\ \A p \in Partitions \ {part.p} : files'[p] = files[p]
<1>1. DOMAIN files = Partitions /\ \A p \in Partitions : DOMAIN files[p] = Fields
  BY FieldsOf DEF BaseInv
<1>2. /\ DOMAIN files' = Partitions
      /\ \A p \in Partitions : files'[p] = IF p = part.p THEN [files[p] EXCEPT !.boot = TRUE] ELSE files[p]
  BY <1>1
<1>3. DOMAIN files'[part.p] = Fields /\ files'[part.p].boot = TRUE
  BY <1>1, <1>2 DEF Fields
<1> QED BY <1>1, <1>2, <1>3 DEF Kept

\* The rest writes files the invariant does not look at; CWD is put back.
LEMMA LastSteps ==
  ASSUME IInv, InstallBootSector \/ MbrQuestion \/ write_answers \/ finalise_registry
  PROVE  IInv'
<1>1. CASE InstallBootSector
  <2>1. /\ run' = run /\ hdd' = hdd /\ part' = part /\ cwd' = cwd /\ saved' = saved
        /\ astray' = astray /\ torn' = torn /\ unwritten' = unwritten
        /\ step = "bios" /\ step' = "mbr?"
        /\ files' = files \/ files' = [files EXCEPT ![part.p] = [@ EXCEPT !.boot = TRUE]]
    BY <1>1 DEF InstallBootSector, Goto, process, history, Child
  <2>2. BaseInv /\ part.p \in Partitions
    BY <2>1 DEF IInv, BaseInv
  <2>3. Kept(Told)
    <3>1. CASE files' = files
      BY <2>2, <3>1, SameKept
    <3>2. CASE files' = [files EXCEPT ![part.p] = [@ EXCEPT !.boot = TRUE]]
      <4>1. Kept(Fields \ {"boot"})
        BY <2>2, <3>2, BootKept
      <4> QED BY <4>1 DEF Kept, Fields, Told
    <3> QED BY <2>1, <3>1, <3>2
  <2>4. Recorded
    BY <2>1 DEF Recorded
  <2> QED BY <2>1, <2>3, <2>4, QuietStep DEF Mounted, AtWork
<1>2. CASE MbrQuestion
  <2>1. /\ run' = run /\ hdd' = hdd /\ part' = part /\ files' = files
        /\ astray' = astray /\ torn' = torn /\ unwritten' = unwritten
        /\ step = "mbr?" /\ step' = "answers" /\ cwd' = saved
    BY <1>2 DEF MbrQuestion, Goto, Child, history
  <2>2. BaseInv'
    BY <2>1 DEF IInv, BaseInv
  <2>3. ImageInv'
    BY <2>1 DEF IInv, ImageInv, ImageFinds, Identifies, Names, Damaged
  <2>4. ArchiveInv'
    BY <2>1 DEF IInv, ArchiveInv, ArchiveFits, Damaged, Mounted
  <2>5. CwdInv'
    BY <2>1 DEF IInv, CwdInv
  <2> QED BY <2>2, <2>3, <2>4, <2>5 DEF IInv
<1>3. CASE write_answers
  <2>1. /\ run' = run /\ hdd' = hdd /\ part' = part /\ cwd' = cwd /\ saved' = saved
        /\ astray' = astray /\ torn \subseteq torn' /\ unwritten' = unwritten
        /\ step \in {"answers", "answers_write"} /\ step' \in {"aborted", "answers_write", "backup"}
        /\ files' = files \/ Write("setup", Cut) \/ Write("setup", str)
        /\ step' = "answers_write" => File("setup") # Missing
    BY <1>3 DEF write_answers, replace_in_file, write_back, Goto
  <2>2. Kept(Told) /\ Recorded
    BY <2>1, SameKept, OtherKept DEF IInv, Fields, Told, Recorded
  <2>3. step' = "answers_write" => hdd # NoPart
    BY <2>1 DEF File, NoFiles
  <2> QED BY <2>1, <2>2, <2>3, QuietStep DEF Mounted, AtWork
<1>4. CASE finalise_registry
  <2>1. /\ run' = run /\ hdd' = hdd /\ part' = part /\ cwd' = cwd /\ saved' = saved
        /\ astray' = astray /\ torn' = torn /\ unwritten' = unwritten
        /\ step \in {"backup", "kill"} /\ step' \in {"kill", "exit"}
        /\ files' = files \/ Write("db", TRUE)
    BY <1>4 DEF finalise_registry, Goto, Child, history
  <2>2. Kept(Told) /\ Recorded
    BY <2>1, SameKept, OtherKept DEF IInv, Fields, Told, Recorded
  <2> QED BY <2>1, <2>2, QuietStep DEF Mounted, AtWork
<1> QED BY <1>1, <1>2, <1>3, <1>4

-----------------------------------------------------------------------------
(* The theorems. *)

\* Every step of the installer, a new start and a power failure keep the
\* invariant.
THEOREM Installed == Spec => []IInv
<1>1. IInv /\ [Next]_vars => IInv'
  <2> SUFFICES ASSUME IInv, [Next]_vars PROVE IInv'
    OBVIOUS
  <2>1. CASE Next
    BY <2>1, EntrySteps, FormatStep, MountSteps, UnpackStep, ConfigureStep, ArchiveStep,
       IdStep, UuidStep, ImageStep, LastSteps DEF Next, main
  <2>2. CASE UNCHANGED vars
    <3>1. BaseInv' /\ CwdInv'
      BY <2>2 DEF vars, world, process, IInv, BaseInv, CwdInv
    <3>2. ImageInv'
      BY <2>2 DEF vars, world, process, history, IInv, ImageInv, ImageFinds, Identifies, Names, Damaged
    <3>3. ArchiveInv'
      BY <2>2 DEF vars, world, process, history, IInv, ArchiveInv, ArchiveFits, Damaged
    <3> QED BY <3>1, <3>2, <3>3 DEF IInv
  <2> QED BY <2>1, <2>2
<1> QED BY InitInv, <1>1, PTL DEF Spec

\* A GRUB image looks for an identification file that is not on its partition
\* only if that file could not be created, and has no UUID only if a rewriting of
\* load_cfg failed or was cut off (install.cpp, install_grub, replace_in_file):
\* for any number of runs and failures, cut off anywhere, on any number of
\* partitions.
THEOREM ImageAlwaysFinds == Spec => []ImageFinds
<1>1. IInv => ImageFinds
  BY DEF IInv, ImageInv
<1> QED BY Installed, <1>1, PTL

\* The archive made by make_tar names its own partition, unless a mount failed
\* unnoticed and left hdd: on that partition, or a rewriting of the configuration
\* failed or was cut off there.
THEOREM ArchiveAlwaysFits == Spec => []ArchiveFits
<1>1. IInv => ArchiveFits
  BY DEF IInv, ArchiveInv
<1> QED BY Installed, <1>1, PTL

\* install_grub puts CWD back whatever the answers and the failures.
THEOREM CwdAlwaysRestored == Spec => []CwdRestored
<1>1. IInv => CwdRestored
  BY DEF IInv, CwdInv, CwdRestored
<1> QED BY Installed, <1>1, PTL

-----------------------------------------------------------------------------
(* Types. *)

FilesTyped ==
  \A p \in Partitions :
    /\ files[p].config \in {Missing, Template, Cut} \cup Partitions
    /\ files[p].tar \in {Missing, Template, Cut} \cup Partitions
    /\ files[p].load_cfg \in {Missing, Template, Cut} \cup Uuid
    /\ files[p].core \in {Missing, Template, Cut} \cup Uuid
    /\ files[p].ids \subseteq Uuid

LEMMA KeptTyped ==
  ASSUME FilesTyped, Kept(Told)
  PROVE  FilesTyped'
BY DEF FilesTyped, Kept, Told

LEMMA ChangedTyped ==
  ASSUME FilesTyped, NEW f, NEW v, Changed(f, v),
         \/ f \in {"config", "tar"} /\ v \in {Missing, Template, Cut} \cup Partitions
         \/ f \in {"load_cfg", "core"} /\ v \in {Missing, Template, Cut} \cup Uuid
  PROVE  FilesTyped'
<1> SUFFICES ASSUME NEW p \in Partitions
             PROVE  /\ files'[p].config \in {Missing, Template, Cut} \cup Partitions
                    /\ files'[p].tar \in {Missing, Template, Cut} \cup Partitions
                    /\ files'[p].load_cfg \in {Missing, Template, Cut} \cup Uuid
                    /\ files'[p].core \in {Missing, Template, Cut} \cup Uuid
                    /\ files'[p].ids \subseteq Uuid
  BY DEF FilesTyped
<1>1. \A g \in Told : files'[p][g] = IF p = hdd /\ g = f THEN v ELSE files[p][g]
  BY DEF Changed, Told, Fields
<1> QED BY <1>1 DEF FilesTyped, Told

\* What replace_in_file has in memory is what will be in the file.
StrTyped ==
  /\ step = "configure_write" => str \in {Cut} \cup Partitions
  /\ step = "load_cfg_write" => str \in {Cut} \cup Uuid

LEMMA StrStaysTyped ==
  ASSUME IInv, FilesTyped, [Next]_vars, StrTyped
  PROVE  StrTyped'
<1>1. CASE configure_install
  <2>1. CASE step = "configure"
    <3>1. replace_in_file("config", part.p, "configure_write", "tar") /\ part.p \in Partitions
      BY <1>1, <2>1 DEF configure_install, write_back, IInv, BaseInv
    <3>2. step' \in {"aborted", "tar"} \/
          (/\ step' = "configure_write" /\ hdd \in Partitions /\ files[hdd].config # Missing
           /\ str' = IF files[hdd].config = Template THEN part.p ELSE files[hdd].config)
      BY <3>1, ReplaceEffect DEF IInv, Fields
    <3> QED BY <3>1, <3>2 DEF StrTyped, FilesTyped
  <2>2. CASE step # "configure"
    BY <1>1, <2>2 DEF configure_install, write_back, Goto, StrTyped
  <2> QED BY <2>1, <2>2
<1>2. CASE ReplaceUuid
  <2>1. CASE step = "load_cfg"
    <3>1. replace_in_file("load_cfg", run, "load_cfg_write", "chdir") /\ run \in Uuid
      BY <1>2, <2>1 DEF ReplaceUuid, write_back, IInv, BaseInv
    <3>2. step' \in {"aborted", "chdir"} \/
          (/\ step' = "load_cfg_write" /\ hdd \in Partitions /\ files[hdd].load_cfg # Missing
           /\ str' = IF files[hdd].load_cfg = Template THEN run ELSE files[hdd].load_cfg)
      BY <3>1, ReplaceEffect DEF IInv, Fields
    <3> QED BY <3>1, <3>2 DEF StrTyped, FilesTyped
  <2>2. CASE step # "load_cfg"
    BY <1>2, <2>2 DEF ReplaceUuid, write_back, Goto, StrTyped
  <2> QED BY <2>1, <2>2
<1>3. CASE UNCHANGED vars
  BY <1>3 DEF vars, process, StrTyped
<1>4. CASE ~configure_install /\ ~ReplaceUuid /\ Next
  <2>1. step' \notin {"configure_write", "load_cfg_write"}
    BY <1>4 DEF Next, main, Start, select_partition, FormatQuestion, mount_partition, setup_registry, copy_files,
       install_package, make_tar, WriteId, MakeImage, InstallBootSector, MbrQuestion, write_answers,
       replace_in_file, write_back, finalise_registry, Again, PowerFailure, Goto
  <2> QED BY <2>1 DEF StrTyped
<1> QED BY <1>1, <1>2, <1>3, <1>4

\* What a step of main may do to the files.
LEMMA FilesStayTyped ==
  ASSUME IInv, FilesTyped, StrTyped, [Next]_vars
  PROVE  FilesTyped'
<1>1. BaseInv
  BY DEF IInv
<1>2. CASE files' = files
  BY <1>1, <1>2, SameKept, KeptTyped
<1>3. CASE FormatQuestion
  <2>1. files' = files \/ files' = [files EXCEPT ![part.p] = NoFiles]
    BY <1>3 DEF FormatQuestion
  <2>2. part.p \in Partitions /\ DOMAIN files = Partitions
    BY <1>1, <1>3 DEF BaseInv, FormatQuestion
  <2>3. CASE files' = [files EXCEPT ![part.p] = NoFiles]
    <3>1. \A p \in Partitions : files'[p] = IF p = part.p THEN NoFiles ELSE files[p]
      BY <2>2, <2>3
    <3> QED BY <3>1 DEF FilesTyped, NoFiles
  <2> QED BY <1>2, <2>1, <2>3
<1>4. CASE copy_files
  <2>1. PICK templates \in SUBSET Fields, package \in Mounted, next \in Mounted :
           /\ install_package(package, templates, next)
           /\ templates \cap {"tar", "core", "ids"} = {}
    BY <1>4 DEF copy_files, Mounted, Fields
  <2>2. CASE files' # files
    <3>1. /\ hdd # NoPart
          /\ files' = [files EXCEPT ![hdd] = [f \in DOMAIN @ |-> IF f \in templates THEN Template ELSE @[f]]]
      BY <2>1, <2>2 DEF install_package, Child
    <3>2. hdd \in Partitions /\ DOMAIN files = Partitions /\ \A p \in Partitions : DOMAIN files[p] = Fields
      BY <1>1, <3>1, FieldsOf DEF BaseInv
    <3>3. /\ \A p \in Partitions : p # hdd => files'[p] = files[p]
          /\ files'[hdd] = [f \in Fields |-> IF f \in templates THEN Template ELSE files[hdd][f]]
      BY <3>1, <3>2
    <3>4. /\ files'[hdd].tar = files[hdd].tar /\ files'[hdd].core = files[hdd].core
          /\ files'[hdd].ids = files[hdd].ids
          /\ files'[hdd].config \in {Template, files[hdd].config}
          /\ files'[hdd].load_cfg \in {Template, files[hdd].load_cfg}
      BY <2>1, <3>3 DEF Fields
    <3> QED BY <3>2, <3>3, <3>4 DEF FilesTyped
  <2> QED BY <1>2, <2>2
<1>5. CASE configure_install
  <2>1. CASE step = "configure"
    <3>1. replace_in_file("config", part.p, "configure_write", "tar")
      BY <1>5, <2>1 DEF configure_install, write_back
    <3>2. files' = files \/ Changed("config", Cut)
      BY <1>1, <3>1, ReplaceEffect DEF Fields
    <3> QED BY <1>2, <3>2, ChangedTyped
  <2>2. CASE step # "configure"
    <3>1. write_back("config", "configure_write", "tar") /\ step = "configure_write"
      BY <1>5, <2>2 DEF configure_install, write_back
    <3>2. hdd # NoPart
      BY <3>1 DEF IInv, ArchiveInv
    <3>3. files' = files \/ Changed("config", str)
      BY <1>1, <3>1, <3>2, BackEffect DEF Fields
    <3> QED BY <1>2, <3>1, <3>3, ChangedTyped DEF StrTyped
  <2> QED BY <2>1, <2>2
<1>6. CASE make_tar
  <2>1. files' = files \/ Write("tar", File("config"))
    BY <1>6 DEF make_tar, Child
  <2>2. hdd # NoPart /\ hdd \in Partitions /\ File("config") = files[hdd].config
    BY <1>6 DEF make_tar, IInv, BaseInv, ArchiveInv, File
  <2>3. files' = files \/ Changed("tar", files[hdd].config)
    BY <1>1, <2>1, <2>2, WriteEffect DEF Fields
  <2> QED BY <1>2, <2>2, <2>3, ChangedTyped DEF FilesTyped
<1>7. CASE WriteId
  <2>1. files' = files \/ (hdd # NoPart /\ files' = [files EXCEPT ![hdd].ids = @ \cup {run}])
    BY <1>7 DEF WriteId
  <2>2. CASE hdd # NoPart /\ files' = [files EXCEPT ![hdd].ids = @ \cup {run}]
    <3>1. /\ hdd \in Partitions /\ DOMAIN files = Partitions /\ run \in Uuid
          /\ \A p \in Partitions : DOMAIN files[p] = Fields
      BY <1>1, <1>7, <2>2, FieldsOf DEF BaseInv, WriteId
    <3>2. files' = [files EXCEPT ![hdd] = [files[hdd] EXCEPT !.ids = files[hdd].ids \cup {run}]]
      BY <2>2
    <3>3. /\ \A p \in Partitions : p # hdd => files'[p] = files[p]
          /\ files'[hdd] = [files[hdd] EXCEPT !.ids = files[hdd].ids \cup {run}]
      BY <3>1, <3>2
    <3>4. /\ files'[hdd].ids = files[hdd].ids \cup {run}
          /\ files'[hdd].tar = files[hdd].tar /\ files'[hdd].core = files[hdd].core
          /\ files'[hdd].config = files[hdd].config /\ files'[hdd].load_cfg = files[hdd].load_cfg
      BY <3>1, <3>3 DEF Fields
    <3>5. ASSUME NEW p \in Partitions
          PROVE  /\ files'[p].config = files[p].config /\ files'[p].tar = files[p].tar
                 /\ files'[p].load_cfg = files[p].load_cfg /\ files'[p].core = files[p].core
                 /\ files'[p].ids \subseteq files[p].ids \cup {run}
      BY <3>3, <3>4
    <3> QED BY <3>1, <3>5 DEF FilesTyped
  <2> QED BY <1>2, <2>1, <2>2
<1>8. CASE ReplaceUuid
  <2>1. CASE step = "load_cfg"
    <3>1. replace_in_file("load_cfg", run, "load_cfg_write", "chdir")
      BY <1>8, <2>1 DEF ReplaceUuid, write_back
    <3>2. files' = files \/ Changed("load_cfg", Cut)
      BY <1>1, <3>1, ReplaceEffect DEF Fields
    <3> QED BY <1>2, <3>2, ChangedTyped
  <2>2. CASE step = "load_cfg_write"
    <3>1. write_back("load_cfg", "load_cfg_write", "chdir")
      BY <1>8, <2>2 DEF ReplaceUuid
    <3>2. hdd # NoPart
      BY <2>2 DEF IInv, ImageInv
    <3>3. files' = files \/ Changed("load_cfg", str)
      BY <1>1, <3>1, <3>2, BackEffect DEF Fields
    <3> QED BY <1>2, <2>2, <3>3, ChangedTyped DEF StrTyped
  <2>3. CASE step \notin {"load_cfg", "load_cfg_write"}
    BY <1>2, <1>8, <2>3 DEF ReplaceUuid, write_back, world
  <2> QED BY <2>1, <2>2, <2>3
<1>9. CASE MakeImage
  <2>1. files' = files \/ Write("core", File("load_cfg"))
    BY <1>9 DEF MakeImage, Child
  <2>2. hdd \in Partitions /\ hdd # NoPart /\ File("load_cfg") = files[hdd].load_cfg
    BY <1>9 DEF MakeImage, IInv, BaseInv, ImageInv, File
  <2>3. files' = files \/ Changed("core", files[hdd].load_cfg)
    BY <1>1, <2>1, <2>2, WriteEffect DEF Fields
  <2> QED BY <1>2, <2>2, <2>3, ChangedTyped DEF FilesTyped
<1>10. CASE write_answers \/ finalise_registry
  <2>1. files' = files \/ Write("setup", Cut) \/ Write("setup", str) \/ Write("db", TRUE)
    BY <1>10 DEF write_answers, finalise_registry, replace_in_file, write_back, Child
  <2> QED BY <1>1, <1>2, <2>1, OtherKept, KeptTyped DEF Fields, Told
<1>12. CASE InstallBootSector
  <2>1. files' = files \/ files' = [files EXCEPT ![part.p] = [@ EXCEPT !.boot = TRUE]]
    BY <1>12 DEF InstallBootSector, Child
  <2>2. CASE files' = [files EXCEPT ![part.p] = [@ EXCEPT !.boot = TRUE]]
    <3>1. Kept(Fields \ {"boot"})
      BY <1>1, <1>12, <2>2, BootKept DEF InstallBootSector, BaseInv
    <3>2. Kept(Told)
      BY <3>1 DEF Kept, Fields, Told
    <3> QED BY <3>2, KeptTyped
  <2> QED BY <1>2, <2>1, <2>2
<1>11. \/ files' = files \/ FormatQuestion \/ copy_files \/ configure_install \/ make_tar \/ WriteId
       \/ ReplaceUuid \/ MakeImage \/ InstallBootSector \/ write_answers \/ finalise_registry
  BY DEF Next, main, Start, select_partition, mount_partition, setup_registry, MbrQuestion, Child,
     Again, PowerFailure, vars, world
<1> QED BY <1>2, <1>3, <1>4, <1>5, <1>6, <1>7, <1>8, <1>9, <1>10, <1>11, <1>12

\* The rest of the state, one action after the other.
LEMMA ProcessStaysTyped ==
  ASSUME IInv, TypeOK, [Next]_vars
  PROVE  /\ step' \in Steps /\ fs' \in [Partitions -> Fs]
         /\ part'.p \in Partitions \cup {NoPart} /\ part'.fs \in Fs
         /\ registry' \in {"none", "running", "killed"}
         /\ failed' \in Nat /\ astray' \subseteq Partitions
         /\ torn' \subseteq Partitions \X {"config", "load_cfg", "setup"} /\ unwritten' \subseteq Partitions \X Uuid
<1>1. step' \in Steps
  <2>1. CASE copy_files
    BY <2>1 DEF copy_files, install_package, Goto, Steps
  <2>2. CASE configure_install \/ ReplaceUuid \/ write_answers
    BY <2>2 DEF configure_install, ReplaceUuid, write_answers, replace_in_file, write_back, Goto, Steps
  <2>3. CASE \/ Start \/ select_partition \/ FormatQuestion \/ mount_partition \/ setup_registry \/ make_tar
             \/ WriteId \/ MakeImage \/ InstallBootSector \/ MbrQuestion \/ finalise_registry
             \/ Again \/ PowerFailure
    BY <2>3 DEF Start, select_partition, FormatQuestion, mount_partition, setup_registry, make_tar, WriteId,
       MakeImage, InstallBootSector, MbrQuestion, finalise_registry, Again, PowerFailure, Goto, Steps
  <2>4. CASE UNCHANGED vars
    BY <2>4 DEF vars, TypeOK
  <2> QED BY <2>1, <2>2, <2>3, <2>4 DEF Next, main
<1>2. fs' \in [Partitions -> Fs]
  <2>1. CASE FormatQuestion
    <3>1. fs' = fs \/ fs' = [fs EXCEPT ![part.p] = "fat16"]
      BY <2>1 DEF FormatQuestion
    <3> QED BY <3>1 DEF TypeOK, Fs
  <2>2. CASE ~FormatQuestion
    <3>1. fs' = fs
      BY <2>2 DEF Next, main, Start, select_partition, mount_partition, setup_registry, copy_files, install_package,
         configure_install, make_tar, WriteId, ReplaceUuid, MakeImage, InstallBootSector, MbrQuestion,
         write_answers, write_back, finalise_registry, Again, PowerFailure, vars, world
    <3> QED BY <3>1 DEF TypeOK
  <2> QED BY <2>1, <2>2
<1>3. part'.p \in Partitions \cup {NoPart} /\ part'.fs \in Fs
  <2>1. CASE Start
    <3>1. part' = [p |-> NoPart, fs |-> "ext2"]
      BY <2>1 DEF Start
    <3> QED BY <3>1 DEF Fs
  <2>2. CASE select_partition
    <3>1. part' = part \/ \E p \in Partitions : part' = [p |-> p, fs |-> fs[p]]
      BY <2>2, Zenon DEF select_partition
    <3>2. ASSUME NEW p \in Partitions, part' = [p |-> p, fs |-> fs[p]]
          PROVE  part'.p \in Partitions \cup {NoPart} /\ part'.fs \in Fs
      BY <3>2 DEF TypeOK
    <3> QED BY <3>1, <3>2 DEF TypeOK
  <2>3. CASE ~Start /\ ~select_partition
    <3>1. part' = part
      BY <2>3 DEF Next, main, FormatQuestion, mount_partition, setup_registry, copy_files, install_package,
         configure_install, make_tar, WriteId, ReplaceUuid, MakeImage, InstallBootSector, MbrQuestion,
         write_answers, write_back, finalise_registry, Again, PowerFailure, vars, process
    <3> QED BY <3>1 DEF TypeOK
  <2> QED BY <2>1, <2>2, <2>3
<1>4. registry' \in {"none", "running", "killed"}
  BY DEF TypeOK, Next, main, Start, select_partition, FormatQuestion, mount_partition, setup_registry, copy_files,
     install_package, configure_install, make_tar, WriteId, ReplaceUuid, MakeImage, InstallBootSector,
     MbrQuestion, write_answers, write_back, finalise_registry, Again, PowerFailure, vars, process
<1>5. failed' \in Nat
  <2>1. failed' = failed \/ failed' = failed + 1 \/ failed' = 0
    BY DEF Next, main, Start, select_partition, FormatQuestion, mount_partition, setup_registry, copy_files,
       install_package, configure_install, make_tar, WriteId, ReplaceUuid, MakeImage, InstallBootSector, MbrQuestion,
       write_answers, replace_in_file, write_back, finalise_registry, Again, PowerFailure, vars, Child, Unnoticed
  <2>2. failed \in Nat
    BY DEF TypeOK
  <2> QED BY <2>1, <2>2
<1>6. astray' \subseteq Partitions
  <2>1. CASE mount_partition
    <3>1. /\ hdd' \in {hdd, part.p} /\ part.p \in Partitions
          /\ astray' = IF hdd' \in {NoPart, part.p} THEN astray ELSE astray \cup {hdd'}
      BY <2>1 DEF mount_partition, IInv, BaseInv
    <3> QED BY <3>1 DEF TypeOK
  <2>2. CASE ~mount_partition
    <3>1. astray' = astray
      BY <2>2 DEF Next, main, Start, select_partition, FormatQuestion, setup_registry, copy_files,
         install_package, configure_install, make_tar, WriteId, ReplaceUuid, MakeImage, InstallBootSector,
         MbrQuestion, write_answers, write_back, finalise_registry, Again, PowerFailure, vars, history
    <3> QED BY <3>1 DEF TypeOK
  <2> QED BY <2>1, <2>2
<1>7. torn' \subseteq Partitions \X {"config", "load_cfg", "setup"}
  <2>1. torn \subseteq Partitions \X {"config", "load_cfg", "setup"} /\ BaseInv
    BY DEF TypeOK, IInv
  <2>2. CASE configure_install \/ ReplaceUuid \/ write_answers
    <3>1. PICK f \in {"config", "load_cfg", "setup"} :
             torn' \in {torn, torn \cup {<<hdd, f>>}} /\ (torn' = torn \/ hdd # NoPart)
      <4>1. \A f \in {"config", "load_cfg", "setup"} : File(f) # Missing => hdd # NoPart
        BY DEF File, NoFiles
      <4>2. step \in {"configure_write", "load_cfg_write", "answers_write"} => hdd # NoPart
        BY DEF IInv, ArchiveInv, ImageInv, BaseInv
      <4> QED BY <2>2, <4>1, <4>2 DEF configure_install, ReplaceUuid, write_answers, replace_in_file, write_back, history
    <3>2. torn' = torn \/ hdd \in Partitions
      BY <2>1, <3>1 DEF BaseInv
    <3> QED BY <2>1, <3>1, <3>2
  <2>3. CASE PowerFailure
    <3>1. torn' = torn \cup Open
      BY <2>3 DEF PowerFailure
    <3>2. step \in {"configure_write", "load_cfg_write", "answers_write"} => hdd \in Partitions
      BY <2>1 DEF IInv, BaseInv, ArchiveInv, ImageInv
    <3> QED BY <2>1, <3>1, <3>2 DEF Open
  <2>4. CASE ~(configure_install \/ ReplaceUuid \/ write_answers \/ PowerFailure)
    <3>1. torn' = torn
      BY <2>4 DEF Next, main, Start, select_partition, FormatQuestion, mount_partition, setup_registry, copy_files,
         install_package, make_tar, WriteId, MakeImage, InstallBootSector, MbrQuestion, finalise_registry, Again,
         vars, history
    <3> QED BY <2>1, <3>1
  <2> QED BY <2>2, <2>3, <2>4
<1>8. unwritten' \subseteq Partitions \X Uuid
  <2>1. CASE WriteId
    <3>1. unwritten' = unwritten \/ (hdd # NoPart /\ unwritten' = unwritten \cup {<<hdd, run>>})
      BY <2>1 DEF WriteId
    <3>2. run \in Uuid /\ (hdd # NoPart => hdd \in Partitions)
      BY <2>1 DEF WriteId, IInv, BaseInv
    <3> QED BY <3>1, <3>2 DEF TypeOK
  <2>2. CASE ~WriteId
    <3>1. unwritten' = unwritten
      BY <2>2 DEF Next, main, Start, select_partition, FormatQuestion, mount_partition, setup_registry, copy_files,
         install_package, configure_install, make_tar, ReplaceUuid, MakeImage, InstallBootSector, MbrQuestion,
         write_answers, write_back, finalise_registry, Again, PowerFailure, vars, history
    <3> QED BY <3>1 DEF TypeOK
  <2> QED BY <2>1, <2>2
<1> QED BY <1>1, <1>2, <1>3, <1>4, <1>5, <1>6, <1>7, <1>8

\* The types of the installer's state, on any number of partitions.
THEOREM TypeCorrect == Spec => []TypeOK
<1>1. Init /\ IInv => TypeOK
  <2> SUFFICES ASSUME Init, IInv PROVE TypeOK
    OBVIOUS
  <2>1. DOMAIN files = Partitions /\ \A p \in Partitions : files[p] = NoFiles
    BY DEF Init
  <2>2. FilesTyped
    BY <2>1 DEF FilesTyped, NoFiles
  <2>3. part.p \in Partitions \cup {NoPart} /\ part.fs \in Fs
    BY DEF Init, Fs
  <2>4. fs \in [Partitions -> Fs]
    BY InstallAssumption DEF Init
  <2> QED BY <2>2, <2>3, <2>4 DEF Init, IInv, BaseInv, TypeOK, FilesTyped, Steps
<1>2. IInv /\ IInv' /\ TypeOK /\ [Next]_vars => TypeOK'
  <2> SUFFICES ASSUME IInv, IInv', TypeOK, [Next]_vars PROVE TypeOK'
    OBVIOUS
  <2>1. FilesTyped'
    BY FilesStayTyped DEF TypeOK, FilesTyped, StrTyped
  <2>2. run' \in 0 .. MaxRuns /\ hdd' \in Partitions \cup {NoPart}
    BY DEF IInv, BaseInv
  <2>3. StrTyped'
    BY StrStaysTyped DEF TypeOK, FilesTyped, StrTyped
  <2> QED BY <2>1, <2>2, <2>3, ProcessStaysTyped, Zenon DEF TypeOK, FilesTyped, StrTyped
<1> QED BY Installed, <1>1, <1>2, PTL DEF Spec

-----------------------------------------------------------------------------
(* What a run without a failure has done. *)

\* Where the run is; "done" only if it came to its end, not if it was left.
At == IF step = "exit" /\ registry # "none" THEN "done" ELSE step

Backed     == {"kill", "done"}
Answered   == {"backup"} \cup Backed
Offered    == {"answers", "answers_write"} \cup Answered
Bootable   == {"mbr?"} \cup Offered
Imaged     == {"bios"} \cup Bootable
Identified == {"chdir", "mkimage"} \cup Imaged
Archived   == {"uuid", "load_cfg", "load_cfg_write"} \cup Identified
Configured == {"tar"} \cup Archived
Unpacked   == {"configure", "configure_write"} \cup Configured
HasKernel  == {"install"} \cup Unpacked
HasBase    == {"kernel"} \cup HasKernel
Registered == {"base"} \cup HasBase
OnHdd      == {"registry"} \cup Registered

\* The file f of the partition that was chosen.
Its(f) == files[part.p][f]

PlaceInv == At \in OnHdd => /\ part.p \in Partitions /\ hdd = part.p /\ fs[part.p] = "fat16" /\ part.fs \in Fs
                            /\ At \in Registered \ {"done"} => registry = "running"
ConfigInv ==
  /\ At \in HasBase => Its("reg") = Template
  /\ At \in HasKernel => Its("grub") = Template
  /\ At \in {"install", "configure"} => Its("config") = Template
  /\ At = "configure_write" => str = part.p
  /\ At \in Configured => Its("config") = part.p
  /\ At \in Archived => Its("tar") = part.p
GrubInv ==
  /\ At \in HasKernel \ ({"load_cfg_write"} \cup Identified) => Its("load_cfg") = Template
  /\ At = "load_cfg_write" => str = run
  /\ At \in Identified => Its("load_cfg") = run
  /\ At \in Imaged => Its("core") = run
RecordInv ==
  /\ At \in Unpacked \ ({"answers_write"} \cup Answered) => Its("setup") = Template
  /\ At = "answers_write" => str = Answers
  /\ At \in Answered => Its("setup") = Answers
FlagInv ==
  /\ At \in Bootable => Its("boot") = TRUE
  /\ At \in Offered => (yesno(line, "y") => DeviceOf[part.p] \in mbr)
  /\ At \in Backed => Its("db") = TRUE

DoneInv == PlaceInv /\ ConfigInv /\ GrubInv /\ RecordInv /\ FlagInv

\* A run has no registry before it starts one.
NoneYet == step \in {"select", "format?", "mount", "registry"} => registry = "none"

RunInv == NoneYet /\ (failed = 0 => DoneInv)

\* A failure counts.
LEMMA Counted ==
  ASSUME TypeOK
  PROVE  Unnoticed => failed' # 0
<1>1. failed \in Nat
  BY DEF TypeOK
<1> QED BY <1>1 DEF Unnoticed

\* Before the partition is mounted, and when a run is over, nothing is said.
LEMMA Nowhere ==
  ASSUME At' \notin OnHdd
  PROVE  DoneInv'
<1> USE DEF OnHdd, Registered, HasBase, HasKernel, Unpacked, Configured, Archived, Identified, Imaged, Bootable, Offered,
            Answered, Backed
<1>1. PlaceInv' /\ ConfigInv'
  BY DEF PlaceInv, ConfigInv
<1>2. GrubInv' /\ RecordInv'
  BY DEF GrubInv, RecordInv
<1>3. FlagInv'
  BY DEF FlagInv
<1> QED BY <1>1, <1>2, <1>3 DEF DoneInv

\* What Write does to the files of the partition.
LEMMA ItsWritten ==
  ASSUME BaseInv, hdd = part.p, part.p \in Partitions, part' = part, NEW f \in Fields, NEW v, Write(f, v)
  PROVE  \A g \in Fields : Its(g)' = IF g = f THEN v ELSE Its(g)
<1>1. hdd # NoPart
  BY InstallAssumption
<1>2. Changed(f, v)
  BY <1>1, WriteEffect
<1>3. SUFFICES ASSUME NEW g \in Fields PROVE files'[part'.p][g] = IF g = f THEN v ELSE files[part.p][g]
  BY DEF Its
<1> QED BY <1>2 DEF Changed

\* The steps around the work on the partition.
LEMMA RunBegins ==
  ASSUME RunInv, Start \/ select_partition \/ FormatQuestion \/ Again \/ PowerFailure
  PROVE  NoneYet' /\ DoneInv'
<1>1. CASE Start
  BY <1>1, Nowhere DEF Start, Goto, At, NoneYet, OnHdd, Registered, HasBase, HasKernel, Unpacked, Configured,
     Archived, Identified, Imaged, Bootable, Offered, Answered, Backed
<1>2. CASE select_partition \/ FormatQuestion
  <2>1. step \in {"select", "format?"} /\ step' \in {"exit", "aborted", "format?", "mount"} /\ registry' = registry
    BY <1>2 DEF select_partition, FormatQuestion, Goto
  <2>2. registry' = "none"
    BY <2>1 DEF RunInv, NoneYet
  <2> QED BY <2>1, <2>2, Nowhere DEF At, NoneYet, OnHdd, Registered, HasBase, HasKernel, Unpacked, Configured,
     Archived, Identified, Imaged, Bootable, Offered, Answered, Backed
<1>3. CASE Again \/ PowerFailure
  <2>1. step' = "idle"
    BY <1>3 DEF Again, PowerFailure, Goto
  <2> QED BY <2>1, Nowhere DEF At, NoneYet, OnHdd, Registered, HasBase, HasKernel, Unpacked, Configured,
     Archived, Identified, Imaged, Bootable, Offered, Answered, Backed
<1> QED BY <1>1, <1>2, <1>3

\* The partition is mounted, the registry started.
LEMMA RunMounts ==
  ASSUME IInv, TypeOK, RunInv, failed' = 0, mount_partition \/ setup_registry
  PROVE  NoneYet' /\ DoneInv'
<1> USE DEF OnHdd, Registered, HasBase, HasKernel, Unpacked, Configured, Archived, Identified, Imaged, Bootable, Offered,
            Answered, Backed
<1>1. CASE mount_partition
  <2>1. step = "mount" /\ step' = "registry" /\ registry' = registry /\ part' = part /\ fs' = fs
    BY <1>1 DEF mount_partition, Goto
  <2>2. fs[part.p] = "fat16" /\ hdd' = part.p
    <3>1. failed \in Nat
      BY DEF TypeOK
    <3>2. failed' = failed + 1 => failed' # 0
      BY <3>1
    <3> QED BY <1>1, <3>2, Counted, Zenon DEF mount_partition
  <2>3. part.p \in Partitions /\ part.fs \in Fs
    BY <2>1 DEF IInv, BaseInv, TypeOK
  <2>4. NoneYet' /\ At' = "registry"
    BY <2>1 DEF RunInv, NoneYet, At
  <2>5. PlaceInv' /\ ConfigInv'
    BY <2>1, <2>2, <2>3, <2>4 DEF PlaceInv, ConfigInv
  <2>6. GrubInv' /\ RecordInv'
    BY <2>4 DEF GrubInv, RecordInv
  <2>7. FlagInv'
    BY <2>4 DEF FlagInv
  <2> QED BY <2>4, <2>5, <2>6, <2>7 DEF DoneInv
<1>2. CASE setup_registry
  <2>1. step = "registry" /\ step' = "base" /\ part' = part /\ fs' = fs /\ hdd' = hdd
    BY <1>2 DEF setup_registry, Goto, world
  <2>2. registry' = "running" /\ failed = 0
    BY <1>2, Counted, Zenon DEF setup_registry
  <2>3. DoneInv
    BY <2>2, Zenon DEF RunInv
  <2>4. NoneYet' /\ At' = "base" /\ At = "registry"
    BY <2>1 DEF NoneYet, At
  <2>5. PlaceInv' /\ ConfigInv'
    BY <2>1, <2>2, <2>3, <2>4 DEF DoneInv, PlaceInv, ConfigInv
  <2>6. GrubInv' /\ RecordInv'
    BY <2>4 DEF GrubInv, RecordInv
  <2>7. FlagInv'
    BY <2>4 DEF FlagInv
  <2> QED BY <2>4, <2>5, <2>6, <2>7 DEF DoneInv
<1> QED BY <1>1, <1>2

\* A package puts its files on the partition.
LEMMA RunUnpacks ==
  ASSUME IInv, TypeOK, RunInv, failed' = 0, copy_files
  PROVE  NoneYet' /\ DoneInv'
<1> USE DEF OnHdd, Registered, HasBase, HasKernel, Unpacked, Configured, Archived, Identified, Imaged, Bootable, Offered,
            Answered, Backed
<1>1. PICK package \in {"base", "kernel", "install"}, templates \in SUBSET Fields, next \in {"kernel", "install", "configure"} :
         /\ install_package(package, templates, next)
         /\ <<package, templates, next>> \in {<<"base", {"reg"}, "kernel">>,
              <<"kernel", {"config", "load_cfg", "grub"}, "install">>, <<"install", {"setup"}, "configure">>}
  BY DEF copy_files, Fields
<1>2. step = package /\ step' = next /\ run' = run /\ fs' = fs /\ hdd' = hdd /\ part' = part /\ registry' = registry
  BY <1>1 DEF install_package, Goto, process
<1>3. failed = 0
  BY <1>1, Counted, Zenon DEF install_package, Child
<1>4. DoneInv /\ At = package /\ At' = next
  BY <1>1, <1>2, <1>3, Zenon DEF RunInv, At
<1>5. PlaceInv /\ part.p \in Partitions /\ hdd = part.p /\ hdd # NoPart
  BY <1>1, <1>4, InstallAssumption DEF DoneInv, PlaceInv
<1>6. files' = [files EXCEPT ![hdd] = [f \in DOMAIN @ |-> IF f \in templates THEN Template ELSE @[f]]]
  BY <1>1, <1>5, Counted, Zenon DEF install_package, Child
<1>7. DOMAIN files = Partitions /\ DOMAIN files[part.p] = Fields
  BY <1>5, FieldsOf DEF IInv, BaseInv
<1>8. files'[part.p] = [f \in Fields |-> IF f \in templates THEN Template ELSE files[part.p][f]]
  BY <1>5, <1>6, <1>7
<1>9. \A g \in Fields : Its(g)' = IF g \in templates THEN Template ELSE Its(g)
  BY <1>2, <1>8 DEF Its
<1>10. NoneYet'
  BY <1>1, <1>2 DEF NoneYet
<1>11. PlaceInv'
  BY <1>1, <1>2, <1>4, <1>5 DEF PlaceInv
<1>12. ConfigInv'
  BY <1>1, <1>4, <1>9 DEF DoneInv, ConfigInv, Fields
<1>13. GrubInv'
  BY <1>1, <1>4, <1>9 DEF DoneInv, GrubInv, Fields
<1>14. RecordInv'
  BY <1>1, <1>4, <1>9 DEF DoneInv, RecordInv, Fields
<1>15. FlagInv'
  BY <1>1, <1>4 DEF FlagInv
<1> QED BY <1>10, <1>11, <1>12, <1>13, <1>14, <1>15 DEF DoneInv

\* Every later step of a run without a failure stays on the partition.
LEMMA RunGoesOn ==
  ASSUME DoneInv, At \in Unpacked \ {"done"}, At' \in Unpacked, registry' = registry \/ At' = "done",
         part' = part, fs' = fs, hdd' = hdd
  PROVE  /\ hdd = part.p /\ part.p \in Partitions /\ registry = "running"
         /\ NoneYet' /\ PlaceInv' /\ Answers' = Answers
<1>1. At \in OnHdd /\ At' \in OnHdd /\ At' \in Registered
  BY DEF OnHdd, Registered, HasBase, HasKernel, Unpacked, Configured
<1>2. part.p \in Partitions /\ hdd = part.p /\ fs[part.p] = "fat16" /\ part.fs \in Fs /\ registry = "running"
  BY <1>1 DEF DoneInv, PlaceInv, OnHdd, Registered, HasBase, HasKernel
<1>3. PlaceInv'
  BY <1>1, <1>2 DEF PlaceInv
<1>4. NoneYet'
  BY DEF NoneYet, At, Unpacked, Configured, Archived, Identified, Imaged, Bootable, Offered, Answered, Backed
<1>5. Answers' = Answers
  BY DEF Answers
<1> QED BY <1>2, <1>3, <1>4, <1>5

LEMMA ItsKept ==
  ASSUME files' = files, part' = part
  PROVE  \A g \in Fields : Its(g)' = Its(g)
BY DEF Its

\* A file that is as the package has it is truncated and will get the value.
LEMMA ItsReplaced ==
  ASSUME BaseInv, TypeOK, failed' = 0, hdd = part.p, part.p \in Partitions, part' = part,
         NEW f \in Fields, NEW v, NEW write, NEW next, Its(f) = Template, replace_in_file(f, v, write, next)
  PROVE  step' = write /\ str' = v /\ failed' = failed /\ \A g \in Fields \ {f} : Its(g)' = Its(g)
<1>1. File(f) = Template /\ Template # Missing
  BY InstallAssumption DEF File, Its
<1>2. step' = write /\ str' = v /\ failed' = failed /\ Write(f, Cut)
  BY <1>1, Counted DEF replace_in_file, Goto
<1> QED BY <1>2, ItsWritten

LEMMA ItsBack ==
  ASSUME BaseInv, TypeOK, failed' = 0, hdd = part.p, part.p \in Partitions,
         NEW f \in Fields, NEW write, NEW next, write_back(f, write, next)
  PROVE  /\ step = write /\ step' = next /\ failed' = failed
         /\ run' = run /\ fs' = fs /\ hdd' = hdd /\ part' = part /\ registry' = registry /\ line' = line /\ mbr' = mbr
         /\ \A g \in Fields : Its(g)' = IF g = f THEN str ELSE Its(g)
<1>1. /\ step = write /\ step' = next
      /\ run' = run /\ fs' = fs /\ hdd' = hdd /\ part' = part /\ registry' = registry /\ line' = line /\ mbr' = mbr
  BY DEF write_back, Goto
<1>2. Write(f, str) /\ failed' = failed
  BY Counted, Zenon DEF write_back
<1> QED BY <1>1, <1>2, ItsWritten

\* Before the last steps a run is where step says.
LEMMA Going ==
  ASSUME RunInv, failed = 0, step \in Unpacked \ {"done"}
  PROVE  /\ DoneInv /\ At = step
         /\ part.p \in Partitions /\ hdd = part.p /\ hdd # NoPart
<1>1. At = step
  BY DEF At, Unpacked, Configured, Archived, Identified, Imaged, Bootable, Offered, Answered, Backed
<1>2. DoneInv
  BY Zenon DEF RunInv
<1>3. At \in OnHdd
  BY <1>1 DEF OnHdd, Registered, HasBase, HasKernel
<1> QED BY <1>1, <1>2, <1>3, InstallAssumption DEF DoneInv, PlaceInv

\* The configuration and its archive.
LEMMA RunConfigures ==
  ASSUME IInv, TypeOK, RunInv, failed' = 0, configure_install \/ make_tar
  PROVE  NoneYet' /\ DoneInv'
<1> USE DEF HasKernel, Unpacked, Configured, Archived, Identified, Imaged, Bootable, Offered, Answered, Backed
<1>1. CASE configure_install /\ step = "configure"
  <2>1. /\ run' = run /\ fs' = fs /\ hdd' = hdd /\ part' = part /\ registry' = registry
        /\ replace_in_file("config", part.p, "configure_write", "tar")
    BY <1>1 DEF configure_install, write_back
  <2>2. failed = 0
    BY <2>1, Counted, Zenon DEF replace_in_file
  <2>3. DoneInv /\ At = "configure" /\ part.p \in Partitions /\ hdd = part.p
    BY <1>1, <2>2, Going
  <2>4. Its("config") = Template
    BY <2>3 DEF DoneInv, ConfigInv
  <2>5. step' = "configure_write" /\ str' = part.p /\ \A g \in Fields \ {"config"} : Its(g)' = Its(g)
    BY <2>1, <2>3, <2>4, ItsReplaced DEF IInv, Fields
  <2>6. At' = "configure_write"
    BY <2>5 DEF At
  <2>7. NoneYet' /\ PlaceInv' /\ Answers' = Answers
    BY <2>1, <2>3, <2>6, RunGoesOn
  <2>8. ConfigInv'
    BY <2>1, <2>3, <2>5, <2>6 DEF DoneInv, ConfigInv, HasBase, Fields
  <2>9. GrubInv' /\ RecordInv'
    BY <2>3, <2>5, <2>6 DEF DoneInv, GrubInv, RecordInv, Fields
  <2>10. FlagInv'
    BY <2>6 DEF FlagInv
  <2> QED BY <2>7, <2>8, <2>9, <2>10 DEF DoneInv
<1>3. CASE configure_install /\ step # "configure"
  <2>1. write_back("config", "configure_write", "tar")
    BY <1>3 DEF configure_install
  <2>2. failed = 0 /\ step = "configure_write"
    BY <2>1, Counted, Zenon DEF write_back
  <2>3. DoneInv /\ At = "configure_write" /\ part.p \in Partitions /\ hdd = part.p
    BY <2>2, Going
  <2>4. str = part.p
    BY <2>3 DEF DoneInv, ConfigInv
  <2>5. /\ step' = "tar" /\ run' = run /\ fs' = fs /\ hdd' = hdd /\ part' = part /\ registry' = registry
        /\ \A g \in Fields : Its(g)' = IF g = "config" THEN part.p ELSE Its(g)
    BY <2>1, <2>3, <2>4, ItsBack DEF IInv, Fields
  <2>6. At' = "tar"
    BY <2>5 DEF At
  <2>7. NoneYet' /\ PlaceInv' /\ Answers' = Answers
    BY <2>3, <2>5, <2>6, RunGoesOn
  <2>8. ConfigInv'
    BY <2>3, <2>5, <2>6 DEF DoneInv, ConfigInv, HasBase, Fields
  <2>9. GrubInv' /\ RecordInv'
    BY <2>3, <2>5, <2>6 DEF DoneInv, GrubInv, RecordInv, Fields
  <2>10. FlagInv'
    BY <2>6 DEF FlagInv
  <2> QED BY <2>7, <2>8, <2>9, <2>10 DEF DoneInv
<1>2. CASE make_tar
  <2>1. step = "tar" /\ step' = "uuid" /\ run' = run /\ fs' = fs /\ hdd' = hdd /\ part' = part /\ registry' = registry
    BY <1>2 DEF make_tar, Goto
  <2>2. failed = 0
    BY <1>2, Counted, Zenon DEF make_tar, Child
  <2>3. DoneInv /\ At = "tar" /\ At' = "uuid"
    BY <2>1, <2>2 DEF RunInv, At
  <2>4. NoneYet' /\ PlaceInv' /\ Answers' = Answers /\ part.p \in Partitions /\ hdd = part.p /\ hdd # NoPart
    BY <2>1, <2>3, RunGoesOn, InstallAssumption
  <2>5. Write("tar", File("config"))
    BY <1>2, <2>4, Counted, Zenon DEF make_tar, Child
  <2>6. File("config") = part.p
    BY <2>3, <2>4 DEF File, Its, DoneInv, ConfigInv
  <2>7. \A g \in Fields : Its(g)' = IF g = "tar" THEN part.p ELSE Its(g)
    BY <2>1, <2>4, <2>5, <2>6, ItsWritten DEF IInv, Fields
  <2>8. ConfigInv'
    BY <2>1, <2>3, <2>7 DEF DoneInv, ConfigInv, HasBase, Fields
  <2>9. GrubInv' /\ RecordInv'
    BY <2>3, <2>7 DEF DoneInv, GrubInv, RecordInv, Fields
  <2>10. FlagInv'
    BY <2>3 DEF FlagInv
  <2> QED BY <2>4, <2>8, <2>9, <2>10 DEF DoneInv
<1> QED BY <1>1, <1>2, <1>3

\* The identification file, load_cfg, the image.
LEMMA RunIdentifies ==
  ASSUME IInv, TypeOK, RunInv, failed' = 0, WriteId \/ ReplaceUuid \/ MakeImage
  PROVE  NoneYet' /\ DoneInv'
<1> USE DEF HasKernel, Unpacked, Configured, Archived, Identified, Imaged, Bootable, Offered, Answered, Backed
<1>1. CASE WriteId
  <2>1. step = "uuid" /\ step' = "load_cfg" /\ run' = run /\ fs' = fs /\ hdd' = hdd /\ part' = part /\ registry' = registry
    BY <1>1 DEF WriteId, Goto, process
  <2>2. failed = 0 /\ (hdd # NoPart => files' = [files EXCEPT ![hdd].ids = @ \cup {run}])
    BY <1>1, Counted, Zenon DEF WriteId
  <2>3. DoneInv /\ At = "uuid" /\ At' = "load_cfg"
    BY <2>1, <2>2, Zenon DEF RunInv, At
  <2>4. NoneYet' /\ PlaceInv' /\ Answers' = Answers /\ part.p \in Partitions /\ hdd = part.p /\ hdd # NoPart
    BY <2>1, <2>3, RunGoesOn, InstallAssumption
  <2>5. DOMAIN files = Partitions /\ DOMAIN files[part.p] = Fields
    BY <2>4, FieldsOf DEF IInv, BaseInv
  <2>6. files'[part.p] = [files[part.p] EXCEPT !.ids = files[part.p].ids \cup {run}]
    BY <2>2, <2>4, <2>5
  <2>7. \A g \in Fields \ {"ids"} : Its(g)' = Its(g)
    BY <2>1, <2>5, <2>6 DEF Its
  <2>8. ConfigInv'
    BY <2>1, <2>3, <2>7 DEF DoneInv, ConfigInv, HasBase, Fields
  <2>9. GrubInv' /\ RecordInv'
    BY <2>3, <2>7 DEF DoneInv, GrubInv, RecordInv, Fields
  <2>10. FlagInv'
    BY <2>3 DEF FlagInv
  <2> QED BY <2>4, <2>8, <2>9, <2>10 DEF DoneInv
<1>2. CASE ReplaceUuid /\ step = "load_cfg"
  <2>1. /\ run' = run /\ fs' = fs /\ hdd' = hdd /\ part' = part /\ registry' = registry
        /\ replace_in_file("load_cfg", run, "load_cfg_write", "chdir")
    BY <1>2 DEF ReplaceUuid, write_back
  <2>2. failed = 0
    BY <2>1, Counted, Zenon DEF replace_in_file
  <2>3. DoneInv /\ At = "load_cfg" /\ part.p \in Partitions /\ hdd = part.p
    BY <1>2, <2>2, Going
  <2>4. Its("load_cfg") = Template
    BY <2>3 DEF DoneInv, GrubInv
  <2>5. step' = "load_cfg_write" /\ str' = run /\ \A g \in Fields \ {"load_cfg"} : Its(g)' = Its(g)
    BY <2>1, <2>3, <2>4, ItsReplaced DEF IInv, Fields
  <2>6. At' = "load_cfg_write"
    BY <2>5 DEF At
  <2>7. NoneYet' /\ PlaceInv' /\ Answers' = Answers
    BY <2>1, <2>3, <2>6, RunGoesOn
  <2>8. ConfigInv'
    BY <2>1, <2>3, <2>5, <2>6 DEF DoneInv, ConfigInv, HasBase, Fields
  <2>9. GrubInv' /\ RecordInv'
    BY <2>1, <2>3, <2>5, <2>6 DEF DoneInv, GrubInv, RecordInv, Fields
  <2>10. FlagInv'
    BY <2>6 DEF FlagInv
  <2> QED BY <2>7, <2>8, <2>9, <2>10 DEF DoneInv
<1>4. CASE ReplaceUuid /\ step = "load_cfg_write"
  <2>1. write_back("load_cfg", "load_cfg_write", "chdir")
    BY <1>4 DEF ReplaceUuid
  <2>2. failed = 0
    BY <2>1, Counted, Zenon DEF write_back
  <2>3. DoneInv /\ At = "load_cfg_write" /\ part.p \in Partitions /\ hdd = part.p
    BY <1>4, <2>2, Going
  <2>4. str = run
    BY <2>3 DEF DoneInv, GrubInv
  <2>5. /\ step' = "chdir" /\ run' = run /\ fs' = fs /\ hdd' = hdd /\ part' = part /\ registry' = registry
        /\ \A g \in Fields : Its(g)' = IF g = "load_cfg" THEN run ELSE Its(g)
    BY <2>1, <2>3, <2>4, ItsBack DEF IInv, Fields
  <2>6. At' = "chdir"
    BY <2>5 DEF At
  <2>7. NoneYet' /\ PlaceInv' /\ Answers' = Answers
    BY <2>3, <2>5, <2>6, RunGoesOn
  <2>8. ConfigInv'
    BY <2>3, <2>5, <2>6 DEF DoneInv, ConfigInv, HasBase, Fields
  <2>9. GrubInv' /\ RecordInv'
    BY <2>3, <2>5, <2>6 DEF DoneInv, GrubInv, RecordInv, Fields
  <2>10. FlagInv'
    BY <2>6 DEF FlagInv
  <2> QED BY <2>7, <2>8, <2>9, <2>10 DEF DoneInv
<1>5. CASE ReplaceUuid /\ step = "chdir"
  <2>1. /\ run' = run /\ fs' = fs /\ hdd' = hdd /\ part' = part /\ registry' = registry /\ files' = files
        /\ step' = "mkimage" /\ failed' = failed
    BY <1>5 DEF ReplaceUuid, write_back, Goto, world
  <2>2. DoneInv /\ At = "chdir" /\ At' = "mkimage"
    BY <1>5, <2>1, Going DEF At
  <2>3. NoneYet' /\ PlaceInv' /\ Answers' = Answers
    BY <2>1, <2>2, RunGoesOn
  <2>4. \A g \in Fields : Its(g)' = Its(g)
    BY <2>1, ItsKept
  <2>5. ConfigInv'
    BY <2>1, <2>2, <2>4 DEF DoneInv, ConfigInv, HasBase, Fields
  <2>6. GrubInv' /\ RecordInv'
    BY <2>1, <2>2, <2>4 DEF DoneInv, GrubInv, RecordInv, Fields
  <2>7. FlagInv'
    BY <2>2 DEF FlagInv
  <2> QED BY <2>3, <2>5, <2>6, <2>7 DEF DoneInv
<1>3. CASE MakeImage
  <2>1. step = "mkimage" /\ step' = "bios" /\ run' = run /\ fs' = fs /\ hdd' = hdd /\ part' = part /\ registry' = registry
    BY <1>3 DEF MakeImage, Goto, process
  <2>2. failed = 0
    BY <1>3, Counted, Zenon DEF MakeImage, Child
  <2>3. DoneInv /\ At = "mkimage" /\ At' = "bios"
    BY <2>1, <2>2 DEF RunInv, At
  <2>4. NoneYet' /\ PlaceInv' /\ Answers' = Answers /\ part.p \in Partitions /\ hdd = part.p /\ hdd # NoPart
    BY <2>1, <2>3, RunGoesOn, InstallAssumption
  <2>5. File("grub") # Missing /\ File("load_cfg") = run
    BY <2>3, <2>4, InstallAssumption DEF File, Its, DoneInv, ConfigInv, GrubInv
  <2>6. Write("core", File("load_cfg"))
    BY <1>3, <2>5, Counted, Zenon DEF MakeImage, Child
  <2>7. \A g \in Fields : Its(g)' = IF g = "core" THEN run ELSE Its(g)
    BY <2>1, <2>4, <2>5, <2>6, ItsWritten DEF IInv, Fields
  <2>8. ConfigInv'
    BY <2>1, <2>3, <2>7 DEF DoneInv, ConfigInv, HasBase, Fields
  <2>9. GrubInv' /\ RecordInv'
    BY <2>1, <2>3, <2>7 DEF DoneInv, GrubInv, RecordInv, Fields
  <2>10. FlagInv'
    BY <2>3 DEF FlagInv
  <2> QED BY <2>4, <2>8, <2>9, <2>10 DEF DoneInv
<1>6. ReplaceUuid => step \in {"load_cfg", "load_cfg_write", "chdir"}
  BY DEF ReplaceUuid, write_back
<1> QED BY <1>1, <1>2, <1>3, <1>4, <1>5, <1>6

\* The boot sector of the partition and that of the disk.
LEMMA RunBoots ==
  ASSUME IInv, TypeOK, RunInv, failed' = 0, InstallBootSector \/ MbrQuestion
  PROVE  NoneYet' /\ DoneInv'
<1> USE DEF HasKernel, Unpacked, Configured, Archived, Identified, Imaged, Bootable, Offered, Answered, Backed
<1>1. CASE InstallBootSector
  <2>1. step = "bios" /\ step' = "mbr?" /\ run' = run /\ fs' = fs /\ hdd' = hdd /\ part' = part /\ registry' = registry
    BY <1>1 DEF InstallBootSector, Goto, process
  <2>2. failed = 0
    BY <1>1, Counted, Zenon DEF InstallBootSector, Child
  <2>3. DoneInv /\ At = "bios" /\ At' = "mbr?"
    BY <2>1, <2>2 DEF RunInv, At
  <2>4. NoneYet' /\ PlaceInv' /\ Answers' = Answers /\ part.p \in Partitions /\ hdd = part.p /\ hdd # NoPart
    BY <2>1, <2>3, RunGoesOn, InstallAssumption
  <2>5. File("grub") # Missing /\ File("core") # Missing
    <3>1. run \in Uuid
      BY <2>1 DEF IInv, BaseInv
    <3> QED BY <2>3, <2>4, <3>1, InstallAssumption DEF File, Its, DoneInv, ConfigInv, GrubInv
  <2>6. files' = [files EXCEPT ![part.p] = [@ EXCEPT !.boot = TRUE]]
    BY <1>1, <2>5, Counted, Zenon DEF InstallBootSector, Child
  <2>7. Its("boot")' = TRUE /\ \A g \in Fields \ {"boot"} : Its(g)' = Its(g)
    BY <2>1, <2>4, <2>6, BootKept DEF IInv, Kept, Its
  <2>8. ConfigInv'
    BY <2>1, <2>3, <2>7 DEF DoneInv, ConfigInv, HasBase, Fields
  <2>9. GrubInv' /\ RecordInv'
    BY <2>1, <2>3, <2>7 DEF DoneInv, GrubInv, RecordInv, Fields
  <2>10. FlagInv'
    BY <2>3, <2>7 DEF FlagInv, Fields
  <2> QED BY <2>4, <2>8, <2>9, <2>10 DEF DoneInv
<1>2. CASE MbrQuestion
  <2>1. step = "mbr?" /\ step' = "answers" /\ run' = run /\ fs' = fs /\ hdd' = hdd /\ part' = part /\ registry' = registry
        /\ files' = files
    BY <1>2 DEF MbrQuestion, Goto, Child
  <2>2. failed = 0
    BY <1>2, Counted, Zenon DEF MbrQuestion, Child
  <2>3. DoneInv /\ At = "mbr?" /\ At' = "answers" /\ part.p \in Partitions /\ hdd = part.p /\ hdd # NoPart
    BY <2>1, <2>2, Going DEF At
  <2>4. NoneYet' /\ PlaceInv' /\ Answers' = Answers
    BY <2>1, <2>3, RunGoesOn
  <2>5. \A g \in Fields : Its(g)' = Its(g)
    BY <2>1, ItsKept
  <2>6. ConfigInv'
    BY <2>1, <2>3, <2>5 DEF DoneInv, ConfigInv, HasBase, Fields
  <2>7. GrubInv' /\ RecordInv'
    BY <2>1, <2>3, <2>5 DEF DoneInv, GrubInv, RecordInv, Fields
  <2>8. File("grub") # Missing /\ File("core") # Missing
    <3>1. run \in Uuid
      BY <2>1 DEF IInv, BaseInv
    <3> QED BY <2>3, <3>1, InstallAssumption DEF File, Its, DoneInv, ConfigInv, GrubInv
  <2>9. yesno(line', "y") => DeviceOf[part.p] \in mbr'
    <3>1. ASSUME yesno(line', "y") PROVE mbr' = mbr \cup {DeviceOf[part.p]}
      BY <1>2, <2>8, <3>1, Counted, Zenon DEF MbrQuestion, Child
    <3> QED BY <3>1
  <2>10. FlagInv'
    BY <2>1, <2>3, <2>5, <2>9 DEF DoneInv, FlagInv, Fields, yesno
  <2> QED BY <2>4, <2>6, <2>7, <2>10 DEF DoneInv
<1> QED BY <1>1, <1>2

\* The record of the answers, the registry.
LEMMA RunRecords ==
  ASSUME IInv, TypeOK, RunInv, failed' = 0, write_answers \/ finalise_registry
  PROVE  NoneYet' /\ DoneInv'
<1> USE DEF HasKernel, Unpacked, Configured, Archived, Identified, Imaged, Bootable, Offered, Answered, Backed
<1>1. CASE write_answers /\ step = "answers"
  <2>1. /\ run' = run /\ fs' = fs /\ hdd' = hdd /\ part' = part /\ registry' = registry /\ line' = line /\ mbr' = mbr
        /\ replace_in_file("setup", Answers, "answers_write", "backup")
    BY <1>1 DEF write_answers, write_back
  <2>2. failed = 0
    BY <2>1, Counted, Zenon DEF replace_in_file
  <2>3. DoneInv /\ At = "answers" /\ part.p \in Partitions /\ hdd = part.p
    BY <1>1, <2>2, Going
  <2>4. Its("setup") = Template
    BY <2>3 DEF DoneInv, RecordInv
  <2>5. step' = "answers_write" /\ str' = Answers /\ \A g \in Fields \ {"setup"} : Its(g)' = Its(g)
    BY <2>1, <2>3, <2>4, ItsReplaced DEF IInv, Fields
  <2>6. At' = "answers_write"
    BY <2>5 DEF At
  <2>7. NoneYet' /\ PlaceInv' /\ Answers' = Answers
    BY <2>1, <2>3, <2>6, RunGoesOn
  <2>8. ConfigInv'
    BY <2>1, <2>3, <2>5, <2>6 DEF DoneInv, ConfigInv, HasBase, Fields
  <2>9. GrubInv' /\ RecordInv'
    BY <2>1, <2>3, <2>5, <2>6, <2>7 DEF DoneInv, GrubInv, RecordInv, Fields
  <2>10. FlagInv'
    BY <2>1, <2>3, <2>5, <2>6 DEF DoneInv, FlagInv, Fields, yesno
  <2> QED BY <2>7, <2>8, <2>9, <2>10 DEF DoneInv
<1>4. CASE write_answers /\ step # "answers"
  <2>1. write_back("setup", "answers_write", "backup")
    BY <1>4 DEF write_answers
  <2>2. failed = 0 /\ step = "answers_write"
    BY <2>1, Counted, Zenon DEF write_back
  <2>3. DoneInv /\ At = "answers_write" /\ part.p \in Partitions /\ hdd = part.p
    BY <2>2, Going
  <2>4. str = Answers
    BY <2>3 DEF DoneInv, RecordInv
  <2>5. /\ step' = "backup" /\ run' = run /\ fs' = fs /\ hdd' = hdd /\ part' = part /\ registry' = registry
        /\ line' = line /\ mbr' = mbr
        /\ \A g \in Fields : Its(g)' = IF g = "setup" THEN str ELSE Its(g)
    BY <2>1, <2>3, ItsBack DEF IInv, Fields
  <2>6. At' = "backup"
    BY <2>5 DEF At
  <2>7. NoneYet' /\ PlaceInv' /\ Answers' = Answers
    BY <2>3, <2>5, <2>6, RunGoesOn
  <2>8. ConfigInv'
    BY <2>3, <2>5, <2>6 DEF DoneInv, ConfigInv, HasBase, Fields
  <2>9. GrubInv' /\ RecordInv'
    BY <2>3, <2>4, <2>5, <2>6, <2>7 DEF DoneInv, GrubInv, RecordInv, Fields
  <2>10. FlagInv'
    BY <2>3, <2>5, <2>6 DEF DoneInv, FlagInv, Fields, yesno
  <2> QED BY <2>7, <2>8, <2>9, <2>10 DEF DoneInv
<1>2. CASE finalise_registry /\ step = "backup"
  <2>1. step' = "kill" /\ run' = run /\ fs' = fs /\ hdd' = hdd /\ part' = part /\ registry' = registry
        /\ line' = line /\ mbr' = mbr
    BY <1>2 DEF finalise_registry, Goto
  <2>2. failed = 0
    BY <1>2, Counted, Zenon DEF finalise_registry, Child
  <2>3. DoneInv /\ At = "backup" /\ At' = "kill"
    BY <1>2, <2>1, <2>2 DEF RunInv, At
  <2>4. NoneYet' /\ PlaceInv' /\ Answers' = Answers /\ part.p \in Partitions /\ hdd = part.p /\ hdd # NoPart
        /\ registry = "running"
    BY <2>1, <2>3, RunGoesOn, InstallAssumption
  <2>5. File("reg") # Missing
    BY <2>3, <2>4, InstallAssumption DEF File, Its, DoneInv, ConfigInv, HasBase
  <2>6. Write("db", TRUE)
    <3>1. "backup" # "kill"
      OBVIOUS
    <3> QED BY <1>2, <2>4, <2>5, <3>1, Counted, Zenon DEF finalise_registry, Child
  <2>7. \A g \in Fields : Its(g)' = IF g = "db" THEN TRUE ELSE Its(g)
    BY <2>1, <2>4, <2>6, ItsWritten DEF IInv, Fields
  <2>8. ConfigInv'
    BY <2>1, <2>3, <2>7 DEF DoneInv, ConfigInv, HasBase, Fields
  <2>9. GrubInv' /\ RecordInv'
    BY <2>1, <2>3, <2>4, <2>7 DEF DoneInv, GrubInv, RecordInv, Fields
  <2>10. FlagInv'
    BY <2>1, <2>3, <2>7 DEF DoneInv, FlagInv, Fields, yesno
  <2> QED BY <2>4, <2>8, <2>9, <2>10 DEF DoneInv
<1>3. CASE finalise_registry /\ step = "kill"
  <2>1. step' = "exit" /\ run' = run /\ fs' = fs /\ hdd' = hdd /\ part' = part /\ files' = files
        /\ line' = line /\ mbr' = mbr
        /\ registry' = IF registry = "running" THEN "killed" ELSE registry
    BY <1>3 DEF finalise_registry, Goto
  <2>2. failed = 0
    BY <1>3, Counted, Zenon DEF finalise_registry, Child
  <2>3. DoneInv /\ At = "kill"
    BY <1>3, <2>2 DEF RunInv, At
  <2>4. registry = "running"
    BY <2>3 DEF DoneInv, PlaceInv, OnHdd, Registered, HasBase
  <2>5. At' = "done"
    BY <2>1, <2>4 DEF At
  <2>6. NoneYet' /\ PlaceInv' /\ Answers' = Answers
    BY <2>1, <2>3, <2>5, RunGoesOn
  <2>7. \A g \in Fields : Its(g)' = Its(g)
    BY <2>1, ItsKept
  <2>8. ConfigInv'
    BY <2>1, <2>3, <2>5, <2>7 DEF DoneInv, ConfigInv, HasBase, Fields
  <2>9. GrubInv' /\ RecordInv'
    BY <2>1, <2>3, <2>5, <2>6, <2>7 DEF DoneInv, GrubInv, RecordInv, Fields
  <2>10. FlagInv'
    BY <2>1, <2>3, <2>5, <2>7 DEF DoneInv, FlagInv, Fields, yesno
  <2> QED BY <2>6, <2>8, <2>9, <2>10 DEF DoneInv
<1> QED BY <1>1, <1>2, <1>3, <1>4 DEF finalise_registry

LEMMA NoneYetKept ==
  ASSUME NoneYet, [Next]_vars
  PROVE  NoneYet'
<1>1. CASE Start \/ select_partition \/ FormatQuestion \/ mount_partition \/ setup_registry
  BY <1>1 DEF NoneYet, Start, select_partition, FormatQuestion, mount_partition, setup_registry, Goto, process
<1>2. CASE copy_files \/ configure_install \/ make_tar \/ WriteId \/ ReplaceUuid \/ MakeImage
  BY <1>2 DEF NoneYet, copy_files, install_package, configure_install, make_tar, WriteId, ReplaceUuid, MakeImage,
     replace_in_file, write_back, Goto
<1>3. CASE InstallBootSector \/ MbrQuestion \/ write_answers \/ finalise_registry \/ Again \/ PowerFailure
  BY <1>3 DEF NoneYet, InstallBootSector, MbrQuestion, write_answers, finalise_registry, Again, PowerFailure,
     replace_in_file, write_back, Goto
<1>4. CASE UNCHANGED vars
  BY <1>4 DEF NoneYet, vars, process
<1> QED BY <1>1, <1>2, <1>3, <1>4 DEF Next, main

\* What a run without a failure has done stays done, step by step.
THEOREM RunsKept == Spec => []RunInv
<1>1. Init => RunInv
  <2> SUFFICES ASSUME Init PROVE RunInv
    OBVIOUS
  <2>1. step = "idle"
    BY DEF Init
  <2>2. At \notin OnHdd
    BY <2>1 DEF At, OnHdd, Registered, HasBase, HasKernel, Unpacked, Configured, Archived, Identified, Imaged,
       Bootable, Offered, Answered, Backed
  <2>3. PlaceInv /\ ConfigInv /\ GrubInv /\ RecordInv /\ FlagInv
    <3> USE <2>2 DEF OnHdd, Registered, HasBase, HasKernel, Unpacked, Configured, Archived, Identified, Imaged,
                     Bootable, Offered, Answered, Backed
    <3>1. PlaceInv /\ ConfigInv
      BY DEF PlaceInv, ConfigInv
    <3>2. GrubInv /\ RecordInv
      BY DEF GrubInv, RecordInv
    <3>3. FlagInv
      BY DEF FlagInv
    <3> QED BY <3>1, <3>2, <3>3
  <2> QED BY <2>1, <2>3 DEF RunInv, NoneYet, DoneInv
<1>2. IInv /\ TypeOK /\ RunInv /\ [Next]_vars => RunInv'
  <2> SUFFICES ASSUME IInv, TypeOK, RunInv, [Next]_vars PROVE RunInv'
    OBVIOUS
  <2>1. NoneYet'
    BY NoneYetKept DEF RunInv
  <2>2. ASSUME failed' = 0 PROVE DoneInv'
    <3>1. CASE UNCHANGED vars
      <4>1. failed' = failed
        BY <3>1, Zenon DEF vars
      <4>2. DoneInv
        BY <2>2, <4>1, Zenon DEF RunInv
      <4>3. /\ step' = step /\ registry' = registry /\ part' = part /\ files' = files /\ hdd' = hdd /\ fs' = fs
            /\ run' = run /\ str' = str /\ line' = line /\ mbr' = mbr
        BY <3>1 DEF vars, world, process
      <4>4. At' = At /\ Answers' = Answers
        BY <4>3 DEF At, Answers
      <4>5. \A f : Its(f)' = Its(f)
        BY <4>3 DEF Its
      <4>6. PlaceInv' /\ ConfigInv'
        BY <4>2, <4>3, <4>4, <4>5 DEF DoneInv, PlaceInv, ConfigInv
      <4>7. GrubInv' /\ RecordInv'
        BY <4>2, <4>3, <4>4, <4>5 DEF DoneInv, GrubInv, RecordInv
      <4>8. FlagInv'
        BY <4>2, <4>3, <4>4, <4>5 DEF DoneInv, FlagInv, yesno
      <4> QED BY <4>6, <4>7, <4>8 DEF DoneInv
    <3>2. CASE Next
      BY <2>2, <3>2, RunBegins, RunMounts, RunUnpacks, RunConfigures, RunIdentifies, RunBoots, RunRecords, Zenon
         DEF Next, main
    <3> QED BY <3>1, <3>2
  <2> QED BY <2>1, <2>2, Zenon DEF RunInv
<1> QED BY <1>1, <1>2, Installed, TypeCorrect, PTL DEF Spec

\* A run that ends without a failure has left a complete system (install.cpp,
\* main), for any earlier runs, cut off anywhere, and any other partitions.
THEOREM AlwaysComplete == Spec => []Complete
<1>1. RunInv => Complete
  <2> SUFFICES ASSUME RunInv, step = "exit", registry # "none", failed = 0
               PROVE  LET f == files[part.p] IN
                      /\ f.core = run /\ f.tar = part.p /\ f.boot /\ f.db
                      /\ f.setup.part = part.p /\ f.setup.device = DeviceOf[part.p]
                      /\ fs[part.p] = "fat16"
                      /\ yesno(line, "y") => DeviceOf[part.p] \in mbr
    BY Zenon DEF Complete
  <2>1. DoneInv
    BY Zenon DEF RunInv
  <2>2. At = "done"
    BY DEF At
  <2> USE DEF OnHdd, Registered, HasBase, HasKernel, Unpacked, Configured, Archived, Identified, Imaged, Bootable,
              Offered, Answered, Backed
  <2>3. files[part.p].core = run /\ files[part.p].tar = part.p
    BY <2>1, <2>2 DEF DoneInv, ConfigInv, GrubInv, Its
  <2>4. files[part.p].boot = TRUE /\ files[part.p].db = TRUE
    BY <2>1, <2>2 DEF DoneInv, FlagInv, Its
  <2>5. files[part.p].setup = Answers
    BY <2>1, <2>2 DEF DoneInv, RecordInv, Its
  <2>6. fs[part.p] = "fat16"
    BY <2>1, <2>2 DEF DoneInv, PlaceInv
  <2>7. files[part.p].setup.part = part.p /\ files[part.p].setup.device = DeviceOf[part.p]
    BY <2>5 DEF Answers
  <2>8. yesno(line, "y") => DeviceOf[part.p] \in mbr
    BY <2>1, <2>2 DEF DoneInv, FlagInv, yesno
  <2> QED BY <2>3, <2>4, <2>6, <2>7, <2>8, Zenon
<1> QED BY <1>1, RunsKept, PTL

-----------------------------------------------------------------------------
(* Who empties a partition. *)

\* load_cfg is there and not touched any more.
Settled == {"chdir", "mkimage", "bios", "mbr?", "answers", "answers_write", "backup", "kill"}

AskInv ==
  /\ step = "format?" => line \in {part.p, ""}
  /\ step = "tar" => files[hdd].config # Missing
  /\ step \in Settled => hdd # NoPart /\ files[hdd].load_cfg # Missing

\* A file that is written is there.
LEMMA WrittenThere ==
  ASSUME IInv, NEW f \in Fields, NEW v, v # NoFiles[f], Write(f, v)
  PROVE  \A p \in Partitions : files'[p] = NoFiles => files[p] = NoFiles
<1> SUFFICES ASSUME NEW p \in Partitions, files'[p] = NoFiles PROVE files[p] = NoFiles
  OBVIOUS
<1>1. CASE hdd = NoPart
  BY <1>1 DEF Write
<1>2. CASE hdd # NoPart /\ p = hdd
  <2>1. files'[hdd][f] = v
    BY <1>2, WriteEffect DEF IInv, Changed
  <2> QED BY <1>2, <2>1
<1>3. CASE hdd # NoPart /\ p # hdd
  <2>1. files'[p] = files[p]
    BY <1>3 DEF Write, IInv, BaseInv
  <2> QED BY <2>1
<1> QED BY <1>1, <1>2, <1>3

\* Once load_cfg is settled no change of another file empties the partition.
LEMMA SettledKept ==
  ASSUME IInv, AskInv, step \in Settled, step' \notin {"format?", "tar"}, hdd' = hdd,
         files' = files \/ \E f \in Fields \ {"load_cfg"} : \E v : Write(f, v)
  PROVE  AskInv' /\ \A p \in Partitions : files'[p] = NoFiles => files[p] = NoFiles
<1>1. hdd # NoPart /\ hdd \in Partitions /\ files[hdd].load_cfg # Missing
  BY DEF AskInv, IInv, BaseInv
<1>2. files'[hdd].load_cfg = files[hdd].load_cfg
  <2>1. ASSUME NEW f \in Fields \ {"load_cfg"}, NEW v, Write(f, v) PROVE files'[hdd].load_cfg = files[hdd].load_cfg
    <3>1. Changed(f, v)
      BY <1>1, <2>1, WriteEffect DEF IInv
    <3> QED BY <1>1, <3>1 DEF Changed, Fields
  <2> QED BY <2>1
<1>3. AskInv'
  BY <1>1, <1>2 DEF AskInv
<1>4. ASSUME NEW p \in Partitions, files'[p] = NoFiles PROVE files[p] = NoFiles
  <2>1. p # hdd
    BY <1>1, <1>2, <1>4 DEF NoFiles
  <2>2. files'[p] = files[p]
    BY <1>1, <2>1 DEF Write, IInv, BaseInv
  <2> QED BY <1>4, <2>2
<1> QED BY <1>3, <1>4

\* What FormatAsked says of a step.
Asked == \A p \in Partitions :
           files[p] # NoFiles /\ files'[p] = NoFiles => part.p = p /\ line' = "y" /\ line \in {p, ""}

LEMMA AskSteps ==
  ASSUME IInv, TypeOK, AskInv, [Next]_vars
  PROVE  AskInv' /\ Asked
<1>1. CASE Start \/ Again \/ PowerFailure \/ select_partition \/ mount_partition \/ setup_registry
  <2>1. files' = files
    BY <1>1 DEF Start, Again, PowerFailure, select_partition, mount_partition, setup_registry, world
  <2>2. step' \notin {"tar"} \cup Settled
    BY <1>1 DEF Start, Again, PowerFailure, select_partition, mount_partition, setup_registry, Goto, Settled
  <2>3. ASSUME step' = "format?" PROVE line' \in {part'.p, ""}
    <3>1. CASE select_partition
      <4>1. \E p \in Partitions : line' \in {p, ""} /\ part' = [p |-> p, fs |-> fs[p]]
        <5>1. "exit" # "format?" /\ "aborted" # "format?"
          OBVIOUS
        <5> QED BY <2>3, <3>1, <5>1, Zenon DEF select_partition, Goto
      <4>2. PICK p \in Partitions : line' \in {p, ""} /\ part' = [p |-> p, fs |-> fs[p]]
        BY <4>1
      <4>3. part'.p = p
        BY <4>2
      <4> QED BY <4>2, <4>3, Zenon
    <3>2. CASE ~select_partition
      BY <1>1, <2>3, <3>2 DEF Start, Again, PowerFailure, mount_partition, setup_registry, Goto
    <3> QED BY <3>1, <3>2
  <2> QED BY <2>1, <2>2, <2>3 DEF AskInv, Asked
<1>2. CASE FormatQuestion
  <2>1. step = "format?" /\ step' \in {"mount", "exit"}
    BY <1>2 DEF FormatQuestion, Goto
  <2>2. AskInv'
    BY <2>1 DEF AskInv, Settled
  <2>3. files' = files \/ (files' = [files EXCEPT ![part.p] = NoFiles] /\ line' = "y")
    BY <1>2 DEF FormatQuestion, yesno
  <2>4. ASSUME NEW p \in Partitions, files[p] # NoFiles, files'[p] = NoFiles
        PROVE  part.p = p /\ line' = "y" /\ line \in {p, ""}
    <3>1. part.p = p /\ line' = "y"
      BY <2>3, <2>4 DEF IInv, BaseInv
    <3> QED BY <2>1, <3>1 DEF AskInv
  <2> QED BY <2>2, <2>4 DEF Asked
<1>3. CASE copy_files
  <2>1. PICK templates \in {{"reg"}, {"config", "load_cfg", "grub"}, {"setup"}}, package \in {"base", "kernel", "install"},
             next \in {"kernel", "install", "configure"} :
           install_package(package, templates, next)
    BY <1>3 DEF copy_files
  <2>2. AskInv'
    BY <2>1 DEF install_package, Goto, AskInv, Settled
  <2>3. files' = files \/ (hdd # NoPart
          /\ files' = [files EXCEPT ![hdd] = [f \in DOMAIN @ |-> IF f \in templates THEN Template ELSE @[f]]])
    BY <2>1, Zenon DEF install_package, Child
  <2>4. ASSUME NEW p \in Partitions, files'[p] = NoFiles, files' # files PROVE files[p] = NoFiles
    <3>1. /\ hdd \in Partitions /\ DOMAIN files = Partitions /\ DOMAIN files[hdd] = Fields
      BY <2>3, <2>4, FieldsOf DEF IInv, BaseInv
    <3>2. /\ p # hdd => files'[p] = files[p]
          /\ files'[hdd] = [f \in Fields |-> IF f \in templates THEN Template ELSE files[hdd][f]]
      BY <2>3, <2>4, <3>1
    <3>3. \E f \in {"reg", "config", "setup"} : files'[hdd][f] = Template
      BY <2>1, <3>2 DEF Fields
    <3>4. files'[hdd] # NoFiles
      BY <3>3, InstallAssumption DEF NoFiles
    <3> QED BY <2>4, <3>2, <3>4
  <2> QED BY <2>2, <2>4 DEF Asked
<1>4. CASE configure_install
  <2>1. hdd' = hdd /\ step \in {"configure", "configure_write"} /\ step' \in {"aborted", "configure_write", "tar"}
    BY <1>4 DEF configure_install, replace_in_file, write_back, Goto
  <2>2. \/ files' = files /\ (step' = "tar" => hdd \in Partitions /\ files[hdd].config # Missing)
        \/ \E v : Write("config", v) /\ v # Missing /\ (step' = "tar" => hdd \in Partitions)
    <3>1. CASE step = "configure"
      <4>1. replace_in_file("config", part.p, "configure_write", "tar")
        BY <1>4, <3>1 DEF configure_install, write_back
      <4>2. File("config") # Missing => hdd \in Partitions /\ File("config") = files[hdd].config
        BY DEF File, NoFiles, IInv, BaseInv
      <4>3. Cut # Missing
        BY InstallAssumption
      <4> QED BY <4>1, <4>2, <4>3 DEF replace_in_file, Goto
    <3>2. CASE step = "configure_write"
      <4>1. write_back("config", "configure_write", "tar")
        BY <1>4, <3>2 DEF configure_install
      <4>2. hdd \in Partitions /\ files[hdd].config = Cut
        BY <3>2 DEF IInv, ArchiveInv, BaseInv
      <4>3. str # Missing /\ Cut # Missing
        BY <3>2, InstallAssumption DEF TypeOK
      <4> QED BY <4>1, <4>2, <4>3 DEF write_back
    <3> QED BY <2>1, <3>1, <3>2
  <2>3. CASE files' = files /\ (step' = "tar" => hdd \in Partitions /\ files[hdd].config # Missing)
    BY <2>1, <2>3 DEF AskInv, Settled, Asked
  <2>4. ASSUME NEW v, Write("config", v), v # Missing, step' = "tar" => hdd \in Partitions
        PROVE  AskInv' /\ Asked
    <3>1. v # NoFiles["config"] /\ "config" \in Fields
      BY <2>4 DEF NoFiles, Fields
    <3>2. \A p \in Partitions : files'[p] = NoFiles => files[p] = NoFiles
      BY <2>4, <3>1, WrittenThere
    <3>3. ASSUME hdd \in Partitions PROVE files'[hdd].config = v
      <4>1. Changed("config", v)
        BY <2>4, <3>1, <3>3, InstallAssumption, WriteEffect DEF IInv
      <4> QED BY <3>1, <3>3, <4>1 DEF Changed
    <3>4. AskInv'
      BY <2>1, <2>4, <3>3 DEF AskInv, Settled
    <3> QED BY <3>2, <3>4 DEF Asked
  <2> QED BY <2>2, <2>3, <2>4
<1>5. CASE make_tar
  <2>1. step = "tar" /\ step' = "uuid" /\ hdd' = hdd /\ (files' = files \/ Write("tar", File("config")))
    BY <1>5 DEF make_tar, Goto, Child
  <2>2. hdd # NoPart /\ hdd \in Partitions /\ File("config") = files[hdd].config /\ files[hdd].config # Missing
    BY <2>1 DEF IInv, BaseInv, ArchiveInv, AskInv, File
  <2>3. AskInv'
    BY <2>1 DEF AskInv, Settled
  <2>4. files[hdd].config # NoFiles["tar"] /\ "tar" \in Fields
    BY <2>2 DEF NoFiles, Fields
  <2>5. \A p \in Partitions : files'[p] = NoFiles => files[p] = NoFiles
    BY <2>1, <2>2, <2>4, WrittenThere
  <2> QED BY <2>3, <2>5 DEF Asked
<1>6. CASE WriteId
  <2>1. step' = "load_cfg" /\ (files' = files \/ (hdd # NoPart /\ files' = [files EXCEPT ![hdd].ids = @ \cup {run}]))
    BY <1>6 DEF WriteId, Goto
  <2>2. AskInv'
    BY <2>1 DEF AskInv, Settled
  <2>3. CASE hdd # NoPart /\ files' = [files EXCEPT ![hdd].ids = @ \cup {run}]
    <3>1. hdd \in Partitions /\ DOMAIN files = Partitions /\ DOMAIN files[hdd] = Fields
      BY <2>3, FieldsOf DEF IInv, BaseInv
    <3>2. /\ \A p \in Partitions : p # hdd => files'[p] = files[p]
          /\ files'[hdd] = [files[hdd] EXCEPT !.ids = files[hdd].ids \cup {run}]
      BY <2>3, <3>1
    <3>3. run \in files'[hdd].ids
      BY <3>1, <3>2 DEF Fields
    <3>4. files'[hdd] # NoFiles
      BY <3>3 DEF NoFiles
    <3> QED BY <2>2, <3>2, <3>4 DEF Asked
  <2> QED BY <2>1, <2>2, <2>3 DEF Asked
<1>7. CASE ReplaceUuid
  <2>1. hdd' = hdd /\ step \in {"load_cfg", "load_cfg_write", "chdir"}
        /\ step' \in {"aborted", "load_cfg_write", "chdir", "mkimage"}
    BY <1>7 DEF ReplaceUuid, replace_in_file, write_back, Goto, world
  <2>2. CASE step = "chdir"
    BY <1>7, <2>1, <2>2 DEF ReplaceUuid, write_back, Goto, world, AskInv, Settled, Asked
  <2>3. CASE step # "chdir"
    <3>1. \/ files' = files /\ (step' \in Settled => hdd \in Partitions /\ files[hdd].load_cfg # Missing)
          \/ \E v : Write("load_cfg", v) /\ v # Missing /\ (step' \in Settled => hdd \in Partitions)
      <4>1. CASE step = "load_cfg"
        <5>1. replace_in_file("load_cfg", run, "load_cfg_write", "chdir")
          BY <1>7, <4>1 DEF ReplaceUuid, write_back
        <5>2. File("load_cfg") # Missing => hdd \in Partitions /\ File("load_cfg") = files[hdd].load_cfg
          BY DEF File, NoFiles, IInv, BaseInv
        <5>3. Cut # Missing
          BY InstallAssumption
        <5> QED BY <5>1, <5>2, <5>3 DEF replace_in_file, Goto, Settled
      <4>2. CASE step = "load_cfg_write"
        <5>1. write_back("load_cfg", "load_cfg_write", "chdir")
          BY <1>7, <4>2 DEF ReplaceUuid
        <5>2. hdd \in Partitions /\ files[hdd].load_cfg = Cut
          BY <4>2 DEF IInv, ImageInv, BaseInv
        <5>3. str # Missing /\ Cut # Missing
          BY <4>2, InstallAssumption DEF TypeOK
        <5> QED BY <5>1, <5>2, <5>3 DEF write_back
      <4> QED BY <2>1, <2>3, <4>1, <4>2
    <3>2. CASE files' = files /\ (step' \in Settled => hdd \in Partitions /\ files[hdd].load_cfg # Missing)
      BY <2>1, <3>2, InstallAssumption DEF AskInv, Asked
    <3>3. ASSUME NEW v, Write("load_cfg", v), v # Missing, step' \in Settled => hdd \in Partitions
          PROVE  AskInv' /\ Asked
      <4>1. v # NoFiles["load_cfg"] /\ "load_cfg" \in Fields
        BY <3>3 DEF NoFiles, Fields
      <4>2. \A p \in Partitions : files'[p] = NoFiles => files[p] = NoFiles
        BY <3>3, <4>1, WrittenThere
      <4>3. ASSUME hdd \in Partitions PROVE hdd # NoPart /\ files'[hdd].load_cfg = v
        <5>1. hdd # NoPart
          BY <4>3, InstallAssumption
        <5>2. Changed("load_cfg", v)
          BY <3>3, <4>1, <5>1, WriteEffect DEF IInv
        <5> QED BY <4>1, <4>3, <5>1, <5>2 DEF Changed
      <4>4. AskInv'
        BY <2>1, <3>3, <4>3 DEF AskInv
      <4> QED BY <4>2, <4>4 DEF Asked
    <3> QED BY <3>1, <3>2, <3>3
  <2> QED BY <2>2, <2>3
<1>8. CASE InstallBootSector
  <2>1. /\ step = "bios" /\ step' = "mbr?" /\ hdd' = hdd
        /\ files' = files \/ files' = [files EXCEPT ![part.p] = [@ EXCEPT !.boot = TRUE]]
    BY <1>8 DEF InstallBootSector, Goto, Child
  <2>2. CASE files' = files
    BY <2>1, <2>2 DEF AskInv, Settled, Asked
  <2>3. CASE files' = [files EXCEPT ![part.p] = [@ EXCEPT !.boot = TRUE]]
    <3>1. BaseInv /\ part.p \in Partitions
      BY <2>1 DEF IInv, BaseInv
    <3>2. /\ Kept(Fields \ {"boot"}) /\ files'[part.p].boot = TRUE
          /\ \A p \in Partitions \ {part.p} : files'[p] = files[p]
      BY <2>3, <3>1, BootKept
    <3>3. hdd \in Partitions /\ hdd # NoPart /\ files[hdd].load_cfg # Missing
      BY <2>1 DEF AskInv, Settled, IInv, BaseInv
    <3>4. AskInv'
      BY <2>1, <3>2, <3>3 DEF AskInv, Kept, Fields
    <3>5. files'[part.p] # NoFiles
      BY <3>2 DEF NoFiles
    <3> QED BY <3>2, <3>4, <3>5 DEF Asked
  <2> QED BY <2>1, <2>2, <2>3
<1>9. CASE MakeImage \/ MbrQuestion \/ write_answers \/ finalise_registry
  <2>1. step \in Settled /\ step' \notin {"format?", "tar"} /\ hdd' = hdd
    BY <1>9 DEF MakeImage, MbrQuestion, write_answers, finalise_registry, replace_in_file, write_back, Goto, Settled
  <2>2. \/ files' = files \/ Write("core", File("load_cfg"))
        \/ Write("setup", Cut) \/ Write("setup", str) \/ Write("db", TRUE)
    BY <1>9 DEF MakeImage, MbrQuestion, write_answers, finalise_registry, replace_in_file, write_back, Child
  <2>3. {"core", "setup", "db"} \subseteq Fields \ {"load_cfg"}
    BY DEF Fields
  <2>4. files' = files \/ \E f \in Fields \ {"load_cfg"} : \E v : Write(f, v)
    BY <2>2, <2>3, Zenon
  <2> QED BY <2>1, <2>4, SettledKept DEF Asked
<1>10. CASE UNCHANGED vars
  BY <1>10 DEF vars, world, process, AskInv, Asked
<1> QED BY <1>1, <1>2, <1>3, <1>4, <1>5, <1>6, <1>7, <1>8, <1>9, <1>10 DEF Next, main

\* The files of a partition go only in the format the user asked for (install.cpp,
\* select_partition and the call of _format), whatever ran before.
THEOREM AlwaysAsked == Spec => FormatAsked
<1>1. Init => AskInv
  BY DEF Init, AskInv, Settled
<1>2. IInv /\ TypeOK /\ AskInv /\ [Next]_vars => AskInv'
  BY AskSteps
<1>3. IInv /\ TypeOK /\ AskInv /\ [Next]_vars => [Asked]_vars
  BY AskSteps
<1>4. Spec => [][Asked]_vars
  BY <1>1, <1>2, <1>3, Installed, TypeCorrect, PTL DEF Spec
<1> QED BY <1>4 DEF FormatAsked, Asked

=============================================================================
