------------------------------ MODULE LateInit ------------------------------
(***************************************************************************)
(* late_init of kernel/main.c: the idle thread starts the initialisation   *)
(* tasks, waits for some of them, runs the login and then the terminal,    *)
(* for ever.  START, START_AND_WAIT, is_pid_running and the scheduler are  *)
(* external: a started task runs, beside the others, until it calls _kill  *)
(* or crashes, and a pid that is waited for is not given away.  The task   *)
(* "login" is Login.                                                       *)
(***************************************************************************)
EXTENDS Login

\* The calls of late_init, in order.  wait: START_AND_WAIT, or START and a
\* loop on is_pid_running right after it.
Start(name)        == [task |-> name, wait |-> FALSE]
StartAndWait(name) == [task |-> name, wait |-> TRUE]

\* Mutant: nobody waits for the device manager.
ScriptEager == <<
  Start("kbd_init"), Start("vfs_init"), Start("loader_init"), Start("cursor_update"),
  Start("devicemm"),
  Start("testdev"), Start("elf_init"), Start("rtc_init"),
  StartAndWait("fdc_init"), StartAndWait("ata_init"),
  Start("mod_init"), StartAndWait("pci_init"),
  StartAndWait("login"), StartAndWait("_test") >>

Script == <<
  Start("kbd_init"), Start("vfs_init"), Start("loader_init"), Start("cursor_update"),
  StartAndWait("devicemm"),
  Start("testdev"), Start("elf_init"), Start("rtc_init"),
  StartAndWait("fdc_init"), StartAndWait("ata_init"),
  Start("mod_init"), StartAndWait("pci_init"),
  StartAndWait("login"), StartAndWait("_test") >>

Tasks    == {Script[i].task : i \in DOMAIN Script}
LastCall == Len(Script)

VARIABLES
  next,     \* the call of Script to make, or whose task is waited for
  waiting,  \* late_init is in the loop on is_pid_running
  task      \* per task: not started, running, ended

boot == <<next, waiting, task>>
bootvars == <<boot, login>>

-----------------------------------------------------------------------------
BootInit ==
  /\ next = 1
  /\ waiting = FALSE
  /\ task = [t \in Tasks |-> "unborn"]
  /\ LoginInit

Awaited == Script[next].task

After(i) == IF i = LastCall THEN LastCall ELSE i + 1

START ==
  /\ ~waiting
  /\ task' = [task EXCEPT ![Awaited] = "running"]
  /\ IF Script[next].wait
     THEN waiting' = TRUE /\ UNCHANGED next
     ELSE next' = After(next) /\ UNCHANGED waiting
  /\ UNCHANGED login

\* Mutant: the terminal is not started again.
WaitEndsOnce ==
  /\ waiting
  /\ task[Awaited] # "running"
  /\ waiting' = (next = LastCall)
  /\ next' = After(next)
  /\ UNCHANGED <<task, login>>

\* is_pid_running(pid) is false; after the terminal comes the terminal.
WaitEnds ==
  /\ waiting
  /\ task[Awaited] # "running"
  /\ waiting' = FALSE
  /\ next' = After(next)
  /\ UNCHANGED <<task, login>>

\* The idle thread schedules away and looks again.
schedule_noirq ==
  /\ waiting
  /\ task[Awaited] = "running"
  /\ UNCHANGED bootvars

Ends(t) ==
  /\ task[t] = "running"
  /\ task' = [task EXCEPT ![t] = "ended"]
  /\ UNCHANGED <<next, waiting>>

\* A task calls _kill, or crashes; __cursor_updater loops for ever.
TaskEnds(t) ==
  /\ t \notin {"cursor_update", "login"}
  /\ Ends(t)
  /\ UNCHANGED login

\* A key for the login.
KeyTyped ==
  /\ task["login"] = "running"
  /\ \E c \in Keys : LoginKey(c)
  /\ UNCHANGED boot

LineTyped ==
  /\ task["login"] = "running"
  /\ LoginEnter
  /\ IF stage' = "accepted" THEN Ends("login") ELSE UNCHANGED boot

\* With the memory behind its buffer overwritten the login may crash.
LoginCrash ==
  /\ wild
  /\ Ends("login")
  /\ UNCHANGED login

\* The terminal's command "kill".
KillCursor ==
  /\ task["_test"] = "running"
  /\ Ends("cursor_update")
  /\ UNCHANGED login

late_init == START \/ WaitEnds

BootNext ==
  \/ late_init
  \/ schedule_noirq
  \/ \E t \in Tasks : TaskEnds(t)
  \/ KillCursor
  \/ KeyTyped \/ LineTyped \/ LoginCrash

BootSpec == BootInit /\ [][BootNext]_bootvars

\* The scheduler comes back to the idle thread, and the tasks that late_init
\* waits for during initialisation end.  Nothing is assumed of the other
\* tasks: they may hang; the user may never log in or leave the terminal.
FairBootSpec ==
  /\ BootSpec
  /\ WF_bootvars(late_init)
  /\ \A t \in {"devicemm", "fdc_init", "ata_init", "pci_init"} : WF_bootvars(TaskEnds(t))

-----------------------------------------------------------------------------
(* Properties. *)

BootTypeOK ==
  /\ next \in DOMAIN Script
  /\ waiting \in BOOLEAN
  /\ task \in [Tasks -> {"unborn", "running", "ended"}]
  /\ LoginTypeOK

Started(t) == task[t] # "unborn"

\* The drivers register devices: none of them is started before the device
\* manager has come up, the two disk drivers do not probe at the same time, and
\* the terminal waits for a login that has accepted, or run over its buffer.
BootOrder ==
  /\ \A t \in {"testdev", "fdc_init", "ata_init", "mod_init", "pci_init"} :
       Started(t) => task["devicemm"] = "ended"
  /\ ~(task["fdc_init"] = "running" /\ task["ata_init"] = "running")
  /\ Started("_test") => task["login"] = "ended" /\ (stage = "accepted" \/ wild)

\* The boot reaches the login although most of the tasks started may hang, and
\* a terminal that has crashed is started again, each time.
BootGoesOn == /\ <>(Started("login"))
              /\ task["_test"] = "ended" ~> task["_test"] = "running"

=============================================================================
