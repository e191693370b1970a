----------------------------- MODULE TtyMonitor -----------------------------
(***************************************************************************)
(* What ktty_enter and ktty_leave promise a thread, without locks, look-   *)
(* ups, loads and stores: a tty is a monitor.  At most one thread is inside*)
(* the tty of its process, and only it moves the tty's position, except on *)
(* the console, where the interrupt handlers print as they come.           *)
(***************************************************************************)
CONSTANTS
  Ttys, Threads,
  Home,         \* the tty of each thread's process
  Console,
  Positions,
  Start         \* the position after init_tty

VARIABLES
  inside,       \* per tty: the threads between ktty_enter and ktty_leave
  position

vars == <<inside, position>>

Init ==
  /\ inside = [t \in Ttys |-> {}]
  /\ position = [t \in Ttys |-> Start]

Enter(p) ==
  /\ inside[Home[p]] = {}
  /\ inside' = [inside EXCEPT ![Home[p]] = {p}]
  /\ UNCHANGED position

Leave(p) ==
  /\ inside[Home[p]] = {p}
  /\ inside' = [inside EXCEPT ![Home[p]] = {}]
  /\ UNCHANGED position

Move(t) ==
  /\ \E q \in Positions : position' = [position EXCEPT ![t] = q]
  /\ UNCHANGED inside

Write(p) == inside[Home[p]] = {p} /\ Move(Home[p])

Next ==
  \/ \E p \in Threads : Enter(p) \/ Write(p) \/ Leave(p)
  \/ Move(Console)

Spec == Init /\ [][Next]_vars

=============================================================================
