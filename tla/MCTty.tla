------------------------------- MODULE MCTty -------------------------------
(* Instances of Tty for TLC. *)
EXTENDS Tty

CONSTANTS t1, t2, console, user

\* Lines that scroll a screen of two lines; a colour command, a backspace in the
\* middle of a line, and a colour command at the end of a string.
TextJobs == [p \in Threads |->
  IF p = t1 THEN { << <<"newline">> >> }
  ELSE { << <<"escape", "char", "char", "backspace", "escape">> >> }]

\* One thread prints and may take the character back, the other ends a line or
\* clears the screen.
ConsoleJobs == [p \in Threads |->
  IF p = t1 THEN { << <<"char", "backspace">> >>, << <<"char", "char">> >> }
  ELSE { << <<"newline", "return">> >>, << Fill >> }]

\* The message for an IRQ without handler, or its end, and the screen of an
\* exception.
Message  == << <<"char">>, <<"newline">> >>
Newline  == << <<"newline">> >>
Screen   == << Fill, <<"char", "newline">> >>

\* Both threads use one terminal, not the console.
SameTty  == [p \in Threads |-> user]
\* Both threads print on the console that interrupts print on as well.
Console  == [p \in Threads |-> console]

=============================================================================
