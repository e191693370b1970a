------------------------------ MODULE Keyboard ------------------------------
(***************************************************************************)
(* The keyboard line of kernel_main.c: isr_keyb, which collects a line in  *)
(* inp[] and runs the commands "dir" and "demo", and the part of main that *)
(* installs it: the boot sequence and the command 'x' of the serial        *)
(* monitor, between any two steps of which keys are pressed.               *)
(*                                                                         *)
(* Left out: what is drawn (width, height, drawtext), and the effects of   *)
(* the other monitor commands on the memory and ports the operator names.  *)
(* The disk accesses of the two commands are in AtaPio.                    *)
(***************************************************************************)
EXTENDS Integers, Sequences

CONSTANTS
  Chars,       \* what kbdus gives for a key, backspace among it
  NUL,         \* kbdus of a key without character (Ctrl, F1 ...)
  ENTER,       \* '\n'
  InpSize,     \* 100
  dir, demo    \* the command words, without the newline they end with

ASSUME CharAssumption ==
  /\ NUL \notin Chars
  /\ ENTER \notin Chars \cup {NUL}

ASSUME WordAssumption ==
  /\ InpSize \in Nat
  /\ dir \in Seq(Chars) /\ demo \in Seq(Chars)
  /\ dir # demo
  /\ Len(dir) + 1 < InpSize /\ Len(demo) + 1 < InpSize

Index == 0 .. InpSize - 1
Keys  == Chars \cup {NUL}

VARIABLES
  inp, cntr,
  pc,       \* main: where it is
  irqs,     \* the CPU takes interrupts
  gates,    \* the ISRs in the descriptor table
  rebuilt,  \* history: command x has rebuilt the table
  keys,     \* history: the keys since the last ENTER
  left,     \* history: where lines before have left their ENTER in inp
  ran,      \* history: the command run by the last key, if any
  wild      \* history: a key has been stored behind inp

line    == <<inp, cntr, keys, left, ran, wild>>
monitor == <<pc, irqs, gates, rebuilt>>
vars    == <<line, monitor>>

-----------------------------------------------------------------------------
(* isr_keyb.  The CPU enters through an interrupt gate: one key, one step. *)

\* Keys reach isr_keyb.  Once the memory behind inp has been overwritten
\* nothing is said of it.
Taken == irqs /\ "isr_keyb" \in gates /\ ~wild

\* inp[cntr++] = kbdus[buf]
Key(c) ==
  /\ Taken
  /\ inp' = [inp EXCEPT ![cntr] = c]
  /\ wild' = (cntr >= InpSize)
  /\ cntr' = cntr + 1
  /\ keys' = Append(keys, c)
  /\ ran' = "none"
  /\ UNCHANGED <<left, monitor>>

\* Mutant: the word is taken for a prefix.
MatchesPrefix(word, b) == \A i \in DOMAIN word : b[i - 1] = word[i]

\* strcmp(word, inp) == 0, where word ends with a newline.
Matches(word, b) ==
  /\ \A i \in DOMAIN word : b[i - 1] = word[i]
  /\ b[Len(word)] = ENTER
  /\ b[Len(word) + 1] = NUL

Command(b) == IF Matches(dir, b) THEN "dir" ELSE IF Matches(demo, b) THEN "demo" ELSE "none"

\* Whatever has been run, the characters are cleared, and not the newline.
Cleared(b) == [i \in Index |-> IF i < cntr THEN NUL ELSE b[i]]

EnterKey ==
  /\ Taken
  /\ LET b == [inp EXCEPT ![cntr] = ENTER] IN
       /\ ran' = Command(b)
       /\ inp' = Cleared(b)
  /\ wild' = (cntr >= InpSize)
  /\ cntr' = 0
  /\ keys' = <<>>
  /\ left' = {i \in left : i > cntr} \cup {cntr}
  /\ UNCHANGED monitor

\* The release of a key is only acknowledged.
KeyReleased == Taken /\ UNCHANGED vars

-----------------------------------------------------------------------------
(* main: the boot sequence, then the monitor. *)

\* A key, pressed or released, raises the line of isr_keyb.  Without its gate
\* the CPU faults, finds no gate for the fault either, and resets the machine,
\* where the model ends.
KeyFault ==
  /\ irqs /\ "isr_keyb" \notin gates
  /\ pc' = "reset"
  /\ irqs' = FALSE
  /\ UNCHANGED <<line, gates, rebuilt>>

\* A step of main that touches nothing else.
Main(from, to) == pc = from /\ pc' = to /\ UNCHANGED line

\* Mutant: interrupts are only disabled at boot.
irq_disable_once ==
  /\ \/ Main("boot", "install") /\ irqs' = FALSE
     \/ Main("loop", "x_install") /\ UNCHANGED irqs
  /\ UNCHANGED <<gates, rebuilt>>

irq_disable ==
  /\ \/ Main("boot", "install")
     \/ Main("loop", "x_install")
  /\ irqs' = FALSE
  /\ UNCHANGED <<gates, rebuilt>>

\* The table is cleared.
idt_install ==
  /\ \/ Main("install", "gates")
     \/ Main("x_install", "x_gates")
  /\ gates' = {}
  /\ rebuilt' = (pc = "x_install")
  /\ UNCHANGED irqs

\* isr_default, isr_pit and, at boot only, isr_keyb, in any order: nobody looks
\* before irq_enable.
idt_set_gate(isr) ==
  /\ isr \notin gates
  /\ \/ Main("gates", "gates")
     \/ Main("x_gates", "x_gates") /\ isr # "isr_keyb"
  /\ gates' = gates \cup {isr}
  /\ UNCHANGED <<irqs, rebuilt>>

irq_enable ==
  /\ \/ Main("gates", "loop") /\ gates = {"isr_default", "isr_pit", "isr_keyb"}
     \/ Main("x_gates", "loop") /\ gates = {"isr_default", "isr_pit"}
  /\ irqs' = TRUE
  /\ UNCHANGED <<gates, rebuilt>>

\* The monitor waits for a character, and its other commands touch none of this.
MonitorCommand == pc = "loop" /\ UNCHANGED vars

\* A machine that was reset stays so.
Halted == pc = "reset" /\ UNCHANGED vars

-----------------------------------------------------------------------------
Init ==
  /\ inp = [i \in Index |-> NUL]
  /\ cntr = 0
  /\ pc = "boot"
  /\ irqs = FALSE
  /\ gates = {}
  /\ rebuilt = FALSE
  /\ keys = <<>>
  /\ left = {}
  /\ ran = "none"
  /\ wild = FALSE

Next ==
  \/ \E c \in Keys : Key(c)
  \/ EnterKey \/ KeyReleased \/ KeyFault \/ Halted
  \/ irq_disable \/ idt_install \/ irq_enable \/ MonitorCommand
  \/ \E isr \in {"isr_default", "isr_pit", "isr_keyb"} : idt_set_gate(isr)

Spec == Init /\ [][Next]_vars

-----------------------------------------------------------------------------
(* Properties. *)

TypeOK ==
  /\ inp \in [Index -> Keys \cup {ENTER}]
  /\ cntr \in 0 .. InpSize + 1
  /\ pc \in {"boot", "install", "gates", "loop", "x_install", "x_gates", "reset"}
  /\ irqs \in BOOLEAN
  /\ gates \subseteq {"isr_default", "isr_pit", "isr_keyb"}
  /\ rebuilt \in BOOLEAN
  /\ keys \in Seq(Keys)
  /\ left \subseteq 0 .. InpSize
  /\ ran \in {"none", "dir", "demo"}
  /\ wild \in BOOLEAN

\* What isr_keyb leaves behind: in front of cntr are the keys of this line, the
\* backspaces among them, and from cntr on nothing but the newlines of earlier,
\* longer lines (the loops over inp stop at cntr).
Residue ==
  ~wild =>
    /\ cntr = Len(keys)
    /\ \A i \in Index : inp[i] = IF i < cntr THEN keys[i + 1]
                                 ELSE IF i \in left THEN ENTER ELSE NUL

Word(c) == IF c = "dir" THEN dir ELSE demo

RunsOnly == \A c \in {"dir", "demo"} : ran' = c /\ ran # c => keys = Word(c)
RunsUnless ==
  \A c \in {"dir", "demo"} :
    keys = Word(c) /\ keys' = <<>> /\ keys # <<>> /\ ~wild' =>
      (ran' = c <=> Len(Word(c)) + 1 \notin left)

\* A command runs only for a line of exactly its keys (a corrected line never
\* is one), and such a line fails to run it only when an earlier line was one
\* character longer and none since has been longer still: after "demo", "dir"
\* is not recognised.
RunsExactly == [][RunsOnly /\ RunsUnless]_vars

\* "Prevent an unfortunately-timed IRQ from messing up the whole works"
\* (kernel_main.c:95, 339): no interrupt is taken while the table is rebuilt,
\* and none meets a missing gate, with one exception: command x does not
\* put isr_keyb back (346-347), and the next key resets the machine.
TableWhole ==
  /\ irqs => {"isr_default", "isr_pit"} \subseteq gates
  /\ irqs /\ "isr_keyb" \notin gates => rebuilt
  /\ pc = "reset" => rebuilt

-----------------------------------------------------------------------------
\* The inductive invariant behind Residue and RunsExactly: cntr leaves inp only
\* with the key that is stored behind it.
InsideInv == ~wild => cntr <= InpSize

IInv == TypeOK /\ InsideInv /\ Residue

=============================================================================
