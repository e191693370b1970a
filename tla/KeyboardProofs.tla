--------------------------- MODULE KeyboardProofs ---------------------------
(***************************************************************************)
(* Proofs about Keyboard, for every size of inp and every pair of words.   *)
(***************************************************************************)
EXTENDS Keyboard, TLAPS

\* The actions that leave the line alone.
Quiet ==
  \/ KeyReleased \/ KeyFault \/ Halted
  \/ MonitorCommand \/ irq_disable \/ idt_install \/ irq_enable
  \/ \E isr \in {"isr_default", "isr_pit", "isr_keyb"} : idt_set_gate(isr)

\* Nothing but the keys touches the line.
LEMMA QuietLine == Quiet => UNCHANGED line
BY DEF Quiet, KeyReleased, KeyFault, Halted, MonitorCommand, irq_disable, idt_install, irq_enable,
       idt_set_gate, Main, vars

\* Nor do the other actions leave the types of main's own state.
LEMMA QuietTyped == TypeOK /\ Quiet => TypeOK'
<1> SUFFICES ASSUME TypeOK, Quiet PROVE TypeOK'
  OBVIOUS
<1>1. UNCHANGED line
  BY QuietLine
<1>2. pc' \in {"boot", "install", "gates", "loop", "x_install", "x_gates", "reset"}
  BY DEF Quiet, TypeOK, KeyReleased, KeyFault, Halted, MonitorCommand, irq_disable, idt_install,
         irq_enable, idt_set_gate, Main, vars, monitor
<1>3. irqs' \in BOOLEAN
  BY DEF Quiet, TypeOK, KeyReleased, KeyFault, Halted, MonitorCommand, irq_disable, idt_install,
         irq_enable, idt_set_gate, Main, vars, monitor
<1>4. gates' \subseteq {"isr_default", "isr_pit", "isr_keyb"}
  BY DEF Quiet, TypeOK, KeyReleased, KeyFault, Halted, MonitorCommand, irq_disable, idt_install,
         irq_enable, idt_set_gate, Main, vars, monitor
<1>5. rebuilt' \in BOOLEAN
  BY DEF Quiet, TypeOK, KeyReleased, KeyFault, Halted, MonitorCommand, irq_disable, idt_install,
         irq_enable, idt_set_gate, Main, vars, monitor
<1> QED
  BY <1>1, <1>2, <1>3, <1>4, <1>5 DEF TypeOK, line

LEMMA InitInv == Init => IInv
<1> SUFFICES ASSUME Init PROVE IInv
  OBVIOUS
<1>0. wild \in BOOLEAN /\ rebuilt \in BOOLEAN /\ irqs \in BOOLEAN
  BY DEF Init
<1>1. TypeOK
  <2>1. inp \in [Index -> Keys \cup {ENTER}] /\ cntr \in 0 .. InpSize + 1
    BY WordAssumption DEF Init, Index, Keys
  <2>2. keys \in Seq(Keys) /\ left \subseteq 0 .. InpSize
    BY DEF Init
  <2> QED
    BY <1>0, <2>1, <2>2 DEF Init, TypeOK
<1>2. InsideInv /\ Residue
  BY WordAssumption DEF Init, InsideInv, Residue, Index
<1> QED
  BY <1>1, <1>2 DEF IInv

\* A key.
LEMMA KeyInv == ASSUME IInv, NEW c \in Keys, Key(c) PROVE IInv'
<1> USE DEF IInv
<1>1. TypeOK'
  <2>1. inp' \in [Index -> Keys \cup {ENTER}]
    BY DEF Key, TypeOK
  <2>2. cntr' \in 0 .. InpSize + 1
    BY WordAssumption DEF Key, TypeOK, InsideInv, Taken
  <2>3. keys' \in Seq(Keys)
    BY DEF Key, TypeOK
  <2>4. wild' \in BOOLEAN /\ ran' = "none"
    BY DEF Key
  <2> QED
    BY <2>1, <2>2, <2>3, <2>4 DEF Key, TypeOK, monitor
<1>i. ~wild' => ~(cntr >= InpSize)
  BY Zenon DEF Key
<1>2. InsideInv'
  <2>1. cntr' = cntr + 1 /\ cntr \in Nat
    BY DEF Key, TypeOK
  <2> QED
    BY <1>i, <2>1, WordAssumption DEF InsideInv
<1>3. Residue'
  <2> SUFFICES ASSUME ~wild' PROVE Residue'
    BY DEF Residue
  <2>0. ~wild /\ cntr \in Nat
    BY DEF Key, Taken, TypeOK
  <2>1. cntr < InpSize /\ cntr \in Index /\ ~wild /\ cntr \in Nat
    BY <1>i, <2>0, WordAssumption DEF Index
  <2>2. cntr = Len(keys) /\ keys \in Seq(Keys) /\ c \in Keys
    BY <2>1 DEF Residue, TypeOK
  <2>3. cntr' = Len(keys')
    BY <2>2 DEF Key
  <2>4. ASSUME NEW i \in Index
        PROVE  inp'[i] = IF i < cntr' THEN keys'[i + 1]
                         ELSE IF i \in left' THEN ENTER ELSE NUL
    <3>1. i \in Nat /\ cntr' = cntr + 1 /\ left' = left
      BY WordAssumption DEF Index, Key
    <3>2. CASE i < cntr
      <4>1. keys'[i + 1] = keys[i + 1]
        BY <2>2, <3>1, <3>2 DEF Key
      <4>2. inp'[i] = inp[i]
        BY <2>1, <3>1, <3>2 DEF Key, TypeOK
      <4> QED
        BY <2>1, <3>1, <3>2, <4>1, <4>2 DEF Residue
    <3>3. CASE i = cntr
      <4>1. keys'[i + 1] = c
        BY <2>2, <3>1, <3>3 DEF Key
      <4>2. inp'[i] = c
        BY <2>1, <3>1, <3>3 DEF Key, TypeOK
      <4> QED
        BY <2>1, <3>1, <3>3, <4>1, <4>2
    <3>4. CASE i > cntr
      <4>1. inp'[i] = inp[i]
        BY <2>1, <3>1, <3>4 DEF Key, TypeOK
      <4> QED
        BY <2>1, <3>1, <3>4, <4>1 DEF Residue
    <3> QED
      BY <2>1, <3>1, <3>2, <3>3, <3>4
  <2> QED
    BY <2>3, <2>4 DEF Residue
<1> QED
  BY <1>1, <1>2, <1>3

\* The end of a line.
LEMMA EnterInv == ASSUME IInv, EnterKey PROVE IInv'
<1> USE DEF IInv
<1> DEFINE b == [inp EXCEPT ![cntr] = ENTER]
<1>0. b \in [Index -> Keys \cup {ENTER}] /\ cntr \in Nat /\ ~wild
  <2>1. b \in [Index -> Keys \cup {ENTER}]
    BY DEF TypeOK
  <2>2. cntr \in Nat
    BY DEF TypeOK
  <2>3. ~wild
    BY DEF EnterKey, Taken
  <2> QED
    BY <2>1, <2>2, <2>3
<1>i. ~wild' => ~(cntr >= InpSize)
  BY Zenon DEF EnterKey
<1>1. TypeOK'
  <2>1. inp' \in [Index -> Keys \cup {ENTER}]
    BY <1>0 DEF EnterKey, Cleared, Keys
  <2>2. cntr' = 0 /\ keys' = <<>> /\ wild' \in BOOLEAN /\ UNCHANGED monitor
    BY DEF EnterKey
  <2>3. left' \subseteq 0 .. InpSize
    <3>1. cntr <= InpSize
      BY <1>0 DEF InsideInv
    <3>2. left' = {i \in left : i > cntr} \cup {cntr} /\ left \subseteq 0 .. InpSize
      BY DEF EnterKey, TypeOK
    <3>3. cntr \in 0 .. InpSize
      BY <1>0, <3>1, WordAssumption
    <3> QED
      BY <3>2, <3>3
  <2>4. ran' \in {"none", "dir", "demo"}
    BY DEF EnterKey, Command
  <2> QED
    <3>1. cntr' \in 0 .. InpSize + 1 /\ keys' \in Seq(Keys)
      BY <2>2, WordAssumption
    <3> QED
      BY <2>1, <2>2, <2>3, <2>4, <3>1 DEF TypeOK, monitor
<1>2. InsideInv'
  BY WordAssumption DEF EnterKey, InsideInv
<1>3. Residue'
  <2> SUFFICES ASSUME ~wild' PROVE Residue'
    BY DEF Residue
  <2>1. cntr \in Index
    BY <1>0, <1>i, WordAssumption DEF Index
  <2>2. cntr' = 0 /\ keys' = <<>>
    BY DEF EnterKey
  <2>3. ASSUME NEW i \in Index
        PROVE  inp'[i] = IF i \in left' THEN ENTER ELSE NUL
    <3>1. inp'[i] = IF i < cntr THEN NUL ELSE b[i]
      BY DEF EnterKey, Cleared
    <3>2. left' = {j \in left : j > cntr} \cup {cntr}
      BY DEF EnterKey
    <3>3. i \in Nat
      BY DEF Index
    <3>4. CASE i < cntr
      BY <1>0, <3>1, <3>2, <3>3, <3>4
    <3>5. CASE i = cntr
      BY <1>0, <2>1, <3>1, <3>2, <3>3, <3>5 DEF TypeOK
    <3>6. CASE i > cntr
      <4>1. b[i] = inp[i]
        BY <1>0, <2>1, <3>3, <3>6 DEF TypeOK
      <4>2. inp[i] = IF i \in left THEN ENTER ELSE NUL
        BY <1>0, <3>3, <3>6 DEF Residue
      <4> QED
        BY <1>0, <3>1, <3>2, <3>3, <3>6, <4>1, <4>2
    <3> QED
      BY <1>0, <3>3, <3>4, <3>5, <3>6
  <2> QED
    BY <2>2, <2>3 DEF Residue, Index
<1> QED
  BY <1>1, <1>2, <1>3

LEMMA NextInv == IInv /\ [Next]_vars => IInv'
<1> SUFFICES ASSUME IInv, [Next]_vars PROVE IInv'
  OBVIOUS
<1>1. ASSUME NEW c \in Keys, Key(c) PROVE IInv'
  BY <1>1, KeyInv
<1>2. CASE EnterKey
  BY <1>2, EnterInv
<1>3. CASE Quiet
  BY <1>3, QuietLine, QuietTyped DEF IInv, InsideInv, Residue, line
<1>4. CASE UNCHANGED vars
  BY <1>4 DEF IInv, TypeOK, InsideInv, Residue, vars, line, monitor
<1> QED
  BY <1>1, <1>2, <1>3, <1>4 DEF Next, Quiet

\* The inductive invariant holds throughout.
THEOREM Invariance == Spec => []IInv
BY InitInv, NextInv, PTL DEF Spec

\* Types: cntr gets one beyond the end of inp and no further.
THEOREM TypeCorrect == Spec => []TypeOK
<1>1. IInv => TypeOK
  BY DEF IInv
<1> QED
  BY <1>1, Invariance, PTL

\* In front of cntr inp holds the keys of the line, behind it only newlines of
\* earlier lines, whatever has been typed before.
THEOREM ResidueCorrect == Spec => []Residue
<1>1. IInv => Residue
  BY DEF IInv
<1> QED
  BY <1>1, Invariance, PTL

-----------------------------------------------------------------------------
(* Which lines strcmp takes for a word. *)

LEMMA LineMatches ==
  ASSUME IInv, ~wild, NEW w \in Seq(Chars), Len(w) + 1 < InpSize
  PROVE  LET b == [inp EXCEPT ![cntr] = ENTER] IN
           /\ Matches(w, b) => keys = w
           /\ keys = w => (Matches(w, b) <=> Len(w) + 1 \notin left)
<1> DEFINE b == [inp EXCEPT ![cntr] = ENTER]
<1> USE DEF IInv
<1>1. /\ cntr = Len(keys) /\ keys \in Seq(Keys) /\ cntr \in Nat
      /\ \A i \in Index : inp[i] = IF i < cntr THEN keys[i + 1]
                                   ELSE IF i \in left THEN ENTER ELSE NUL
  BY DEF Residue, TypeOK
<1>2. Len(w) \in Nat /\ Len(w) \in Index /\ Len(w) + 1 \in Index
  BY WordAssumption DEF Index
<1>3. \A i \in Index : b[i] = IF i = cntr THEN ENTER ELSE inp[i]
  BY DEF TypeOK
<1>4. \A i \in Index : i < cntr => b[i] = keys[i + 1] /\ b[i] # ENTER
  <2> SUFFICES ASSUME NEW i \in Index, i < cntr PROVE b[i] = keys[i + 1] /\ b[i] # ENTER
    OBVIOUS
  <2>1. b[i] = keys[i + 1] /\ i + 1 \in 1 .. Len(keys)
    BY <1>1, <1>3 DEF Index
  <2>2. keys[i + 1] \in Keys
    BY <1>1, <2>1
  <2> QED
    BY <2>1, <2>2, CharAssumption DEF Keys
<1>5. ASSUME Matches(w, b) PROVE keys = w
  <2>1. b[Len(w)] = ENTER /\ \A i \in 1 .. Len(w) : b[i - 1] = w[i]
    BY <1>5 DEF Matches
  <2>2. ~(Len(w) < cntr)
    BY <1>2, <1>4, <2>1
  <2>3. ~(cntr < Len(w))
    <3> SUFFICES ASSUME cntr < Len(w) PROVE FALSE
      OBVIOUS
    <3>1. cntr + 1 \in 1 .. Len(w) /\ cntr \in Index
      BY <1>1, <1>2, WordAssumption DEF Index
    <3>2. w[cntr + 1] = ENTER
      BY <1>1, <1>3, <2>1, <3>1
    <3>3. w[cntr + 1] \in Chars
      BY <3>1
    <3> QED
      BY <3>2, <3>3, CharAssumption
  <2>4. Len(keys) = Len(w)
    BY <1>1, <1>2, <2>2, <2>3
  <2>5. ASSUME NEW i \in 1 .. Len(w) PROVE keys[i] = w[i]
    <3>1. i - 1 \in Index /\ i - 1 < cntr /\ (i - 1) + 1 = i
      BY <1>1, <1>2, <2>4, WordAssumption DEF Index
    <3> QED
      BY <1>4, <2>1, <3>1
  <2> QED
    BY <1>1, <2>4, <2>5
<1>6. ASSUME keys = w PROVE Matches(w, b) <=> Len(w) + 1 \notin left
  <2>1. cntr = Len(w)
    BY <1>1, <1>6
  <2>2. b[Len(w)] = ENTER
    BY <1>2, <1>3, <2>1
  <2>3. \A i \in 1 .. Len(w) : b[i - 1] = w[i]
    <3> SUFFICES ASSUME NEW i \in 1 .. Len(w) PROVE b[i - 1] = w[i]
      OBVIOUS
    <3>1. i - 1 \in Index /\ i - 1 < cntr /\ (i - 1) + 1 = i
      BY <1>2, <2>1, WordAssumption DEF Index
    <3> QED
      BY <1>4, <1>6, <3>1
  <2>4. b[Len(w) + 1] = IF Len(w) + 1 \in left THEN ENTER ELSE NUL
    <3>1. ~(Len(w) + 1 < cntr) /\ Len(w) + 1 # cntr
      BY <1>2, <2>1
    <3> QED
      BY <1>1, <1>2, <1>3, <3>1
  <2> QED
    BY <2>2, <2>3, <2>4, CharAssumption DEF Matches
<1> QED
  BY <1>5, <1>6

\* A step runs a command exactly when the line says so.
LEMMA StepRuns == IInv /\ [Next]_vars => RunsOnly /\ RunsUnless
<1> SUFFICES ASSUME IInv, [Next]_vars PROVE RunsOnly /\ RunsUnless
  OBVIOUS
<1> DEFINE b == [inp EXCEPT ![cntr] = ENTER]
<1>1. ASSUME NEW c \in Keys, Key(c) PROVE RunsOnly /\ RunsUnless
  <2>1. ran' = "none" /\ keys' = Append(keys, c) /\ keys \in Seq(Keys)
    BY <1>1 DEF Key, IInv, TypeOK
  <2>2. keys' # <<>>
    BY <2>1
  <2> QED
    BY <2>1, <2>2 DEF RunsOnly, RunsUnless
<1>2. CASE EnterKey
  <2>1. ran' = Command(b) /\ ~wild
    BY <1>2 DEF EnterKey, Taken
  <2>2. /\ Matches(dir, b) => keys = dir
        /\ keys = dir => (Matches(dir, b) <=> Len(dir) + 1 \notin left)
    BY <2>1, LineMatches, WordAssumption
  <2>3. /\ Matches(demo, b) => keys = demo
        /\ keys = demo => (Matches(demo, b) <=> Len(demo) + 1 \notin left)
    BY <2>1, LineMatches, WordAssumption
  <2>4. /\ ran' = "dir" <=> Matches(dir, b)
        /\ ran' = "demo" <=> Matches(demo, b)
    <3>1. ~(Matches(dir, b) /\ Matches(demo, b))
      BY <2>2, <2>3, WordAssumption
    <3> QED
      BY <2>1, <3>1 DEF Command
  <2> HIDE DEF b
  <2>5. RunsOnly
    BY <2>2, <2>3, <2>4 DEF RunsOnly, Word
  <2>6. RunsUnless
    BY <2>2, <2>3, <2>4 DEF RunsUnless, Word
  <2> QED
    BY <2>5, <2>6
<1>3. CASE UNCHANGED line
  BY <1>3 DEF RunsOnly, RunsUnless, line
<1>4. Quiet => UNCHANGED line
  BY QuietLine
<1>5. UNCHANGED vars => UNCHANGED line
  BY DEF vars
<1> QED
  BY <1>1, <1>2, <1>3, <1>4, <1>5 DEF Next, Quiet

\* For any words and any history of lines: a command runs only for its own
\* keys, and is missed only behind the newline of a line one key longer.
THEOREM RunsExactlyCorrect == Spec => RunsExactly
<1>1. IInv /\ [Next]_vars => [RunsOnly /\ RunsUnless]_vars
  BY StepRuns
<1> QED
  BY <1>1, Invariance, PTL DEF Spec, RunsExactly

-----------------------------------------------------------------------------
(* The descriptor table while main rebuilds it. *)

\* main works on the table with interrupts off only, and while x does it the
\* history says so.
RebuildInv ==
  /\ TableWhole
  /\ irqs => pc = "loop"
  /\ pc = "x_gates" => rebuilt

\* No interrupt is taken while the table is rebuilt (kernel_main.c:95, 339), and
\* only the key behind command x meets a missing gate.
THEOREM TableAlwaysWhole == Spec => []TableWhole
<1>1. Init => RebuildInv
  BY DEF Init, RebuildInv, TableWhole
<1>2. RebuildInv /\ [Next]_vars => RebuildInv'
  <2> SUFFICES ASSUME RebuildInv, [Next]_vars PROVE RebuildInv'
    OBVIOUS
  <2>1. CASE irq_disable
    <3>1. irqs' = FALSE /\ pc' \in {"install", "x_install"}
      BY <2>1 DEF irq_disable, Main
    <3>2. pc' # "reset" /\ pc' # "x_gates"
      BY <3>1
    <3> QED BY <3>1, <3>2, Zenon DEF RebuildInv, TableWhole
  <2>2. CASE idt_install
    <3>1. pc # "loop" /\ irqs' = irqs /\ pc' # "reset"
      BY <2>2 DEF idt_install, Main
    <3>2. pc' = "x_gates" => pc = "x_install"
      BY <2>2 DEF idt_install, Main
    <3>3. rebuilt' = (pc = "x_install")
      BY <2>2, Zenon DEF idt_install
    <3> QED BY <3>1, <3>2, <3>3, Zenon DEF RebuildInv, TableWhole
  <2>3. ASSUME NEW isr, idt_set_gate(isr) PROVE RebuildInv'
    <3>1. pc # "loop" /\ irqs' = irqs /\ pc' = pc /\ rebuilt' = rebuilt
      BY <2>3 DEF idt_set_gate, Main
    <3> QED BY <3>1, Zenon DEF RebuildInv, TableWhole
  <2>4. CASE irq_enable
    <3>1. pc' = "loop" /\ {"isr_default", "isr_pit"} \subseteq gates'
      BY <2>4 DEF irq_enable, Main
    <3>2. "isr_keyb" \in gates' \/ pc = "x_gates"
      BY <2>4 DEF irq_enable, Main
    <3>3. rebuilt' = rebuilt /\ pc' # "reset" /\ pc' # "x_gates"
      BY <2>4, <3>1 DEF irq_enable
    <3> QED BY <3>1, <3>2, <3>3, Zenon DEF RebuildInv, TableWhole
  <2>5. CASE KeyFault
    <3>1. rebuilt /\ rebuilt' = rebuilt /\ irqs' = FALSE /\ pc' = "reset"
      BY <2>5, Zenon DEF KeyFault, RebuildInv, TableWhole
    <3>2. pc' # "x_gates"
      BY <3>1
    <3> QED BY <3>1, <3>2, Zenon DEF RebuildInv, TableWhole
  <2>6. CASE UNCHANGED monitor
    BY <2>6 DEF monitor, RebuildInv, TableWhole
  <2> QED BY <2>1, <2>2, <2>3, <2>4, <2>5, <2>6
          DEF Next, Key, EnterKey, KeyReleased, Halted, MonitorCommand, vars, monitor
<1>3. RebuildInv => TableWhole
  BY DEF RebuildInv
<1> QED BY <1>1, <1>2, <1>3, PTL DEF Spec

=============================================================================
