----------------------------- MODULE IdtProofs -----------------------------
(***************************************************************************)
(* Proofs about the interrupt path: Idt, for every number of gates and     *)
(* every set of ISRs, and (at the end) Interrupts, for every set of lines  *)
(* and handlers.                                                           *)
(***************************************************************************)
EXTENDS Idt, Interrupts, TLAPS

\* idtr_info.length does not overflow its 16 bits: 256 gates fit.
LEMMA LengthFits ==
  ASSUME NEW c \in 1 .. GateCount
  PROVE  (8 * c - 1) % LengthMod = 8 * c - 1
BY GateAssumption, SMT

\* What a step leaves alone.
LEMMA StutterTyped == TypeOK /\ UNCHANGED vars => TypeOK'
BY DEF TypeOK, vars

\* The junk found at boot has the type of the tables.
LEMMA InitTyped == Init => TypeOK
<1> SUFFICES ASSUME Init PROVE TypeOK
  OBVIOUS
<1>1. /\ offset \in [Numbers -> Numbers \cup {Junk}]
      /\ present \in [Numbers -> BOOLEAN]
  BY DEF Init
<1>2. /\ wrapper \in [Numbers -> Addresses]
      /\ installed \in [Numbers -> Isrs \cup {NULL}]
      /\ idt \in [Numbers -> Isrs \cup {NULL}]
  BY DEF Init, Addresses
<1>3. req \in [n : Numbers, isr : Isrs, type_attr : BOOLEAN]
  BY GateAssumption DEF Init, Numbers
<1>4. /\ idt_gate_count \in 0 .. GateCount
      /\ length \in 0 .. LengthMod - 1
      /\ pc = "idle"
  BY GateAssumption DEF Init
<1>5. /\ idtp \in [base : {"none", "idt"}, limit : 0 .. LengthMod - 1]
      /\ idtr \in [base : {"none", "IDT_BASE"}, limit : 0 .. LengthMod - 1]
  BY GateAssumption DEF Init, NoTable
<1> QED
  BY <1>1, <1>2, <1>3, <1>4, <1>5 DEF TypeOK

\* Every step keeps the types; the count stays within the table because a
\* number is installed only below GateCount (CountInv).
LEMMA NextTyped == TypeOK /\ CountInv /\ [Next]_vars => TypeOK'
<1> SUFFICES ASSUME TypeOK, CountInv, [Next]_vars PROVE TypeOK'
  OBVIOUS
<1> USE DEF TypeOK
<1>1. ASSUME NEW n \in Numbers, NEW isr \in Isrs, NEW type_attr \in BOOLEAN,
             idt_install_interrupt(n, isr, type_attr)
      PROVE  TypeOK'
  BY <1>1 DEF idt_install_interrupt
<1>2. CASE add_null_gates
  <2>1. offset' \in [Numbers -> Numbers \cup {Junk}]
    BY <1>2 DEF add_null_gates
  <2>2. present' \in [Numbers -> BOOLEAN]
    BY <1>2 DEF add_null_gates
  <2> QED
    BY <1>2, <2>1, <2>2 DEF add_null_gates
<1>3. CASE NullWrapper
  <2>1. idt_gate_count' \in 0 .. GateCount
    BY <1>3, GateAssumption DEF NullWrapper, CountInv, Numbers
  <2>2. wrapper' \in [Numbers -> Addresses]
    BY <1>3 DEF NullWrapper, Addresses
  <2> QED
    BY <1>3, <2>1, <2>2 DEF NullWrapper
<1>4. CASE CountGate
  <2>1. idt_gate_count' \in 0 .. GateCount
    BY <1>4, GateAssumption DEF CountGate, Numbers
  <2> QED
    BY <1>4, <2>1 DEF CountGate
<1>5. CASE SetGateOffset
  <2>1. offset' \in [Numbers -> Numbers \cup {Junk}]
    BY <1>5 DEF SetGateOffset
  <2> QED
    BY <1>5, <2>1 DEF SetGateOffset
<1>6. CASE SetGateAttr
  <2>1. present' \in [Numbers -> BOOLEAN]
    BY <1>6 DEF SetGateAttr
  <2> QED
    BY <1>6, <2>1 DEF SetGateAttr
<1>7. CASE SetWrapperPart
  <2>1. wrapper' \in [Numbers -> Addresses]
    BY <1>7 DEF SetWrapperPart, Addresses
  <2> QED
    BY <1>7, <2>1 DEF SetWrapperPart
<1>8. CASE SetWrapper
  <2>1. wrapper' \in [Numbers -> Addresses]
    BY <1>8 DEF SetWrapper, Addresses
  <2>2. installed' \in [Numbers -> Isrs \cup {NULL}]
    BY <1>8 DEF SetWrapper
  <2> QED
    BY <1>8, <2>1, <2>2 DEF SetWrapper
<1>9. CASE SetLength
  <2>1. length' \in 0 .. LengthMod - 1
    BY <1>9, GateAssumption DEF SetLength
  <2> QED
    BY <1>9, <2>1 DEF SetLength
<1>10. CASE idt_load
  <2>1. idtr' \in [base : {"none", "IDT_BASE"}, limit : 0 .. LengthMod - 1]
    BY <1>10 DEF idt_load, LoadedInfo
  <2> QED
    BY <1>10, <2>1 DEF idt_load
<1>11. ASSUME NEW n \in Numbers, NEW isr \in Isrs, idt_set_gate(n, isr)
       PROVE  TypeOK'
  <2>1. idt' \in [Numbers -> Isrs \cup {NULL}]
    BY <1>11 DEF idt_set_gate
  <2> QED
    BY <1>11, <2>1 DEF idt_set_gate
<1>12. CASE idt_install
  <2>1. idtr' \in [base : {"none", "IDT_BASE"}, limit : 0 .. LengthMod - 1]
    BY <1>12 DEF idt_install, LoadedInfo
  <2>2. idtp' \in [base : {"none", "idt"}, limit : 0 .. LengthMod - 1]
    BY <1>12, GateAssumption DEF idt_install
  <2>3. idt' \in [Numbers -> Isrs \cup {NULL}]
    BY <1>12 DEF idt_install
  <2> QED
    BY <1>12, <2>1, <2>2, <2>3 DEF idt_install
<1>13. CASE UNCHANGED vars
  BY <1>13 DEF vars
<1> QED
  BY <1>1, <1>2, <1>3, <1>4, <1>5, <1>6, <1>7, <1>8, <1>9, <1>10, <1>11, <1>12, <1>13
  DEF Next, Install

\* The conjuncts of the invariant besides the types.
CoreInv == CountInv /\ LimitInv /\ WrittenInv /\ RewriteInv
             /\ GapInv /\ AttrInv /\ WindowInv

\* The tables are as the invariant says at boot: nothing is counted yet.
LEMMA InitCore == Init => CoreInv
BY GateAssumption DEF Init, CoreInv, CountInv, LimitInv, WrittenInv, RewriteInv,
  GapInv, AttrInv, WindowInv, Window, Covered, NoTable, Numbers

\* Every step keeps the invariant.
LEMMA NextCore == TypeOK /\ CoreInv /\ [Next]_vars => CoreInv'
<1> SUFFICES ASSUME TypeOK, CoreInv, [Next]_vars PROVE CoreInv'
  OBVIOUS
<1> USE GateAssumption, IsrAssumption DEF TypeOK, CoreInv, Window, Covered, Numbers

<1>1. ASSUME NEW n \in Numbers, NEW isr \in Isrs, NEW type_attr \in BOOLEAN,
             idt_install_interrupt(n, isr, type_attr)
      PROVE  CoreInv'
  <2>1. CountInv'
    BY <1>1 DEF idt_install_interrupt, CountInv
  <2>2. LimitInv'
    BY <1>1 DEF idt_install_interrupt, LimitInv, CountInv
  <2>3. WrittenInv'
    BY <1>1 DEF idt_install_interrupt, WrittenInv, CountInv, RewriteInv, LimitInv, AttrInv, WindowInv
  <2>4. RewriteInv'
    BY <1>1 DEF idt_install_interrupt, RewriteInv, CountInv, LimitInv, WrittenInv
  <2>5. AttrInv'
    BY <1>1 DEF idt_install_interrupt, AttrInv, CountInv
  <2>6. WindowInv'
    BY <1>1 DEF idt_install_interrupt, WindowInv, AttrInv, CountInv
  <2>7. GapInv'
    BY <1>1 DEF idt_install_interrupt, GapInv, CountInv
  <2> QED
    BY <2>1, <2>2, <2>3, <2>4, <2>5, <2>6, <2>7

<1>2. CASE add_null_gates
  <2>1. CountInv'
    BY <1>2 DEF add_null_gates, CountInv
  <2>2. LimitInv'
    BY <1>2 DEF add_null_gates, LimitInv, CountInv
  <2>3. WrittenInv'
    BY <1>2 DEF add_null_gates, WrittenInv, CountInv, RewriteInv, LimitInv, AttrInv, WindowInv
  <2>4. RewriteInv'
    BY <1>2 DEF add_null_gates, RewriteInv, CountInv, LimitInv, WrittenInv
  <2>5. AttrInv'
    BY <1>2 DEF add_null_gates, AttrInv, CountInv
  <2>6. WindowInv'
    BY <1>2 DEF add_null_gates, WindowInv, AttrInv, CountInv
  <2>7. GapInv'
    BY <1>2 DEF add_null_gates, GapInv, CountInv
  <2> QED
    BY <2>1, <2>2, <2>3, <2>4, <2>5, <2>6, <2>7

<1>3. CASE NullWrapper
  <2>1. CountInv'
    BY <1>3 DEF NullWrapper, CountInv
  <2>2. LimitInv'
    BY <1>3 DEF NullWrapper, LimitInv, CountInv
  <2>3. WrittenInv'
    BY <1>3 DEF NullWrapper, WrittenInv, CountInv, GapInv
  <2>4. RewriteInv'
    BY <1>3 DEF NullWrapper, RewriteInv, CountInv, LimitInv, WrittenInv
  <2>5. AttrInv'
    BY <1>3 DEF NullWrapper, AttrInv, CountInv
  <2>6. WindowInv'
    BY <1>3 DEF NullWrapper, WindowInv, AttrInv, CountInv
  <2>7. GapInv'
    BY <1>3 DEF NullWrapper, GapInv, CountInv
  <2> QED
    BY <2>1, <2>2, <2>3, <2>4, <2>5, <2>6, <2>7

<1>4. CASE CountGate
  <2>1. CountInv'
    BY <1>4 DEF CountGate, CountInv
  <2>2. LimitInv'
    BY <1>4 DEF CountGate, LimitInv, CountInv
  <2>3. WrittenInv'
    BY <1>4 DEF CountGate, WrittenInv, CountInv, RewriteInv, LimitInv, AttrInv, WindowInv
  <2>4. RewriteInv'
    BY <1>4 DEF CountGate, RewriteInv, CountInv, LimitInv, WrittenInv
  <2>5. AttrInv'
    BY <1>4 DEF CountGate, AttrInv, CountInv
  <2>6. WindowInv'
    BY <1>4 DEF CountGate, WindowInv, AttrInv, CountInv
  <2>7. GapInv'
    BY <1>4 DEF CountGate, GapInv, CountInv
  <2> QED
    BY <2>1, <2>2, <2>3, <2>4, <2>5, <2>6, <2>7

<1>5. CASE SetGateOffset
  <2>1. CountInv'
    BY <1>5 DEF SetGateOffset, CountInv
  <2>2. LimitInv'
    BY <1>5 DEF SetGateOffset, LimitInv, CountInv
  <2>3. WrittenInv'
    BY <1>5 DEF SetGateOffset, WrittenInv, CountInv, RewriteInv, LimitInv, AttrInv, WindowInv
  <2>4. RewriteInv'
    BY <1>5 DEF SetGateOffset, RewriteInv, CountInv, LimitInv, WrittenInv
  <2>5. AttrInv'
    BY <1>5 DEF SetGateOffset, AttrInv, CountInv
  <2>6. WindowInv'
    BY <1>5 DEF SetGateOffset, WindowInv, AttrInv, CountInv
  <2>7. GapInv'
    BY <1>5 DEF SetGateOffset, GapInv, CountInv
  <2> QED
    BY <2>1, <2>2, <2>3, <2>4, <2>5, <2>6, <2>7

<1>6. CASE SetGateAttr
  <2>1. CountInv'
    BY <1>6 DEF SetGateAttr, CountInv
  <2>2. LimitInv'
    BY <1>6 DEF SetGateAttr, LimitInv, CountInv
  <2>3. WrittenInv'
    BY <1>6 DEF SetGateAttr, WrittenInv, CountInv, RewriteInv, LimitInv, AttrInv, WindowInv
  <2>4. RewriteInv'
    BY <1>6 DEF SetGateAttr, RewriteInv, CountInv, LimitInv, WrittenInv
  <2>5. AttrInv'
    BY <1>6 DEF SetGateAttr, AttrInv, CountInv
  <2>6. WindowInv'
    BY <1>6 DEF SetGateAttr, WindowInv, AttrInv, CountInv
  <2>7. GapInv'
    BY <1>6 DEF SetGateAttr, GapInv, CountInv
  <2> QED
    BY <2>1, <2>2, <2>3, <2>4, <2>5, <2>6, <2>7

<1>7. CASE SetWrapperPart
  <2>1. CountInv'
    BY <1>7 DEF SetWrapperPart, CountInv
  <2>2. LimitInv'
    BY <1>7 DEF SetWrapperPart, LimitInv, CountInv
  <2>3. WrittenInv'
    BY <1>7 DEF SetWrapperPart, WrittenInv, CountInv, RewriteInv, LimitInv, AttrInv, WindowInv
  <2>4. RewriteInv'
    BY <1>7 DEF SetWrapperPart, RewriteInv, CountInv, LimitInv, WrittenInv
  <2>5. AttrInv'
    BY <1>7 DEF SetWrapperPart, AttrInv, CountInv
  <2>6. WindowInv'
    BY <1>7 DEF SetWrapperPart, WindowInv, AttrInv, CountInv
  <2>7. GapInv'
    BY <1>7 DEF SetWrapperPart, GapInv, CountInv
  <2> QED
    BY <2>1, <2>2, <2>3, <2>4, <2>5, <2>6, <2>7

<1>8. CASE SetWrapper
  <2>1. CountInv'
    BY <1>8 DEF SetWrapper, CountInv
  <2>2. LimitInv'
    BY <1>8 DEF SetWrapper, LimitInv, CountInv
  <2>3. WrittenInv'
    BY <1>8 DEF SetWrapper, WrittenInv, CountInv, RewriteInv, LimitInv, AttrInv, WindowInv
  <2>4. RewriteInv'
    BY <1>8 DEF SetWrapper, RewriteInv, CountInv, LimitInv, WrittenInv
  <2>5. AttrInv'
    BY <1>8 DEF SetWrapper, AttrInv, CountInv
  <2>6. WindowInv'
    BY <1>8 DEF SetWrapper, WindowInv, AttrInv, CountInv
  <2>7. GapInv'
    BY <1>8 DEF SetWrapper, GapInv, CountInv
  <2> QED
    BY <2>1, <2>2, <2>3, <2>4, <2>5, <2>6, <2>7

<1>9. CASE SetLength
  <2>1. CountInv'
    BY <1>9 DEF SetLength, CountInv
  <2>2. LimitInv'
    <3>1. length' = 8 * idt_gate_count - 1
      BY <1>9, LengthFits DEF SetLength, CountInv
    <3>2. length <= length'
      BY <3>1, <1>9 DEF SetLength, LimitInv, CountInv
    <3> QED
      BY <1>9, <3>1, <3>2 DEF SetLength, LimitInv, CountInv
  <2>3. WrittenInv'
    BY <1>9 DEF SetLength, WrittenInv, CountInv, RewriteInv, LimitInv, AttrInv, WindowInv
  <2>4. RewriteInv'
    BY <1>9 DEF SetLength, RewriteInv, CountInv, LimitInv, WrittenInv
  <2>5. AttrInv'
    BY <1>9 DEF SetLength, AttrInv, CountInv
  <2>6. WindowInv'
    BY <1>9 DEF SetLength, WindowInv, AttrInv, CountInv
  <2>7. GapInv'
    BY <1>9 DEF SetLength, GapInv, CountInv
  <2> QED
    BY <2>1, <2>2, <2>3, <2>4, <2>5, <2>6, <2>7

<1>10. CASE idt_load
  <2>1. CountInv'
    BY <1>10 DEF idt_load, LoadedInfo, CountInv
  <2>2. LimitInv'
    BY <1>10 DEF idt_load, LoadedInfo, LimitInv, CountInv
  <2>3. WrittenInv'
    BY <1>10 DEF idt_load, LoadedInfo, WrittenInv, CountInv, RewriteInv, LimitInv, AttrInv, WindowInv
  <2>4. RewriteInv'
    BY <1>10 DEF idt_load, LoadedInfo, RewriteInv, CountInv, LimitInv, WrittenInv
  <2>5. AttrInv'
    BY <1>10 DEF idt_load, LoadedInfo, AttrInv, CountInv
  <2>6. WindowInv'
    BY <1>10 DEF idt_load, LoadedInfo, WindowInv, AttrInv, CountInv
  <2>7. GapInv'
    BY <1>10 DEF idt_load, GapInv, CountInv
  <2> QED
    BY <2>1, <2>2, <2>3, <2>4, <2>5, <2>6, <2>7

<1>11. CASE idt_install
  <2>1. CountInv'
    BY <1>11 DEF idt_install, LoadedInfo, CountInv
  <2>2. LimitInv'
    BY <1>11 DEF idt_install, LoadedInfo, LimitInv, CountInv
  <2>3. WrittenInv'
    BY <1>11 DEF idt_install, LoadedInfo, WrittenInv, CountInv, RewriteInv, LimitInv, AttrInv, WindowInv
  <2>4. RewriteInv'
    BY <1>11 DEF idt_install, LoadedInfo, RewriteInv, CountInv, LimitInv, WrittenInv
  <2>5. AttrInv'
    BY <1>11 DEF idt_install, LoadedInfo, AttrInv, CountInv
  <2>6. WindowInv'
    BY <1>11 DEF idt_install, LoadedInfo, WindowInv, AttrInv, CountInv
  <2>7. GapInv'
    BY <1>11 DEF idt_install, GapInv, CountInv
  <2> QED
    BY <2>1, <2>2, <2>3, <2>4, <2>5, <2>6, <2>7

<1>12. ASSUME NEW n \in Numbers, NEW isr \in Isrs, idt_set_gate(n, isr)
       PROVE  CoreInv'
  <2>1. CountInv'
    BY <1>12 DEF idt_set_gate, CountInv
  <2>2. LimitInv'
    BY <1>12 DEF idt_set_gate, LimitInv, CountInv
  <2>3. WrittenInv'
    BY <1>12 DEF idt_set_gate, WrittenInv, CountInv, RewriteInv, LimitInv, AttrInv, WindowInv
  <2>4. RewriteInv'
    BY <1>12 DEF idt_set_gate, RewriteInv, CountInv, LimitInv, WrittenInv
  <2>5. AttrInv'
    BY <1>12 DEF idt_set_gate, AttrInv, CountInv
  <2>6. WindowInv'
    BY <1>12 DEF idt_set_gate, WindowInv, AttrInv, CountInv
  <2>7. GapInv'
    BY <1>12 DEF idt_set_gate, GapInv, CountInv
  <2> QED
    BY <2>1, <2>2, <2>3, <2>4, <2>5, <2>6, <2>7

<1>13. CASE UNCHANGED vars
  BY <1>13 DEF vars, CountInv, LimitInv, WrittenInv, RewriteInv, GapInv, AttrInv, WindowInv

<1> QED
  BY <1>1, <1>2, <1>3, <1>4, <1>5, <1>6, <1>7, <1>8, <1>9, <1>10, <1>11, <1>12, <1>13
  DEF Next, Install


\* The state of idt_install_interrupt and of its tables is consistent in every
\* reachable state.
THEOREM Invariance == Spec => []IInv
<1>1. Init => IInv
  BY InitTyped, InitCore DEF IInv, CoreInv
<1>2. IInv /\ [Next]_vars => IInv'
  BY NextTyped, NextCore DEF IInv, CoreInv
<1> QED
  BY <1>1, <1>2, PTL DEF Spec

\* The variables of idt.c keep their types; in particular idt_gate_count stays
\* within the 256 gates.
THEOREM TypeCorrect == Spec => []TypeOK
<1>1. IInv => TypeOK
  BY DEF IInv
<1> QED
  BY <1>1, Invariance, PTL

\* An interrupt that arrives between any two stores of idt_install_interrupt
\* reaches the ISR last installed for its number, except for the number whose
\* wrapper is being stored.
THEOREM GateServedCorrect == Spec => []GateServed
<1>1. IInv => GateServed
  <2> SUFFICES ASSUME IInv, NEW n \in Numbers, Covered(n), present[n], ~Window(n)
               PROVE  offset[n] = n /\ wrapper[n] = installed[n] /\ installed[n] # NULL
    BY DEF GateServed
  <2>1. n < idt_gate_count
    BY DEF IInv, TypeOK, LimitInv, Covered, Numbers
  <2>2. CASE pc \in {"gate", "attr"} /\ req.n = n
    BY <2>2 DEF IInv, RewriteInv
  <2>3. CASE ~(pc \in {"gate", "attr"} /\ req.n = n)
    BY <2>1, <2>3 DEF IInv, WrittenInv
  <2> QED
    BY <2>2, <2>3
<1> QED
  BY <1>1, Invariance, PTL

\* idtr_info.length covers every interrupt installed, and loading it never
\* shrinks the table the CPU sees.
THEOREM ReachableCorrect == Spec => []InstalledReachable
<1>1. IInv => InstalledReachable
  BY DEF IInv, LimitInv, InstalledReachable
<1> QED
  BY <1>1, Invariance, PTL

-----------------------------------------------------------------------------
(* Idt implements HandlerTable. *)

Reached == [n \in Numbers |-> Arrives(n)]
Busy    == IF pc = "idle" THEN {} ELSE {req.n}

\* At the end of an installation the number has an ISR.
DoneInv == pc = "length" => installed[req.n] \in Isrs

LEMMA DoneStep == TypeOK /\ DoneInv /\ [Next]_vars => DoneInv'
BY DEF TypeOK, DoneInv, Next, Install, vars, idt_install_interrupt, add_null_gates, NullWrapper,
  CountGate, SetGateOffset, SetGateAttr, SetWrapperPart, SetWrapper, SetLength, idt_load, idt_set_gate,
  idt_install

\* What GateServed says, of the place an interrupt arrives at.
LEMMA ArrivesServed ==
  ASSUME IInv, NEW n \in Numbers, ~Window(n)
  PROVE  /\ Arrives(n) \in {NULL, installed[n]}
         /\ Covered(n) /\ present[n] => offset[n] = n
<1>1. CASE ~(Covered(n) /\ present[n])
  BY <1>1 DEF Arrives
<1>2. CASE Covered(n) /\ present[n]
  <2>1. n < idt_gate_count
    BY <1>2 DEF IInv, TypeOK, LimitInv, Covered, Numbers
  <2>2. offset[n] = n /\ wrapper[n] = installed[n]
    <3>1. CASE pc \in {"gate", "attr"} /\ req.n = n
      BY <1>2, <3>1 DEF IInv, RewriteInv
    <3>2. CASE ~(pc \in {"gate", "attr"} /\ req.n = n)
      BY <1>2, <2>1, <3>2 DEF IInv, WrittenInv
    <3> QED
      BY <3>1, <3>2
  <2> QED
    BY <1>2, <2>2 DEF Arrives
<1> QED
  BY <1>1, <1>2

\* Wherever an interrupt arrives has the type of an address.
LEMMA ArrivesTyped == ASSUME TypeOK, NEW n \in Numbers PROVE Arrives(n) \in Isrs \cup {NULL} \cup {Junk, Torn}
BY DEF TypeOK, Arrives, Addresses

\* A gate that is not counted is out of the CPU's reach.
LEMMA UncountedUncovered ==
  ASSUME IInv, NEW n \in Numbers, idt_gate_count <= n
  PROVE  ~Covered(n)
BY DEF IInv, TypeOK, LimitInv, Covered, Numbers

\* The arithmetic of limits: a gate inside the limit of c gates is one of them.
LEMMA CoveredCounted ==
  ASSUME NEW n \in Nat, NEW limit \in Int, NEW len \in Int, NEW c \in Int,
         8 * n + 7 <= limit, limit <= len, len < 8 * c \/ len = 0
  PROVE  n < c
OBVIOUS

\* If no interrupt arrives elsewhere, the abstract table is as it was.
LEMMA ReachedSame == ASSUME \A n \in Numbers : Arrives(n)' = Arrives(n) PROVE Reached' = Reached
BY DEF Reached, Numbers

\* If only number m changes, the abstract table changes at m.
LEMMA ReachedExcept ==
  ASSUME NEW m \in Numbers, \A n \in Numbers \ {m} : Arrives(n)' = Arrives(n)
  PROVE  Reached' = [Reached EXCEPT ![m] = Arrives(m)']
BY DEF Reached, Numbers

\* Every step of Idt is one of the table, or none.
LEMMA TableStep == IInv /\ IInv' /\ DoneInv /\ [Next]_vars => [Table!Next]_(Table!vars)
<1> SUFFICES ASSUME IInv, IInv', DoneInv, [Next]_vars
             PROVE  Table!Next \/ UNCHANGED <<Reached, installed, Busy>>
  BY DEF Table!vars, Reached, Busy
<1>t. TypeOK /\ TypeOK'
  BY DEF IInv
<1>1. ASSUME NEW n \in Numbers, NEW isr \in Isrs, NEW type_attr \in BOOLEAN,
             idt_install_interrupt(n, isr, type_attr)
      PROVE  Table!Next
  <2>1. \A k \in Numbers : Arrives(k)' = Arrives(k)
    BY <1>1 DEF idt_install_interrupt, Arrives, Covered
  <2>2. Busy = {} /\ Busy' = {n} /\ installed' = installed
    BY <1>1, <1>t DEF idt_install_interrupt, Busy, TypeOK
  <2>3. Table!Begin
    BY <2>1, <2>2, ReachedSame DEF Table!Begin, Reached, Busy
  <2> QED
    BY <2>3 DEF Table!Next
<1>2. CASE add_null_gates
  <2>1. idt_gate_count \in Numbers /\ ~Covered(idt_gate_count)
    BY <1>2, <1>t, UncountedUncovered, GateAssumption DEF add_null_gates, IInv, CountInv, TypeOK, Numbers
  <2>2. \A k \in Numbers : Arrives(k)' = Arrives(k)
    <3> SUFFICES ASSUME NEW k \in Numbers PROVE Arrives(k)' = Arrives(k)
      OBVIOUS
    <3>1. CASE k = idt_gate_count
      BY <1>2, <2>1, <3>1 DEF add_null_gates, Arrives, Covered
    <3>2. CASE k # idt_gate_count
      BY <1>2, <1>t, <3>2 DEF add_null_gates, Arrives, Covered, TypeOK
    <3> QED
      BY <3>1, <3>2
  <2> QED
    BY <1>2, <2>2, ReachedSame DEF add_null_gates, Busy
<1>3. CASE NullWrapper
  <2>1. req.n \in Numbers /\ ~Covered(req.n) /\ \A k \in Numbers : ~Window(k)
    BY <1>3, <1>t, UncountedUncovered DEF NullWrapper, IInv, CountInv, TypeOK, Window
  <2>2. \A k \in Numbers : Arrives(k)' = Arrives(k)
    <3> SUFFICES ASSUME NEW k \in Numbers PROVE Arrives(k)' = Arrives(k)
      OBVIOUS
    <3>1. CASE k = req.n
      BY <1>3, <2>1, <3>1 DEF NullWrapper, Arrives, Covered
    <3>2. CASE k # req.n
      <4>1. Covered(k) /\ present[k] => offset[k] = k
        BY <2>1, ArrivesServed
      <4> QED
        BY <1>3, <1>t, <3>2, <4>1 DEF NullWrapper, Arrives, Covered, TypeOK
    <3> QED
      BY <3>1, <3>2
  <2> QED
    BY <1>3, <2>2, ReachedSame DEF NullWrapper, Busy
<1>4. CASE CountGate
  <2>1. \A k \in Numbers : Arrives(k)' = Arrives(k)
    BY <1>4 DEF CountGate, Arrives, Covered
  <2> QED
    BY <1>4, <2>1, ReachedSame DEF CountGate, Busy
<1>5. CASE SetGateOffset
  <2>1. req.n \in Numbers /\ ~Window(req.n)
    BY <1>5, <1>t DEF SetGateOffset, TypeOK, Window
  <2>2. Covered(req.n) /\ present[req.n] => offset[req.n] = req.n
    BY <2>1, ArrivesServed
  <2>3. \A k \in Numbers : Arrives(k)' = Arrives(k)
    BY <1>5, <1>t, <2>1, <2>2 DEF SetGateOffset, Arrives, Covered, TypeOK
  <2> QED
    BY <1>5, <2>3, ReachedSame DEF SetGateOffset, Busy
<1>6. CASE SetGateAttr
  <2>1. req.n \in Numbers
    BY <1>t DEF TypeOK
  <2>2. \A k \in Numbers \ {req.n} : Arrives(k)' = Arrives(k)
    BY <1>6, <1>t DEF SetGateAttr, Arrives, Covered, TypeOK
  <2>m. PICK m \in Numbers : m = req.n
    BY <2>1
  <2>3. Reached' = [Reached EXCEPT ![m] = Arrives(m)']
    BY <2>2, <2>m, ReachedExcept
  <2>4. Arrives(m)' \in Isrs \cup {NULL} \cup {Junk, Torn}
    BY <1>t DEF TypeOK, Arrives, Addresses
  <2>5. Busy = {req.n} /\ Busy' = Busy /\ installed' = installed
    BY <1>6 DEF SetGateAttr, Busy
  <2>6. Table!Rewrite
    BY <2>3, <2>4, <2>5, <2>m DEF Table!Rewrite, Reached, Busy
  <2> QED
    BY <2>6 DEF Table!Next
<1>7. CASE SetWrapperPart
  <2>1. req.n \in Numbers /\ \A k \in Numbers \ {req.n} : ~Window(k)
    BY <1>7, <1>t DEF SetWrapperPart, TypeOK, Window
  <2>2. \A k \in Numbers \ {req.n} : Arrives(k)' = Arrives(k)
    <3> SUFFICES ASSUME NEW k \in Numbers, k # req.n PROVE Arrives(k)' = Arrives(k)
      OBVIOUS
    <3>1. Covered(k) /\ present[k] => offset[k] = k
      BY <2>1, ArrivesServed
    <3> QED
      BY <1>7, <1>t, <3>1 DEF SetWrapperPart, Arrives, Covered, TypeOK
  <2>m. PICK m \in Numbers : m = req.n
    BY <2>1
  <2>3. Reached' = [Reached EXCEPT ![m] = Arrives(m)']
    BY <2>2, <2>m, ReachedExcept
  <2>4. Arrives(m)' \in Isrs \cup {NULL} \cup {Junk, Torn}
    BY <1>t DEF TypeOK, Arrives, Addresses
  <2>5. Busy = {req.n} /\ Busy' = Busy /\ installed' = installed
    BY <1>7 DEF SetWrapperPart, Busy
  <2>6. Table!Rewrite
    BY <2>3, <2>4, <2>5, <2>m DEF Table!Rewrite, Reached, Busy
  <2> QED
    BY <2>6 DEF Table!Next
<1>8. CASE SetWrapper
  <2>1. /\ req.n \in Numbers /\ req.isr \in Isrs
        /\ \A k \in Numbers \ {req.n} : ~Window(k)
    BY <1>8, <1>t DEF SetWrapper, TypeOK, Window
  <2>2. \A k \in Numbers \ {req.n} : Arrives(k)' = Arrives(k)
    <3> SUFFICES ASSUME NEW k \in Numbers, k # req.n PROVE Arrives(k)' = Arrives(k)
      OBVIOUS
    <3>1. Covered(k) /\ present[k] => offset[k] = k
      BY <2>1, ArrivesServed
    <3> QED
      BY <1>8, <1>t, <3>1 DEF SetWrapper, Arrives, Covered, TypeOK
  <2>m. PICK m \in Numbers : m = req.n
    BY <2>1
  <2>3. Reached' = [Reached EXCEPT ![m] = Arrives(m)']
    BY <2>2, <2>m, ReachedExcept
  <2>4. Arrives(m)' \in {req.isr, NULL}
    <3>1. offset[req.n] = req.n
      BY <1>8 DEF SetWrapper, IInv, WindowInv
    <3> QED
      BY <1>8, <1>t, <2>1, <2>m, <3>1 DEF SetWrapper, Arrives, TypeOK
  <2>5. Busy = {req.n} /\ Busy' = Busy /\ installed' = [installed EXCEPT ![req.n] = req.isr]
    BY <1>8 DEF SetWrapper, Busy
  <2>6. Table!Install
    BY <2>1, <2>3, <2>4, <2>5, <2>m DEF Table!Install, Reached, Busy
  <2> QED
    BY <2>6 DEF Table!Next
<1>9. CASE SetLength
  <2>1. \A k \in Numbers : Arrives(k)' = Arrives(k)
    BY <1>9 DEF SetLength, Arrives, Covered
  <2>2. /\ Busy = {req.n} /\ Busy' = {} /\ installed' = installed
        /\ req.n \in Numbers /\ installed[req.n] \in Isrs /\ ~Window(req.n)
    BY <1>9, <1>t DEF SetLength, Busy, DoneInv, TypeOK, Window
  <2>3. Reached[req.n] \in {installed[req.n], NULL}
    BY <2>2, ArrivesServed DEF Reached
  <2>4. Table!Finish
    BY <2>1, <2>2, <2>3, ReachedSame DEF Table!Finish, Reached, Busy
  <2> QED
    BY <2>4 DEF Table!Next
<1>10. ASSUME pc = "idle", idtr' = LoadedInfo,
              UNCHANGED <<offset, present, wrapper, pc, req, installed>>
       PROVE  Table!Next
  <2> DEFINE more == {n \in Numbers : Arrives(n)' # Arrives(n)}
  <2>1. ASSUME NEW n \in Numbers, Arrives(n)' # Arrives(n)
        PROVE  Arrives(n)' = installed[n]
    <3>1. ~Window(n) /\ ~Window(n)'
      BY <1>10 DEF Window
    <3>2. Covered(n) => Covered(n)'
      BY <1>10, <1>t DEF LoadedInfo, IInv, LimitInv, Covered, TypeOK, Numbers
    <3>3. ~Covered(n) /\ Covered(n)' /\ present'[n]
      BY <1>10, <2>1, <3>2 DEF Arrives
    <3>4. offset'[n] = n /\ wrapper'[n] = installed'[n]
      <4>1. n < idt_gate_count'
        <5>1. 8 * n + 7 <= idtr'.limit
          BY <3>3 DEF Covered
        <5>2. idtr'.limit <= length' /\ (length' < 8 * idt_gate_count' \/ length' = 0)
          BY DEF IInv, LimitInv
        <5>3. idtr'.limit \in Int /\ length' \in Int /\ idt_gate_count' \in Int /\ n \in Nat
          BY <1>t, GateAssumption DEF TypeOK, Numbers
        <5> QED
          BY <5>1, <5>2, <5>3, CoveredCounted
      <4> QED
        BY <1>10, <3>1, <3>3, <4>1 DEF IInv, WrittenInv
    <3> QED
      BY <1>10, <3>3, <3>4 DEF Arrives
  <2>2. Reached' = [n \in Numbers |-> IF n \in more THEN installed[n] ELSE Reached[n]]
    BY <2>1 DEF Reached, Numbers
  <2>3. Busy = {} /\ Busy' = {} /\ installed' = installed /\ more \in SUBSET Numbers
    BY <1>10 DEF Busy
  <2>4. Table!Load
    BY <2>2, <2>3 DEF Table!Load, Reached, Busy
  <2> QED
    BY <2>4 DEF Table!Next
<1>11. CASE idt_load
  BY <1>10, <1>11 DEF idt_load
<1>12. CASE idt_install
  BY <1>10, <1>12 DEF idt_install
<1>13. ASSUME NEW n \in Numbers, NEW isr \in Isrs, idt_set_gate(n, isr)
       PROVE  UNCHANGED <<Reached, installed, Busy>>
  <2>1. \A k \in Numbers : Arrives(k)' = Arrives(k)
    BY <1>13 DEF idt_set_gate, Arrives, Covered
  <2> QED
    BY <1>13, <2>1, ReachedSame DEF idt_set_gate, Busy
<1>14. CASE UNCHANGED vars
  <2>1. \A k \in Numbers : Arrives(k)' = Arrives(k)
    BY <1>14 DEF vars, Arrives, Covered
  <2> QED
    BY <1>14, <2>1, ReachedSame DEF vars, Busy
<1> QED
  BY <1>1, <1>2, <1>3, <1>4, <1>5, <1>6, <1>7, <1>8, <1>9, <1>11, <1>12, <1>13, <1>14 DEF Next, Install

\* idt_install_interrupt and idt_load together are a table of handlers: whatever
\* the number of gates and the contents of memory at boot, an installation
\* disturbs no number but its own, and a load takes none away.
THEOREM TableImplemented == Spec => TableSpec
<1>1. Init => Table!Init
  <2> SUFFICES ASSUME Init PROVE Table!Init
    OBVIOUS
  <2>1. \A n \in Numbers : Arrives(n) = NULL
    BY DEF Init, Arrives, Covered, NoTable, Numbers
  <2> QED
    BY <2>1 DEF Init, Table!Init
<1>2. Init => DoneInv
  BY DEF Init, DoneInv
<1>3. IInv /\ DoneInv /\ [Next]_vars => DoneInv'
  BY DoneStep DEF IInv
<1> QED
  BY <1>1, <1>2, <1>3, TableStep, Invariance, PTL DEF Spec, TableSpec, Table!Spec

-----------------------------------------------------------------------------
(* Interrupts. *)

\* Of the master's lines exactly the one that the CPU works for is in service,
\* and the number given to send_eoi is one of the master's, always.
MasterInv ==
  /\ irq < 8
  /\ cpu = "thread" => \A s \in in_service : s >= 8
  /\ cpu # "thread" =>
       /\ line \in Lines
       /\ OnMaster(line) \in in_service
       /\ \A s \in in_service : s < 8 => s = OnMaster(line)

IrqInv == IrqTypeOK /\ MasterInv

\* What interrupt_handler makes of the vector of line l: its number on its own
\* controller.
LEMMA DispatchNumber ==
  ASSUME NEW l \in Irqs
  PROVE  /\ DispatchIrq(Vector(l)) = IF l < 8 THEN l ELSE l - 8
         /\ DispatchIrq(Vector(l)) \in Irqs
         /\ DispatchIrq(Vector(l)) < 8
BY DEF Irqs, DispatchIrq, Vector, INTERRUPT_VECTOR_IRQ0, INTERRUPT_VECTOR_IRQ8

LEMMA LineNumbers ==
  /\ Lines \subseteq Irqs \ {2}
  /\ in_service \subseteq Lines \cup {2} => in_service \subseteq Irqs
<1>1. Lines \subseteq Irqs \ {2}
  BY LineAssumption
<1>2. 2 \in Irqs
  BY DEF Irqs
<1> QED
  BY <1>1, <1>2

\* With a number of the master's, send_eoi ends a line of the master and none
\* of the slave.
LEMMA MasterAcknowledged ==
  ASSUME IrqInv, cpu # "thread"
  PROVE  Acknowledged(irq) = {OnMaster(line)}
<1>1. /\ in_service \subseteq Irqs /\ irq \in Irqs /\ irq < 8
      /\ line \in Irqs /\ OnMaster(line) \in in_service
      /\ \A s \in in_service : s < 8 => s = OnMaster(line)
  BY LineNumbers DEF IrqInv, IrqTypeOK, MasterInv
<1>2. OnMaster(line) \in 0 .. 7
  BY <1>1 DEF OnMaster, Irqs
<1>3. ASSUME NEW s \in Acknowledged(irq) PROVE s = OnMaster(line)
  <2>1. s \in in_service /\ (s >= 8 => irq >= 8)
    BY <1>3 DEF Acknowledged
  <2>2. s \in Int /\ irq \in Int
    BY <1>1, <2>1 DEF Irqs
  <2> QED
    BY <1>1, <2>1, <2>2
<1>4. OnMaster(line) \in Acknowledged(irq)
  <2> DEFINE m == OnMaster(line)
  <2>1. ASSUME NEW t \in in_service, (t >= 8) = (m >= 8)
        PROVE  m <= t
    <3>1. t \in Int /\ m \in Int /\ m < 8
      BY <1>1, <1>2 DEF Irqs
    <3>2. t < 8
      BY <2>1, <3>1
    <3> QED
      BY <1>1, <3>1, <3>2
  <2>2. m \in in_service /\ ~(m >= 8)
    BY <1>1, <1>2
  <2> HIDE DEF m
  <2>3. m \in Acknowledged(irq)
    BY <2>1, <2>2 DEF Acknowledged
  <2> QED
    BY <2>3 DEF m
<1> QED
  BY <1>3, <1>4

LEMMA IrqInitInv == IrqInit => IrqInv
BY DEF IrqInit, IrqInv, IrqTypeOK, MasterInv, Irqs

LEMMA IrqTypes == IrqTypeOK /\ [IrqNext]_irqvars => IrqTypeOK'
<1> SUFFICES ASSUME IrqTypeOK, [IrqNext]_irqvars PROVE IrqTypeOK'
  OBVIOUS
<1>1. ASSUME NEW l \in Lines, Raise(l) PROVE IrqTypeOK'
  BY <1>1 DEF Raise, IrqTypeOK
<1>2. ASSUME NEW l \in Lines, interrupt_handler(l) PROVE IrqTypeOK'
  <2>1. l \in Irqs
    BY LineNumbers
  <2>2. irq' \in Irqs
    BY <1>2, <2>1, DispatchNumber DEF interrupt_handler
  <2>3. {l, OnMaster(l)} \subseteq Lines \cup {2}
    BY DEF OnMaster
  <2> QED
    BY <1>2, <2>2, <2>3 DEF interrupt_handler, IrqTypeOK
<1>3. ASSUME NEW i \in Lines, NEW h \in Handlers, register_irq_handler(i, h) PROVE IrqTypeOK'
  BY <1>3, LineNumbers DEF register_irq_handler, IrqTypeOK
<1>4. CASE irq_dispatch
  BY <1>4 DEF irq_dispatch, IrqTypeOK
<1>5. CASE HandlerReturns
  BY <1>5 DEF HandlerReturns, IrqTypeOK
<1>6. CASE send_eoi
  BY <1>6 DEF send_eoi, IrqTypeOK, Irqs
<1>7. CASE UNCHANGED irqvars
  BY <1>7 DEF irqvars, IrqTypeOK
<1> QED
  BY <1>1, <1>2, <1>3, <1>4, <1>5, <1>6, <1>7 DEF IrqNext

LEMMA MasterStep == IrqInv /\ [IrqNext]_irqvars => MasterInv'
<1> SUFFICES ASSUME IrqInv, [IrqNext]_irqvars PROVE MasterInv'
  OBVIOUS
<1> USE DEF IrqInv
<1>1. ASSUME NEW l \in Lines, Raise(l) PROVE MasterInv'
  BY <1>1 DEF Raise, MasterInv
<1>2. ASSUME NEW l \in Lines, interrupt_handler(l) PROVE MasterInv'
  <2>1. l \in Irqs /\ in_service \subseteq Irqs
    BY LineNumbers DEF IrqTypeOK
  <2>2. irq' < 8
    BY <1>2, <2>1, DispatchNumber DEF interrupt_handler
  <2>3. \A s \in in_service : s >= 8
    BY <1>2 DEF interrupt_handler, MasterInv
  <2>4. /\ cpu' = "dispatch" /\ line' = l
        /\ in_service' = in_service \cup {l, OnMaster(l)}
    BY <1>2 DEF interrupt_handler
  <2>5. \A s \in in_service \cup {l, OnMaster(l)} : s < 8 => s = OnMaster(l)
    BY <2>1, <2>3 DEF OnMaster, Irqs
  <2> QED
    BY <2>2, <2>4, <2>5 DEF MasterInv, OnMaster
<1>3. ASSUME NEW i \in Lines, NEW h \in Handlers, register_irq_handler(i, h) PROVE MasterInv'
  BY <1>3 DEF register_irq_handler, MasterInv
<1>4. CASE irq_dispatch
  BY <1>4 DEF irq_dispatch, MasterInv
<1>5. CASE HandlerReturns
  BY <1>5 DEF HandlerReturns, MasterInv
<1>6. CASE send_eoi
  <2>1. in_service' = in_service \ {OnMaster(line)} /\ cpu' = "thread" /\ irq' = 0
    BY <1>6, MasterAcknowledged DEF send_eoi
  <2>2. in_service \subseteq Irqs /\ \A s \in in_service : s < 8 => s = OnMaster(line)
    BY <1>6, LineNumbers DEF IrqTypeOK, MasterInv, send_eoi
  <2>3. \A s \in in_service' : s >= 8
    BY <2>1, <2>2 DEF Irqs
  <2> QED
    BY <2>1, <2>3 DEF MasterInv
<1>7. CASE UNCHANGED irqvars
  BY <1>7 DEF irqvars, MasterInv
<1> QED
  BY <1>1, <1>2, <1>3, <1>4, <1>5, <1>6, <1>7 DEF IrqNext

THEOREM IrqInvariance == IrqSpec => []IrqInv
<1>1. IrqInv /\ [IrqNext]_irqvars => IrqInv'
  BY IrqTypes, MasterStep DEF IrqInv
<1> QED
  BY <1>1, IrqInitInv, PTL DEF IrqSpec

\* The dispatch keeps its types: the number that interrupt_handler computes is
\* always one of the 16 of irq_handlers.
THEOREM DispatchTyped == IrqSpec => []IrqTypeOK
<1>1. IrqInv => IrqTypeOK
  BY DEF IrqInv
<1> QED
  BY <1>1, IrqInvariance, PTL

\* Back in the thread the master has no line in service, whatever lines of
\* both controllers have been raised in whatever order.
THEOREM MasterAlwaysFree == IrqSpec => []MasterFree
<1>1. IrqInv => MasterFree
  BY DEF IrqInv, MasterInv, MasterFree
<1> QED
  BY <1>1, IrqInvariance, PTL

\* So a line of the master that is waiting while the CPU is in its thread is
\* ready to be given to it: nothing a slave's line leaves behind holds it up.
MasterReady == cpu = "thread" => \A l \in raised : l < 8 => Ready(l)

\* A handler of irq_dispatch never leaves a line of the master locked out.
THEOREM MasterAlwaysReady == IrqSpec => []MasterReady
<1>1. IrqInv => MasterReady
  <2> SUFFICES ASSUME IrqInv, cpu = "thread", NEW l \in raised, l < 8 PROVE Ready(l)
    BY DEF MasterReady
  <2>1. in_service \subseteq Irqs /\ l \in Irqs /\ \A s \in in_service : s >= 8
    BY LineNumbers DEF IrqInv, IrqTypeOK, MasterInv
  <2> QED
    BY <2>1 DEF Ready, Free, Irqs
<1> QED
  BY <1>1, IrqInvariance, PTL

\* The slave is never told of the end of an interrupt: a line of it stays in
\* service once the CPU has been given it, and it and the lines below it, when
\* they are raised again, wait for ever.
SlaveStep ==
  \A s \in in_service : s >= 8 =>
    /\ s \in in_service'
    /\ \A l \in Lines : l >= s /\ l \in raised => l \in raised'

SlaveBlocked == [][SlaveStep]_irqvars

\* irq_dispatch passes send_eoi the number less 8 for the slave's lines too:
\* whatever the lines and handlers, each line of the slave is served once.
THEOREM SlaveServedOnce == IrqSpec => SlaveBlocked
<1>1. IrqInv /\ [IrqNext]_irqvars => SlaveStep
  <2> SUFFICES ASSUME IrqInv, [IrqNext]_irqvars PROVE SlaveStep
    OBVIOUS
  <2>0. in_service \subseteq Irqs /\ Lines \subseteq Irqs
    BY LineNumbers DEF IrqInv, IrqTypeOK
  <2>1. ASSUME NEW l \in Lines, Raise(l) PROVE SlaveStep
    BY <2>1 DEF Raise, SlaveStep
  <2>2. ASSUME NEW l \in Lines, interrupt_handler(l) PROVE SlaveStep
    <3> SUFFICES ASSUME NEW s \in in_service, s >= 8,
                        NEW k \in Lines, k >= s, k \in raised
                 PROVE  s \in in_service' /\ k \in raised'
      BY <2>2 DEF SlaveStep, interrupt_handler
    <3>1. l # k
      BY <2>0, <2>2 DEF interrupt_handler, Ready, Free, Irqs
    <3> QED
      BY <2>2, <3>1 DEF interrupt_handler
  <2>3. ASSUME NEW i \in Lines, NEW h \in Handlers, register_irq_handler(i, h) PROVE SlaveStep
    BY <2>3 DEF register_irq_handler, SlaveStep
  <2>4. CASE irq_dispatch
    BY <2>4 DEF irq_dispatch, SlaveStep
  <2>5. CASE HandlerReturns
    BY <2>5 DEF HandlerReturns, SlaveStep
  <2>6. CASE send_eoi
    <3>1. in_service' = in_service \ {OnMaster(line)} /\ raised' = raised
      BY <2>6, MasterAcknowledged DEF send_eoi
    <3>2. OnMaster(line) < 8 /\ OnMaster(line) \in Int
      <4>1. line \in Irqs
        BY <2>0, <2>6 DEF IrqInv, MasterInv, send_eoi
      <4> QED
        BY <4>1 DEF OnMaster, Irqs
    <3> QED
      BY <2>0, <3>1, <3>2 DEF SlaveStep, Irqs
  <2>7. CASE UNCHANGED irqvars
    BY <2>7 DEF irqvars, SlaveStep
  <2> QED
    BY <2>1, <2>2, <2>3, <2>4, <2>5, <2>6, <2>7 DEF IrqNext
<1> QED
  BY <1>1, IrqInvariance, PTL DEF IrqSpec, SlaveBlocked

=============================================================================
