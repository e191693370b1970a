-------------------------------- MODULE Idt --------------------------------
(***************************************************************************)
(* The interrupt descriptor table of include/idt.c.  The gates and the ISR *)
(* wrappers lie at fixed addresses in memory nobody clears (IDT_BASE,      *)
(* ISR_WRAPPER_BASE); the CPU reads them whenever an interrupt arrives,    *)
(* between any two stores of idt_install_interrupt, as far as the limit    *)
(* that the last lidt gave it reaches.                                     *)
(***************************************************************************)
EXTENDS Integers

CONSTANTS
  GateCount,  \* 256, the gates the memory at IDT_BASE has room for
  LengthMod,  \* 2^16, the modulus of uint16_t
  Isrs,       \* the addresses of the ISR functions
  NULL,
  Junk,       \* what memory holds that nobody has written
  Torn        \* an address of which only a part has been stored

ASSUME GateAssumption ==
  /\ GateCount \in Nat \ {0}
  /\ LengthMod \in Nat
  /\ 8 * GateCount <= LengthMod

ASSUME IsrAssumption ==
  /\ NULL \notin Isrs
  /\ Junk \notin Isrs
  /\ Torn \notin Isrs

Numbers   == 0 .. GateCount - 1
Addresses == Isrs \cup {NULL, Junk, Torn}
NoTable   == [base |-> "none", limit |-> 0]

VARIABLES
  offset,          \* idt_ptr[].offset: the wrapper a gate leads to
  present,         \* idt_ptr[].type_attr: its present bit
  wrapper,         \* isr_wrapper_ptr[].isr_addr
  idt_gate_count,
  length,          \* idtr_info.length; idtr_info.address is always IDT_BASE
  idt, idtp,       \* the second table, idt[256], and its descriptor
  idtr,            \* CPU: the register lidt loads
  pc,              \* the next step of idt_install_interrupt
  req,             \* its arguments
  installed        \* history: the ISR last installed for a number

vars == <<offset, present, wrapper, idt_gate_count, length, idt, idtp, idtr, pc, req, installed>>

-----------------------------------------------------------------------------
\* A static int and fixed addresses: the gates hold whatever memory held.
Init ==
  /\ offset = [n \in Numbers |-> Junk]
  /\ present \in [Numbers -> BOOLEAN]
  /\ wrapper = [n \in Numbers |-> Junk]
  /\ idt_gate_count = 0
  /\ length = 0
  /\ idt = [n \in Numbers |-> NULL]
  /\ idtp = NoTable
  /\ idtr = NoTable
  /\ pc = "idle"
  /\ \E i \in Isrs : req = [n |-> 0, isr |-> i, type_attr |-> FALSE]
  /\ installed = [n \in Numbers |-> NULL]

-----------------------------------------------------------------------------
(* idt_install_interrupt *)

idt_install_interrupt(n, isr, type_attr) ==
  /\ pc = "idle"
  /\ req' = [n |-> n, isr |-> isr, type_attr |-> type_attr]
  /\ pc' = IF idt_gate_count <= n THEN "grow" ELSE "gate"
  /\ UNCHANGED <<offset, present, wrapper, idt_gate_count, length, idt, idtp, idtr, installed>>

\* Mutant: the gates of the gap are counted and not written.
add_null_gates_unwritten ==
  /\ pc = "grow"
  /\ idt_gate_count # req.n
  /\ pc' = "null_wrapper"
  /\ UNCHANGED <<offset, present, wrapper, idt_gate_count, length, idt, idtp, idtr, req, installed>>

\* add_null_gates: one gate of the gap.  Its wrapper is that of the number
\* being installed, whatever the number of the gate.
add_null_gates ==
  /\ pc = "grow"
  /\ idt_gate_count # req.n
  /\ offset' = [offset EXCEPT ![idt_gate_count] = req.n]
  /\ present' = [present EXCEPT ![idt_gate_count] = FALSE]
  /\ pc' = "null_wrapper"
  /\ UNCHANGED <<wrapper, idt_gate_count, length, idt, idtp, idtr, req, installed>>

NullWrapper ==
  /\ pc = "null_wrapper"
  /\ wrapper' = [wrapper EXCEPT ![req.n] = NULL]
  /\ idt_gate_count' = idt_gate_count + 1
  /\ pc' = "grow"
  /\ UNCHANGED <<offset, present, length, idt, idtp, idtr, req, installed>>

\* The gap is closed: the count takes in the new gate.
CountGate ==
  /\ pc = "grow"
  /\ idt_gate_count = req.n
  /\ idt_gate_count' = idt_gate_count + 1
  /\ pc' = "gate"
  /\ UNCHANGED <<offset, present, wrapper, length, idt, idtp, idtr, req, installed>>

\* __set_idt_gate stores offset and selector first, type_attr last.
SetGateOffset ==
  /\ pc = "gate"
  /\ offset' = [offset EXCEPT ![req.n] = req.n]
  /\ pc' = "attr"
  /\ UNCHANGED <<present, wrapper, idt_gate_count, length, idt, idtp, idtr, req, installed>>

SetGateAttr ==
  /\ pc = "attr"
  /\ present' = [present EXCEPT ![req.n] = req.type_attr]
  /\ pc' = "wrapper"
  /\ UNCHANGED <<offset, wrapper, idt_gate_count, length, idt, idtp, idtr, req, installed>>

\* __set_isr_wrapper copies a packed structure of 11 bytes; isr_addr, at
\* offset 3, does not come over in one piece.
SetWrapperPart ==
  /\ pc = "wrapper"
  /\ wrapper' = [wrapper EXCEPT ![req.n] = IF @ = req.isr THEN @ ELSE Torn]
  /\ pc' = "torn"
  /\ UNCHANGED <<offset, present, idt_gate_count, length, idt, idtp, idtr, req, installed>>

SetWrapper ==
  /\ pc = "torn"
  /\ wrapper' = [wrapper EXCEPT ![req.n] = req.isr]
  /\ installed' = [installed EXCEPT ![req.n] = req.isr]
  /\ pc' = "length"
  /\ UNCHANGED <<offset, present, idt_gate_count, length, idt, idtp, idtr, req>>

\* Mutant: the length is that of the number installed, not of the table.
SetLengthOfNumber ==
  /\ pc = "length"
  /\ length' = (8 * (req.n + 1) - 1) % LengthMod
  /\ pc' = "idle"
  /\ UNCHANGED <<offset, present, wrapper, idt_gate_count, idt, idtp, idtr, req, installed>>

SetLength ==
  /\ pc = "length"
  /\ length' = (8 * idt_gate_count - 1) % LengthMod
  /\ pc' = "idle"
  /\ UNCHANGED <<offset, present, wrapper, idt_gate_count, idt, idtp, idtr, req, installed>>

\* lidt [idtr_info]
LoadedInfo == [base |-> "IDT_BASE", limit |-> length]

idt_load ==
  /\ pc = "idle"
  /\ idtr' = LoadedInfo
  /\ UNCHANGED <<offset, present, wrapper, idt_gate_count, length, idt, idtp, pc, req, installed>>

-----------------------------------------------------------------------------
(* The second table. *)

idt_set_gate(n, isr) ==
  /\ pc = "idle"
  /\ idt' = [idt EXCEPT ![n] = isr]
  /\ UNCHANGED <<offset, present, wrapper, idt_gate_count, length, idtp, idtr, pc, req, installed>>

\* idtp is filled, the table cleared, and idt_load called.
idt_install ==
  /\ pc = "idle"
  /\ idtp' = [base |-> "idt", limit |-> 8 * GateCount - 1]
  /\ idt' = [n \in Numbers |-> NULL]
  /\ idtr' = LoadedInfo
  /\ UNCHANGED <<offset, present, wrapper, idt_gate_count, length, pc, req, installed>>

-----------------------------------------------------------------------------
Install ==
  \/ add_null_gates \/ NullWrapper \/ CountGate
  \/ SetGateOffset \/ SetGateAttr \/ SetWrapperPart \/ SetWrapper \/ SetLength

Next ==
  \/ \E n \in Numbers, isr \in Isrs, type_attr \in BOOLEAN :
       idt_install_interrupt(n, isr, type_attr)
  \/ Install
  \/ idt_load
  \/ \E n \in Numbers, isr \in Isrs : idt_set_gate(n, isr)
  \/ idt_install

Spec == Init /\ [][Next]_vars

-----------------------------------------------------------------------------
(* Properties. *)

TypeOK ==
  /\ offset \in [Numbers -> Numbers \cup {Junk}]
  /\ present \in [Numbers -> BOOLEAN]
  /\ wrapper \in [Numbers -> Addresses]
  /\ idt_gate_count \in 0 .. GateCount
  /\ length \in 0 .. LengthMod - 1
  /\ idt \in [Numbers -> Isrs \cup {NULL}]
  /\ idtp \in [base : {"none", "idt"}, limit : 0 .. LengthMod - 1]
  /\ idtr \in [base : {"none", "IDT_BASE"}, limit : 0 .. LengthMod - 1]
  /\ pc \in {"idle", "grow", "null_wrapper", "gate", "attr", "wrapper", "torn", "length"}
  /\ req \in [n : Numbers, isr : Isrs, type_attr : BOOLEAN]
  /\ installed \in [Numbers -> Isrs \cup {NULL}]

\* The CPU finds gate n inside the limit it has loaded.
Covered(n) == 8 * n + 7 <= idtr.limit

\* idt_install_interrupt has stored gate n and not yet the whole of its wrapper.
Window(n) == pc \in {"wrapper", "torn"} /\ req.n = n

\* Whatever interrupt arrives, and whenever: a present gate inside the loaded
\* limit leads to the ISR last installed for that number, never through memory
\* nobody wrote, through a null wrapper or to another number's ISR.  The one
\* exception is the number being (re)installed, between the store of its
\* type_attr and that of its wrapper (__set_idt_gate comes first).
GateServed ==
  \A n \in Numbers : Covered(n) /\ present[n] /\ ~Window(n) =>
    /\ offset[n] = n
    /\ wrapper[n] = installed[n]
    /\ installed[n] # NULL

\* Every interrupt installed is within reach of the next idt_load, which never
\* takes a gate away from the CPU.
InstalledReachable ==
  pc = "idle" =>
    /\ \A n \in Numbers : installed[n] # NULL => 8 * n + 7 <= length
    /\ idtr.limit <= length

\* Where the CPU arrives if interrupt n comes now: through gate n, if it has one
\* that is present, to the wrapper that the gate leads to.
Arrives(n) ==
  IF ~(Covered(n) /\ present[n]) THEN NULL
  ELSE IF offset[n] \in Numbers THEN wrapper[offset[n]] ELSE Junk

Table == INSTANCE HandlerTable WITH
  Handlers <- Isrs, Nothing <- NULL, Garbage <- {Junk, Torn},
  reached  <- [n \in Numbers |-> Arrives(n)],
  promised <- installed,
  busy     <- IF pc = "idle" THEN {} ELSE {req.n}

\* The stores of idt_install_interrupt, the loads and the interrupts between them
\* are together a table of handlers: only the entry of the number being installed
\* changes while it is installed, and it is whole again at the end; a load only
\* adds numbers.
TableSpec == Table!Spec

-----------------------------------------------------------------------------
(* The inductive invariant behind GateServed and InstalledReachable. *)

\* The count is the one the step under way expects.
CountInv ==
  /\ pc \in {"grow", "null_wrapper"} => idt_gate_count <= req.n
  /\ pc = "null_wrapper" => idt_gate_count < req.n
  /\ pc \in {"gate", "attr", "wrapper", "torn", "length"} => req.n < idt_gate_count

\* length and the loaded limit are at most those of idt_gate_count gates.
LimitInv ==
  /\ length < 8 * idt_gate_count \/ length = 0
  /\ idtr.limit <= length
  /\ \A n \in Numbers : installed[n] # NULL =>
       8 * n + 7 <= length \/ (pc = "length" /\ req.n = n)

\* The gates that are counted have been written.
WrittenInv ==
  \A n \in Numbers :
    n < idt_gate_count /\ ~(pc \in {"gate", "attr"} /\ req.n = n) /\ ~Window(n)
      /\ present[n]
    => offset[n] = n /\ wrapper[n] = installed[n] /\ installed[n] # NULL

\* The gate about to be stored, if the CPU can see it already.
RewriteInv ==
  \A n \in Numbers :
    pc \in {"gate", "attr"} /\ req.n = n /\ present[n] /\ Covered(n)
    => offset[n] = n /\ wrapper[n] = installed[n] /\ installed[n] # NULL

\* A gate of the gap is null before it is counted.
GapInv == pc = "null_wrapper" => ~present[idt_gate_count]

AttrInv == pc = "attr" => offset[req.n] = req.n
WindowInv == pc \in {"wrapper", "torn", "length"} => offset[req.n] = req.n

IInv == TypeOK /\ CountInv /\ LimitInv /\ WrittenInv /\ RewriteInv /\ GapInv
          /\ AttrInv /\ WindowInv

=============================================================================
