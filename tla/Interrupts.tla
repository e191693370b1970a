----------------------------- MODULE Interrupts -----------------------------
(***************************************************************************)
(* Dispatch of hardware interrupts: interrupt_handler, irq_dispatch and    *)
(* register_irq_handler of include/interrupt.c, with the two 8259A         *)
(* controllers that raise the vectors (external).  The CPU enters through  *)
(* interrupt gates: a handler is not interrupted.  What irq_dispatch prints*)
(* for an IRQ without handler is in Tty.                                   *)
(***************************************************************************)
EXTENDS Integers

CONSTANTS
  Lines,     \* the interrupt lines in use, of the 16 there are
  Handlers,
  None       \* NULL in irq_handlers

INTERRUPT_VECTOR_IRQ0 == 32
INTERRUPT_VECTOR_IRQ8 == 40
Irqs == 0 .. 15

ASSUME LineAssumption == Lines \subseteq Irqs \ {2} /\ None \notin Handlers

VARIABLES
  irq_handlers,
  raised,      \* controllers: the lines waiting to be served
  in_service,  \* controllers: the lines given to the CPU and not acknowledged
  cpu,         \* where the CPU is
  line,        \* the line being served
  irq          \* the parameter of irq_dispatch

irqvars == <<irq_handlers, raised, in_service, cpu, line, irq>>

-----------------------------------------------------------------------------
(* The controllers: line 2 of the master stands for the slave's lines.     *)

OnMaster(l) == IF l >= 8 THEN 2 ELSE l
Above(h, l) == OnMaster(h) < OnMaster(l) \/ (OnMaster(h) = OnMaster(l) /\ h < l)

\* No line of the same priority or above is in service, on either controller.
Free(l) ==
  /\ \A s \in in_service : s < 8 => s > OnMaster(l)
  /\ l >= 8 => \A s \in in_service : s >= 8 => s > l

Ready(l) == l \in raised /\ Free(l)

Raise(l) ==
  /\ raised' = raised \cup {l}
  /\ UNCHANGED <<irq_handlers, in_service, cpu, line, irq>>

-----------------------------------------------------------------------------
register_irq_handler(i, h) ==
  /\ cpu \in {"thread", "handler"}
  /\ irq_handlers' = [irq_handlers EXCEPT ![i] = h]
  /\ UNCHANGED <<raised, in_service, cpu, line, irq>>

\* The vector the controllers put on the bus.
Vector(l) == IF l < 8 THEN INTERRUPT_VECTOR_IRQ0 + l ELSE INTERRUPT_VECTOR_IRQ8 + l - 8

\* interrupt_handler: both ranges of vectors count from 0.
DispatchIrq(vec) ==
  IF vec < INTERRUPT_VECTOR_IRQ8 THEN vec - INTERRUPT_VECTOR_IRQ0 ELSE vec - INTERRUPT_VECTOR_IRQ8

interrupt_handler(l) ==
  /\ cpu = "thread"
  /\ Ready(l)
  /\ \A h \in Lines : Above(h, l) => ~Ready(h)
  /\ raised' = raised \ {l}
  /\ in_service' = in_service \cup {l, OnMaster(l)}
  /\ line' = l
  /\ irq' = DispatchIrq(Vector(l))
  /\ cpu' = "dispatch"
  /\ UNCHANGED irq_handlers

\* Mutant: an IRQ without handler is not acknowledged.
irq_dispatch_early ==
  /\ cpu = "dispatch"
  /\ cpu' = IF irq_handlers[irq] # None THEN "handler" ELSE "thread"
  /\ UNCHANGED <<irq_handlers, raised, in_service, line, irq>>

irq_dispatch ==
  /\ cpu = "dispatch"
  /\ cpu' = IF irq_handlers[irq] # None THEN "handler" ELSE "eoi"
  /\ UNCHANGED <<irq_handlers, raised, in_service, line, irq>>

\* Mutant: an IRQ with a handler is not acknowledged.
HandlerReturnsSilent ==
  /\ cpu = "handler"
  /\ cpu' = "thread"
  /\ UNCHANGED <<irq_handlers, raised, in_service, line, irq>>

HandlerReturns ==
  /\ cpu = "handler"
  /\ cpu' = "eoi"
  /\ UNCHANGED <<irq_handlers, raised, in_service, line, irq>>

\* send_eoi: a controller drops the line of highest priority it serves; the
\* slave is told only if the number is one of its own.
Acknowledged(i) ==
  {s \in in_service : /\ s >= 8 => i >= 8
                      /\ \A t \in in_service : (t >= 8) = (s >= 8) => s <= t}

send_eoi ==
  /\ cpu = "eoi"
  /\ in_service' = in_service \ Acknowledged(irq)
  /\ cpu' = "thread"
  /\ irq' = 0
  /\ line' = 0
  /\ UNCHANGED <<irq_handlers, raised>>

-----------------------------------------------------------------------------
IrqInit ==
  /\ irq_handlers = [i \in Irqs |-> None]
  /\ raised = {}
  /\ in_service = {}
  /\ cpu = "thread"
  /\ line = 0
  /\ irq = 0

IrqNext ==
  \/ \E l \in Lines : Raise(l) \/ interrupt_handler(l)
  \/ \E i \in Lines, h \in Handlers : register_irq_handler(i, h)
  \/ irq_dispatch \/ HandlerReturns \/ send_eoi

IrqSpec == IrqInit /\ [][IrqNext]_irqvars

\* Interrupts are enabled in threads and handlers return.
FairIrqSpec ==
  /\ IrqSpec
  /\ WF_irqvars(\E l \in Lines : interrupt_handler(l))
  /\ WF_irqvars(irq_dispatch \/ HandlerReturns \/ send_eoi)

-----------------------------------------------------------------------------
(* Properties. *)

IrqTypeOK ==
  /\ irq_handlers \in [Irqs -> Handlers \cup {None}]
  /\ raised \subseteq Lines
  /\ in_service \subseteq Lines \cup {2}
  /\ cpu \in {"thread", "dispatch", "handler", "eoi"}
  /\ line \in Lines \cup {0}
  /\ irq \in Irqs

\* Whatever number irq_dispatch gives send_eoi, and with or without a handler:
\* the master controller has been told of the end of every interrupt it gave
\* the CPU by the time the CPU is back in its thread.
MasterFree == cpu = "thread" => \A s \in in_service : s >= 8

\* A line of the master waits only while one of higher priority is ready, even
\* when the slave has been left with a line in service (irq_dispatch gives
\* send_eoi a number below 8 for the slave's lines too).
MasterServed ==
  \A l \in Lines : l < 8 =>
    (l \in raised ~> l \notin raised \/ \E h \in Lines : Above(h, l) /\ Ready(h))

\* register_irq_handler takes the numbers of interrupt.h, "#define IRQ_MOUSE 12"
\* (64) among them, and interrupt.h:51 has a table of 16: what is called for a
\* line is the handler registered under its number, if there is one.
HandlerOfLine ==
  cpu = "dispatch" /\ irq_handlers[line] # None => irq_handlers[irq] = irq_handlers[line]

=============================================================================
