---------------------------- MODULE HandlerTable ----------------------------
(***************************************************************************)
(* What an interrupt table promises, without gates, wrappers and limits: a *)
(* number leads to the handler installed for it or to none, and an         *)
(* installation disturbs no number but its own.                            *)
(***************************************************************************)
CONSTANTS
  Numbers,
  Handlers,
  Nothing,      \* no handler: the number is not present or out of reach
  Garbage       \* anything else an interrupt may run into

VARIABLES
  reached,      \* where an interrupt of a number arrives at this moment
  promised,     \* the handler last installed
  busy          \* the number being installed, if any

vars == <<reached, promised, busy>>

Init ==
  /\ reached = [n \in Numbers |-> Nothing]
  /\ promised = [n \in Numbers |-> Nothing]
  /\ busy = {}

Begin ==
  /\ busy = {}
  /\ \E n \in Numbers : busy' = {n}
  /\ UNCHANGED <<reached, promised>>

\* While a number is being installed its own entry may be in pieces.
Rewrite ==
  /\ \E n \in busy, h \in Handlers \cup {Nothing} \cup Garbage : reached' = [reached EXCEPT ![n] = h]
  /\ UNCHANGED <<promised, busy>>

Install ==
  /\ \E n \in busy, h \in Handlers :
       /\ promised' = [promised EXCEPT ![n] = h]
       /\ reached' = [reached EXCEPT ![n] = h] \/ reached' = [reached EXCEPT ![n] = Nothing]
  /\ UNCHANGED busy

\* The number leads to its handler or to nothing again.
Finish ==
  /\ busy # {}
  /\ \A n \in busy : promised[n] \in Handlers /\ reached[n] \in {promised[n], Nothing}
  /\ busy' = {}
  /\ UNCHANGED <<reached, promised>>

\* Loading the table makes more numbers reachable, and none less.
Load ==
  /\ busy = {}
  /\ \E more \in SUBSET Numbers :
       reached' = [n \in Numbers |-> IF n \in more THEN promised[n] ELSE reached[n]]
  /\ UNCHANGED <<promised, busy>>

Next == Begin \/ Rewrite \/ Install \/ Finish \/ Load

Spec == Init /\ [][Next]_vars

=============================================================================
