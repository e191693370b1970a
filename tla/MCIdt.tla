------------------------------- MODULE MCIdt -------------------------------
(* Instances of Idt for TLC. *)
EXTENDS Idt
CONSTANTS f, g
=============================================================================
