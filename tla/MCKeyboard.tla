----------------------------- MODULE MCKeyboard -----------------------------
(* Instances of Keyboard for TLC. *)
EXTENDS Keyboard
CONSTANTS d, m
ShortDir  == <<d>>
ShortDemo == <<d, m>>
=============================================================================
