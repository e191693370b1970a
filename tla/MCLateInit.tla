----------------------------- MODULE MCLateInit -----------------------------
(* The boot as it is, with a login of two keys and short words. *)
EXTENDS LateInit

CONSTANTS r, o

Name     == <<r, o>>
Password == <<o, r>>

=============================================================================
