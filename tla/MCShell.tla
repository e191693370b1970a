------------------------------ MODULE MCShell -------------------------------
(* Shell for TLC: two letters, commands of one and two of them. *)
EXTENDS Shell

CONSTANTS a, b

Test  == <<a, b>>
Help  == <<b, a>>
Color == <<a, a>>
Clear == <<a>>
Exit  == <<b>>

=============================================================================
