------------------------------ MODULE MCAtaPio ------------------------------
(* Instances of AtaPio for TLC. *)
EXTENDS AtaPio, TLC

R(op, off, num) == [op |-> op, off |-> off, num |-> num]

\* main reads two sectors, or asks for one too far, or for one that wraps;
\* isr_keyb reads one sector, writes the last two or writes none.
Shared == (Main :> {R("read", 0, 2), R("read", 4, 1), R("read", 63, 1)}
        @@ Isr  :> {R("write", 2, 2), R("write", 2, 0), R("read", 2, 1)})

=============================================================================
