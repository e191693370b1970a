----------------------------- MODULE MCInstall ------------------------------
(* Install for TLC: two partitions of one disk, one with a FAT file system. *)
EXTENDS Install

Parts   == {"P0", "P1"}
OneDisk == [p \in Parts |-> "hd0"]
OneFat  == [p \in Parts |-> IF p = "P0" THEN "fat16" ELSE "ext2"]

=============================================================================
