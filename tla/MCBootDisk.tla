----------------------------- MODULE MCBootDisk -----------------------------
(* BootDisk for TLC: machines with up to two disks that are not empty. *)
EXTENDS BootDisk, FiniteSets

TwoDisks == {c \in [Disks -> Content] : Cardinality({d \in Disks : c[d] # "empty"}) <= 2}

\* No mode, the better mode last, the better mode missing; one list that is
\* longer than the space, and its end mark where the search itself writes.
SomeLists == {<<>>, <<"1280x1024", "1024x768">>, <<"other", "1280x1024">>,
              <<"other", "other", "1280x1024">>}

\* In the information block, and in ROM.
TwoPointers == {[seg |-> 0, off |-> 34], [seg |-> 192, off |-> 20]}

Entry(c, v, l, t) == [cx |-> c, valid |-> v, len |-> l, type |-> t]

\* Memory, reserved memory, an entry of length 0, one to be ignored, no answer.
SomeEntries == {Entry(20, TRUE, 1, 1), Entry(24, TRUE, 1, 2), Entry(20, TRUE, 0, 1),
                Entry(24, FALSE, 1, 1), Entry(0, TRUE, 1, 1)}

\* A hard disk, a floppy disk, a drive without a fourth sector on a track.
SomeGeometries == {[spt |-> 63, heads |-> 256, floppy |-> FALSE],
                   [spt |-> 18, heads |-> 2, floppy |-> TRUE],
                   [spt |-> 3, heads |-> 5, floppy |-> FALSE]}

=============================================================================
