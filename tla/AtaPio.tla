------------------------------- MODULE AtaPio -------------------------------
(***************************************************************************)
(* The PIO disk driver of kernel_main.c: int13h_read_o and int13h_write_o. *)
(* Two contexts call it, the command loop of main (command "p") and the    *)
(* keyboard handler isr_keyb (the lines "dir" and "demo"), which preempts  *)
(* main between any two port accesses and runs to completion.              *)
(*                                                                         *)
(* The drive is external.  It takes a command from its registers, is busy, *)
(* and then asks for data (DRQ) or, if Errors, gives up and sets ERR.  A   *)
(* register or command written while the drive is not idle may be taken or *)
(* ignored: drives differ.  A sector a write has handed over is safe in    *)
(* either case, it is in the cache of the drive.                           *)
(* The bytes of an address are digits to the base Digit, the last one to   *)
(* the base Top; a sector has Words words and a word read is known by the  *)
(* sector it came from.                                                    *)
(***************************************************************************)
EXTENDS Integers, Sequences, FiniteSets

CONSTANTS
  Main, Isr,
  Requests,        \* per caller: the calls it may make
  part_start_lba, part_length,
  WordMod,         \* 2^32, the modulus of unsigned long
  Digit,           \* 256, the values of an address register
  Top,             \* 16, those of the last one, which takes four bits
  CountMod,        \* 256, the values of the sector count register
  MaxBlocks,       \* 0x7F
  Words,           \* 256, the words of a sector
  Errors,          \* may the drive fail?
  Junk             \* a word that is not part of any sector

Callers == {Main, Isr}
Call    == [op : {"read", "write"}, off : 0 .. WordMod - 1, num : 0 .. CountMod - 1]
LbaMod  == Digit * Digit * Digit * Top   \* 2^28

ASSUME PioAssumption ==
  /\ Main # Isr
  /\ Requests \in [Callers -> SUBSET Call]
  /\ {Digit, Top, CountMod, Words} \subseteq Nat \ {0}
  /\ {part_start_lba, part_length, MaxBlocks, WordMod} \subseteq Nat
  /\ part_start_lba + part_length <= LbaMod
  /\ LbaMod <= WordMod /\ WordMod % LbaMod = 0
  /\ Errors \in BOOLEAN

VARIABLES
  regs,      \* drive: the sector count (0) and the four address registers
  dev,       \* drive: what it is doing
  pc,        \* per caller: the next step
  call,      \* per caller: the arguments, sector_offset still relative
  n,         \* per caller: the register written next, then the word
  iterator,  \* per caller: the sectors transferred
  got,       \* per caller: the words read into the buffer, while not mixed
  result,    \* per caller: what the last call returned
  mixed,     \* history, per caller: its call and another one met
  landed,    \* history, per caller: the sectors its write put on the disk,
             \* while not mixed
  failed     \* history, per caller: the drive reported an error to it

callers == <<pc, call, n, iterator, got, result>>
ghosts  == <<mixed, landed, failed>>
vars    == <<regs, dev, callers, ghosts>>

Other(a) == IF a = Main THEN Isr ELSE Main
Running(a) == a = Isr \/ pc[Isr] = "idle"
At(a, l)   == Running(a) /\ pc[a] = l
Goto(a, l) == pc' = [pc EXCEPT ![a] = l]

-----------------------------------------------------------------------------
(* The drive. *)

DevIdle == [st |-> "idle", op |-> "none", by |-> Main, lba |-> 0, left |-> 0,
            word |-> 0, commit |-> FALSE]

\* It starts the command in its registers; a sector count of 0 is the largest.
Accept(a, op) ==
  dev' = [st     |-> "busy",
          op     |-> op,
          by     |-> a,
          lba    |-> regs[1] + Digit * (regs[2] + Digit * (regs[3] + Digit * regs[4])),
          left   |-> IF op = "flush" THEN 0 ELSE IF regs[0] = 0 THEN CountMod ELSE regs[0],
          word   |-> 0,
          commit |-> FALSE]

\* The sector handed over, if any, is on the disk or will be.
Commit ==
  landed' = IF dev.commit /\ ~mixed[dev.by]
            THEN [landed EXCEPT ![dev.by] = @ \cup {dev.lba}] ELSE landed

OutCommand(a, op) ==
  \/ Accept(a, op) /\ Commit
  \/ dev.st # "idle" /\ UNCHANGED <<dev, landed>>

\* The end of a busy phase.
DevReady ==
  /\ dev.st = "busy"
  /\ Commit
  /\ dev' = IF dev.left = 0 THEN DevIdle
            ELSE [dev EXCEPT !.st = "drq", !.commit = FALSE,
                             !.lba = IF dev.commit THEN (@ + 1) % LbaMod ELSE @]
  /\ UNCHANGED <<regs, callers, mixed, failed>>

DevError ==
  /\ Errors
  /\ dev.st = "busy"
  /\ failed' = [failed EXCEPT ![dev.by] = TRUE]
  /\ dev' = DevIdle
  /\ UNCHANGED <<regs, callers, mixed, landed>>

\* The data port: a word in the direction op.
DevWord(op) ==
  IF dev.st # "drq" \/ dev.op # op THEN dev
  ELSE IF dev.word + 1 < Words THEN [dev EXCEPT !.word = @ + 1]
  ELSE IF op = "write"
       THEN [dev EXCEPT !.word = 0, !.left = @ - 1, !.st = "busy", !.commit = TRUE]
  ELSE IF dev.left = 1 THEN DevIdle
  ELSE [dev EXCEPT !.word = 0, !.left = @ - 1, !.st = "busy", !.lba = (@ + 1) % LbaMod]

-----------------------------------------------------------------------------
(* int13h_read_o and int13h_write_o. *)

\* Mutant: only the first sector is compared with the end.
RejectedFirst(c) == c.off > part_length \/ c.num > MaxBlocks

\* The unsigned sum of the bounds check wraps.
Rejected(c) == (c.off + c.num) % WordMod > part_length \/ c.num > MaxBlocks

Refuse(a, c) ==
  /\ At(a, "idle")
  /\ Rejected(c)
  /\ call' = [call EXCEPT ![a] = c]
  /\ result' = [result EXCEPT ![a] = -1]
  /\ got' = [got EXCEPT ![a] = <<>>]
  /\ landed' = [landed EXCEPT ![a] = {}]
  /\ failed' = [failed EXCEPT ![a] = FALSE]
  /\ iterator' = [iterator EXCEPT ![a] = 0]
  /\ UNCHANGED <<regs, dev, pc, n, mixed>>

\* b is in the middle of a call, or the drive still of one of its commands.
Meets(a, b) == b # a /\ (pc[b] # "idle" \/ (dev.st # "idle" /\ dev.by = b))

Begin(a, c) ==
  /\ At(a, "idle")
  /\ ~Rejected(c)
  /\ call' = [call EXCEPT ![a] = c]
  /\ result' = [result EXCEPT ![a] = 1]
  /\ got' = [b \in Callers |-> IF b = a \/ Meets(a, b) THEN <<>> ELSE got[b]]
  /\ landed' = [b \in Callers |-> IF b = a \/ Meets(a, b) THEN {} ELSE landed[b]]
  /\ failed' = [failed EXCEPT ![a] = FALSE]
  /\ mixed' = [b \in Callers |->
                 IF b = a THEN dev.st # "idle" \/ pc[Other(a)] # "idle"
                          ELSE mixed[b] \/ Meets(a, b)]
  /\ n' = [n EXCEPT ![a] = 0]
  /\ iterator' = [iterator EXCEPT ![a] = 0]
  /\ Goto(a, "out")
  /\ UNCHANGED <<regs, dev>>

\* sector_offset + part_start_lba, of which 28 bits go to the drive.
Lba(c) == ((c.off + part_start_lba) % WordMod) % LbaMod

\* Mutant: the low byte goes out with more than eight bits.
RegisterValueWide(c, k) ==
  CASE k = 0 -> c.num
    [] k = 1 -> Lba(c)
    [] k \in 2 .. 4 -> 0

\* Mutant: the drive is told one sector more than the loop transfers.
RegisterValueLong(c, k) ==
  CASE k = 0 -> (c.num + 1) % CountMod
    [] k = 1 -> Lba(c) % Digit
    [] k = 2 -> (Lba(c) \div Digit) % Digit
    [] k = 3 -> (Lba(c) \div (Digit * Digit)) % Digit
    [] k = 4 -> (Lba(c) \div (Digit * Digit * Digit)) % Top

\* Mutant: the drive is told one sector less than the loop transfers.
RegisterValueShort(c, k) ==
  CASE k = 0 -> (c.num + CountMod - 1) % CountMod
    [] k = 1 -> Lba(c) % Digit
    [] k = 2 -> (Lba(c) \div Digit) % Digit
    [] k = 3 -> (Lba(c) \div (Digit * Digit)) % Digit
    [] k = 4 -> (Lba(c) \div (Digit * Digit * Digit)) % Top

RegisterValue(c, k) ==
  CASE k = 0 -> c.num
    [] k = 1 -> Lba(c) % Digit
    [] k = 2 -> (Lba(c) \div Digit) % Digit
    [] k = 3 -> (Lba(c) \div (Digit * Digit)) % Digit
    [] k = 4 -> (Lba(c) \div (Digit * Digit * Digit)) % Top

\* outb(0x1F2 .. 0x1F6)
OutRegister(a) ==
  /\ At(a, "out")
  /\ \/ regs' = [regs EXCEPT ![n[a]] = RegisterValue(call[a], n[a])]
     \/ dev.st # "idle" /\ UNCHANGED regs
  /\ n' = [n EXCEPT ![a] = IF @ = 4 THEN 0 ELSE @ + 1]
  /\ Goto(a, IF n[a] = 4 THEN "command" ELSE "out")
  /\ UNCHANGED <<dev, call, iterator, got, result, ghosts>>

\* outb(0x1F7, 0x20 or 0x30)
Command(a) ==
  /\ At(a, "command")
  /\ OutCommand(a, call[a].op)
  /\ Goto(a, "next")
  /\ UNCHANGED <<regs, call, n, iterator, got, result, mixed, failed>>

\* for (iterator = 0; iterator < num_blocks; iterator++)
NextBlock(a) ==
  /\ At(a, "next")
  /\ iterator[a] < call[a].num
  /\ Goto(a, "poll")
  /\ UNCHANGED <<regs, dev, call, n, iterator, got, result, ghosts>>

\* Mutant: the status is not waited for.
PollNothing(a) ==
  /\ At(a, "poll")
  /\ Goto(a, "data")
  /\ UNCHANGED <<regs, dev, call, n, iterator, got, result, ghosts>>

\* A read waits for DRQ and nothing else; the tests of a write come to the same:
\* an error keeps it in its loop.
Poll(a) ==
  /\ At(a, "poll")
  /\ dev.st = "drq"
  /\ Goto(a, "data")
  /\ UNCHANGED <<regs, dev, call, n, iterator, got, result, ghosts>>

\* The status register is read again and again.
Spin(a) ==
  /\ \/ At(a, "poll") /\ dev.st # "drq"
     \/ At(a, "flush") /\ dev.st = "busy"
  /\ UNCHANGED vars

\* One word; after the last one the next sector.
Data(a) ==
  /\ At(a, "data")
  /\ dev' = DevWord(call[a].op)
  /\ got' = IF call[a].op = "write" \/ mixed[a] THEN got
            ELSE [got EXCEPT ![a] = Append(@, IF dev.st = "drq" /\ dev.op = "read"
                                              THEN dev.lba ELSE Junk)]
  /\ IF n[a] + 1 < Words
     THEN /\ n' = [n EXCEPT ![a] = @ + 1]
          /\ UNCHANGED <<iterator, pc>>
     ELSE /\ n' = [n EXCEPT ![a] = 0]
          /\ iterator' = [iterator EXCEPT ![a] = @ + 1]
          /\ Goto(a, "next")
  /\ UNCHANGED <<regs, call, result, ghosts>>

Return(a) ==
  /\ result' = [result EXCEPT ![a] = 0]
  /\ Goto(a, "idle")

ReadEnd(a) ==
  /\ At(a, "next")
  /\ iterator[a] = call[a].num
  /\ call[a].op = "read"
  /\ Return(a)
  /\ UNCHANGED <<regs, dev, call, n, iterator, got, ghosts>>

\* outb(0x1F7, 0xE7), whatever the drive is still doing.
WriteFlush(a) ==
  /\ At(a, "next")
  /\ iterator[a] = call[a].num
  /\ call[a].op = "write"
  /\ OutCommand(a, "flush")
  /\ Goto(a, "flush")
  /\ UNCHANGED <<regs, call, n, iterator, got, result, mixed, failed>>

\* Mutant: the flush is not waited for.
WriteEndAtOnce(a) ==
  /\ At(a, "flush")
  /\ Return(a)
  /\ UNCHANGED <<regs, dev, call, n, iterator, got, ghosts>>

\* while (inb(0x1F7) & 0x80)
WriteEnd(a) ==
  /\ At(a, "flush")
  /\ dev.st # "busy"
  /\ Return(a)
  /\ UNCHANGED <<regs, dev, call, n, iterator, got, ghosts>>

-----------------------------------------------------------------------------
Init ==
  /\ regs = [k \in 0 .. 4 |-> 0]
  /\ dev = DevIdle
  /\ pc = [a \in Callers |-> "idle"]
  /\ call = [a \in Callers |-> [op |-> "read", off |-> 0, num |-> 0]]
  /\ n = [a \in Callers |-> 0]
  /\ iterator = [a \in Callers |-> 0]
  /\ got = [a \in Callers |-> <<>>]
  /\ result = [a \in Callers |-> 1]
  /\ mixed = [a \in Callers |-> FALSE]
  /\ landed = [a \in Callers |-> {}]
  /\ failed = [a \in Callers |-> FALSE]

Step(a) ==
  \/ OutRegister(a) \/ Command(a) \/ NextBlock(a) \/ Poll(a) \/ Data(a)
  \/ ReadEnd(a) \/ WriteFlush(a) \/ WriteEnd(a)

Next ==
  \/ \E a \in Callers : \/ \E c \in Requests[a] : Refuse(a, c) \/ Begin(a, c)
                        \/ Step(a) \/ Spin(a)
  \/ DevReady \/ DevError

Spec == Init /\ [][Next]_vars

\* The drive ends its busy phases; the code goes on when it can.
FairSpec == Spec /\ WF_vars(DevReady \/ DevError) /\ \A a \in Callers : WF_vars(Step(a))

-----------------------------------------------------------------------------
(* Properties. *)

TypeOK ==
  /\ regs \in [0 .. 4 -> Nat]
  /\ regs[0] < CountMod /\ regs[4] < Top /\ \A k \in 1 .. 3 : regs[k] < Digit
  /\ dev \in [st : {"idle", "busy", "drq"}, op : {"none", "read", "write", "flush"},
              by : Callers, lba : 0 .. LbaMod - 1, left : 0 .. CountMod,
              word : 0 .. Words - 1, commit : BOOLEAN]
  /\ pc \in [Callers -> {"idle", "out", "command", "next", "poll", "data", "flush"}]
  /\ call \in [Callers -> Call]
  /\ n \in [Callers -> Nat] /\ iterator \in [Callers -> Nat]
  /\ got \in [Callers -> Seq((0 .. LbaMod - 1) \cup {Junk})]
  /\ \A a \in Callers : /\ pc[a] = "out" => n[a] <= 4
                        /\ pc[a] # "out" => n[a] < Words
                        /\ iterator[a] <= call[a].num
                        /\ Len(got[a]) <= Words * call[a].num
  /\ result \in [Callers -> {-1, 0, 1}]
  /\ mixed \in [Callers -> BOOLEAN]
  /\ landed \in [Callers -> SUBSET (0 .. LbaMod - 1)]
  /\ failed \in [Callers -> BOOLEAN]

\* The sector that word i of a request belongs to.
Sector(c, i) == (part_start_lba + c.off + (i - 1) \div Words) % LbaMod

\* A call that has had the drive to itself.
Returned(a, op) == pc[a] = "idle" /\ result[a] = 0 /\ call[a].op = op /\ ~mixed[a]

\* A read that returns 0, and that no other call interfered with, has filled
\* the buffer with the requested sectors, whole and in order, although the loop
\* looks at DRQ only and the address goes out in four pieces.
ReadExact ==
  \A a \in Callers : Returned(a, "read") =>
    /\ Len(got[a]) = Words * call[a].num
    /\ \A i \in 1 .. Len(got[a]) : got[a][i] = Sector(call[a], i)

\* A write that returns 0, and that no other call interfered with, has put
\* the requested sectors on the disk and no others, unless the drive reported
\* an error: the code waits for BSY after the last sector, never looks at ERR.
WriteLands ==
  \A a \in Callers : Returned(a, "write") /\ ~failed[a] =>
    landed[a] = {Sector(call[a], Words * k) : k \in 1 .. call[a].num}

\* A call comes back unless another one gets in its way or the drive reports an
\* error: it transfers exactly the sectors it has asked the drive for.
UndisturbedReturns ==
  \A a \in Callers : pc[a] # "idle" ~> pc[a] = "idle" \/ mixed[a] \/ failed[a]

\* A call that has the drive to itself points it at sectors of the booted
\* partition only, unless the sum in the bounds check wraps or no sector was
\* asked for, which the check lets pass at the end of the partition.
InsidePartition ==
  dev.st # "idle" /\ dev.op \in {"read", "write"} /\ pc[dev.by] # "idle" /\ ~mixed[dev.by] =>
    \/ dev.lba \in part_start_lba .. part_start_lba + part_length - 1
    \/ call[dev.by].off + call[dev.by].num >= WordMod
    \/ call[dev.by].num = 0

\* A call that has had the drive to itself leaves it idle for the next one,
\* unless it asked for no sector, which the drive takes for the largest number.
DriveLeftIdle ==
  \A a \in Callers : (Returned(a, "read") \/ Returned(a, "write")) /\ dev.by = a /\ call[a].num # 0 =>
    dev.st = "idle"

=============================================================================
