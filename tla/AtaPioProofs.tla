---------------------------- MODULE AtaPioProofs ----------------------------
(***************************************************************************)
(* Proofs about AtaPio: the type invariant, what a read and a write have   *)
(* done when they return 0, which sectors they touch and how they leave    *)
(* the drive.                                                              *)
(*                                                                         *)
(* PioInv follows one call that has the drive to itself through its steps: *)
(* first the registers hold the digits of its address so far, then the     *)
(* drive is at the sector and the word that the two counters of the code   *)
(* say, and the buffer and the disk hold what has been transferred.        *)
(***************************************************************************)
EXTENDS AtaPio, TLAPS

-----------------------------------------------------------------------------
(* Arithmetic. *)

\* Division with remainder.
LEMMA DivMod ==
  ASSUME NEW x \in Nat, NEW d \in Nat \ {0}
  PROVE  /\ x \div d \in Nat /\ x % d \in 0 .. d - 1
         /\ x = (x \div d) * d + (x % d)
  OBVIOUS

LEMMA Quotient ==
  ASSUME NEW x \in Nat, NEW d \in Nat \ {0}
  PROVE  \E q \in Nat, r \in 0 .. d - 1 : q = x \div d /\ r = x % d /\ x = q * d + r
  BY DivMod, Zenon

LEMMA ModSmall ==
  ASSUME NEW d \in Nat \ {0}, NEW x \in 0 .. d - 1
  PROVE  x % d = x
  OBVIOUS

\* Two multiples of d that are less than d apart are the same.
LEMMA Multiples ==
  ASSUME NEW d \in Nat \ {0}, NEW p \in Nat, NEW q \in Nat, NEW r \in 0 .. d - 1, NEW s \in 0 .. d - 1,
         p * d + r = q * d + s
  PROVE  p = q /\ r = s
<1>1. ~(p < q)
  <2> SUFFICES ASSUME p + 1 <= q PROVE FALSE
    OBVIOUS
  <2>1. (p + 1) * d <= q * d
    OBVIOUS
  <2>2. (p + 1) * d = p * d + d
    OBVIOUS
  <2>3. p * d \in Nat /\ q * d \in Nat
    OBVIOUS
  <2> QED BY <2>1, <2>2, <2>3
<1>2. ~(q < p)
  <2> SUFFICES ASSUME q + 1 <= p PROVE FALSE
    OBVIOUS
  <2>1. (q + 1) * d <= p * d
    OBVIOUS
  <2>2. (q + 1) * d = q * d + d
    OBVIOUS
  <2>3. p * d \in Nat /\ q * d \in Nat
    OBVIOUS
  <2> QED BY <2>1, <2>2, <2>3
<1>3. p = q
  BY <1>1, <1>2
<1>4. p * d \in Nat
  OBVIOUS
<1> QED BY <1>3, <1>4

\* Quotient and remainder are determined by the number.
LEMMA DivUnique ==
  ASSUME NEW d \in Nat \ {0}, NEW q \in Nat, NEW r \in 0 .. d - 1
  PROVE  (q * d + r) \div d = q /\ (q * d + r) % d = r
<1>1. q * d + r \in Nat
  OBVIOUS
<1> DEFINE x == q * d + r
<1>2. /\ x \div d \in Nat /\ x % d \in 0 .. d - 1
      /\ x = (x \div d) * d + (x % d)
  BY <1>1, DivMod
<1>3. PICK p \in Nat, s \in 0 .. d - 1 : p = x \div d /\ s = x % d
  BY <1>2
<1>4. q * d + r = p * d + s
  BY <1>2, <1>3
<1>5. q = p /\ r = s
  BY <1>4, Multiples
<1> QED BY <1>3, <1>5

\* A remainder may be taken before adding.
LEMMA ModPlus ==
  ASSUME NEW x \in Nat, NEW j \in Nat, NEW d \in Nat \ {0}
  PROVE  ((x % d) + j) % d = (x + j) % d
<1>1. PICK q \in Nat, r \in 0 .. d - 1 : q = x \div d /\ r = x % d /\ x = q * d + r
  BY DivMod
<1>2. PICK p \in Nat, s \in 0 .. d - 1 : r + j = p * d + s
  <2>1. r + j \in Nat
    OBVIOUS
  <2> QED BY <2>1, DivMod
<1>3. (r + j) % d = s
  BY <1>2, DivUnique
<1>4. x + j = (q + p) * d + s
  <2>1. (q + p) * d = q * d + p * d
    OBVIOUS
  <2>2. q * d \in Nat /\ p * d \in Nat
    OBVIOUS
  <2> QED BY <1>1, <1>2, <2>1, <2>2
<1>5. q + p \in Nat
  OBVIOUS
<1>6. ((q + p) * d + s) % d = s
  BY <1>5, DivUnique
<1> QED BY <1>1, <1>3, <1>4, <1>6

\* A remainder modulo a multiple may be taken first.
LEMMA ModMultiple ==
  ASSUME NEW x \in Nat, NEW w \in Nat \ {0}, NEW d \in Nat \ {0}
  PROVE  w % d = 0 => (x % w) % d = x % d
<1> SUFFICES ASSUME w % d = 0 PROVE (x % w) % d = x % d
  OBVIOUS
<1>1. PICK m \in Nat : w = m * d
  <2>1. w = (w \div d) * d + (w % d) /\ w \div d \in Nat
    BY DivMod
  <2>2. w = (w \div d) * d
    BY <2>1
  <2> QED BY <2>1, <2>2
<1>2. PICK q \in Nat, r \in Nat : r = x % w /\ x = q * w + r
  <2>1. x \div w \in Nat /\ x % w \in 0 .. w - 1 /\ x = (x \div w) * w + (x % w)
    BY DivMod
  <2>2. x % w \in Nat
    BY <2>1
  <2> QED BY <2>1, <2>2, Zenon
<1>3. PICK p \in Nat, s \in 0 .. d - 1 : r = p * d + s
  <2>1. PICK p \in Nat, s \in 0 .. d - 1 : p = r \div d /\ s = r % d /\ r = p * d + s
    BY Quotient, Zenon
  <2> QED BY <2>1, Zenon
<1>4. r % d = s
  BY <1>3, DivUnique
<1>5. x = (q * m + p) * d + s
  <2>1. q * w = (q * m) * d
    BY <1>1
  <2>2. (q * m + p) * d = (q * m) * d + p * d
    OBVIOUS
  <2>3. q * m \in Nat /\ (q * m) * d \in Nat /\ p * d \in Nat
    OBVIOUS
  <2> QED BY <1>2, <1>3, <2>1, <2>2, <2>3
<1>6. q * m + p \in Nat
  OBVIOUS
<1>7. ((q * m + p) * d + s) % d = s
  BY <1>6, DivUnique
<1> QED BY <1>2, <1>4, <1>5, <1>7

\* Dividing by a product is dividing twice.
LEMMA DivTwice ==
  ASSUME NEW x \in Nat, NEW d \in Nat \ {0}, NEW e \in Nat \ {0}
  PROVE  x \div (d * e) = (x \div d) \div e
<1>1. PICK q \in Nat, r \in 0 .. d - 1 : q = x \div d /\ x = q * d + r
  BY DivMod
<1>2. PICK p \in Nat, s \in 0 .. e - 1 : p = q \div e /\ q = p * e + s
  BY DivMod
<1>3. d * e \in Nat \ {0}
  OBVIOUS
<1>4. s * d + r \in 0 .. (d * e) - 1
  <2>1. s * d <= (e - 1) * d
    OBVIOUS
  <2>2. (e - 1) * d = d * e - d
    OBVIOUS
  <2>3. s * d \in Nat /\ d * e \in Nat
    OBVIOUS
  <2> QED BY <2>1, <2>2, <2>3
<1>5. x = p * (d * e) + (s * d + r)
  <2>1. q * d = p * (d * e) + s * d
    <3>1. (p * e + s) * d = p * (d * e) + s * d
      OBVIOUS
    <3> QED BY <1>2, <3>1
  <2>2. q * d \in Nat /\ p * (d * e) \in Nat /\ s * d \in Nat
    BY <1>3
  <2> QED BY <1>1, <2>1, <2>2
<1>6. (p * (d * e) + (s * d + r)) \div (d * e) = p
  BY <1>3, <1>4, DivUnique
<1> QED BY <1>1, <1>2, <1>5, <1>6

\* A number below d * e has a quotient below e.
LEMMA DivBound ==
  ASSUME NEW d \in Nat \ {0}, NEW e \in Nat \ {0}, NEW x \in Nat, x < d * e
  PROVE  x \div d < e
<1>1. PICK q \in Nat, r \in 0 .. d - 1 : q = x \div d /\ x = q * d + r
  BY DivMod
<1> SUFFICES ASSUME e <= q PROVE FALSE
  BY <1>1
<1>2. e * d <= q * d
  OBVIOUS
<1>3. e * d = d * e /\ q * d \in Nat /\ d * e \in Nat
  OBVIOUS
<1> QED BY <1>1, <1>2, <1>3

-----------------------------------------------------------------------------
(* The inductive invariant. *)

\* The address of sector j of a request, counted from 0, and the first m.
SectorAt(c, j) == (Lba(c) + j) % LbaMod
FirstOf(c, m)  == {SectorAt(c, j) : j \in 0 .. m - 1}

\* What the drive has left after i sectors.
LeftAfter(c, i) == IF c.num = 0 THEN CountMod ELSE c.num - i

\* The drive works for a and has nothing of the next sector yet; or it is done.
Between(a) ==
  \/ dev.st = "idle" /\ (failed[a] \/ iterator[a] = call[a].num)
  \/ /\ dev.st \in {"busy", "drq"}
     /\ dev.by = a /\ dev.op = call[a].op /\ dev.word = 0
     /\ dev.left = LeftAfter(call[a], iterator[a])
     /\ \/ /\ ~dev.commit
           /\ dev.left # 0
           /\ dev.lba = SectorAt(call[a], iterator[a])
        \/ /\ dev.commit
           /\ dev.st = "busy" /\ dev.op = "write"
           /\ iterator[a] > 0
           /\ dev.lba = SectorAt(call[a], iterator[a] - 1)

Within(a) ==
  /\ dev.st = "drq"
  /\ dev.by = a /\ dev.op = call[a].op /\ dev.word = n[a]
  /\ dev.left = call[a].num - iterator[a]
  /\ ~dev.commit
  /\ dev.lba = SectorAt(call[a], iterator[a])

Flushing(a) ==
  /\ dev.st = "busy" /\ dev.op = "flush"
  /\ dev.by = a /\ dev.left = 0 /\ ~dev.commit

\* The drive as a call that has it to itself finds it.
Phase(a) ==
  /\ pc[a] = "out" =>
       dev.st = "idle" /\ \A k \in 0 .. 4 : k < n[a] => regs[k] = RegisterValue(call[a], k)
  /\ pc[a] = "command" =>
       dev.st = "idle" /\ \A k \in 0 .. 4 : regs[k] = RegisterValue(call[a], k)
  /\ pc[a] \in {"next", "poll"} => Between(a)
  /\ pc[a] = "data" => Within(a)
  /\ pc[a] = "flush" => Between(a) \/ Flushing(a)

\* The counters of the code, whatever the drive does.
Counters(a) ==
  /\ pc[a] \in {"out", "command"} => iterator[a] = 0
  /\ pc[a] \in {"poll", "data"} => iterator[a] < call[a].num
  /\ pc[a] = "flush" => iterator[a] = call[a].num /\ call[a].op = "write"
  /\ pc[a] \notin {"out", "data"} => n[a] = 0
  /\ pc[a] = "idle" /\ result[a] = 0 => iterator[a] = call[a].num
  /\ pc[a] # "idle" => ~Rejected(call[a])

WordsRead(a) ==
  IF mixed[a] \/ call[a].op = "write" THEN 0
  ELSE Words * iterator[a] + (IF pc[a] = "data" THEN n[a] ELSE 0)

Buffer(a) ==
  /\ Len(got[a]) = WordsRead(a)
  /\ \A i \in 1 .. Len(got[a]) : got[a][i] = Sector(call[a], i)

Disk(a) ==
  ~mixed[a] /\ ~failed[a] /\ call[a].op = "write" =>
    /\ pc[a] # "idle" =>
         landed[a] = FirstOf(call[a], IF dev.commit THEN iterator[a] - 1 ELSE iterator[a])
    /\ pc[a] = "idle" /\ result[a] = 0 => landed[a] = FirstOf(call[a], call[a].num)

\* A call that has the drive to itself is the only one under way.
Alone(a) == ~mixed[a] /\ pc[a] # "idle" => pc[Other(a)] = "idle"

\* The drive works for a call of a caller that no other one has met.
Owned ==
  /\ dev.commit => dev.st = "busy"
  /\ dev.st = "drq" => dev.left # 0
  /\ dev.st # "idle" /\ ~mixed[dev.by] =>
       pc[Other(dev.by)] = "idle" /\ (pc[dev.by] = "idle" => ~dev.commit)

PioInv ==
  /\ TypeOK
  /\ Owned
  /\ DriveLeftIdle
  /\ \A a \in Callers :
       Counters(a) /\ Buffer(a) /\ Disk(a) /\ Alone(a) /\ (~mixed[a] => Phase(a))

-----------------------------------------------------------------------------
(* Addresses. *)

LEMMA Constants ==
  /\ Main # Isr /\ Main \in Callers /\ Isr \in Callers
  /\ Digit \in Nat \ {0} /\ Top \in Nat \ {0} /\ CountMod \in Nat \ {0} /\ Words \in Nat \ {0}
  /\ part_start_lba \in Nat /\ part_length \in Nat /\ WordMod \in Nat \ {0}
  /\ LbaMod \in Nat \ {0} /\ LbaMod <= WordMod /\ WordMod % LbaMod = 0
  /\ part_start_lba + part_length <= LbaMod
<1>1. /\ Digit \in Nat \ {0} /\ Top \in Nat \ {0} /\ CountMod \in Nat \ {0} /\ Words \in Nat \ {0}
      /\ part_start_lba \in Nat /\ part_length \in Nat /\ WordMod \in Nat
  BY PioAssumption
<1>2. LbaMod \in Nat \ {0}
  <2>1. Digit * Digit \in Nat \ {0}
    BY <1>1
  <2>2. Digit * Digit * Digit \in Nat \ {0}
    BY <1>1, <2>1
  <2> QED BY <1>1, <2>2 DEF LbaMod
<1>3. LbaMod <= WordMod /\ WordMod % LbaMod = 0 /\ part_start_lba + part_length <= LbaMod /\ Main # Isr
  BY PioAssumption
<1>4. WordMod \in Nat \ {0}
  BY <1>1, <1>2, <1>3
<1> QED BY <1>1, <1>2, <1>3, <1>4 DEF Callers

LEMMA CallType ==
  ASSUME NEW c \in Call
  PROVE  /\ c.off \in Nat /\ c.off < WordMod
         /\ c.num \in Nat /\ c.num < CountMod
         /\ c.op \in {"read", "write"}
  BY Constants DEF Call

LEMMA LbaType ==
  ASSUME NEW c \in Call
  PROVE  Lba(c) \in 0 .. LbaMod - 1
<1>1. c.off + part_start_lba \in Nat
  BY CallType, Constants
<1>2. (c.off + part_start_lba) % WordMod \in Nat
  BY <1>1, Constants, DivMod
<1> QED BY <1>2, Constants, DivMod DEF Lba

LEMMA SectorAtType ==
  ASSUME NEW c \in Call, NEW j \in Nat
  PROVE  SectorAt(c, j) \in 0 .. LbaMod - 1
<1>1. Lba(c) + j \in Nat
  BY LbaType
<1> QED BY <1>1, Constants, DivMod DEF SectorAt

LEMMA SectorFirst ==
  ASSUME NEW c \in Call
  PROVE  SectorAt(c, 0) = Lba(c)
<1>1. PICK l \in Nat : l = Lba(c) /\ l \in 0 .. LbaMod - 1
  BY LbaType, Constants
<1>2. (0 * LbaMod + l) % LbaMod = l
  BY <1>1, Constants, DivUnique
<1>3. l + 0 = 0 * LbaMod + l
  BY <1>1, Constants
<1> QED BY <1>1, <1>2, <1>3 DEF SectorAt

LEMMA SectorNext ==
  ASSUME NEW c \in Call, NEW j \in Nat
  PROVE  (SectorAt(c, j) + 1) % LbaMod = SectorAt(c, j + 1)
<1>1. PICK l \in Nat : l = Lba(c)
  BY LbaType
<1>2. l + j \in Nat /\ (l + j) + 1 = l + (j + 1)
  OBVIOUS
<1>3. (((l + j) % LbaMod) + 1) % LbaMod = ((l + j) + 1) % LbaMod
  BY <1>2, Constants, ModPlus
<1> QED BY <1>1, <1>2, <1>3, Zenon DEF SectorAt

\* 28 of the 32 bits of the sum go to the drive.
LEMMA LbaModulo ==
  ASSUME NEW c \in Call
  PROVE  Lba(c) = (c.off + part_start_lba) % LbaMod
<1>1. c.off + part_start_lba \in Nat
  BY CallType, Constants
<1>2. ((c.off + part_start_lba) % WordMod) % LbaMod = (c.off + part_start_lba) % LbaMod
  <2>1. WordMod \in Nat \ {0} /\ LbaMod \in Nat \ {0} /\ WordMod % LbaMod = 0
    BY Constants, Zenon
  <2> QED BY <1>1, <2>1, ModMultiple, Zenon
<1> QED BY <1>2 DEF Lba

\* Word w of sector j of a request is of the sector the drive counts to.
LEMMA SectorOfWord ==
  ASSUME NEW c \in Call, NEW j \in Nat, NEW w \in 0 .. Words - 1
  PROVE  Sector(c, Words * j + w + 1) = SectorAt(c, j)
<1>1. ((Words * j + w + 1) - 1) \div Words = j
  <2>1. (j * Words + w) \div Words = j
    BY Constants, DivUnique
  <2>2. (Words * j + w + 1) - 1 = j * Words + w
    BY Constants
  <2> QED BY <2>1, <2>2
<1>2. PICK x \in Nat : x = c.off + part_start_lba
  BY CallType, Constants
<1>3. Lba(c) = x % LbaMod
  BY <1>2, LbaModulo
<1>4. ((x % LbaMod) + j) % LbaMod = (x + j) % LbaMod
  <2>1. LbaMod \in Nat \ {0}
    BY Constants, Zenon
  <2> QED BY <2>1, ModPlus, Zenon
<1>5. part_start_lba + c.off + j = x + j
  BY <1>2, CallType, Constants
<1>6. Sector(c, Words * j + w + 1) = (part_start_lba + c.off + (((Words * j + w + 1) - 1) \div Words)) % LbaMod
  BY DEF Sector
<1>7. (part_start_lba + c.off + (((Words * j + w + 1) - 1) \div Words)) = x + j
  BY <1>1, <1>5
<1>8. SectorAt(c, j) = ((x % LbaMod) + j) % LbaMod
  BY <1>3 DEF SectorAt
<1> QED BY <1>4, <1>6, <1>7, <1>8

\* The four address registers put together again are the address.
LEMMA DigitsOfLba ==
  ASSUME NEW c \in Call
  PROVE  RegisterValue(c, 1) + Digit * (RegisterValue(c, 2) + Digit * (RegisterValue(c, 3) + Digit * RegisterValue(c, 4)))
           = Lba(c)
<1>1. PICK l \in Nat : l = Lba(c) /\ l < LbaMod
  BY LbaType, Constants
<1>2. PICK d \in Nat \ {0}, t \in Nat \ {0} : d = Digit /\ t = Top
  BY Constants
<1>3. PICK p1 \in Nat, r1 \in 0 .. d - 1 : p1 = l \div d /\ r1 = l % d /\ l = p1 * d + r1
  BY Quotient, Zenon
<1>4. PICK p2 \in Nat, r2 \in 0 .. d - 1 : p2 = p1 \div d /\ r2 = p1 % d /\ p1 = p2 * d + r2
  BY Quotient, Zenon
<1>5. PICK p3 \in Nat, r3 \in 0 .. d - 1 : p3 = p2 \div d /\ r3 = p2 % d /\ p2 = p3 * d + r3
  BY Quotient, Zenon
<1>6. d * d \in Nat \ {0} /\ (d * d) * d \in Nat \ {0}
  OBVIOUS
<1>7. l \div (d * d) = p2
  <2>1. l \div (d * d) = (l \div d) \div d
    BY DivTwice, Zenon
  <2> QED BY <2>1, <1>3, <1>4, Zenon
<1>8. l \div ((d * d) * d) = p3
  <2>1. l \div ((d * d) * d) = (l \div (d * d)) \div d
    BY <1>6, DivTwice, Zenon
  <2> QED BY <2>1, <1>7, <1>5, Zenon
<1>9. p3 % t = p3
  <2>1. l < ((d * d) * d) * t
    BY <1>1, <1>2 DEF LbaMod
  <2>2. p3 < t
    BY <1>6, <1>8, <2>1, DivBound
  <2>3. (0 * t + p3) % t = p3
    BY <2>2, DivUnique
  <2>4. 0 * t + p3 = p3
    OBVIOUS
  <2> QED BY <2>3, <2>4, Zenon
<1>10. /\ RegisterValue(c, 1) = r1
       /\ RegisterValue(c, 2) = r2
       /\ RegisterValue(c, 3) = r3
       /\ RegisterValue(c, 4) = p3
  <2>1. /\ RegisterValue(c, 1) = l % d
        /\ RegisterValue(c, 2) = (l \div d) % d
        /\ RegisterValue(c, 3) = (l \div (d * d)) % d
        /\ RegisterValue(c, 4) = (l \div ((d * d) * d)) % t
    BY <1>1, <1>2 DEF RegisterValue
  <2> QED BY <2>1, <1>3, <1>4, <1>5, <1>7, <1>8, <1>9, Zenon
<1>11. r1 + d * (r2 + d * (r3 + d * p3)) = l
  <2>1. r3 + d * p3 = p2
    BY <1>5
  <2>2. r2 + d * p2 = p1
    BY <1>4
  <2>3. r1 + d * p1 = l
    BY <1>3
  <2> QED BY <2>1, <2>2, <2>3
<1> QED BY <1>1, <1>2, <1>10, <1>11, Zenon

LEMMA RegisterType ==
  ASSUME NEW c \in Call
  PROVE  /\ RegisterValue(c, 0) = c.num
         /\ \A k \in 0 .. 4 : RegisterValue(c, k) \in Nat
         /\ \A k \in 1 .. 3 : RegisterValue(c, k) < Digit
         /\ RegisterValue(c, 4) < Top
<1>1. PICK l \in Nat : l = Lba(c)
  BY LbaType
<1>2. Digit * Digit \in Nat \ {0} /\ Digit * Digit * Digit \in Nat \ {0}
  BY Constants
<1>3. /\ l \div Digit \in Nat
      /\ l \div (Digit * Digit) \in Nat
      /\ l \div (Digit * Digit * Digit) \in Nat
  BY <1>2, Constants, DivMod
<1>4. RegisterValue(c, 0) = c.num
  BY DEF RegisterValue
<1>5. RegisterValue(c, 1) \in 0 .. Digit - 1
  <2>1. l % Digit \in 0 .. Digit - 1
    BY Constants, DivMod
  <2> QED BY <1>1, <2>1 DEF RegisterValue
<1>6. RegisterValue(c, 2) \in 0 .. Digit - 1
  <2>1. (l \div Digit) % Digit \in 0 .. Digit - 1
    BY <1>3, Constants, DivMod
  <2> QED BY <1>1, <2>1 DEF RegisterValue
<1>7. RegisterValue(c, 3) \in 0 .. Digit - 1
  <2>1. (l \div (Digit * Digit)) % Digit \in 0 .. Digit - 1
    BY <1>3, Constants, DivMod
  <2> QED BY <1>1, <2>1 DEF RegisterValue
<1>8. RegisterValue(c, 4) \in 0 .. Top - 1
  <2>1. (l \div (Digit * Digit * Digit)) % Top \in 0 .. Top - 1
    BY <1>3, Constants, DivMod
  <2> QED BY <1>1, <2>1 DEF RegisterValue
<1> HIDE DEF RegisterValue
<1>9. \A k \in 0 .. 4 : k = 0 \/ k = 1 \/ k = 2 \/ k = 3 \/ k = 4
  OBVIOUS
<1>10. \A k \in 1 .. 3 : k = 1 \/ k = 2 \/ k = 3
  OBVIOUS
<1> QED BY <1>4, <1>5, <1>6, <1>7, <1>8, <1>9, <1>10, CallType, Constants

\* The bounds check keeps a request inside the partition, if its sum does not wrap.
LEMMA Inside ==
  ASSUME NEW c \in Call, ~Rejected(c), c.off + c.num < WordMod, NEW j \in Nat, j < c.num
  PROVE  SectorAt(c, j) \in part_start_lba .. part_start_lba + part_length - 1
<1>1. c.off \in Nat /\ c.num \in Nat /\ part_start_lba \in Nat /\ part_length \in Nat
  BY CallType, Constants
<1>2. c.off + c.num <= part_length
  <2>1. PICK x \in Nat : x = c.off + c.num /\ x < WordMod
    BY <1>1
  <2>2. (0 * WordMod + x) % WordMod = x
    BY <2>1, Constants, DivUnique
  <2>3. 0 * WordMod + x = x
    BY Constants
  <2>4. (c.off + c.num) % WordMod = x
    BY <2>1, <2>2, <2>3
  <2>5. (c.off + c.num) % WordMod \in Int /\ ~((c.off + c.num) % WordMod > part_length)
    BY <2>1, <2>4 DEF Rejected
  <2> QED BY <1>1, <2>1, <2>4, <2>5
<1>3. PICK y \in Nat : y = c.off + part_start_lba
  BY <1>1
<1>4. y < LbaMod /\ y + j < LbaMod
  BY <1>1, <1>2, <1>3, Constants
<1>5. Lba(c) = y
  <2>1. LbaMod \in Nat \ {0}
    BY Constants, Zenon
  <2>2. y \in 0 .. LbaMod - 1
    BY <1>4, <2>1
  <2>3. y % LbaMod = y
    BY <2>1, <2>2, ModSmall, Zenon
  <2> QED BY <1>3, <2>3, LbaModulo
<1>6. SectorAt(c, j) = y + j
  <2>1. LbaMod \in Nat \ {0}
    BY Constants, Zenon
  <2>2. y + j \in 0 .. LbaMod - 1
    BY <1>4, <2>1
  <2>3. (y + j) % LbaMod = y + j
    BY <2>1, <2>2, ModSmall, Zenon
  <2> QED BY <1>5, <2>3 DEF SectorAt
<1> QED BY <1>1, <1>2, <1>3, <1>6

\* What is asked for, sector by sector.
LEMMA AllSectors ==
  ASSUME NEW c \in Call
  PROVE  FirstOf(c, c.num) = {Sector(c, Words * k) : k \in 1 .. c.num}
<1>1. \A j \in Nat : SectorAt(c, j) = Sector(c, Words * (j + 1))
  <2> TAKE j \in Nat
  <2>1. Words - 1 \in 0 .. Words - 1
    BY Constants
  <2>2. Sector(c, Words * j + (Words - 1) + 1) = SectorAt(c, j)
    BY <2>1, SectorOfWord
  <2>3. Words * j + (Words - 1) + 1 = Words * (j + 1)
    BY Constants
  <2> QED BY <2>2, <2>3
<1>2. c.num \in Nat
  BY CallType
<1>3. ASSUME NEW x \in FirstOf(c, c.num)
      PROVE  x \in {Sector(c, Words * k) : k \in 1 .. c.num}
  <2>1. PICK j \in 0 .. c.num - 1 : x = SectorAt(c, j)
    BY DEF FirstOf
  <2>2. j + 1 \in 1 .. c.num /\ j \in Nat
    BY <1>2
  <2> QED BY <1>1, <2>1, <2>2
<1>4. ASSUME NEW x \in {Sector(c, Words * k) : k \in 1 .. c.num}
      PROVE  x \in FirstOf(c, c.num)
  <2>1. PICK k \in 1 .. c.num : x = Sector(c, Words * k)
    OBVIOUS
  <2>2. k - 1 \in 0 .. c.num - 1 /\ k - 1 \in Nat /\ (k - 1) + 1 = k
    BY <1>2
  <2>3. SectorAt(c, k - 1) = x
    BY <1>1, <2>1, <2>2
  <2> QED BY <2>2, <2>3 DEF FirstOf
<1> QED BY <1>3, <1>4, Zenon

\* One more sector.
LEMMA FirstNext ==
  ASSUME NEW c \in Call, NEW m \in Nat
  PROVE  /\ FirstOf(c, m + 1) = FirstOf(c, m) \cup {SectorAt(c, m)}
         /\ FirstOf(c, 0) = {}
         /\ FirstOf(c, m) \subseteq 0 .. LbaMod - 1
<1>1. 0 .. (m + 1) - 1 = (0 .. m - 1) \cup {m}
  OBVIOUS
<1>2. FirstOf(c, m + 1) = FirstOf(c, m) \cup {SectorAt(c, m)}
  BY <1>1 DEF FirstOf
<1>3. FirstOf(c, 0) = {}
  BY DEF FirstOf
<1>4. \A j \in 0 .. m - 1 : SectorAt(c, j) \in 0 .. LbaMod - 1
  BY SectorAtType
<1> QED BY <1>2, <1>3, <1>4 DEF FirstOf

-----------------------------------------------------------------------------
(* The steps keep the invariant. *)

LEMMA OtherIs ==
  ASSUME NEW a \in Callers, NEW b \in Callers
  PROVE  /\ Other(a) \in Callers /\ Other(a) # a
         /\ b # a => b = Other(a) /\ a = Other(b)
  BY Constants DEF Other, Callers

LEMMA DevIdleType ==
  DevIdle \in [st : {"idle", "busy", "drq"}, op : {"none", "read", "write", "flush"},
               by : Callers, lba : 0 .. LbaMod - 1, left : 0 .. CountMod,
               word : 0 .. Words - 1, commit : BOOLEAN]
  BY Constants DEF DevIdle

LEMMA Starts == Init => PioInv
<1> SUFFICES ASSUME Init PROVE PioInv
  OBVIOUS
<1> USE DEF Init
<1>1. [op |-> "read", off |-> 0, num |-> 0] \in Call
  BY Constants DEF Call
<1>2. TypeOK
  <2>1. regs \in [0 .. 4 -> Nat] /\ regs[0] < CountMod /\ regs[4] < Top /\ \A k \in 1 .. 3 : regs[k] < Digit
    BY Constants
  <2>2. dev \in [st : {"idle", "busy", "drq"}, op : {"none", "read", "write", "flush"},
              by : Callers, lba : 0 .. LbaMod - 1, left : 0 .. CountMod,
              word : 0 .. Words - 1, commit : BOOLEAN]
    BY Constants DEF DevIdle
  <2>3. call \in [Callers -> Call]
    BY <1>1
  <2>4. \A a \in Callers : got[a] = <<>> /\ Len(got[a]) = 0 /\ got[a] \in Seq((0 .. LbaMod - 1) \cup {Junk})
    OBVIOUS
  <2>5. got \in [Callers -> Seq((0 .. LbaMod - 1) \cup {Junk})]
    OBVIOUS
  <2>6. \A a \in Callers : (pc[a] = "out" => n[a] <= 4) /\ (pc[a] # "out" => n[a] < Words) /\ iterator[a] <= call[a].num
                           /\ Len(got[a]) <= Words * call[a].num
    BY <2>4, Constants
  <2> QED BY <2>1, <2>2, <2>3, <2>5, <2>6 DEF TypeOK
<1>3. Owned
  BY DEF Owned, DevIdle
<1>4. DriveLeftIdle
  BY DEF DriveLeftIdle, DevIdle
<1>5. ASSUME NEW a \in Callers
      PROVE  Counters(a) /\ Buffer(a) /\ Disk(a) /\ Alone(a) /\ Phase(a)
  <2>1. Counters(a)
    BY DEF Counters
  <2>2. Len(got[a]) = 0
    OBVIOUS
  <2>3. WordsRead(a) = 0
    BY Constants DEF WordsRead
  <2>4. Buffer(a)
    BY <2>2, <2>3 DEF Buffer
  <2>5. Disk(a) /\ Alone(a) /\ Phase(a)
    BY DEF Disk, Alone, Phase
  <2> QED BY <2>1, <2>4, <2>5
<1> QED BY <1>2, <1>3, <1>4, <1>5 DEF PioInv

\* A step of a call under way leaves alone what is known of the other caller:
\* that one is idle, or both of their calls are mixed.
LEMMA OthersKept ==
  ASSUME PioInv, NEW a \in Callers, NEW b \in Callers, b # a, pc[a] # "idle",
         pc'[b] = pc[b], call'[b] = call[b], n'[b] = n[b], iterator'[b] = iterator[b],
         got'[b] = got[b], result'[b] = result[b], mixed'[b] = mixed[b],
         failed'[b] = failed[b],
         landed'[b] = landed[b]
  PROVE  Counters(b)' /\ Buffer(b)' /\ Disk(b)' /\ Alone(b)' /\ (~mixed'[b] => Phase(b)')
<1>1. Counters(b) /\ Buffer(b) /\ Disk(b) /\ Alone(b)
  BY DEF PioInv
<1>2. Counters(b)'
  BY <1>1 DEF Counters
<1>3. Buffer(b)'
  BY <1>1 DEF Buffer, WordsRead
<1>4. mixed[b] \/ pc[b] = "idle"
  BY <1>1, OtherIs DEF Alone
<1>5. Disk(b)'
  BY <1>1, <1>4 DEF Disk
<1>6. Alone(b)'
  BY <1>4 DEF Alone
<1>7. ~mixed'[b] => Phase(b)'
  BY <1>4 DEF Phase
<1> QED BY <1>2, <1>3, <1>5, <1>6, <1>7

\* A step that changes no more than the step counters of a.
LEMMA QuietSteps ==
  ASSUME PioInv, NEW a \in Callers, NextBlock(a) \/ Poll(a)
  PROVE  PioInv'
<1>1. /\ pc[a] \in {"next", "poll"} /\ pc'[a] \in {"poll", "data"}
      /\ pc' = [pc EXCEPT ![a] = pc'[a]]
      /\ UNCHANGED <<regs, dev, call, n, iterator, got, result, mixed, landed, failed>>
      /\ pc[a] = "next" => pc'[a] = "poll" /\ iterator[a] < call[a].num
      /\ pc[a] = "poll" => pc'[a] = "data" /\ dev.st = "drq"
  BY DEF NextBlock, Poll, At, Goto, PioInv, TypeOK, ghosts
<1>2. pc \in [Callers -> {"idle", "out", "command", "next", "poll", "data", "flush"}]
  BY DEF PioInv, TypeOK
<1>3. \A b \in Callers : b # a => pc'[b] = pc[b]
  BY <1>1, <1>2
<1>4. TypeOK'
  <2>1. pc' \in [Callers -> {"idle", "out", "command", "next", "poll", "data", "flush"}]
    BY <1>1, <1>2
  <2>2. \A b \in Callers : (pc'[b] = "out" => n'[b] <= 4) /\ (pc'[b] # "out" => n'[b] < Words)
    BY <1>1, <1>3 DEF PioInv, TypeOK
  <2> QED BY <1>1, <2>1, <2>2 DEF PioInv, TypeOK
<1>5. Owned'
  BY <1>1, <1>3, OtherIs DEF PioInv, Owned, TypeOK
<1>6. DriveLeftIdle'
  BY <1>1, <1>3 DEF PioInv, DriveLeftIdle, Returned
<1>7. ASSUME NEW b \in Callers
      PROVE  Counters(b)' /\ Buffer(b)' /\ Disk(b)' /\ Alone(b)' /\ (~mixed'[b] => Phase(b)')
  <2>1. CASE b # a
    BY <1>1, <1>3, <2>1, OthersKept
  <2>2. CASE b = a
    <3>1. Counters(a) /\ Buffer(a) /\ Disk(a) /\ Alone(a) /\ (~mixed[a] => Phase(a))
      BY DEF PioInv
    <3>2. Counters(a)'
      BY <1>1, <3>1 DEF Counters
    <3>3. Buffer(a)'
      <4>1. n[a] = 0
        BY <1>1, <3>1 DEF Counters
      <4>2. WordsRead(a)' = WordsRead(a)
        BY <1>1, <4>1 DEF WordsRead
      <4> QED BY <1>1, <3>1, <4>2 DEF Buffer
    <3>4. Disk(a)'
      BY <1>1, <3>1 DEF Disk
    <3>5. Alone(a)'
      BY <1>1, <1>3, <3>1, OtherIs DEF Alone
    <3>6. ~mixed'[a] => Phase(a)'
      <4> SUFFICES ASSUME ~mixed[a] PROVE Phase(a)'
        BY <1>1
      <4>1. Between(a)
        BY <1>1, <3>1 DEF Phase
      <4>2. CASE pc[a] = "next"
        BY <1>1, <4>1, <4>2 DEF Phase, Between
      <4>3. CASE pc[a] = "poll"
        <5>1. iterator[a] < call[a].num /\ n[a] = 0
          BY <3>1, <4>3 DEF Counters
        <5>2. call[a].num # 0
          <6>1. TypeOK
            BY Zenon DEF PioInv
          <6>2. iterator[a] \in Nat /\ call[a] \in Call
            BY <6>1 DEF TypeOK
          <6>3. call[a].num \in Nat
            BY <6>2, CallType
          <6> QED BY <5>1, <6>2, <6>3
        <5>3. Within(a)'
          BY <1>1, <4>1, <4>3, <5>1, <5>2 DEF Within, Between, LeftAfter
        <5> QED BY <1>1, <4>3, <5>3 DEF Phase
      <4> QED BY <1>1, <4>2, <4>3
    <3> QED BY <2>2, <3>2, <3>3, <3>4, <3>5, <3>6
  <2> QED BY <2>1, <2>2
<1> QED BY <1>4, <1>5, <1>6, <1>7 DEF PioInv

LEMMA OutRegisterStep ==
  ASSUME PioInv, NEW a \in Callers, OutRegister(a)
  PROVE  PioInv'
<1>1. /\ pc[a] = "out"
      /\ n' = [n EXCEPT ![a] = IF n[a] = 4 THEN 0 ELSE n[a] + 1]
      /\ pc' = [pc EXCEPT ![a] = IF n[a] = 4 THEN "command" ELSE "out"]
      /\ UNCHANGED <<dev, call, iterator, got, result, mixed, landed, failed>>
      /\ \/ regs' = [regs EXCEPT ![n[a]] = RegisterValue(call[a], n[a])]
         \/ dev.st # "idle" /\ regs' = regs
  BY DEF OutRegister, At, Goto, ghosts
<1>2. /\ pc \in [Callers -> {"idle", "out", "command", "next", "poll", "data", "flush"}]
      /\ n \in [Callers -> Nat] /\ n[a] \in 0 .. 4
      /\ regs \in [0 .. 4 -> Nat]
      /\ call[a] \in Call
  <2>1. TypeOK
    BY Zenon DEF PioInv
  <2>2. /\ pc \in [Callers -> {"idle", "out", "command", "next", "poll", "data", "flush"}]
        /\ n \in [Callers -> Nat] /\ regs \in [0 .. 4 -> Nat] /\ call \in [Callers -> Call]
    BY <2>1, Zenon DEF TypeOK
  <2>3. n[a] <= 4
    BY <1>1, <2>1, Zenon DEF TypeOK
  <2> QED BY <2>2, <2>3
<1>3. \A b \in Callers : b # a => pc'[b] = pc[b] /\ n'[b] = n[b]
  BY <1>1, <1>2
<1>4. /\ pc'[a] = IF n[a] = 4 THEN "command" ELSE "out"
      /\ n'[a] = IF n[a] = 4 THEN 0 ELSE n[a] + 1
  BY <1>1, <1>2
<1>5. TypeOK'
  <2>1. pc' \in [Callers -> {"idle", "out", "command", "next", "poll", "data", "flush"}]
    BY <1>1, <1>2
  <2>2. n' \in [Callers -> Nat]
    BY <1>1, <1>2
  <2>3. \A b \in Callers : (pc'[b] = "out" => n'[b] <= 4) /\ (pc'[b] # "out" => n'[b] < Words)
    <3>1. \A b \in Callers : (pc[b] = "out" => n[b] <= 4) /\ (pc[b] # "out" => n[b] < Words)
      BY DEF PioInv, TypeOK
    <3>2. (pc'[a] = "out" => n'[a] <= 4) /\ (pc'[a] # "out" => n'[a] < Words)
      BY <1>2, <1>4, Constants
    <3> QED BY <1>3, <3>1, <3>2
  <2>4. regs' \in [0 .. 4 -> Nat]
    BY <1>1, <1>2, RegisterType
  <2>5. regs'[0] < CountMod /\ regs'[4] < Top /\ \A k \in 1 .. 3 : regs'[k] < Digit
    <3>1. regs[0] < CountMod /\ regs[4] < Top /\ \A k \in 1 .. 3 : regs[k] < Digit
      BY DEF PioInv, TypeOK
    <3>2. \A k \in 0 .. 4 : regs'[k] = regs[k] \/ regs'[k] = RegisterValue(call[a], k)
      BY <1>1, <1>2
    <3>3. call[a].num < CountMod
      BY <1>2, CallType
    <3> QED BY <1>2, <3>1, <3>2, <3>3, RegisterType
  <2> QED BY <1>1, <2>1, <2>2, <2>3, <2>4, <2>5 DEF PioInv, TypeOK
<1>6. Owned'
  <2>1. TypeOK /\ Owned
    BY Zenon DEF PioInv
  <2>2. dev.by \in Callers
    BY <2>1 DEF TypeOK
  <2> QED BY <1>1, <1>3, <1>4, <2>1, <2>2, OtherIs DEF Owned
<1>7. DriveLeftIdle'
  BY <1>1, <1>3, <1>4 DEF PioInv, DriveLeftIdle, Returned
<1>8. ASSUME NEW b \in Callers
      PROVE  Counters(b)' /\ Buffer(b)' /\ Disk(b)' /\ Alone(b)' /\ (~mixed'[b] => Phase(b)')
  <2>1. CASE b # a
    BY <1>1, <1>3, <2>1, OthersKept
  <2>2. CASE b = a
    <3>1. Counters(a) /\ Buffer(a) /\ Disk(a) /\ Alone(a) /\ (~mixed[a] => Phase(a))
      BY DEF PioInv
    <3>2. Counters(a)'
      BY <1>1, <1>4, <3>1 DEF Counters
    <3>3. Buffer(a)'
      <4>1. WordsRead(a)' = WordsRead(a)
        BY <1>1, <1>4 DEF WordsRead
      <4> QED BY <1>1, <3>1, <4>1 DEF Buffer
    <3>4. Disk(a)'
      BY <1>1, <1>4, <3>1 DEF Disk
    <3>5. Alone(a)'
      BY <1>1, <1>3, <3>1, OtherIs DEF Alone
    <3>6. ~mixed'[a] => Phase(a)'
      <4> SUFFICES ASSUME ~mixed[a] PROVE Phase(a)'
        BY <1>1
      <4>1. dev.st = "idle" /\ \A k \in 0 .. 4 : k < n[a] => regs[k] = RegisterValue(call[a], k)
        BY <1>1, <3>1 DEF Phase
      <4>2. \A k \in 0 .. 4 : k < n[a] + 1 => regs'[k] = RegisterValue(call[a], k)
        BY <1>1, <1>2, <4>1
      <4>3. CASE n[a] = 4
        <5>1. \A k \in 0 .. 4 : regs'[k] = RegisterValue(call[a], k)
          BY <4>2, <4>3
        <5>2. pc'[a] = "command"
          BY <1>4, <4>3
        <5> QED BY <1>1, <4>1, <5>1, <5>2 DEF Phase
      <4>4. CASE n[a] # 4
        <5>1. pc'[a] = "out" /\ n'[a] = n[a] + 1
          BY <1>4, <4>4
        <5> QED BY <1>1, <4>1, <4>2, <5>1 DEF Phase
      <4> QED BY <4>3, <4>4
    <3> QED BY <2>2, <3>2, <3>3, <3>4, <3>5, <3>6
  <2> QED BY <2>1, <2>2
<1> QED BY <1>5, <1>6, <1>7, <1>8 DEF PioInv

\* The two ways to return 0.
LEMMA ReturnSteps ==
  ASSUME PioInv, NEW a \in Callers, ReadEnd(a) \/ WriteEnd(a)
  PROVE  PioInv'
<1>1. /\ pc[a] \in {"next", "flush"}
      /\ pc' = [pc EXCEPT ![a] = "idle"]
      /\ result' = [result EXCEPT ![a] = 0]
      /\ UNCHANGED <<regs, dev, call, n, iterator, got, mixed, landed, failed>>
      /\ pc[a] = "next" => iterator[a] = call[a].num /\ call[a].op = "read"
      /\ pc[a] = "flush" => dev.st # "busy"
  BY DEF ReadEnd, WriteEnd, At, Goto, Return, ghosts
<1>2. /\ pc \in [Callers -> {"idle", "out", "command", "next", "poll", "data", "flush"}]
      /\ result \in [Callers -> {-1, 0, 1}]
      /\ call[a] \in Call
  BY DEF PioInv, TypeOK
<1>3. \A b \in Callers : b # a => pc'[b] = pc[b] /\ result'[b] = result[b]
  BY <1>1, <1>2
<1>4. pc'[a] = "idle" /\ result'[a] = 0
  BY <1>1, <1>2
<1>5. Counters(a) /\ Buffer(a) /\ Disk(a) /\ Alone(a) /\ (~mixed[a] => Phase(a))
  BY DEF PioInv
<1>6. iterator[a] = call[a].num /\ n[a] = 0
  BY <1>1, <1>5 DEF Counters
<1>7. ASSUME ~mixed[a]
      PROVE  ~dev.commit /\ (call[a].num # 0 /\ dev.by = a => dev.st = "idle")
  <2>1. CASE pc[a] = "next"
    <3>1. Between(a)
      BY <1>5, <1>7, <2>1 DEF Phase
    <3>2. call[a].num # 0 => LeftAfter(call[a], iterator[a]) = 0
      BY <1>2, <1>6, CallType DEF LeftAfter
    <3>3. dev.commit => dev.st = "busy"
      BY DEF PioInv, Owned
    <3> QED BY <1>1, <2>1, <3>1, <3>2, <3>3 DEF Between
  <2>2. CASE pc[a] = "flush"
    <3>1. Between(a) \/ Flushing(a)
      BY <1>5, <1>7, <2>2 DEF Phase
    <3>2. call[a].num # 0 => LeftAfter(call[a], iterator[a]) = 0
      BY <1>2, <1>6, CallType DEF LeftAfter
    <3>3. ~dev.commit
      BY <1>1, <2>2 DEF PioInv, Owned
    <3> QED BY <1>1, <2>2, <3>1, <3>2, <3>3 DEF Between, Flushing
  <2> QED BY <1>1, <2>1, <2>2
<1>8. TypeOK'
  <2>1. pc' \in [Callers -> {"idle", "out", "command", "next", "poll", "data", "flush"}]
        /\ result' \in [Callers -> {-1, 0, 1}]
    BY <1>1, <1>2
  <2>2. \A b \in Callers : (pc'[b] = "out" => n'[b] <= 4) /\ (pc'[b] # "out" => n'[b] < Words)
    BY <1>1, <1>3, <1>4 DEF PioInv, TypeOK
  <2> QED BY <1>1, <2>1, <2>2 DEF PioInv, TypeOK
<1>9. Owned'
  <2>1. Owned /\ dev.by \in Callers
    BY DEF PioInv, TypeOK
  <2>2. CASE dev.by = a
    <3>1. ~mixed[a] => pc[Other(a)] = "idle"
      BY <1>1, <1>5 DEF Alone
    <3> QED BY <1>1, <1>3, <1>4, <1>7, <2>1, <2>2, <3>1, OtherIs DEF Owned
  <2>3. CASE dev.by # a
    <3>1. dev.st # "idle" => mixed[dev.by]
      BY <1>1, <2>1, <2>3, OtherIs DEF Owned
    <3> QED BY <1>1, <2>1, <3>1 DEF Owned
  <2> QED BY <2>2, <2>3
<1>10. DriveLeftIdle'
  BY <1>1, <1>3, <1>7 DEF PioInv, DriveLeftIdle, Returned
<1>11. ASSUME NEW b \in Callers
       PROVE  Counters(b)' /\ Buffer(b)' /\ Disk(b)' /\ Alone(b)' /\ (~mixed'[b] => Phase(b)')
  <2>1. CASE b # a
    BY <1>1, <1>3, <2>1, OthersKept
  <2>2. CASE b = a
    <3>1. Counters(a)'
      BY <1>1, <1>4, <1>6 DEF Counters
    <3>2. Buffer(a)'
      <4>1. WordsRead(a)' = WordsRead(a)
        BY <1>1, <1>4 DEF WordsRead
      <4> QED BY <1>1, <1>5, <4>1 DEF Buffer
    <3>3. Disk(a)'
      BY <1>1, <1>4, <1>5, <1>6, <1>7 DEF Disk
    <3>4. Alone(a)' /\ Phase(a)'
      BY <1>4 DEF Alone, Phase
    <3> QED BY <2>2, <3>1, <3>2, <3>3, <3>4
  <2> QED BY <2>1, <2>2
<1> QED BY <1>8, <1>9, <1>10, <1>11 DEF PioInv

LEMMA DevReadyStep ==
  ASSUME PioInv, DevReady
  PROVE  PioInv'
<1>1. /\ dev.st = "busy"
      /\ landed' = IF dev.commit /\ ~mixed[dev.by]
                   THEN [landed EXCEPT ![dev.by] = @ \cup {dev.lba}] ELSE landed
      /\ dev' = IF dev.left = 0 THEN DevIdle
                ELSE [dev EXCEPT !.st = "drq", !.commit = FALSE,
                                 !.lba = IF dev.commit THEN (@ + 1) % LbaMod ELSE @]
      /\ UNCHANGED <<regs, pc, call, n, iterator, got, result, mixed, failed>>
  BY DEF DevReady, Commit, callers
<1>2. /\ dev \in [st : {"idle", "busy", "drq"}, op : {"none", "read", "write", "flush"},
                  by : Callers, lba : 0 .. LbaMod - 1, left : 0 .. CountMod,
                  word : 0 .. Words - 1, commit : BOOLEAN]
      /\ landed \in [Callers -> SUBSET (0 .. LbaMod - 1)]
      /\ mixed \in [Callers -> BOOLEAN]
  BY DEF PioInv, TypeOK
<1>3. dev.left = 0 => dev'.st = "idle" /\ dev'.commit = FALSE /\ dev' = DevIdle
  BY <1>1 DEF DevIdle
<1>4. dev.left # 0 => /\ dev'.st = "drq" /\ dev'.op = dev.op /\ dev'.by = dev.by /\ dev'.left = dev.left
                      /\ dev'.word = dev.word /\ dev'.commit = FALSE
                      /\ dev.commit => dev'.lba = (dev.lba + 1) % LbaMod
                      /\ ~dev.commit => dev'.lba = dev.lba
  BY <1>1, <1>2
<1>5. TypeOK'
  <2>1. (dev.lba + 1) % LbaMod \in 0 .. LbaMod - 1
    <3>1. dev.lba + 1 \in Nat
      BY <1>2, Constants
    <3> QED BY <3>1, Constants, DivMod
  <2>2. dev' \in [st : {"idle", "busy", "drq"}, op : {"none", "read", "write", "flush"},
                  by : Callers, lba : 0 .. LbaMod - 1, left : 0 .. CountMod,
                  word : 0 .. Words - 1, commit : BOOLEAN]
    <3>1. CASE dev.left = 0
      <4>1. dev' = DevIdle
        BY <1>3, <3>1
      <4> QED BY <4>1, DevIdleType
    <3>2. CASE dev.left # 0
      BY <1>1, <1>2, <2>1, <3>2
    <3> QED BY <3>1, <3>2
  <2>3. landed' \in [Callers -> SUBSET (0 .. LbaMod - 1)]
    BY <1>1, <1>2
  <2> QED BY <1>1, <2>2, <2>3 DEF PioInv, TypeOK
<1>6. Owned'
  BY <1>1, <1>2, <1>3, <1>4 DEF PioInv, Owned
<1>7. DriveLeftIdle'
  BY <1>1, <1>3, <1>4 DEF PioInv, DriveLeftIdle, Returned
<1>8. ASSUME NEW b \in Callers
      PROVE  Counters(b)' /\ Buffer(b)' /\ Disk(b)' /\ Alone(b)' /\ (~mixed'[b] => Phase(b)')
  <2>1. Counters(b) /\ Buffer(b) /\ Disk(b) /\ Alone(b) /\ (~mixed[b] => Phase(b))
    BY DEF PioInv
  <2>2. Counters(b)' /\ Alone(b)'
    BY <1>1, <2>1 DEF Counters, Alone
  <2>3. Buffer(b)'
    BY <1>1, <2>1 DEF Buffer, WordsRead
  <2>4. /\ call[b] \in Call /\ iterator[b] \in Nat
        /\ pc[b] \in {"idle", "out", "command", "next", "poll", "data", "flush"}
    BY DEF PioInv, TypeOK
  <2>5. ASSUME ~mixed[b], pc[b] # "idle"
        PROVE  \/ pc[b] \in {"next", "poll", "flush"} /\ dev.by = b /\ Between(b)
               \/ pc[b] = "flush" /\ dev.by = b /\ Flushing(b)
    BY <1>1, <2>1, <2>4, <2>5 DEF Phase, Between, Within, Flushing
  <2>6. dev.by = b /\ ~mixed[b] /\ pc[b] = "idle" => ~dev.commit
    BY <1>1 DEF PioInv, Owned
  <2>7. ~mixed'[b] => Phase(b)'
    <3> SUFFICES ASSUME ~mixed[b] PROVE Phase(b)'
      BY <1>1
    <3>1. CASE pc[b] = "idle"
      BY <1>1, <3>1 DEF Phase
    <3>2. CASE pc[b] # "idle" /\ Between(b)
      <4>1. CASE dev.left = 0
        <5>1. iterator[b] = call[b].num
          BY <1>1, <2>4, <3>2, <4>1, CallType, Constants DEF Between, LeftAfter
        <5>2. Between(b)'
          BY <1>1, <1>3, <4>1, <5>1 DEF Between
        <5> QED BY <1>1, <2>5, <3>2, <5>2 DEF Phase
      <4>2. CASE dev.left # 0
        <5>1. dev'.lba = SectorAt(call[b], iterator[b])
          <6>1. CASE dev.commit
            <7>1. dev.lba = SectorAt(call[b], iterator[b] - 1) /\ iterator[b] > 0
              BY <1>1, <3>2, <6>1 DEF Between
            <7>2. iterator[b] - 1 \in Nat /\ (iterator[b] - 1) + 1 = iterator[b]
              BY <2>4, <7>1
            <7>3. (SectorAt(call[b], iterator[b] - 1) + 1) % LbaMod = SectorAt(call[b], (iterator[b] - 1) + 1)
              BY <2>4, <7>2, SectorNext
            <7> QED BY <1>4, <4>2, <6>1, <7>1, <7>2, <7>3
          <6>2. CASE ~dev.commit
            BY <1>1, <1>4, <3>2, <4>2, <6>2 DEF Between
          <6> QED BY <6>1, <6>2
        <5>2. Between(b)'
          BY <1>1, <1>4, <3>2, <4>2, <5>1 DEF Between
        <5> QED BY <1>1, <2>5, <3>2, <5>2 DEF Phase
      <4> QED BY <4>1, <4>2
    <3>3. CASE pc[b] = "flush" /\ Flushing(b)
      <4>1. iterator[b] = call[b].num
        BY <2>1, <3>3 DEF Counters
      <4>2. Between(b)'
        BY <1>1, <1>3, <3>3, <4>1 DEF Between, Flushing
      <4> QED BY <1>1, <3>3, <4>2 DEF Phase
    <3> QED BY <2>5, <3>1, <3>2, <3>3
  <2>8. Disk(b)'
    <3> SUFFICES ASSUME ~mixed[b], ~failed[b], call[b].op = "write" PROVE Disk(b)'
      BY <1>1 DEF Disk
    <3>1. CASE pc[b] = "idle"
      <4>1. landed'[b] = landed[b]
        BY <1>1, <1>2, <2>6, <3>1
      <4> QED BY <1>1, <2>1, <3>1, <4>1 DEF Disk
    <3>2. CASE pc[b] # "idle" /\ ~dev.commit
      <4>1. landed' = landed /\ ~dev'.commit
        BY <1>1, <1>3, <1>4, <3>2
      <4> QED BY <1>1, <2>1, <3>2, <4>1 DEF Disk
    <3>3. CASE pc[b] # "idle" /\ dev.commit
      <4>1. dev.by = b /\ Between(b)
        BY <2>5, <3>3 DEF Flushing
      <4>2. dev.lba = SectorAt(call[b], iterator[b] - 1) /\ iterator[b] > 0
        BY <1>1, <3>3, <4>1 DEF Between
      <4>3. iterator[b] - 1 \in Nat /\ (iterator[b] - 1) + 1 = iterator[b]
        BY <2>4, <4>2
      <4>4. landed[b] = FirstOf(call[b], iterator[b] - 1)
        BY <2>1, <3>3 DEF Disk
      <4>5. landed'[b] = landed[b] \cup {dev.lba}
        BY <1>1, <1>2, <3>3, <4>1
      <4>6. FirstOf(call[b], (iterator[b] - 1) + 1)
              = FirstOf(call[b], iterator[b] - 1) \cup {SectorAt(call[b], iterator[b] - 1)}
        BY <2>4, <4>3, FirstNext
      <4>7. landed'[b] = FirstOf(call[b], iterator[b])
        BY <4>2, <4>3, <4>4, <4>5, <4>6
      <4>8. ~dev'.commit
        BY <1>3, <1>4
      <4> QED BY <1>1, <3>3, <4>7, <4>8 DEF Disk
    <3> QED BY <3>1, <3>2, <3>3
  <2> QED BY <2>2, <2>3, <2>7, <2>8
<1> QED BY <1>5, <1>6, <1>7, <1>8 DEF PioInv

LEMMA DevErrorStep ==
  ASSUME PioInv, DevError
  PROVE  PioInv'
<1>1. /\ dev.st = "busy"
      /\ failed' = [failed EXCEPT ![dev.by] = TRUE]
      /\ dev' = DevIdle
      /\ UNCHANGED <<regs, pc, call, n, iterator, got, result, mixed, landed>>
  BY DEF DevError, callers
<1>2. dev.by \in Callers /\ failed \in [Callers -> BOOLEAN]
  BY DEF PioInv, TypeOK
<1>3. dev'.st = "idle" /\ dev'.commit = FALSE
  BY <1>1 DEF DevIdle
<1>4. TypeOK'
  <2>1. dev' \in [st : {"idle", "busy", "drq"}, op : {"none", "read", "write", "flush"},
                  by : Callers, lba : 0 .. LbaMod - 1, left : 0 .. CountMod,
                  word : 0 .. Words - 1, commit : BOOLEAN]
    BY <1>1, DevIdleType
  <2>2. failed' \in [Callers -> BOOLEAN]
    BY <1>1, <1>2
  <2> QED BY <1>1, <2>1, <2>2 DEF PioInv, TypeOK
<1>5. Owned'
  BY <1>3 DEF Owned
<1>6. DriveLeftIdle'
  BY <1>3 DEF DriveLeftIdle
<1>7. ASSUME NEW b \in Callers
      PROVE  Counters(b)' /\ Buffer(b)' /\ Disk(b)' /\ Alone(b)' /\ (~mixed'[b] => Phase(b)')
  <2>1. Counters(b) /\ Buffer(b) /\ Disk(b) /\ Alone(b) /\ (~mixed[b] => Phase(b))
    BY DEF PioInv
  <2>2. Counters(b)' /\ Alone(b)'
    BY <1>1, <2>1 DEF Counters, Alone
  <2>3. Buffer(b)'
    BY <1>1, <2>1 DEF Buffer, WordsRead
  <2>4. pc[b] \in {"idle", "out", "command", "next", "poll", "data", "flush"}
    BY DEF PioInv, TypeOK
  <2>5. ASSUME ~mixed[b], pc[b] # "idle"
        PROVE  pc[b] \in {"next", "poll", "flush"} /\ dev.by = b
    BY <1>1, <2>1, <2>4, <2>5 DEF Phase, Between, Within, Flushing
  <2>6. ~mixed'[b] => Phase(b)'
    BY <1>1, <1>2, <1>3, <2>4, <2>5 DEF Phase, Between
  <2>7. Disk(b)'
    BY <1>1, <1>2, <2>1, <2>5 DEF Disk
  <2> QED BY <2>2, <2>3, <2>6, <2>7
<1> QED BY <1>4, <1>5, <1>6, <1>7 DEF PioInv

\* What is known of a caller depends on its own state and on the drive.
LEMMA CallerKept ==
  ASSUME PioInv, NEW b \in Callers, dev' = dev, regs' = regs,
         pc'[b] = pc[b], pc'[Other(b)] = pc[Other(b)],
         call'[b] = call[b], n'[b] = n[b], iterator'[b] = iterator[b],
         got'[b] = got[b], result'[b] = result[b], mixed'[b] = mixed[b],
         failed'[b] = failed[b], landed'[b] = landed[b]
  PROVE  Counters(b)' /\ Buffer(b)' /\ Disk(b)' /\ Alone(b)' /\ (~mixed'[b] => Phase(b)')
<1>1. Counters(b) /\ Buffer(b) /\ Disk(b) /\ Alone(b) /\ (~mixed[b] => Phase(b))
  BY DEF PioInv
<1>2. Counters(b)'
  BY <1>1 DEF Counters
<1>3. Buffer(b)'
  BY <1>1 DEF Buffer, WordsRead
<1>4. Disk(b)'
  BY <1>1 DEF Disk
<1>5. Alone(b)'
  BY <1>1 DEF Alone
<1>6. ~mixed'[b] => Phase(b)'
  BY <1>1 DEF Phase, Between, Within, Flushing
<1> QED BY <1>2, <1>3, <1>4, <1>5, <1>6

LEMMA RefuseStep ==
  ASSUME PioInv, NEW a \in Callers, NEW c \in Call, Refuse(a, c)
  PROVE  PioInv'
<1>1. /\ pc[a] = "idle"
      /\ call' = [call EXCEPT ![a] = c]
      /\ result' = [result EXCEPT ![a] = -1]
      /\ got' = [got EXCEPT ![a] = <<>>]
      /\ landed' = [landed EXCEPT ![a] = {}]
      /\ failed' = [failed EXCEPT ![a] = FALSE]
      /\ iterator' = [iterator EXCEPT ![a] = 0]
      /\ UNCHANGED <<regs, dev, pc, n, mixed>>
  BY DEF Refuse, At
<1>2. /\ call \in [Callers -> Call]
      /\ result \in [Callers -> {-1, 0, 1}]
      /\ got \in [Callers -> Seq((0 .. LbaMod - 1) \cup {Junk})]
      /\ landed \in [Callers -> SUBSET (0 .. LbaMod - 1)]
      /\ failed \in [Callers -> BOOLEAN]
      /\ iterator \in [Callers -> Nat]
  BY DEF PioInv, TypeOK
<1>3. \A b \in Callers : b # a =>
        /\ call'[b] = call[b] /\ result'[b] = result[b] /\ got'[b] = got[b]
        /\ landed'[b] = landed[b] /\ failed'[b] = failed[b] /\ iterator'[b] = iterator[b]
  BY <1>1, <1>2
<1>4. /\ call'[a] = c /\ result'[a] = -1 /\ got'[a] = <<>>
      /\ landed'[a] = {} /\ failed'[a] = FALSE /\ iterator'[a] = 0
  BY <1>1, <1>2
<1>5. Len(got'[a]) = 0
  BY <1>4
<1>6. TypeOK'
  <2>1. /\ call' \in [Callers -> Call]
        /\ result' \in [Callers -> {-1, 0, 1}]
        /\ failed' \in [Callers -> BOOLEAN]
        /\ iterator' \in [Callers -> Nat]
        /\ landed' \in [Callers -> SUBSET (0 .. LbaMod - 1)]
    BY <1>1, <1>2
  <2>2. got' \in [Callers -> Seq((0 .. LbaMod - 1) \cup {Junk})]
    BY <1>1, <1>2
  <2>3. \A b \in Callers : iterator'[b] <= call'[b].num /\ Len(got'[b]) <= Words * call'[b].num
    <3> TAKE b \in Callers
    <3>1. CASE b = a
      <4>1. c.num \in Nat /\ Words * c.num \in Nat
        BY CallType, Constants
      <4> QED BY <1>4, <1>5, <3>1, <4>1
    <3>2. CASE b # a
      BY <1>3, <3>2 DEF PioInv, TypeOK
    <3> QED BY <3>1, <3>2
  <2> QED BY <1>1, <2>1, <2>2, <2>3 DEF PioInv, TypeOK
<1>7. Owned'
  BY <1>1 DEF PioInv, Owned
<1>8. DriveLeftIdle'
  BY <1>1, <1>3, <1>4 DEF PioInv, DriveLeftIdle, Returned
<1>9. ASSUME NEW b \in Callers
      PROVE  Counters(b)' /\ Buffer(b)' /\ Disk(b)' /\ Alone(b)' /\ (~mixed'[b] => Phase(b)')
  <2>1. CASE b # a
    BY <1>1, <1>3, <2>1, CallerKept
  <2>2. CASE b = a
    <3>1. Counters(a)
      BY DEF PioInv
    <3>2. Counters(a)'
      BY <1>1, <1>4, <3>1 DEF Counters
    <3>3. WordsRead(a)' = 0
      BY <1>1, <1>4, Constants DEF WordsRead
    <3>4. Buffer(a)'
      BY <1>5, <3>3 DEF Buffer
    <3>5. Disk(a)' /\ Alone(a)' /\ Phase(a)'
      BY <1>1, <1>4 DEF Disk, Alone, Phase
    <3> QED BY <2>2, <3>2, <3>4, <3>5
  <2> QED BY <2>1, <2>2
<1> QED BY <1>6, <1>7, <1>8, <1>9 DEF PioInv

LEMMA BeginStep ==
  ASSUME PioInv, NEW a \in Callers, NEW c \in Call, Begin(a, c)
  PROVE  PioInv'
<1>1. /\ pc[a] = "idle" /\ ~Rejected(c)
      /\ call' = [call EXCEPT ![a] = c]
      /\ result' = [result EXCEPT ![a] = 1]
      /\ got' = [b \in Callers |-> IF b = a \/ Meets(a, b) THEN <<>> ELSE got[b]]
      /\ landed' = [b \in Callers |-> IF b = a \/ Meets(a, b) THEN {} ELSE landed[b]]
      /\ failed' = [failed EXCEPT ![a] = FALSE]
      /\ mixed' = [b \in Callers |->
                     IF b = a THEN dev.st # "idle" \/ pc[Other(a)] # "idle"
                              ELSE mixed[b] \/ Meets(a, b)]
      /\ n' = [n EXCEPT ![a] = 0]
      /\ iterator' = [iterator EXCEPT ![a] = 0]
      /\ pc' = [pc EXCEPT ![a] = "out"]
      /\ regs' = regs /\ dev' = dev
  BY DEF Begin, At, Goto
<1>2. /\ call \in [Callers -> Call]
      /\ pc \in [Callers -> {"idle", "out", "command", "next", "poll", "data", "flush"}]
      /\ result \in [Callers -> {-1, 0, 1}]
      /\ got \in [Callers -> Seq((0 .. LbaMod - 1) \cup {Junk})]
      /\ landed \in [Callers -> SUBSET (0 .. LbaMod - 1)]
      /\ failed \in [Callers -> BOOLEAN]
      /\ mixed \in [Callers -> BOOLEAN]
      /\ iterator \in [Callers -> Nat]
      /\ n \in [Callers -> Nat]
  BY DEF PioInv, TypeOK
<1>3. \A b \in Callers : b # a =>
        /\ call'[b] = call[b] /\ result'[b] = result[b] /\ pc'[b] = pc[b]
        /\ failed'[b] = failed[b] /\ iterator'[b] = iterator[b] /\ n'[b] = n[b]
  BY <1>1, <1>2
<1>4. \A b \in Callers : b # a /\ Meets(a, b) => got'[b] = <<>> /\ landed'[b] = {} /\ mixed'[b]
  BY <1>1
<1>5. \A b \in Callers : b # a /\ ~Meets(a, b) => got'[b] = got[b] /\ landed'[b] = landed[b] /\ mixed'[b] = mixed[b]
  BY <1>1, <1>2
<1>6. /\ call'[a] = c /\ result'[a] = 1 /\ got'[a] = <<>> /\ landed'[a] = {}
      /\ failed'[a] = FALSE /\ iterator'[a] = 0 /\ n'[a] = 0 /\ pc'[a] = "out"
      /\ mixed'[a] <=> (dev.st # "idle" \/ pc[Other(a)] # "idle")
  BY <1>1, <1>2
<1>7. Len(<<>>) = 0 /\ <<>> \in Seq((0 .. LbaMod - 1) \cup {Junk})
  OBVIOUS
<1>8. TypeOK'
  <2>1. /\ call' \in [Callers -> Call]
        /\ result' \in [Callers -> {-1, 0, 1}]
        /\ failed' \in [Callers -> BOOLEAN]
        /\ iterator' \in [Callers -> Nat]
        /\ n' \in [Callers -> Nat]
        /\ pc' \in [Callers -> {"idle", "out", "command", "next", "poll", "data", "flush"}]
    BY <1>1, <1>2
  <2>2. got' \in [Callers -> Seq((0 .. LbaMod - 1) \cup {Junk})]
    BY <1>1, <1>2, <1>7
  <2>3. landed' \in [Callers -> SUBSET (0 .. LbaMod - 1)]
    BY <1>1, <1>2
  <2>4. mixed' \in [Callers -> BOOLEAN]
    BY <1>1, <1>2
  <2>5. ASSUME NEW b \in Callers
        PROVE  /\ (pc'[b] = "out" => n'[b] <= 4) /\ (pc'[b] # "out" => n'[b] < Words)
               /\ iterator'[b] <= call'[b].num /\ Len(got'[b]) <= Words * call'[b].num
    <3>1. c.num \in Nat /\ Words * c.num \in Nat
      BY CallType, Constants
    <3>2. CASE b = a
      BY <1>6, <1>7, <3>1, <3>2
    <3>3. CASE b # a
      <4>1. /\ (pc[b] = "out" => n[b] <= 4) /\ (pc[b] # "out" => n[b] < Words)
            /\ iterator[b] <= call[b].num /\ Len(got[b]) <= Words * call[b].num
        BY DEF PioInv, TypeOK
      <4>2. call[b].num \in Nat
        BY <1>2, CallType
      <4>3. Words * call[b].num \in Nat
        BY <4>2, Constants
      <4> QED BY <1>3, <1>4, <1>5, <1>7, <3>3, <4>1, <4>3
    <3> QED BY <3>2, <3>3
  <2>6. dev' = dev /\ regs' = regs
    BY <1>1
  <2> QED BY <2>1, <2>2, <2>3, <2>4, <2>5, <2>6 DEF PioInv, TypeOK
<1>9. dev.st # "idle" => mixed'[dev.by]
  <2>1. dev.by \in Callers
    BY DEF PioInv, TypeOK
  <2> QED BY <1>4, <1>6, <2>1 DEF Meets
<1>10. Owned'
  BY <1>1, <1>9 DEF PioInv, Owned
<1>11. DriveLeftIdle'
  BY <1>1, <1>3, <1>4, <1>5, <1>6 DEF PioInv, DriveLeftIdle, Returned
<1>12. ASSUME NEW b \in Callers
       PROVE  Counters(b)' /\ Buffer(b)' /\ Disk(b)' /\ Alone(b)' /\ (~mixed'[b] => Phase(b)')
  <2>1. Counters(b) /\ Buffer(b) /\ Disk(b)
    BY DEF PioInv
  <2>2. CASE b # a
    <3>1. Counters(b)'
      BY <1>3, <2>1, <2>2 DEF Counters
    <3>2. CASE Meets(a, b)
      <4>1. WordsRead(b)' = 0
        BY <1>4, <2>2, <3>2 DEF WordsRead
      <4>2. Buffer(b)'
        BY <1>4, <1>7, <2>2, <3>2, <4>1 DEF Buffer
      <4> QED BY <1>4, <2>2, <3>1, <3>2, <4>2 DEF Disk, Alone
    <3>3. CASE ~Meets(a, b)
      <4>1. pc'[b] = "idle" /\ pc[b] = "idle"
        BY <1>3, <2>2, <3>3 DEF Meets
      <4>2. WordsRead(b)' = WordsRead(b)
        BY <1>3, <1>5, <2>2, <3>3 DEF WordsRead
      <4>3. Buffer(b)'
        BY <1>3, <1>5, <2>1, <2>2, <3>3, <4>2 DEF Buffer
      <4>4. Disk(b)'
        BY <1>3, <1>5, <2>1, <2>2, <3>3, <4>1 DEF Disk
      <4>5. Alone(b)' /\ Phase(b)'
        BY <4>1 DEF Alone, Phase
      <4> QED BY <3>1, <4>3, <4>4, <4>5
    <3> QED BY <3>2, <3>3
  <2>3. CASE b = a
    <3>1. Counters(a)'
      <4>1. Rejected(c) <=> Rejected(call[a])'
        BY <1>6 DEF Rejected
      <4> QED BY <1>1, <1>6, <4>1 DEF Counters
    <3>2. WordsRead(a)' = 0
      BY <1>6, Constants DEF WordsRead
    <3>3. Buffer(a)'
      BY <1>6, <1>7, <3>2 DEF Buffer
    <3>4. ~mixed'[a] => dev'.st = "idle" /\ pc'[Other(a)] = "idle"
      BY <1>1, <1>3, <1>6, OtherIs
    <3>5. Alone(a)'
      BY <3>4 DEF Alone
    <3>6. ~mixed'[a] => Phase(a)'
      BY <1>6, <3>4 DEF Phase
    <3>7. Disk(a)'
      <4>1. ~mixed'[a] => ~dev'.commit
        BY <1>1, <3>4 DEF PioInv, Owned
      <4>2. FirstOf(c, 0) = {}
        BY FirstNext
      <4> QED BY <1>6, <4>1, <4>2 DEF Disk
    <3> QED BY <2>3, <3>1, <3>3, <3>5, <3>6, <3>7
  <2> QED BY <2>2, <2>3
<1> QED BY <1>8, <1>10, <1>11, <1>12 DEF PioInv

LEMMA DigitBound ==
  ASSUME NEW d \in Nat \ {0}, NEW u \in Nat \ {0}, NEW r \in Nat, r < d, NEW x \in Nat, x < u
  PROVE  r + d * x \in Nat /\ r + d * x < d * u
<1>1. d * x <= d * (u - 1)
  OBVIOUS
<1>2. d * (u - 1) = d * u - d
  OBVIOUS
<1>3. d * x \in Nat /\ d * u \in Nat
  OBVIOUS
<1> QED BY <1>1, <1>2, <1>3

\* What the drive finds in its registers is an address.
LEMMA AddressType ==
  ASSUME TypeOK
  PROVE  regs[1] + Digit * (regs[2] + Digit * (regs[3] + Digit * regs[4])) \in 0 .. LbaMod - 1
<1>1. /\ regs[1] \in Nat /\ regs[2] \in Nat /\ regs[3] \in Nat /\ regs[4] \in Nat
      /\ regs[1] < Digit /\ regs[2] < Digit /\ regs[3] < Digit /\ regs[4] < Top
  BY DEF TypeOK
<1>2. PICK x \in Nat : x = regs[3] + Digit * regs[4] /\ x < Digit * Top
  BY <1>1, Constants, DigitBound
<1>3. PICK u \in Nat \ {0} : u = Digit * Top
  BY Constants
<1>4. PICK y \in Nat : y = regs[2] + Digit * x /\ y < Digit * u
  BY <1>1, <1>2, <1>3, Constants, DigitBound
<1>5. PICK v \in Nat \ {0} : v = Digit * u
  BY <1>3, Constants
<1>6. PICK z \in Nat : z = regs[1] + Digit * y /\ z < Digit * v
  BY <1>1, <1>4, <1>5, Constants, DigitBound
<1>7. Digit * v = LbaMod
  BY <1>3, <1>5, Constants DEF LbaMod
<1>8. z \in 0 .. LbaMod - 1
  BY <1>6, <1>7, Constants
<1> QED BY <1>2, <1>4, <1>6, <1>8

\* Either of the two commands, given to the drive by a call under way.
LEMMA CommandSteps ==
  ASSUME PioInv, NEW a \in Callers, Command(a) \/ WriteFlush(a)
  PROVE  PioInv'
<1>1. /\ pc[a] \in {"command", "next"}
      /\ pc' = [pc EXCEPT ![a] = IF pc[a] = "command" THEN "next" ELSE "flush"]
      /\ pc[a] = "command" => OutCommand(a, call[a].op)
      /\ pc[a] = "next" => OutCommand(a, "flush") /\ iterator[a] = call[a].num /\ call[a].op = "write"
      /\ UNCHANGED <<regs, call, n, iterator, got, result, mixed, failed>>
  BY DEF Command, WriteFlush, At, Goto
<1>2. /\ dev \in [st : {"idle", "busy", "drq"}, op : {"none", "read", "write", "flush"},
                  by : Callers, lba : 0 .. LbaMod - 1, left : 0 .. CountMod,
                  word : 0 .. Words - 1, commit : BOOLEAN]
      /\ landed \in [Callers -> SUBSET (0 .. LbaMod - 1)]
      /\ mixed \in [Callers -> BOOLEAN]
      /\ pc \in [Callers -> {"idle", "out", "command", "next", "poll", "data", "flush"}]
      /\ call[a] \in Call /\ iterator[a] \in Nat
      /\ regs \in [0 .. 4 -> Nat] /\ regs[0] < CountMod
  BY DEF PioInv, TypeOK
<1>3. Counters(a) /\ Buffer(a) /\ Disk(a) /\ Alone(a) /\ (~mixed[a] => Phase(a)) /\ Owned
  BY DEF PioInv
<1>4. \A b \in Callers : b # a => pc'[b] = pc[b]
  BY <1>1, <1>2
<1>5. pc'[a] = IF pc[a] = "command" THEN "next" ELSE "flush"
  BY <1>1, <1>2
<1>6. PICK op \in {"read", "write", "flush"} :
        /\ OutCommand(a, op)
        /\ pc[a] = "command" => op = call[a].op
        /\ pc[a] = "next" => op = "flush"
  <2>1. call[a].op \in {"read", "write"}
    BY <1>2, CallType
  <2> QED BY <1>1, <2>1
\* The drive is that of a, or that of a mixed call.
<1>7. dev.st # "idle" /\ dev.by # a => mixed[dev.by]
  BY <1>1, <1>2, <1>3, OtherIs DEF Owned
<1>8. \A b \in Callers : b # a => landed'[b] = landed[b]
  <2>1. landed' = landed \/ (/\ dev.commit /\ ~mixed[dev.by]
                             /\ landed' = [landed EXCEPT ![dev.by] = @ \cup {dev.lba}])
    BY <1>6 DEF OutCommand, Commit
  <2>2. dev.commit => dev.st # "idle"
    BY <1>3 DEF Owned
  <2> QED BY <1>2, <1>7, <2>1, <2>2
<1> DEFINE accepted == [st     |-> "busy",
                        op     |-> op,
                        by     |-> a,
                        lba    |-> regs[1] + Digit * (regs[2] + Digit * (regs[3] + Digit * regs[4])),
                        left   |-> IF op = "flush" THEN 0 ELSE IF regs[0] = 0 THEN CountMod ELSE regs[0],
                        word   |-> 0,
                        commit |-> FALSE]
<1>9. \/ dev' = accepted /\ landed' = IF dev.commit /\ ~mixed[dev.by]
                                      THEN [landed EXCEPT ![dev.by] = @ \cup {dev.lba}] ELSE landed
      \/ dev.st # "idle" /\ dev' = dev /\ landed' = landed
  BY <1>6 DEF OutCommand, Accept, Commit
<1>10. TypeOK'
  <2>1. accepted \in [st : {"idle", "busy", "drq"}, op : {"none", "read", "write", "flush"},
                      by : Callers, lba : 0 .. LbaMod - 1, left : 0 .. CountMod,
                      word : 0 .. Words - 1, commit : BOOLEAN]
    <3>1. regs[1] + Digit * (regs[2] + Digit * (regs[3] + Digit * regs[4])) \in 0 .. LbaMod - 1
      BY AddressType DEF PioInv
    <3>2. (IF op = "flush" THEN 0 ELSE IF regs[0] = 0 THEN CountMod ELSE regs[0]) \in 0 .. CountMod
      BY <1>2, Constants
    <3>3. 0 \in 0 .. Words - 1
      BY Constants
    <3> HIDE DEF Callers
    <3> QED BY <3>1, <3>2, <3>3
  <2>2. dev' \in [st : {"idle", "busy", "drq"}, op : {"none", "read", "write", "flush"},
                  by : Callers, lba : 0 .. LbaMod - 1, left : 0 .. CountMod,
                  word : 0 .. Words - 1, commit : BOOLEAN]
    BY <1>2, <1>9, <2>1, Zenon
  <2>3. landed' \in [Callers -> SUBSET (0 .. LbaMod - 1)]
    <3>1. dev.by \in Callers /\ dev.lba \in 0 .. LbaMod - 1
      BY <1>2
    <3>2. [landed EXCEPT ![dev.by] = @ \cup {dev.lba}] \in [Callers -> SUBSET (0 .. LbaMod - 1)]
      BY <1>2, <3>1
    <3> HIDE DEF accepted
    <3> QED BY <1>2, <1>9, <3>2
  <2>4. pc' \in [Callers -> {"idle", "out", "command", "next", "poll", "data", "flush"}]
    BY <1>1, <1>2
  <2>5. \A b \in Callers : (pc'[b] = "out" => n'[b] <= 4) /\ (pc'[b] # "out" => n'[b] < Words)
    BY <1>1, <1>4, <1>5 DEF PioInv, TypeOK
  <2> HIDE DEF accepted
  <2> QED BY <1>1, <2>2, <2>3, <2>4, <2>5 DEF PioInv, TypeOK
<1>11. accepted.st = "busy" /\ accepted.by = a /\ ~accepted.commit /\ accepted.op = op
       /\ accepted.left = (IF op = "flush" THEN 0 ELSE IF regs[0] = 0 THEN CountMod ELSE regs[0])
       /\ accepted.word = 0
       /\ accepted.lba = regs[1] + Digit * (regs[2] + Digit * (regs[3] + Digit * regs[4]))
  OBVIOUS
<1> HIDE DEF accepted
<1>12. Owned'
  <2>1. CASE dev' = accepted
    <3>1. ~mixed[a] => pc[Other(a)] = "idle"
      BY <1>1, <1>3 DEF Alone
    <3>2. pc'[Other(a)] = pc[Other(a)]
      BY <1>4, OtherIs
    <3> QED BY <1>1, <1>5, <1>11, <2>1, <3>1, <3>2 DEF Owned
  <2>2. CASE dev' = dev
    BY <1>1, <1>2, <1>3, <1>4, <1>5, <2>2, OtherIs DEF Owned
  <2> QED BY <1>9, <2>1, <2>2
<1>13. DriveLeftIdle'
  BY <1>1, <1>4, <1>5, <1>9, <1>11 DEF PioInv, DriveLeftIdle, Returned
<1>14. ASSUME ~mixed[a], pc[a] = "command"
       PROVE  Phase(a)' /\ landed' = landed /\ ~dev'.commit /\ ~dev.commit
  <2>1. dev.st = "idle" /\ \A k \in 0 .. 4 : regs[k] = RegisterValue(call[a], k)
    BY <1>3, <1>14 DEF Phase
  <2>2. ~dev.commit
    BY <1>3, <2>1 DEF Owned
  <2>3. dev' = accepted /\ landed' = landed
    BY <1>9, <2>1, <2>2
  <2>4. iterator[a] = 0 /\ op = call[a].op /\ op # "flush"
    <3>1. call[a].op \in {"read", "write"}
      BY <1>2, CallType
    <3> QED BY <1>3, <1>6, <1>14, <3>1 DEF Counters
  <2>5. dev'.lba = SectorAt(call[a], 0)
    <3>1. regs[1] = RegisterValue(call[a], 1) /\ regs[2] = RegisterValue(call[a], 2)
          /\ regs[3] = RegisterValue(call[a], 3) /\ regs[4] = RegisterValue(call[a], 4)
      BY <2>1
    <3>2. regs[1] + Digit * (regs[2] + Digit * (regs[3] + Digit * regs[4])) = Lba(call[a])
      BY <1>2, <3>1, DigitsOfLba
    <3> QED BY <1>2, <1>11, <2>3, <3>2, SectorFirst
  <2>6. dev'.left = LeftAfter(call[a], 0) /\ dev'.left # 0
    <3>1. regs[0] = call[a].num /\ call[a].num \in Nat
      BY <1>2, <2>1, RegisterType, CallType
    <3> QED BY <1>11, <2>3, <2>4, <3>1, Constants DEF LeftAfter
  <2>7. Between(a)'
    BY <1>1, <1>11, <2>3, <2>4, <2>5, <2>6 DEF Between
  <2> QED BY <1>5, <1>11, <1>14, <2>2, <2>3, <2>7 DEF Phase
<1>15. ASSUME ~mixed[a], pc[a] = "next"
       PROVE  Phase(a)'
  <2>1. Between(a)
    BY <1>3, <1>15 DEF Phase
  <2>2. pc'[a] = "flush"
    BY <1>5, <1>15
  <2>3. CASE dev' = accepted
    <3>1. Flushing(a)'
      BY <1>6, <1>11, <1>15, <2>3 DEF Flushing
    <3> QED BY <2>2, <3>1 DEF Phase
  <2>4. CASE dev' = dev
    <3>1. Between(a)'
      BY <1>1, <2>1, <2>4 DEF Between
    <3> QED BY <2>2, <3>1 DEF Phase
  <2> QED BY <1>9, <2>3, <2>4
<1>16. Disk(a)'
  <2> SUFFICES ASSUME ~mixed[a], ~failed[a], call[a].op = "write"
               PROVE  landed'[a] = FirstOf(call[a], IF dev'.commit THEN iterator[a] - 1 ELSE iterator[a])
    BY <1>1, <1>5 DEF Disk
  <2>1. landed[a] = FirstOf(call[a], IF dev.commit THEN iterator[a] - 1 ELSE iterator[a])
    BY <1>1, <1>3 DEF Disk
  <2>2. CASE pc[a] = "command"
    BY <1>14, <2>1, <2>2
  <2>3. CASE pc[a] = "next" /\ dev' = dev /\ landed' = landed
    BY <2>1, <2>3
  <2>4. CASE pc[a] = "next" /\ dev' = accepted /\ ~dev.commit /\ landed' = landed
    BY <1>11, <2>1, <2>4
  <2>5. CASE pc[a] = "next" /\ dev' = accepted /\ dev.commit
    <3>1. Between(a)
      BY <1>3, <2>5 DEF Phase
    <3>2. dev.st = "busy"
      BY <1>3, <2>5 DEF Owned
    <3>3. dev.by = a /\ dev.lba = SectorAt(call[a], iterator[a] - 1) /\ iterator[a] > 0
      BY <2>5, <3>1, <3>2 DEF Between
    <3>4. landed'[a] = landed[a] \cup {dev.lba}
      BY <1>2, <1>9, <1>11, <2>5, <3>3
    <3>5. iterator[a] - 1 \in Nat /\ (iterator[a] - 1) + 1 = iterator[a]
      BY <1>2, <3>3
    <3>6. FirstOf(call[a], (iterator[a] - 1) + 1)
            = FirstOf(call[a], iterator[a] - 1) \cup {SectorAt(call[a], iterator[a] - 1)}
      BY <1>2, <3>5, FirstNext
    <3>7. landed'[a] = FirstOf(call[a], iterator[a])
      BY <2>1, <2>5, <3>3, <3>4, <3>5, <3>6
    <3> QED BY <1>11, <2>5, <3>7
  <2> QED BY <1>1, <1>9, <2>2, <2>3, <2>4, <2>5
<1>17. ASSUME NEW b \in Callers
       PROVE  Counters(b)' /\ Buffer(b)' /\ Disk(b)' /\ Alone(b)' /\ (~mixed'[b] => Phase(b)')
  <2>1. CASE b # a
    BY <1>1, <1>4, <1>8, <2>1, OthersKept
  <2>2. CASE b = a
    <3>1. Counters(a)'
      BY <1>1, <1>3, <1>5 DEF Counters
    <3>2. WordsRead(a)' = WordsRead(a)
      BY <1>1, <1>5 DEF WordsRead
    <3>3. Buffer(a)'
      BY <1>1, <1>3, <3>2 DEF Buffer
    <3>4. Alone(a)'
      BY <1>1, <1>3, <1>4, OtherIs DEF Alone
    <3> QED BY <1>1, <1>14, <1>15, <1>16, <2>2, <3>1, <3>3, <3>4
  <2> QED BY <2>1, <2>2
<1> QED BY <1>10, <1>12, <1>13, <1>17 DEF PioInv

\* The words transferred are never more than those asked for.
LEMMA BufferBound ==
  ASSUME NEW i \in Nat, NEW m \in Nat, NEW k \in Nat, i < m, k <= Words
  PROVE  Words * i + k <= Words * m /\ Words * i \in Nat /\ Words * m \in Nat
<1>1. Words * i + Words = Words * (i + 1)
  BY Constants
<1>2. Words * (i + 1) <= Words * m
  BY Constants
<1>3. Words * i \in Nat /\ Words * m \in Nat
  BY Constants
<1> QED BY <1>1, <1>2, <1>3, Constants

LEMMA DataStep ==
  ASSUME PioInv, NEW a \in Callers, Data(a)
  PROVE  PioInv'
<1>1. /\ pc[a] = "data"
      /\ dev' = DevWord(call[a].op)
      /\ got' = IF call[a].op = "write" \/ mixed[a] THEN got
                ELSE [got EXCEPT ![a] = Append(@, IF dev.st = "drq" /\ dev.op = "read"
                                                  THEN dev.lba ELSE Junk)]
      /\ IF n[a] + 1 < Words
         THEN /\ n' = [n EXCEPT ![a] = n[a] + 1]
              /\ iterator' = iterator /\ pc' = pc
         ELSE /\ n' = [n EXCEPT ![a] = 0]
              /\ iterator' = [iterator EXCEPT ![a] = iterator[a] + 1]
              /\ pc' = [pc EXCEPT ![a] = "next"]
      /\ UNCHANGED <<regs, call, result, mixed, landed, failed>>
  BY DEF Data, At, Goto, ghosts
<1>2. /\ dev \in [st : {"idle", "busy", "drq"}, op : {"none", "read", "write", "flush"},
                  by : Callers, lba : 0 .. LbaMod - 1, left : 0 .. CountMod,
                  word : 0 .. Words - 1, commit : BOOLEAN]
      /\ pc \in [Callers -> {"idle", "out", "command", "next", "poll", "data", "flush"}]
      /\ n \in [Callers -> Nat] /\ iterator \in [Callers -> Nat]
      /\ got \in [Callers -> Seq((0 .. LbaMod - 1) \cup {Junk})]
      /\ n[a] < Words /\ call[a] \in Call
      /\ mixed[a] \in BOOLEAN
  BY <1>1 DEF PioInv, TypeOK
<1>3. Counters(a) /\ Buffer(a) /\ Disk(a) /\ Alone(a) /\ (~mixed[a] => Phase(a)) /\ Owned
  BY DEF PioInv
<1>4. iterator[a] < call[a].num /\ iterator[a] \in Nat /\ call[a].num \in Nat /\ n[a] \in Nat
      /\ call[a].op \in {"read", "write"} /\ n[a] < Words /\ Words \in Nat
  <2>1. Words \in Nat
    BY Constants
  <2> QED BY <1>1, <1>2, <1>3, <2>1, CallType DEF Counters
<1>5. \A b \in Callers : b # a => /\ pc'[b] = pc[b] /\ n'[b] = n[b] /\ iterator'[b] = iterator[b]
                                  /\ got'[b] = got[b]
  BY <1>1, <1>2
<1>6. n[a] + 1 < Words => n'[a] = n[a] + 1 /\ iterator'[a] = iterator[a] /\ pc'[a] = "data"
  BY <1>1, <1>2
<1>7. ~(n[a] + 1 < Words) => n'[a] = 0 /\ iterator'[a] = iterator[a] + 1 /\ pc'[a] = "next"
  BY <1>1, <1>2
\* What the word does to the drive.
<1>8. /\ dev' \in [st : {"idle", "busy", "drq"}, op : {"none", "read", "write", "flush"},
                   by : Callers, lba : 0 .. LbaMod - 1, left : 0 .. CountMod,
                   word : 0 .. Words - 1, commit : BOOLEAN]
      /\ dev'.st # "idle" => dev'.by = dev.by
      /\ dev'.commit => dev'.st = "busy"
      /\ dev'.st = "drq" => dev'.left # 0
      /\ dev.st = "idle" => dev' = dev
  <2>1. (dev.commit => dev.st = "busy") /\ (dev.st = "drq" => dev.left # 0)
    BY <1>3 DEF Owned
  <2> DEFINE DevType == [st : {"idle", "busy", "drq"}, op : {"none", "read", "write", "flush"},
                         by : Callers, lba : 0 .. LbaMod - 1, left : 0 .. CountMod,
                         word : 0 .. Words - 1, commit : BOOLEAN]
  <2>11. dev \in DevType
    BY <1>2
  <2>12. dev.word \in Nat /\ dev.left \in Nat /\ dev.left <= CountMod /\ dev.word < Words
    BY <1>2, Constants
  <2>13. 0 \in 0 .. Words - 1
    BY Constants
  <2>15. dev.lba + 1 \in Nat
    <3>1. dev.lba \in 0 .. LbaMod - 1
      BY <2>11
    <3> QED BY <3>1
  <2>14. dev.st = "drq" => dev.left - 1 \in 0 .. CountMod
    BY <2>1, <2>12, Constants
  <2>2. CASE dev.st # "drq" \/ dev.op # call[a].op
    <3>1. dev' = dev
      BY <1>1, <2>2 DEF DevWord
    <3> QED BY <1>2, <2>1, <3>1
  <2>3. CASE dev.st = "drq" /\ dev.op = call[a].op /\ dev.word + 1 < Words
    <3>1. dev' = [dev EXCEPT !.word = @ + 1]
      BY <1>1, <2>3 DEF DevWord
    <3>2. dev.word + 1 \in 0 .. Words - 1
      BY <2>3, <2>12, Constants
    <3>3. dev' \in DevType
      BY <2>11, <3>1, <3>2
    <3>4. dev'.st = "drq" /\ dev'.by = dev.by /\ dev'.left = dev.left /\ dev'.commit = dev.commit
      BY <2>11, <2>3, <3>1
    <3> QED BY <2>1, <2>3, <3>3, <3>4
  <2>4. CASE dev.st = "drq" /\ dev.op = call[a].op /\ ~(dev.word + 1 < Words) /\ call[a].op = "write"
    <3>1. dev' = [dev EXCEPT !.word = 0, !.left = @ - 1, !.st = "busy", !.commit = TRUE]
      BY <1>1, <2>4 DEF DevWord
    <3>2. dev' \in DevType
      BY <2>11, <2>13, <2>14, <2>4, <3>1
    <3>3. dev'.st = "busy" /\ dev'.by = dev.by
      BY <2>11, <3>1
    <3> QED BY <2>4, <3>2, <3>3
  <2>5. CASE dev.st = "drq" /\ dev.op = call[a].op /\ ~(dev.word + 1 < Words) /\ call[a].op # "write" /\ dev.left = 1
    <3>1. dev' = DevIdle
      BY <1>1, <2>5 DEF DevWord
    <3>2. dev'.st = "idle" /\ dev'.commit = FALSE
      BY <3>1 DEF DevIdle
    <3>3. DevIdle \in [st : {"idle", "busy", "drq"}, op : {"none", "read", "write", "flush"},
                       by : Callers, lba : 0 .. LbaMod - 1, left : 0 .. CountMod,
                       word : 0 .. Words - 1, commit : BOOLEAN]
      BY DevIdleType
    <3> QED BY <2>5, <3>1, <3>2, <3>3
  <2>6. CASE dev.st = "drq" /\ dev.op = call[a].op /\ ~(dev.word + 1 < Words) /\ call[a].op # "write" /\ dev.left # 1
    <3>1. dev' = [dev EXCEPT !.word = 0, !.left = @ - 1, !.st = "busy", !.lba = (@ + 1) % LbaMod]
      BY <1>1, <2>6 DEF DevWord
    <3>2. (dev.lba + 1) % LbaMod \in 0 .. LbaMod - 1
      <4>1. LbaMod \in Nat \ {0}
        BY Constants, Zenon
      <4> QED BY <2>15, <4>1, DivMod
    <3>3. dev' \in DevType
      BY <2>11, <2>13, <2>14, <2>6, <3>1, <3>2
    <3>4. dev'.st = "busy" /\ dev'.by = dev.by
      BY <2>11, <3>1
    <3> QED BY <2>6, <3>3, <3>4
  <2> QED BY <2>2, <2>3, <2>4, <2>5, <2>6
\* A caller that has the drive to itself and the drive are at the same word.
<1>9. ASSUME ~mixed[a]
      PROVE  /\ Within(a)
             /\ Phase(a)'
             /\ dev'.commit => call[a].op = "write" /\ ~(n[a] + 1 < Words)
             /\ call[a].op = "write" /\ ~(n[a] + 1 < Words) => dev'.commit
  <2>1. Within(a)
    BY <1>1, <1>3, <1>9 DEF Phase
  <2>2. /\ dev.st = "drq" /\ dev.op = call[a].op /\ dev.by = a /\ dev.word = n[a]
        /\ dev.left = call[a].num - iterator[a] /\ ~dev.commit
        /\ dev.lba = SectorAt(call[a], iterator[a])
    BY <2>1 DEF Within
  <2>3. CASE n[a] + 1 < Words
    <3>1. dev' = [dev EXCEPT !.word = @ + 1]
      BY <1>1, <2>2, <2>3 DEF DevWord
    <3>2. Within(a)' /\ ~dev'.commit
      BY <1>1, <1>2, <1>6, <2>2, <2>3, <3>1 DEF Within
    <3> QED BY <1>6, <2>1, <2>3, <3>2 DEF Phase
  <2>4. CASE ~(n[a] + 1 < Words) /\ call[a].op = "write"
    <3>1. dev' = [dev EXCEPT !.word = 0, !.left = @ - 1, !.st = "busy", !.commit = TRUE]
      BY <1>1, <2>2, <2>4 DEF DevWord
    <3>2. /\ dev'.st = "busy" /\ dev'.op = "write" /\ dev'.by = a /\ dev'.word = 0 /\ dev'.commit
          /\ dev'.left = call[a].num - (iterator[a] + 1)
          /\ dev'.lba = SectorAt(call[a], iterator[a])
      BY <1>2, <1>4, <2>2, <2>4, <3>1
    <3>3. call[a].num # 0 /\ (iterator[a] + 1) - 1 = iterator[a] /\ iterator[a] + 1 > 0
      BY <1>4
    <3>4. Between(a)'
      BY <1>1, <1>7, <2>4, <3>2, <3>3 DEF Between, LeftAfter
    <3> QED BY <1>7, <2>1, <2>4, <3>2, <3>4 DEF Phase
  <2>5. CASE ~(n[a] + 1 < Words) /\ call[a].op # "write" /\ dev.left = 1
    <3>1. dev' = DevIdle
      BY <1>1, <2>2, <2>5 DEF DevWord
    <3>2. dev'.st = "idle" /\ ~dev'.commit
      BY <3>1 DEF DevIdle
    <3>3. iterator'[a] = call'[a].num
      BY <1>1, <1>4, <1>7, <2>2, <2>5
    <3>4. Between(a)'
      BY <3>2, <3>3 DEF Between
    <3> QED BY <1>7, <2>1, <2>5, <3>2, <3>4 DEF Phase
  <2>6. CASE ~(n[a] + 1 < Words) /\ call[a].op # "write" /\ dev.left # 1
    <3>1. dev' = [dev EXCEPT !.word = 0, !.left = @ - 1, !.st = "busy", !.lba = (@ + 1) % LbaMod]
      BY <1>1, <2>2, <2>6 DEF DevWord
    <3>2. /\ dev'.st = "busy" /\ dev'.op = call[a].op /\ dev'.by = a /\ dev'.word = 0 /\ ~dev'.commit
          /\ dev'.left = call[a].num - (iterator[a] + 1) /\ dev'.left # 0
          /\ dev'.lba = (dev.lba + 1) % LbaMod
      BY <1>2, <1>4, <2>2, <2>6, <3>1
    <3>3. dev'.lba = SectorAt(call[a], iterator[a] + 1)
      BY <1>2, <1>4, <2>2, <3>2, SectorNext
    <3>4. call[a].num # 0
      BY <1>4
    <3>5. Between(a)'
      BY <1>1, <1>7, <2>6, <3>2, <3>3, <3>4 DEF Between, LeftAfter
    <3> QED BY <1>7, <2>1, <2>6, <3>2, <3>5 DEF Phase
  <2> QED BY <2>3, <2>4, <2>5, <2>6
<1>10. WordsRead(a)' = IF mixed[a] \/ call[a].op = "write" THEN 0 ELSE Words * iterator[a] + n[a] + 1
  <2>1. CASE n[a] + 1 < Words
    <3>1. Words * iterator[a] \in Nat
      BY <1>4, Constants
    <3> QED BY <1>1, <1>4, <1>6, <2>1, <3>1 DEF WordsRead
  <2>2. CASE ~(n[a] + 1 < Words)
    <3>1. Words = n[a] + 1
      BY <1>4, <2>2
    <3>2. Words * (iterator[a] + 1) = Words * iterator[a] + Words
      BY <1>4, Constants
    <3>3. Words * iterator[a] \in Nat
      BY <1>4, Constants
    <3>4. Words * (iterator[a] + 1) + 0 = Words * iterator[a] + n[a] + 1
      BY <1>4, <3>1, <3>2, <3>3
    <3>5. WordsRead(a)' = IF mixed[a] \/ call[a].op = "write" THEN 0 ELSE Words * (iterator[a] + 1) + 0
      BY <1>1, <1>7, <2>2 DEF WordsRead
    <3> QED BY <3>4, <3>5
  <2> QED BY <2>1, <2>2
<1>11. /\ Len(got'[a]) = WordsRead(a)'
       /\ \A i \in 1 .. Len(got'[a]) : got'[a][i] = Sector(call[a], i)
       /\ got'[a] \in Seq((0 .. LbaMod - 1) \cup {Junk})
  <2>1. CASE mixed[a] \/ call[a].op = "write"
    <3>1. got' = got /\ WordsRead(a) = 0 /\ WordsRead(a)' = 0
      BY <1>1, <1>10, <2>1 DEF WordsRead
    <3> QED BY <1>2, <1>3, <3>1 DEF Buffer
  <2>2. CASE ~(mixed[a] \/ call[a].op = "write")
    <3>1. call[a].op = "read" /\ ~mixed[a]
      BY <1>4, <2>2
    <3>2. dev.st = "drq" /\ dev.op = "read" /\ dev.lba = SectorAt(call[a], iterator[a])
      BY <1>9, <3>1 DEF Within
    <3>3. got'[a] = Append(got[a], dev.lba)
      BY <1>1, <1>2, <2>2, <3>2
    <3>4. WordsRead(a) = Words * iterator[a] + n[a]
      BY <1>1, <2>2 DEF WordsRead
    <3>5. Words * iterator[a] \in Nat
      BY <1>4, Constants
    <3>6. Len(got[a]) = Words * iterator[a] + n[a] /\ \A i \in 1 .. Len(got[a]) : got[a][i] = Sector(call[a], i)
      BY <1>3, <3>4 DEF Buffer
    <3>7. Sector(call[a], Words * iterator[a] + n[a] + 1) = dev.lba
      <4>1. n[a] \in 0 .. Words - 1
        BY <1>2, <1>4, Constants
      <4> QED BY <1>2, <1>4, <3>2, <4>1, SectorOfWord
    <3>8. got[a] \in Seq((0 .. LbaMod - 1) \cup {Junk}) /\ dev.lba \in (0 .. LbaMod - 1) \cup {Junk}
      BY <1>2
    <3>9. Len(got'[a]) = Len(got[a]) + 1 /\ got'[a] \in Seq((0 .. LbaMod - 1) \cup {Junk})
      BY <3>3, <3>8
    <3>10. \A i \in 1 .. Len(got[a]) : got'[a][i] = got[a][i]
      BY <3>3, <3>8
    <3>11. got'[a][Len(got[a]) + 1] = dev.lba
      BY <3>3, <3>8
    <3>12. Len(got'[a]) = WordsRead(a)'
      BY <1>4, <1>10, <2>2, <3>5, <3>6, <3>9
    <3>13. ASSUME NEW i \in 1 .. Len(got'[a]) PROVE got'[a][i] = Sector(call[a], i)
      <4>1. CASE i = Len(got[a]) + 1
        <5>1. i = Words * iterator[a] + n[a] + 1
          BY <3>6, <4>1
        <5> QED BY <3>7, <3>11, <4>1, <5>1
      <4>2. CASE i # Len(got[a]) + 1
        <5>1. Len(got[a]) \in Nat
          BY <3>8
        <5>2. i \in 1 .. Len(got[a])
          BY <3>9, <4>2, <5>1
        <5> QED BY <3>6, <3>10, <5>2
      <4> QED BY <4>1, <4>2
    <3> QED BY <3>9, <3>12, <3>13
  <2> QED BY <2>1, <2>2
<1>12. TypeOK'
  <2>1. got' \in [Callers -> Seq((0 .. LbaMod - 1) \cup {Junk})]
    <3>1. got' = got \/ \E x : got' = [got EXCEPT ![a] = Append(got[a], x)]
      BY <1>1
    <3>2. DOMAIN got' = Callers /\ got' = [b \in Callers |-> got'[b]]
      BY <1>2, <3>1
    <3>3. \A b \in Callers : got'[b] \in Seq((0 .. LbaMod - 1) \cup {Junk})
      BY <1>2, <1>5, <1>11
    <3> QED BY <3>2, <3>3
  <2>2. /\ n' \in [Callers -> Nat] /\ iterator' \in [Callers -> Nat]
        /\ pc' \in [Callers -> {"idle", "out", "command", "next", "poll", "data", "flush"}]
    <3>1. n[a] + 1 \in Nat /\ iterator[a] + 1 \in Nat
      BY <1>4
    <3>2. CASE n[a] + 1 < Words
      BY <1>1, <1>2, <3>1, <3>2
    <3>3. CASE ~(n[a] + 1 < Words)
      <4>1. /\ n' = [n EXCEPT ![a] = 0]
            /\ iterator' = [iterator EXCEPT ![a] = iterator[a] + 1]
            /\ pc' = [pc EXCEPT ![a] = "next"]
        BY <1>1, <3>3
      <4>2. n' \in [Callers -> Nat]
        BY <1>2, <4>1
      <4>3. iterator' \in [Callers -> Nat]
        BY <1>2, <3>1, <4>1
      <4>4. pc' \in [Callers -> {"idle", "out", "command", "next", "poll", "data", "flush"}]
        BY <1>2, <4>1
      <4> QED BY <4>2, <4>3, <4>4
    <3> QED BY <3>2, <3>3
  <2>3. ASSUME NEW b \in Callers
        PROVE  /\ (pc'[b] = "out" => n'[b] <= 4) /\ (pc'[b] # "out" => n'[b] < Words)
               /\ iterator'[b] <= call'[b].num /\ Len(got'[b]) <= Words * call'[b].num
    <3>1. CASE b # a
      BY <1>1, <1>5, <3>1 DEF PioInv, TypeOK
    <3>2. CASE b = a
      <4>1. (pc'[a] = "out" => n'[a] <= 4) /\ (pc'[a] # "out" => n'[a] < Words) /\ iterator'[a] <= call[a].num
        BY <1>4, <1>6, <1>7, Constants
      <4>2. n[a] + 1 \in Nat /\ n[a] + 1 <= Words
        BY <1>4
      <4>3. Words * iterator[a] + (n[a] + 1) <= Words * call[a].num
            /\ Words * iterator[a] \in Nat /\ Words * call[a].num \in Nat
        BY <1>4, <4>2, BufferBound
      <4>4. Len(got'[a]) <= Words * call[a].num
        <5>1. WordsRead(a)' = 0 \/ WordsRead(a)' = Words * iterator[a] + n[a] + 1
          BY <1>10
        <5>2. 0 <= Words * call[a].num /\ Words * iterator[a] + n[a] + 1 <= Words * call[a].num
          BY <1>4, <4>3
        <5>3. Len(got'[a]) = WordsRead(a)'
          BY <1>11
        <5> QED BY <5>1, <5>2, <5>3
      <4> QED BY <1>1, <3>2, <4>1, <4>4
    <3> QED BY <3>1, <3>2
  <2> QED BY <1>1, <1>8, <2>1, <2>2, <2>3 DEF PioInv, TypeOK
<1>13. Owned'
  <2>1. dev.st # "idle" /\ dev.by # a => mixed[dev.by]
    BY <1>1, <1>2, <1>3, OtherIs DEF Owned
  <2>2. dev'.st # "idle" /\ ~mixed[dev'.by] => dev'.by = a
    BY <1>8, <2>1
  <2>3. ~mixed[a] => pc'[Other(a)] = "idle"
    BY <1>1, <1>3, <1>5, OtherIs DEF Alone
  <2>4. pc'[a] # "idle"
    BY <1>6, <1>7
  <2> QED BY <1>1, <1>8, <2>2, <2>3, <2>4 DEF Owned
<1>14. DriveLeftIdle'
  <2>1. pc'[a] # "idle"
    BY <1>6, <1>7
  <2> QED BY <1>1, <1>5, <1>8, <2>1 DEF PioInv, DriveLeftIdle, Returned
<1>15. ASSUME NEW b \in Callers
       PROVE  Counters(b)' /\ Buffer(b)' /\ Disk(b)' /\ Alone(b)' /\ (~mixed'[b] => Phase(b)')
  <2>1. CASE b # a
    BY <1>1, <1>5, <2>1, OthersKept
  <2>2. CASE b = a
    <3>1. Counters(a)'
      <4>1. ~Rejected(call[a])'
        BY <1>1, <1>3 DEF Counters, Rejected
      <4> QED BY <1>1, <1>4, <1>6, <1>7, <4>1 DEF Counters
    <3>2. Buffer(a)'
      <4>1. call' = call
        BY <1>1
      <4>2. \A i \in 1 .. Len(got'[a]) : got'[a][i] = Sector(call'[a], i)
        BY <1>11, <4>1
      <4> QED BY <1>11, <4>2 DEF Buffer
    <3>3. Disk(a)'
      <4> SUFFICES ASSUME ~mixed[a], ~failed[a], call[a].op = "write"
                   PROVE  landed[a] = FirstOf(call[a], IF dev'.commit THEN iterator'[a] - 1 ELSE iterator'[a])
        BY <1>1, <1>6, <1>7 DEF Disk
      <4>1. ~dev.commit
        BY <1>9 DEF Within
      <4>2. landed[a] = FirstOf(call[a], iterator[a])
        BY <1>1, <1>3, <4>1 DEF Disk
      <4>3. (iterator[a] + 1) - 1 = iterator[a]
        BY <1>4
      <4> QED BY <1>6, <1>7, <1>9, <4>2, <4>3
    <3>4. Alone(a)'
      BY <1>1, <1>3, <1>5, OtherIs DEF Alone
    <3>5. ~mixed'[a] => Phase(a)'
      BY <1>1, <1>9
    <3> QED BY <2>2, <3>1, <3>2, <3>3, <3>4, <3>5
  <2> QED BY <2>1, <2>2
<1> QED BY <1>12, <1>13, <1>14, <1>15 DEF PioInv

-----------------------------------------------------------------------------
(* The theorems. *)

LEMMA Kept == PioInv /\ [Next]_vars => PioInv'
<1> SUFFICES ASSUME PioInv, [Next]_vars PROVE PioInv'
  OBVIOUS
<1>1. CASE UNCHANGED vars
  <2>1. UNCHANGED <<regs, dev, pc, call, n, iterator, got, result, mixed, landed, failed>>
    BY <1>1 DEF vars, callers, ghosts
  <2>2. TypeOK' /\ Owned' /\ DriveLeftIdle'
    BY <2>1 DEF PioInv, TypeOK, Owned, DriveLeftIdle, Returned
  <2>3. \A a \in Callers : Counters(a)' /\ Buffer(a)' /\ Disk(a)' /\ Alone(a)' /\ (~mixed'[a] => Phase(a)')
    BY <2>1, CallerKept
  <2> QED BY <2>2, <2>3 DEF PioInv
<1>2. ASSUME NEW a \in Callers, NEW c \in Requests[a], Refuse(a, c) \/ Begin(a, c) PROVE PioInv'
  <2>1. c \in Call
    BY PioAssumption
  <2> QED BY <1>2, <2>1, RefuseStep, BeginStep
<1>3. ASSUME NEW a \in Callers, Step(a) PROVE PioInv'
  BY <1>3, OutRegisterStep, CommandSteps, QuietSteps, DataStep, ReturnSteps DEF Step
<1>4. ASSUME NEW a \in Callers, Spin(a) PROVE PioInv'
  BY <1>1, <1>4 DEF Spin
<1>5. CASE DevReady \/ DevError
  BY <1>5, DevReadyStep, DevErrorStep
<1> QED BY <1>1, <1>2, <1>3, <1>4, <1>5 DEF Next

LEMMA Invariant == Spec => []PioInv
<1>1. Init => PioInv
  BY Starts
<1>2. PioInv /\ [Next]_vars => PioInv'
  BY Kept
<1> QED BY <1>1, <1>2, PTL DEF Spec

\* Types: in particular the address the drive is given always has 28 bits and no
\* call gets more words than it has room for.
THEOREM PioTypes == Spec => []TypeOK
<1>1. PioInv => TypeOK
  BY DEF PioInv
<1> QED BY <1>1, Invariant, PTL

\* int13h_read_o: a read that returns 0 and had the drive to itself has filled
\* the buffer with the sectors asked for, whatever the size of a sector, of an
\* address and of the request, and even if the sum in the bounds check wrapped.
THEOREM ReadsExact == Spec => []ReadExact
<1>1. PioInv => ReadExact
  <2> SUFFICES ASSUME PioInv, NEW a \in Callers, Returned(a, "read")
               PROVE  /\ Len(got[a]) = Words * call[a].num
                      /\ \A i \in 1 .. Len(got[a]) : got[a][i] = Sector(call[a], i)
    BY DEF ReadExact
  <2>1. pc[a] = "idle" /\ result[a] = 0 /\ call[a].op = "read" /\ ~mixed[a]
    BY DEF Returned
  <2>2. Counters(a) /\ Buffer(a) /\ call[a] \in Call
    BY DEF PioInv, TypeOK
  <2>3. iterator[a] = call[a].num
    BY <2>1, <2>2 DEF Counters
  <2>4. Words * call[a].num \in Nat
    BY <2>2, CallType, Constants
  <2>5. WordsRead(a) = Words * call[a].num
    BY <2>1, <2>3, <2>4 DEF WordsRead
  <2> QED BY <2>2, <2>5 DEF Buffer
<1> QED BY <1>1, Invariant, PTL

\* int13h_write_o: a write that returns 0, had the drive to itself and was given
\* no error has put the sectors asked for on the disk, and no others.
THEOREM WritesLand == Spec => []WriteLands
<1>1. PioInv => WriteLands
  <2> SUFFICES ASSUME PioInv, NEW a \in Callers, Returned(a, "write"), ~failed[a]
               PROVE  landed[a] = {Sector(call[a], Words * k) : k \in 1 .. call[a].num}
    BY DEF WriteLands
  <2>1. pc[a] = "idle" /\ result[a] = 0 /\ call[a].op = "write" /\ ~mixed[a]
    BY DEF Returned
  <2>2. Disk(a) /\ call[a] \in Call
    BY DEF PioInv, TypeOK
  <2>3. landed[a] = FirstOf(call[a], call[a].num)
    BY <2>1, <2>2 DEF Disk
  <2> QED BY <2>2, <2>3, AllSectors
<1> QED BY <1>1, Invariant, PTL

\* The bounds check of both: a call that has the drive to itself points it at
\* sectors of the partition only, unless its sum wraps or it asks for no sector.
THEOREM StaysInside == Spec => []InsidePartition
<1>1. PioInv => InsidePartition
  <2> SUFFICES ASSUME PioInv, dev.st # "idle", dev.op \in {"read", "write"}, pc[dev.by] # "idle", ~mixed[dev.by],
                      ~(call[dev.by].off + call[dev.by].num >= WordMod), call[dev.by].num # 0
               PROVE  dev.lba \in part_start_lba .. part_start_lba + part_length - 1
    BY DEF InsidePartition
  <2>1. PICK a \in Callers : a = dev.by
    BY DEF PioInv, TypeOK
  <2>2. /\ Counters(a) /\ Phase(a) /\ call[a] \in Call /\ iterator[a] \in Nat /\ iterator[a] <= call[a].num
        /\ pc[a] \in {"idle", "out", "command", "next", "poll", "data", "flush"}
    BY <2>1 DEF PioInv, TypeOK
  <2>3. call[a].off \in Nat /\ call[a].num \in Nat
    BY <2>2, CallType
  <2>4. ~Rejected(call[a]) /\ call[a].off + call[a].num < WordMod
    BY <2>1, <2>2, <2>3, Constants DEF Counters
  <2>5. Between(a) \/ Within(a)
    BY <2>1, <2>2 DEF Phase, Flushing
  <2>6. PICK j \in Nat : dev.lba = SectorAt(call[a], j) /\ j < call[a].num
    <3>1. CASE Within(a)
      <4>1. iterator[a] < call[a].num
        BY <2>1, <2>2, <2>3, <3>1 DEF Within, Counters, PioInv, Owned
      <4> QED BY <2>2, <3>1, <4>1 DEF Within
    <3>2. CASE Between(a) /\ ~dev.commit
      <4>1. iterator[a] # call[a].num
        BY <2>1, <2>3, <3>2 DEF Between, LeftAfter
      <4> QED BY <2>1, <2>2, <2>3, <3>2, <4>1 DEF Between
    <3>3. CASE Between(a) /\ dev.commit
      <4>1. iterator[a] > 0 /\ dev.lba = SectorAt(call[a], iterator[a] - 1)
        BY <2>1, <3>3 DEF Between
      <4>2. iterator[a] - 1 \in Nat /\ iterator[a] - 1 < call[a].num
        BY <2>2, <2>3, <4>1
      <4> QED BY <4>1, <4>2
    <3> QED BY <2>5, <3>1, <3>2, <3>3
  <2> QED BY <2>2, <2>4, <2>6, Inside
<1> QED BY <1>1, Invariant, PTL

\* A call for at least one sector that had the drive to itself leaves it idle.
THEOREM LeavesDriveIdle == Spec => []DriveLeftIdle
<1>1. PioInv => DriveLeftIdle
  BY DEF PioInv
<1> QED BY <1>1, Invariant, PTL

=============================================================================
