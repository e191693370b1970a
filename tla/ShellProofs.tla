---------------------------- MODULE ShellProofs -----------------------------
(***************************************************************************)
(* Proofs about Shell: for any alphabet, any commands and any sizes, the   *)
(* buffer is the line on the screen until a key has been dropped.          *)
(***************************************************************************)
EXTENDS Shell, TLAPS

LEMMA PushOk ==
  ASSUME NEW b \in Seq(Chars), NEW c \in Chars, Len(b) <= SHELL_BUFFER_SIZE
  PROVE  /\ shell_bufferpush(b, c) \in Seq(Chars)
         /\ Len(shell_bufferpush(b, c)) <= SHELL_BUFFER_SIZE
         /\ Len(b) < SHELL_BUFFER_SIZE => shell_bufferpush(b, c) = Append(b, c)
         /\ Len(shell_bufferpush(b, c)) <= Len(b) + 1
<1>1. SHELL_BUFFER_SIZE \in Nat
  BY ShellAssumption
<1>2. Append(b, c) \in Seq(Chars) /\ Len(Append(b, c)) = Len(b) + 1 /\ Len(b) \in Nat
  OBVIOUS
<1> QED BY <1>1, <1>2 DEF shell_bufferpush

LEMMA FrontOk ==
  ASSUME NEW b \in Seq(Chars), b # <<>>
  PROVE  Front(b) \in Seq(Chars) /\ Len(Front(b)) = Len(b) - 1 /\ Len(b) > 0
<1>1. Len(b) \in Nat /\ Len(b) > 0
  OBVIOUS
<1>2. Front(b) = SubSeq(b, 1, Len(b) - 1)
  BY DEF Front
<1>4. \A i \in 1 .. Len(b) : b[i] \in Chars
  OBVIOUS
<1>3. SubSeq(b, 1, Len(b) - 1) = [i \in 1 .. Len(b) - 1 |-> b[i]]
  BY <1>1
<1>5. /\ [i \in 1 .. Len(b) - 1 |-> b[i]] \in Seq(Chars)
      /\ Len([i \in 1 .. Len(b) - 1 |-> b[i]]) = Len(b) - 1
  BY <1>1, <1>4
<1> QED BY <1>1, <1>2, <1>3, <1>5

\* A word is looked up in the table, or it is empty or unknown.
LEMMA LookupOk ==
  ASSUME NEW word
  PROVE  Lookup(word) \in {"nothing", "unknown"} \cup Range(Names)
<1>1. DOMAIN Commands = 1 .. 5 /\ DOMAIN Names = 1 .. 5
  BY DEF Commands, Names
<1>2. CASE word = <<>> \/ ~\E i \in DOMAIN Commands : Commands[i] = word
  BY <1>2 DEF Lookup
<1>3. CASE word # <<>> /\ \E i \in DOMAIN Commands : Commands[i] = word
  <2> DEFINE First(i) == Commands[i] = word /\ \A j \in 1 .. i - 1 : Commands[j] # word
  <2>1. \E i \in 1 .. 5 : First(i)
    <3>1. PICK k \in 1 .. 5 : Commands[k] = word
      BY <1>1, <1>3
    <3>2. CASE Commands[1] = word
      BY <3>2
    <3>3. CASE Commands[1] # word /\ Commands[2] = word
      BY <3>3
    <3>4. CASE Commands[1] # word /\ Commands[2] # word /\ Commands[3] = word
      <4>1. \A j \in 1 .. 3 - 1 : j = 1 \/ j = 2
        OBVIOUS
      <4> QED BY <3>4, <4>1
    <3>5. CASE Commands[1] # word /\ Commands[2] # word /\ Commands[3] # word /\ Commands[4] = word
      <4>1. \A j \in 1 .. 4 - 1 : j = 1 \/ j = 2 \/ j = 3
        OBVIOUS
      <4> QED BY <3>5, <4>1
    <3>6. CASE Commands[1] # word /\ Commands[2] # word /\ Commands[3] # word /\ Commands[4] # word
      <4>1. \A j \in 1 .. 5 - 1 : j = 1 \/ j = 2 \/ j = 3 \/ j = 4
        OBVIOUS
      <4>2. k = 5
        BY <3>1, <3>6
      <4> QED BY <3>1, <3>6, <4>1, <4>2
    <3> QED BY <3>2, <3>3, <3>4, <3>5, <3>6
  <2>2. (CHOOSE i \in DOMAIN Commands : First(i)) \in 1 .. 5
    BY <1>1, <2>1
  <2>3. Lookup(word) = Names[CHOOSE i \in DOMAIN Commands : First(i)]
    BY <1>3 DEF Lookup
  <2>4. \A i \in 1 .. 5 : Names[i] \in Range(Names)
    BY <1>1 DEF Range
  <2> QED BY <2>2, <2>3, <2>4
<1> QED BY <1>2, <1>3

-----------------------------------------------------------------------------
(* The invariant. *)

Inv == TypeOK /\ BufferShown

LEMMA InitOk == Init => Inv
<1>1. SHELL_BUFFER_SIZE \in Nat /\ MaxShown \in Nat
  BY ShellAssumption
<1>2. <<>> \in Seq(Chars) /\ Len(<<>>) = 0
  OBVIOUS
<1> SUFFICES ASSUME Init PROVE Inv
  OBVIOUS
<1>3. running \in BOOLEAN /\ dropped \in BOOLEAN /\ beyond \in BOOLEAN
  BY DEF Init
<1>4. TypeOK
  BY <1>1, <1>2, <1>3 DEF Init, TypeOK
<1>5. BufferShown
  BY <1>2 DEF Init, BufferShown
<1> QED BY <1>4, <1>5 DEF Inv

LEMMA BackspaceOk ==
  ASSUME Inv, Backspace
  PROVE  Inv'
<1>1. /\ shell_buffer \in Seq(Chars) /\ shown \in Seq(Chars) /\ Len(shell_buffer) <= Len(shown)
      /\ SHELL_BUFFER_SIZE \in Nat /\ MaxShown \in Nat
  BY ShellAssumption DEF Inv, TypeOK, BufferShown, Backspace
<1>2. CASE shell_buffer = <<>>
  BY <1>2 DEF Inv, TypeOK, BufferShown, Backspace, shell_bufferpop
<1>3. CASE shell_buffer # <<>>
  <2>1. shown # <<>>
    BY <1>1, <1>3, FrontOk
  <2>2. shell_buffer' = Front(shell_buffer) /\ shown' = Front(shown)
    BY <1>3 DEF Backspace, shell_bufferpop
  <2>3. /\ Front(shell_buffer) \in Seq(Chars) /\ Len(Front(shell_buffer)) = Len(shell_buffer) - 1
        /\ Front(shown) \in Seq(Chars) /\ Len(Front(shown)) = Len(shown) - 1
    BY <1>1, <1>3, <2>1, FrontOk
  <2>4. Len(shell_buffer) \in Nat /\ Len(shown) \in Nat
    BY <1>1
  <2>5. TypeOK'
    BY <1>1, <2>2, <2>3, <2>4 DEF Inv, TypeOK, Backspace
  <2>6. BufferShown'
    BY <1>1, <2>2, <2>3, <2>4 DEF Inv, BufferShown, Backspace
  <2> QED BY <2>5, <2>6 DEF Inv
<1> QED BY <1>2, <1>3

LEMMA KeyOk ==
  ASSUME Inv, NEW c \in Chars, Key(c)
  PROVE  Inv'
<1>1. /\ shell_buffer \in Seq(Chars) /\ shown \in Seq(Chars)
      /\ Len(shell_buffer) <= Len(shown) /\ Len(shell_buffer) <= SHELL_BUFFER_SIZE /\ Len(shown) < MaxShown
      /\ SHELL_BUFFER_SIZE \in Nat /\ MaxShown \in Nat
  BY ShellAssumption DEF Inv, TypeOK, BufferShown, Key
<1>2. /\ Append(shown, c) \in Seq(Chars) /\ Len(Append(shown, c)) = Len(shown) + 1
      /\ Len(shown) \in Nat /\ Len(shell_buffer) \in Nat
  BY <1>1
<1>3. /\ shell_buffer' = shell_bufferpush(shell_buffer, c) /\ shown' = Append(shown, c)
      /\ beyond' = beyond /\ ~beyond /\ running' = running /\ ran' = ran /\ turn' = turn
      /\ dropped' = (dropped \/ Len(shell_buffer) >= SHELL_BUFFER_SIZE)
  BY DEF Key
<1>4. /\ shell_buffer' \in Seq(Chars) /\ Len(shell_buffer') <= SHELL_BUFFER_SIZE
      /\ Len(shell_buffer') <= Len(shell_buffer) + 1
      /\ Len(shell_buffer) < SHELL_BUFFER_SIZE => shell_buffer' = Append(shell_buffer, c)
  BY <1>1, <1>3, PushOk
<1>5. TypeOK'
  BY <1>1, <1>2, <1>3, <1>4 DEF Inv, TypeOK
<1>6. ~dropped' => shown' = shell_buffer'
  <2>1. ~dropped' => ~dropped /\ Len(shell_buffer) < SHELL_BUFFER_SIZE
    <3>1. ~dropped' => ~dropped /\ ~(Len(shell_buffer) >= SHELL_BUFFER_SIZE)
      BY <1>3, Zenon
    <3>2. ~(Len(shell_buffer) >= SHELL_BUFFER_SIZE) => Len(shell_buffer) < SHELL_BUFFER_SIZE
      BY <1>1, <1>2
    <3> QED BY <3>1, <3>2, Zenon
  <2> QED BY <1>3, <1>4, <2>1 DEF Inv, BufferShown
<1>7. Len(shell_buffer') <= Len(shown')
  <2>1. Len(shell_buffer') \in Nat
    BY <1>4
  <2> QED BY <1>1, <1>2, <1>3, <1>4, <2>1
<1> QED BY <1>5, <1>6, <1>7 DEF Inv, BufferShown

LEMMA NewlineOk ==
  ASSUME Inv, Newline
  PROVE  Inv'
<1>1. <<>> \in Seq(Chars) /\ Len(<<>>) <= SHELL_BUFFER_SIZE /\ Len(<<>>) <= MaxShown
  BY ShellAssumption
<1>2. shown' = <<>> /\ dropped' = FALSE /\ turn' = 1 - turn /\ turn' \in {0, 1}
  BY DEF Newline, Inv, TypeOK
<1>3. \/ beyond' = TRUE /\ shell_buffer' = shell_buffer /\ running' = running /\ ran' = ran
      \/ /\ \E word : ran' = Lookup(word)
         /\ running' = (ran' # "exit") /\ shell_buffer' = <<>> /\ beyond' = beyond
  BY DEF Newline, shell_clear
<1>4. ran' \in {"nothing", "unknown"} \cup Range(Names)
  BY <1>3, LookupOk DEF Inv, TypeOK
<1>5. TypeOK'
  <2>1. running' \in BOOLEAN /\ beyond' \in BOOLEAN
    BY <1>3, Zenon DEF Inv, TypeOK
  <2>2. shell_buffer' \in Seq(Chars) /\ Len(shell_buffer') <= SHELL_BUFFER_SIZE
    BY <1>1, <1>3, Zenon DEF Inv, TypeOK
  <2>3. shown' \in Seq(Chars) /\ Len(shown') <= MaxShown /\ dropped' \in BOOLEAN
    BY <1>1, <1>2, Zenon
  <2> QED BY <1>2, <1>4, <2>1, <2>2, <2>3, Zenon DEF TypeOK
<1>6. BufferShown'
  BY <1>2, <1>3 DEF BufferShown
<1> QED BY <1>5, <1>6 DEF Inv

-----------------------------------------------------------------------------
(* The theorems. *)

\* Types and the agreement of buffer and screen are inductive together: a key
\* goes to both, and is dropped only when the buffer is full (shell.c:162).
THEOREM Invariance == Spec => []Inv
<1>1. Inv /\ [Next]_vars => Inv'
  <2> SUFFICES ASSUME Inv, [Next]_vars PROVE Inv'
    OBVIOUS
  <2>1. CASE Next
    BY <2>1, BackspaceOk, KeyOk, NewlineOk DEF Next
  <2>2. CASE UNCHANGED vars
    BY <2>2 DEF vars, Inv, TypeOK, BufferShown
  <2> QED BY <2>1, <2>2
<1> QED BY InitOk, <1>1, PTL DEF Spec

\* The variables of the shell keep their types; in particular shell_buffersize
\* never exceeds SHELL_BUFFER_SIZE (shell.c, shell_bufferpush).
THEOREM TypeCorrect == Spec => []TypeOK
<1>1. Inv => TypeOK
  BY DEF Inv
<1> QED BY Invariance, <1>1, PTL

\* The line in shell_buffer is the line on the screen as long as no key was
\* dropped, and backspace never erases the prompt.
THEOREM BufferAlwaysShown == Spec => []BufferShown
<1>1. Inv => BufferShown
  BY DEF Inv
<1> QED BY Invariance, <1>1, PTL

=============================================================================
