--------------------------- MODULE TerminalProofs ---------------------------
(***************************************************************************)
(* Proofs about kernel/main.c.  Terminal, for any sizes of the buffer, the *)
(* display and the counters and any prompts and directories: behind a      *)
(* prompt that is where backspace takes it to be, the buffer is the line   *)
(* on the screen, and it is overrun only by a line that does not fit.      *)
(* LateInit with Login (at the end), for any words and any size of the     *)
(* login's buffer: the order of the boot, and what the login accepts.      *)
(***************************************************************************)
EXTENDS Terminal, LateInit, TLAPS

LEMMA Constants ==
  /\ BufferSize \in Nat \ {0} /\ Columns \in Nat \ {0} /\ KernelPrompt \in Nat \ {0}
  /\ RootPrompt \in Nat \ {0} /\ PromptMod \in Nat \ {0} /\ LocMod \in Nat \ {0}
  /\ BufferSize < LocMod /\ KernelPrompt < PromptMod /\ KernelPrompt < Columns
  /\ ArgLengths \subseteq Nat
BY TerminalAssumption

LEMMA ModRange ==
  ASSUME NEW x \in Nat, NEW n \in Nat \ {0}
  PROVE  x % n \in 0 .. n - 1 /\ x % n <= x
OBVIOUS

LEMMA ModSmall ==
  ASSUME NEW n \in Nat \ {0}, NEW x \in 0 .. n - 1
  PROVE  x % n = x
OBVIOUS

LEMMA ModBack ==
  ASSUME NEW n \in Nat \ {0}, NEW x \in 1 .. n - 1
  PROVE  (x + n - 1) % n = x - 1
OBVIOUS

LEMMA FrontOk ==
  ASSUME NEW S, NEW s \in Seq(S), s # <<>>
  PROVE  /\ Front(s) \in Seq(S) /\ Len(Front(s)) = Len(s) - 1 /\ Len(s) > 0
         /\ \A i \in 1 .. Len(s) - 1 : Front(s)[i] = s[i]
<1>1. Len(s) \in Nat /\ Len(s) > 0
  OBVIOUS
<1>2. \A i \in 1 .. Len(s) : s[i] \in S
  OBVIOUS
<1>3. Front(s) = [i \in 1 .. Len(s) - 1 |-> s[i]]
  BY <1>1 DEF Front
<1>4. /\ [i \in 1 .. Len(s) - 1 |-> s[i]] \in Seq(S)
      /\ Len([i \in 1 .. Len(s) - 1 |-> s[i]]) = Len(s) - 1
  BY <1>1, <1>2
<1> QED BY <1>1, <1>3, <1>4

LEMMA LastOk ==
  ASSUME NEW S, NEW s \in Seq(S), s # <<>>
  PROVE  Last(s) \in S /\ Last(s) = s[Len(s)]
<1>1. Len(s) \in Nat /\ Len(s) > 0
  OBVIOUS
<1> QED BY <1>1 DEF Last

\* What buffer[i] = c leaves in the buffer.
LEMMA StoreOk ==
  ASSUME NEW b \in [0 .. BufferSize - 1 -> Chars \cup {NUL}], NEW i \in Nat, NEW c \in Chars \cup {NUL}
  PROVE  /\ Store(b, i, c) \in [0 .. BufferSize - 1 -> Chars \cup {NUL}]
         /\ i < BufferSize => Store(b, i, c)[i] = c
         /\ \A j \in 0 .. BufferSize - 1 : j # i => Store(b, i, c)[j] = b[j]
BY Constants DEF Store

-----------------------------------------------------------------------------
(* Types.                                                                   *)

Flags == root_mounted \in BOOLEAN /\ midline \in BOOLEAN /\ trusted \in BOOLEAN

EditorOK ==
  /\ pc \in {"prompt", "typing", "command", "dead"}
  /\ buffer \in [0 .. BufferSize - 1 -> Chars \cup {NUL}]
  /\ loc \in 0 .. LocMod - 1
  /\ cx \in 0 .. Columns - 1
  /\ line \in Seq(Chars)
  /\ stray \subseteq {"line", "wd", "path", "null"}

PathOK ==
  /\ prompt_size \in 0 .. PromptMod - 1
  /\ wd \in Seq(Nat)
  /\ root_mounted => wd # <<>> /\ wd[1] = 1

LEMMA TypeParts == TypeOK <=> Flags /\ EditorOK /\ PathOK
BY DEF TypeOK, Flags, EditorOK, PathOK

LEMMA FlagSteps ==
  ASSUME Flags, [Next]_vars
  PROVE  Flags'
<1>1. CASE Prompt
  BY <1>1, Zenon DEF Prompt, Flags
<1>2. CASE \E c \in Chars : Type(c)
  BY <1>2, Zenon DEF Type, Flags
<1>3. CASE Backspace
  BY <1>3, Zenon DEF Backspace, Erase, Flags
<1>4. CASE Enter
  BY <1>4, Zenon DEF Enter, Flags
<1>5. CASE PlainCommand \/ RunProgram \/ WriteFile
  BY <1>5, Zenon DEF PlainCommand, RunProgram, WriteFile, Flags
<1>6. CASE Mount
  BY <1>6, Zenon DEF Mount, Flags
<1>7. CASE CdParent \/ \E n \in ArgLengths : CdInto(n)
  BY <1>7, Zenon DEF CdParent, CdInto, ChangeDir, Flags
<1>8. CASE Crash \/ Restart \/ ForeignOutput
  BY <1>8, Zenon DEF Crash, Restart, ForeignOutput, Flags
<1>9. CASE UNCHANGED vars
  BY <1>9, Zenon DEF vars, Flags
<1> QED BY <1>1, <1>2, <1>3, <1>4, <1>5, <1>6, <1>7, <1>8, <1>9, Zenon DEF Next

LEMMA Width ==
  ASSUME PathOK
  PROVE  PromptWidth \in Nat /\ (root_mounted => PathLength(wd) \in Nat)
<1>1. ASSUME root_mounted PROVE PathLength(wd) \in Nat
  BY <1>1, LastOk DEF PathOK, PathLength
<1> QED BY <1>1, Constants DEF PromptWidth

\* The path and the width of its prompt.
LEMMA PathSteps ==
  ASSUME PathOK, [Next]_vars
  PROVE  PathOK'
<1> DEFINE Kept == UNCHANGED <<prompt_size, root_mounted, wd>>
<1>1. ASSUME Kept PROVE PathOK'
  <2>1. wd' = wd /\ prompt_size' = prompt_size /\ (root_mounted' => root_mounted)
    BY <1>1, Zenon
  <2> QED BY <2>1 DEF PathOK
<1>2. CASE Prompt \/ PlainCommand \/ RunProgram \/ WriteFile \/ Crash \/ ForeignOutput \/ UNCHANGED vars
  <2>1. Kept
    BY <1>2, Zenon DEF Prompt, PlainCommand, RunProgram, WriteFile, Crash, ForeignOutput, vars
  <2> QED BY <1>1, <2>1, Zenon
<1>3. CASE Backspace \/ Enter \/ \E c \in Chars : Type(c)
  <2>1. Kept
    BY <1>3, Zenon DEF Backspace, Erase, Enter, Type
  <2> QED BY <1>1, <2>1, Zenon
<1>4. CASE Mount
  <2>1. wd' = <<1>> /\ prompt_size' = (RootPrompt + PathLength(wd')) % PromptMod
    BY <1>4 DEF Mount
  <2>2. wd' \in Seq(Nat) /\ wd' # <<>> /\ wd'[1] = 1
    BY <2>1
  <2>3. PathLength(wd') \in Nat
    BY <2>2, LastOk DEF PathLength
  <2>4. prompt_size' \in 0 .. PromptMod - 1
    <3>1. RootPrompt + PathLength(wd') \in Nat
      BY <2>3, Constants
    <3> QED BY <2>1, <3>1, Constants, ModRange
  <2> QED BY <2>2, <2>4 DEF PathOK
<1>5. CASE CdParent
  <2>1. root_mounted /\ PathLength(wd) # 1 /\ wd' = Front(wd)
        /\ prompt_size' = (RootPrompt + PathLength(Front(wd))) % PromptMod
    BY <1>5, Zenon DEF CdParent, ChangeDir
  <2>2. wd # <<>> /\ wd[1] = 1 /\ wd \in Seq(Nat)
    BY <2>1 DEF PathOK
  <2>3. Len(wd) # 1
    BY <2>1, <2>2, LastOk DEF PathLength
  <2>4. Front(wd) \in Seq(Nat) /\ Front(wd) # <<>> /\ Front(wd)[1] = 1
    <3>0. Len(wd) > 0 /\ Len(wd) \in Nat
      BY <2>2, FrontOk
    <3>1. Len(wd) > 1
      <4>1. \A k \in Nat : k > 0 /\ k # 1 => k > 1
        OBVIOUS
      <4> QED BY <2>3, <3>0, <4>1, Zenon
    <3> QED BY <2>2, <3>0, <3>1, FrontOk
  <2>5. PathLength(Front(wd)) \in Nat
    BY <2>4, LastOk DEF PathLength
  <2>6. prompt_size' \in 0 .. PromptMod - 1
    <3>1. RootPrompt + PathLength(Front(wd)) \in Nat
      BY <2>5, Constants
    <3> QED BY <2>1, <3>1, Constants, ModRange
  <2> QED BY <2>1, <2>4, <2>6 DEF PathOK
<1>6. CASE \E n \in ArgLengths : CdInto(n)
  <2>1. PICK n \in ArgLengths : CdInto(n)
    BY <1>6
  <2> DEFINE size == PathLength(wd) + n + 1
  <2>2. root_mounted /\ wd' = Append(wd, size)
        /\ prompt_size' = (RootPrompt + PathLength(Append(wd, size))) % PromptMod
    BY <2>1, Zenon DEF CdInto, ChangeDir
  <2>3. wd # <<>> /\ wd[1] = 1 /\ wd \in Seq(Nat)
    BY <2>2 DEF PathOK
  <2>4. size \in Nat
    BY <2>2, Width, Constants
  <2>5. Append(wd, size) \in Seq(Nat) /\ Append(wd, size) # <<>> /\ Append(wd, size)[1] = 1
    BY <2>3, <2>4
  <2>6. PathLength(Append(wd, size)) \in Nat
    BY <2>5, LastOk DEF PathLength
  <2>7. prompt_size' \in 0 .. PromptMod - 1
    <3>1. RootPrompt + PathLength(Append(wd, size)) \in Nat
      BY <2>6, Constants
    <3> QED BY <2>2, <3>1, Constants, ModRange
  <2> QED BY <2>2, <2>5, <2>7 DEF PathOK
<1>7. CASE Restart
  <2>1. wd' = wd /\ prompt_size' = KernelPrompt /\ (root_mounted' => root_mounted)
    BY <1>7, Zenon DEF Restart
  <2> QED BY <2>1, Constants DEF PathOK
<1> QED BY <1>2, <1>3, <1>4, <1>5, <1>6, <1>7, Zenon DEF Next

\* Every step keeps the editor inside its types.
LEMMA EditorSteps ==
  ASSUME EditorOK, PathOK, [Next]_vars
  PROVE  EditorOK'
<1>1. CASE Prompt
  <2>1. cx' \in 0 .. Columns - 1
    <3>1. cx + PromptWidth \in Nat
      BY Width DEF EditorOK
    <3>2. cx' = (cx + PromptWidth) % Columns
      BY <1>1, Zenon DEF Prompt
    <3> QED BY <3>1, <3>2, Constants, ModRange
  <2>2. buffer' \in [0 .. BufferSize - 1 -> Chars \cup {NUL}] /\ line' \in Seq(Chars) /\ pc' = "typing"
    BY <1>1 DEF Prompt, Blank
  <2>3. loc' = loc /\ stray' = stray
    BY <1>1, Zenon DEF Prompt
  <2> QED BY <2>1, <2>2, <2>3 DEF EditorOK
<1>2. CASE \E c \in Chars : Type(c)
  <2>1. PICK c \in Chars : Type(c)
    BY <1>2
  <2> DEFINE nxt == (loc + 1) % LocMod
  <2>2. nxt \in 0 .. LocMod - 1 /\ (cx + 1) % Columns \in 0 .. Columns - 1
    <3>1. loc + 1 \in Nat /\ cx + 1 \in Nat
      BY DEF EditorOK
    <3> QED BY <3>1, Constants, ModRange
  <2>3. /\ buffer' = Store(Store(buffer, loc, c), nxt, NUL) /\ loc' = nxt
        /\ cx' = (cx + 1) % Columns /\ line' = Append(line, c) /\ pc' = pc
        /\ stray' \in {stray, stray \cup {"line"}}
    BY <2>1 DEF Type, Strays
  <2>4. buffer' \in [0 .. BufferSize - 1 -> Chars \cup {NUL}]
    BY <2>2, <2>3, StoreOk DEF EditorOK
  <2>5. line' \in Seq(Chars)
    BY <2>3 DEF EditorOK
  <2> QED BY <2>2, <2>3, <2>4, <2>5 DEF EditorOK
<1>3. CASE Backspace
  <2>1. /\ buffer' = Store(buffer, loc, NUL) /\ loc' = (loc + LocMod - 1) % LocMod
        /\ cx' = cx - 1 /\ pc' = pc /\ cx > prompt_size
        /\ stray' \in {stray, stray \cup {"line"}}
        /\ line' = IF line = <<>> THEN <<>> ELSE Front(line)
    BY <1>3 DEF Backspace, Erase, Strays
  <2>2. loc + LocMod - 1 \in Nat
    BY Constants DEF EditorOK
  <2>3. loc' \in 0 .. LocMod - 1
    BY <2>1, <2>2, Constants, ModRange
  <2>4. cx' \in 0 .. Columns - 1
    BY <2>1, Constants DEF EditorOK, PathOK
  <2>5. buffer' \in [0 .. BufferSize - 1 -> Chars \cup {NUL}]
    BY <2>1, StoreOk DEF EditorOK
  <2>6. line' \in Seq(Chars)
    BY <2>1, FrontOk DEF EditorOK
  <2> QED BY <2>1, <2>3, <2>4, <2>5, <2>6 DEF EditorOK
<1>4. CASE Enter
  <2>1. /\ buffer' = Store(buffer, loc, NUL) /\ loc' = 0 /\ cx' = 0 /\ pc' = "command" /\ line' = line
        /\ stray' \in {stray, stray \cup {"line"}}
    BY <1>4 DEF Enter, Strays
  <2>2. buffer' \in [0 .. BufferSize - 1 -> Chars \cup {NUL}]
    BY <2>1, StoreOk DEF EditorOK
  <2> QED BY <2>1, <2>2, Constants DEF EditorOK
<1>5. CASE PlainCommand \/ RunProgram \/ Mount \/ CdParent
  <2>1. /\ buffer' = buffer /\ loc' = loc /\ line' = line /\ stray' = stray
        /\ pc' = "prompt" /\ (cx' = 0 \/ cx' \in 0 .. Columns - 1)
    BY <1>5 DEF PlainCommand, RunProgram, Mount, CdParent, ChangeDir
  <2> QED BY <2>1, Constants DEF EditorOK
<1>6. CASE WriteFile \/ \E n \in ArgLengths : CdInto(n)
  <2>1. buffer' = buffer /\ loc' = loc /\ line' = line /\ pc' = "prompt" /\ cx' = 0
    BY <1>6 DEF WriteFile, CdInto, ChangeDir
  <2>2. stray' \subseteq stray \cup {"wd", "path", "null"}
    <3>1. CASE WriteFile
      BY <3>1 DEF WriteFile
    <3>2. CASE \E n \in ArgLengths : CdInto(n)
      BY <3>2 DEF CdInto
    <3> QED BY <1>6, <3>1, <3>2
  <2> QED BY <2>1, <2>2, Constants DEF EditorOK
<1>7. CASE Crash
  BY <1>7 DEF Crash, EditorOK
<1>8. CASE Restart
  <2>1. buffer' = Blank /\ loc' = loc /\ line' = line /\ stray' = stray /\ pc' = "prompt" /\ cx' = 0
    BY <1>8 DEF Restart
  <2>2. Blank \in [0 .. BufferSize - 1 -> Chars \cup {NUL}]
    BY DEF Blank
  <2> QED BY <2>1, <2>2, Constants DEF EditorOK
<1>9. CASE ForeignOutput
  BY <1>9 DEF ForeignOutput, EditorOK
<1>10. CASE UNCHANGED vars
  BY <1>10 DEF vars, EditorOK
<1> QED BY <1>1, <1>2, <1>3, <1>4, <1>5, <1>6, <1>7, <1>8, <1>9, <1>10 DEF Next

\* TypeOK: backspace by the column never takes the cursor out of the row, and
\* no cd or mount leaves a path that does not begin with the root.
THEOREM TerminalTypes == Spec => []TypeOK
<1>1. Init => TypeOK
  <2> SUFFICES ASSUME Init PROVE TypeOK
    OBVIOUS
  <2>1. Flags
    BY Zenon DEF Init, Flags
  <2>2. EditorOK
    BY Constants DEF Init, EditorOK, Blank
  <2>3. PathOK
    <3>1. ~root_mounted
      BY Zenon DEF Init
    <3> QED BY <3>1, Constants DEF Init, PathOK
  <2> QED BY <2>1, <2>2, <2>3, TypeParts
<1>2. TypeOK /\ [Next]_vars => TypeOK'
  <2> SUFFICES ASSUME TypeOK, [Next]_vars PROVE TypeOK'
    OBVIOUS
  <2>1. Flags /\ EditorOK /\ PathOK
    BY TypeParts
  <2>2. Flags' /\ EditorOK' /\ PathOK'
    BY <2>1, FlagSteps, EditorSteps, PathSteps
  <2> QED BY <2>2 DEF TypeOK, Flags, EditorOK, PathOK
<1> QED BY <1>1, <1>2, PTL DEF Spec

-----------------------------------------------------------------------------
(* The buffer and the line on the screen.                                   *)

\* The first characters of the buffer are those of the line.
Holds == \A i \in 1 .. Len(line) : buffer[i - 1] = line[i]

\* loc is static: it is 0 whenever no line is being typed, unless the terminal
\* has died in the middle of one.
LocInv == pc # "typing" /\ ~midline => loc = 0

\* Behind a prompt of the expected width the column is at most that of the end
\* of the line (less, once it has wrapped), so that a column behind the prompt
\* means that there is something to erase.
EditInv ==
  trusted /\ pc = "typing" /\ "line" \notin stray =>
    loc = Len(line) /\ Len(line) < BufferSize /\ cx <= prompt_size + Len(line) /\ Holds

CommandInv ==
  trusted /\ pc = "command" /\ "line" \notin stray =>
    Len(line) < BufferSize /\ buffer[Len(line)] = NUL /\ Holds

LineInv == LocInv /\ EditInv /\ CommandInv

LEMMA LocSteps ==
  ASSUME LocInv, [Next]_vars
  PROVE  LocInv'
<1>1. CASE Prompt \/ Backspace \/ \E c \in Chars : Type(c)
  <2>1. pc' = "typing"
    BY <1>1, Zenon DEF Prompt, Backspace, Erase, Type
  <2> QED BY <2>1, Zenon DEF LocInv
<1>2. CASE Enter
  BY <1>2, Zenon DEF Enter, LocInv
<1>3. CASE Crash
  <2>1. loc' = loc /\ (~midline' => pc # "typing" /\ ~midline)
    BY <1>3, Zenon DEF Crash
  <2> QED BY <2>1, Zenon DEF LocInv
<1>4. CASE PlainCommand \/ RunProgram \/ WriteFile \/ Mount \/ Restart \/ CdParent
           \/ \E n \in ArgLengths : CdInto(n)
  <2>1. pc \in {"command", "dead"} /\ loc' = loc /\ midline' = midline
    BY <1>4, Zenon DEF PlainCommand, RunProgram, WriteFile, Mount, Restart, CdParent, CdInto, ChangeDir
  <2>2. pc # "typing"
    BY <2>1
  <2> QED BY <2>1, <2>2, Zenon DEF LocInv
<1>5. CASE ForeignOutput \/ UNCHANGED vars
  <2>1. pc' = pc /\ loc' = loc /\ midline' = midline
    BY <1>5, Zenon DEF ForeignOutput, vars
  <2> QED BY <2>1, Zenon DEF LocInv
<1> QED BY <1>1, <1>2, <1>3, <1>4, <1>5, Zenon DEF Next

\* A store behind the end of the line does not disturb it.
LEMMA StoreBehind ==
  ASSUME EditorOK, Holds, Len(line) < BufferSize, NEW i \in Nat, NEW c \in Chars \cup {NUL},
         NEW k \in 0 .. Len(line), k <= i
  PROVE  \A j \in 1 .. k : Store(buffer, i, c)[j - 1] = line[j]
<1>1. Len(line) \in Nat /\ BufferSize \in Nat
  BY Constants DEF EditorOK
<1> SUFFICES ASSUME NEW j \in 1 .. k PROVE Store(buffer, i, c)[j - 1] = line[j]
  OBVIOUS
<1>2. j - 1 \in 0 .. BufferSize - 1 /\ j - 1 # i /\ j \in 1 .. Len(line)
  BY <1>1
<1>3. Store(buffer, i, c)[j - 1] = buffer[j - 1]
  <2>1. buffer \in [0 .. BufferSize - 1 -> Chars \cup {NUL}]
    BY DEF EditorOK
  <2>2. \A m \in 0 .. BufferSize - 1 : m # i => Store(buffer, i, c)[m] = buffer[m]
    BY <2>1, StoreOk, Zenon
  <2> QED BY <1>2, <2>2, Zenon
<1> QED BY <1>2, <1>3 DEF Holds

\* Behind a trusted prompt only a character that does not fit is stored out of
\* the buffer.
LEMMA TypeStep ==
  ASSUME EditorOK, PathOK, NEW c \in Chars, Type(c), "line" \notin stray,
         loc = Len(line), Len(line) < BufferSize, cx <= prompt_size + Len(line), Holds
  PROVE  IF Len(line) + 1 < BufferSize
         THEN /\ loc' = Len(line') /\ Len(line') < BufferSize
              /\ cx' <= prompt_size + Len(line') /\ Holds'
         ELSE "line" \in stray'
<1> DEFINE n == Len(line)
<1>1. n \in Nat /\ BufferSize \in Nat \ {0} /\ BufferSize < LocMod /\ LocMod \in Nat \ {0}
  BY Constants DEF EditorOK
<1>2. (loc + 1) % LocMod = n + 1
  BY <1>1, ModSmall
<1>3. /\ loc' = n + 1 /\ cx' = (cx + 1) % Columns /\ line' = Append(line, c)
      /\ buffer' = Store(Store(buffer, n, c), n + 1, NUL)
      /\ stray' = IF \E i \in {n, n + 1} : i >= BufferSize THEN stray \cup {"line"} ELSE stray
  BY <1>2, Zenon DEF Type, Strays
<1>4. CASE ~(n + 1 < BufferSize)
  <2>1. n + 1 >= BufferSize
    BY <1>1, <1>4
  <2> QED BY <1>3, <1>4, <2>1
<1>5. CASE n + 1 < BufferSize
  <2>1. Len(line') = n + 1 /\ line'[n + 1] = c /\ \A j \in 1 .. n : line'[j] = line[j]
    BY <1>3 DEF EditorOK
  <2>2. cx' <= prompt_size + Len(line')
    <3>1. cx \in Nat /\ cx + 1 \in Nat /\ prompt_size \in Nat
      BY Constants DEF EditorOK, PathOK
    <3>2. cx' <= cx + 1 /\ cx' \in Int
      <4>1. (cx + 1) % Columns \in 0 .. Columns - 1 /\ (cx + 1) % Columns <= cx + 1
        BY <3>1, Constants, ModRange
      <4>2. Columns \in Nat
        BY Constants
      <4> QED BY <1>3, <4>1, <4>2
    <3> QED BY <1>1, <2>1, <3>1, <3>2
  <2>3. Holds'
    <3> DEFINE b == Store(buffer, n, c)
    <3>1. b \in [0 .. BufferSize - 1 -> Chars \cup {NUL}] /\ b[n] = c
      BY <1>1, StoreOk DEF EditorOK
    <3>2. \A j \in 1 .. n : b[j - 1] = line[j]
      BY <1>1, StoreBehind
    <3>3. \A j \in 0 .. n : buffer'[j] = b[j]
      <4> SUFFICES ASSUME NEW j \in 0 .. n PROVE buffer'[j] = b[j]
        OBVIOUS
      <4>1. j \in 0 .. BufferSize - 1 /\ j # n + 1 /\ n + 1 \in Nat
        BY <1>1, <1>5
      <4>2. \A m \in 0 .. BufferSize - 1 : m # n + 1 => Store(b, n + 1, NUL)[m] = b[m]
        <5>1. \A f \in [0 .. BufferSize - 1 -> Chars \cup {NUL}], i \in Nat :
                \A m \in 0 .. BufferSize - 1 : m # i => Store(f, i, NUL)[m] = f[m]
          BY Constants DEF Store
        <5> HIDE DEF b
        <5> QED BY <3>1, <4>1, <5>1, Zenon
      <4> QED BY <1>3, <4>1, <4>2
    <3> SUFFICES ASSUME NEW j \in 1 .. n + 1 PROVE buffer'[j - 1] = line'[j]
      BY <2>1 DEF Holds
    <3>4. buffer'[j - 1] = b[j - 1]
      BY <1>1, <3>3
    <3>5. CASE j = n + 1
      BY <1>1, <2>1, <3>1, <3>4, <3>5
    <3>6. CASE j # n + 1
      <4>1. j \in 1 .. n
        BY <1>1, <3>6
      <4> QED BY <2>1, <3>2, <3>4, <4>1
    <3> QED BY <3>5, <3>6
  <2> QED BY <1>3, <1>5, <2>1, <2>2, <2>3
<1> QED BY <1>4, <1>5

\* Behind a trusted prompt backspace finds a character to erase, and erases it
\* on the screen and in the buffer.
LEMMA BackspaceStep ==
  ASSUME EditorOK, PathOK, Backspace, "line" \notin stray,
         loc = Len(line), Len(line) < BufferSize, cx <= prompt_size + Len(line), Holds
  PROVE  /\ stray' = stray
         /\ loc' = Len(line') /\ Len(line') < BufferSize
         /\ cx' <= prompt_size + Len(line') /\ Holds'
<1> DEFINE n == Len(line)
<1>1. n \in Nat /\ BufferSize \in Nat \ {0} /\ BufferSize < LocMod /\ LocMod \in Nat \ {0}
      /\ cx \in Nat /\ prompt_size \in Nat
  BY Constants DEF EditorOK, PathOK
<1>2. /\ cx > prompt_size /\ cx' = cx - 1 /\ buffer' = Store(buffer, n, NUL)
      /\ loc' = (n + LocMod - 1) % LocMod
      /\ stray' = IF \E i \in {n} : i >= BufferSize THEN stray \cup {"line"} ELSE stray
      /\ line' = IF line = <<>> THEN <<>> ELSE Front(line)
  BY DEF Backspace, Erase, Strays
<1>3. n > 0 /\ line # <<>>
  BY <1>1, <1>2
<1>4. loc' = n - 1
  BY <1>1, <1>2, <1>3, ModBack
<1>5. line' = Front(line) /\ Len(line') = n - 1 /\ \A j \in 1 .. n - 1 : line'[j] = line[j]
  BY <1>2, <1>3, FrontOk DEF EditorOK
<1>6. stray' = stray
  BY <1>1, <1>2
<1>7. Holds'
  <2>1. \A j \in 1 .. n : buffer'[j - 1] = line[j]
    BY <1>1, <1>2, StoreBehind
  <2> SUFFICES ASSUME NEW j \in 1 .. n - 1 PROVE buffer'[j - 1] = line'[j]
    BY <1>5 DEF Holds
  <2>2. j \in 1 .. n
    BY <1>1
  <2> QED BY <1>5, <2>1, <2>2
<1>8. Len(line') < BufferSize /\ cx' <= prompt_size + Len(line')
  BY <1>1, <1>2, <1>5
<1> QED BY <1>4, <1>5, <1>6, <1>7, <1>8

\* Enter ends the line in the buffer where it ends on the screen.
LEMMA EnterStep ==
  ASSUME EditorOK, PathOK, Enter, "line" \notin stray,
         loc = Len(line), Len(line) < BufferSize, Holds
  PROVE  stray' = stray /\ Len(line') < BufferSize /\ buffer'[Len(line')] = NUL /\ Holds'
<1> DEFINE n == Len(line)
<1>1. n \in Nat /\ BufferSize \in Nat \ {0}
  BY Constants DEF EditorOK
<1>2. /\ buffer' = Store(buffer, n, NUL) /\ line' = line
      /\ stray' = IF \E i \in {n} : i >= BufferSize THEN stray \cup {"line"} ELSE stray
  BY DEF Enter, Strays
<1>3. stray' = stray
  BY <1>1, <1>2
<1>4. buffer'[n] = NUL
  BY <1>1, <1>2, StoreOk DEF EditorOK
<1>5. Holds'
  <2>1. \A j \in 1 .. n : buffer'[j - 1] = line[j]
    BY <1>1, <1>2, StoreBehind
  <2> QED BY <1>2, <2>1 DEF Holds
<1> QED BY <1>2, <1>3, <1>4, <1>5

\* What FirstOverrun and the two invariants say, for one step.
LEMMA EditSteps ==
  ASSUME EditorOK, PathOK, Flags, LineInv, [Next]_vars
  PROVE  EditInv' /\ CommandInv' /\ FirstOverrun
<1> DEFINE Editing == /\ loc = Len(line) /\ Len(line) < BufferSize
                      /\ cx <= prompt_size + Len(line) /\ Holds
<1>0. pc = "typing" /\ trusted /\ "line" \notin stray => Editing
  BY Zenon DEF LineInv, EditInv
<1>1. CASE Prompt
  <2>1. pc' = "typing" /\ stray' = stray /\ line' = <<>> /\ prompt_size' = prompt_size /\ loc' = loc
        /\ cx' = (cx + PromptWidth) % Columns /\ pc = "prompt"
    BY <1>1, Zenon DEF Prompt
  <2>2. ASSUME trusted' PROVE cx = 0 /\ ~midline /\ prompt_size = PromptWidth
    BY <1>1, <2>2, Zenon DEF Prompt
  <2>3. ASSUME trusted'
        PROVE  loc' = Len(line') /\ Len(line') < BufferSize /\ cx' <= prompt_size' + Len(line') /\ Holds'
    <3>1. pc # "typing"
      BY <2>1
    <3>2. loc' = 0
      BY <2>1, <2>2, <2>3, <3>1, Zenon DEF LineInv, LocInv
    <3>3. Len(line') = 0
      BY <2>1
    <3>4. Holds'
      BY <3>3 DEF Holds
    <3>5. PromptWidth \in Nat
      BY Width
    <3>6. PromptWidth % Columns <= PromptWidth /\ PromptWidth % Columns \in Int
      BY <3>5, Constants, ModRange
    <3>7. cx' <= prompt_size'
      BY <2>1, <2>2, <2>3, <3>5, <3>6
    <3>8. prompt_size' + 0 = prompt_size' /\ 0 < BufferSize
      BY <2>1, Constants DEF PathOK
    <3> QED BY <3>2, <3>3, <3>4, <3>7, <3>8, Zenon
  <2>4. EditInv'
    BY <2>3, Zenon DEF EditInv
  <2>5. pc' # "command"
    BY <2>1
  <2>6. CommandInv'
    BY <2>5, Zenon DEF CommandInv
  <2>7. FirstOverrun
    BY <2>1, Zenon DEF FirstOverrun
  <2> QED BY <2>4, <2>6, <2>7
<1>2. CASE \E c \in Chars : Type(c)
  <2>1. PICK c \in Chars : Type(c)
    BY <1>2
  <2>2. pc = "typing" /\ pc' = "typing" /\ trusted' = trusted /\ prompt_size' = prompt_size
    BY <2>1, Zenon DEF Type
  <2>3. stray \subseteq stray'
    BY <2>1 DEF Type, Strays
  <2>4. ASSUME trusted, "line" \notin stray
        PROVE  IF Len(line) + 1 < BufferSize
               THEN /\ loc' = Len(line') /\ Len(line') < BufferSize
                    /\ cx' <= prompt_size + Len(line') /\ Holds'
               ELSE "line" \in stray'
    BY <1>0, <2>1, <2>2, <2>4, TypeStep
  <2>5. ASSUME trusted', "line" \notin stray'
        PROVE  loc' = Len(line') /\ Len(line') < BufferSize /\ cx' <= prompt_size' + Len(line') /\ Holds'
    <3>1. trusted /\ "line" \notin stray
      BY <2>2, <2>3, <2>5
    <3> QED BY <2>2, <2>4, <2>5, <3>1, Zenon
  <2>6. EditInv'
    BY <2>5, Zenon DEF EditInv
  <2>7. pc' # "command"
    BY <2>2
  <2>8. CommandInv'
    BY <2>7, Zenon DEF CommandInv
  <2>9. ASSUME "line" \notin stray, "line" \in stray', trusted PROVE Len(line) >= BufferSize - 1
    <3>1. Len(line) \in Nat /\ BufferSize \in Nat
      BY Constants DEF EditorOK
    <3>2. (loc + 1) % LocMod = Len(line) + 1 /\ loc = Len(line)
      <4>1. Editing
        BY <1>0, <2>2, <2>9, Zenon
      <4>2. loc + 1 \in 0 .. LocMod - 1
        BY <3>1, <4>1, Constants
      <4> QED BY <4>1, <4>2, Constants, ModSmall
    <3>3. \E i \in {Len(line), Len(line) + 1} : i >= BufferSize
      BY <2>1, <2>9, <3>2 DEF Type, Strays
    <3> QED BY <3>1, <3>3
  <2>10. FirstOverrun
    BY <2>9, Zenon DEF FirstOverrun
  <2> QED BY <2>6, <2>8, <2>10
<1>3. CASE Backspace
  <2>1. pc = "typing" /\ pc' = "typing" /\ trusted' = trusted /\ prompt_size' = prompt_size
    BY <1>3, Zenon DEF Backspace, Erase
  <2>2. stray \subseteq stray'
    BY <1>3 DEF Backspace, Erase, Strays
  <2>3. ASSUME trusted, "line" \notin stray
        PROVE  /\ stray' = stray /\ loc' = Len(line') /\ Len(line') < BufferSize
               /\ cx' <= prompt_size + Len(line') /\ Holds'
    BY <1>0, <1>3, <2>1, <2>3, BackspaceStep
  <2>4. EditInv'
    <3> SUFFICES ASSUME trusted', "line" \notin stray'
                 PROVE  /\ loc' = Len(line') /\ Len(line') < BufferSize
                        /\ cx' <= prompt_size' + Len(line') /\ Holds'
      BY Zenon DEF EditInv
    <3>1. trusted /\ "line" \notin stray
      BY <2>1, <2>2
    <3> QED BY <2>1, <2>3, <3>1, Zenon
  <2>5. pc' # "command"
    BY <2>1
  <2>6. CommandInv'
    BY <2>5, Zenon DEF CommandInv
  <2>7. FirstOverrun
    BY <2>3, Zenon DEF FirstOverrun
  <2> QED BY <2>4, <2>6, <2>7
<1>4. CASE Enter
  <2>1. pc = "typing" /\ pc' = "command" /\ trusted' = trusted
    BY <1>4, Zenon DEF Enter
  <2>2. stray \subseteq stray'
    BY <1>4 DEF Enter, Strays
  <2>3. ASSUME trusted, "line" \notin stray
        PROVE  stray' = stray /\ Len(line') < BufferSize /\ buffer'[Len(line')] = NUL /\ Holds'
    BY <1>0, <1>4, <2>1, <2>3, EnterStep
  <2>4. CommandInv'
    <3> SUFFICES ASSUME trusted', "line" \notin stray'
                 PROVE  Len(line') < BufferSize /\ buffer'[Len(line')] = NUL /\ Holds'
      BY Zenon DEF CommandInv
    <3>1. trusted /\ "line" \notin stray
      BY <2>1, <2>2
    <3> QED BY <2>3, <3>1, Zenon
  <2>5. pc' # "typing"
    BY <2>1
  <2>6. EditInv'
    BY <2>5, Zenon DEF EditInv
  <2>7. FirstOverrun
    BY <2>3, Zenon DEF FirstOverrun
  <2> QED BY <2>4, <2>6, <2>7
<1>5. CASE PlainCommand \/ RunProgram \/ WriteFile \/ Mount \/ CdParent \/ Crash \/ Restart
           \/ \E n \in ArgLengths : CdInto(n)
  <2>1. pc' \in {"prompt", "dead"}
    BY <1>5, Zenon DEF PlainCommand, RunProgram, WriteFile, Mount, CdParent, CdInto, ChangeDir, Crash, Restart
  <2>2. pc' # "typing" /\ pc' # "command"
    BY <2>1
  <2>3. stray' \subseteq stray \cup {"wd", "path", "null"}
    <3>1. CASE WriteFile
      BY <3>1 DEF WriteFile
    <3>2. CASE \E n \in ArgLengths : CdInto(n)
      BY <3>2 DEF CdInto
    <3>3. CASE PlainCommand \/ RunProgram \/ Mount \/ CdParent \/ Crash \/ Restart
      BY <3>3 DEF PlainCommand, RunProgram, Mount, CdParent, Crash, Restart
    <3> QED BY <1>5, <3>1, <3>2, <3>3
  <2>4. "line" \in stray' => "line" \in stray
    BY <2>3
  <2> QED BY <2>2, <2>4, Zenon DEF EditInv, CommandInv, FirstOverrun
<1>6. CASE ForeignOutput
  <2>1. ~trusted' /\ stray' = stray
    BY <1>6, Zenon DEF ForeignOutput
  <2> QED BY <2>1, Zenon DEF EditInv, CommandInv, FirstOverrun
<1>7. CASE UNCHANGED vars
  BY <1>7, Zenon DEF vars, LineInv, EditInv, CommandInv, FirstOverrun, Holds
<1> QED BY <1>1, <1>2, <1>3, <1>4, <1>5, <1>6, <1>7, Zenon DEF Next

LEMMA LineSteps ==
  ASSUME TypeOK, LineInv, [Next]_vars
  PROVE  LineInv' /\ FirstOverrun
<1>1. Flags /\ EditorOK /\ PathOK
  BY TypeParts
<1>2. EditInv' /\ CommandInv' /\ FirstOverrun
  BY <1>1, EditSteps
<1>3. LocInv'
  BY LocSteps DEF LineInv
<1> QED BY <1>2, <1>3, Zenon DEF LineInv

\* The two invariants, which LineShown and OverrunExplained rest on.
THEOREM LinesKept == Spec => []LineInv
<1>1. Init => LineInv
  <2> SUFFICES ASSUME Init PROVE LineInv
    OBVIOUS
  <2>1. loc = 0 /\ ~trusted
    BY Zenon DEF Init
  <2> QED BY <2>1, Zenon DEF LineInv, LocInv, EditInv, CommandInv
<1>2. TypeOK /\ LineInv /\ [Next]_vars => LineInv'
  BY LineSteps
<1> QED BY <1>1, <1>2, TerminalTypes, PTL DEF Spec

\* LineShown: what is executed is what is on the screen.
THEOREM AlwaysShown == Spec => []LineShown
<1>1. LineInv => LineShown
  <2> SUFFICES ASSUME LineInv, trusted, pc \in {"typing", "command"}, "line" \notin stray
               PROVE  /\ Holds
                      /\ pc = "typing" => loc = Len(line)
                      /\ pc = "command" => buffer[Len(line)] = NUL
    BY Zenon DEF LineShown, Holds
  <2>1. CASE pc = "typing"
    <3>1. pc # "command"
      BY <2>1
    <3> QED BY <2>1, <3>1, Zenon DEF LineInv, EditInv
  <2>2. CASE pc = "command"
    <3>1. pc # "typing"
      BY <2>2
    <3> QED BY <2>2, <3>1, Zenon DEF LineInv, CommandInv
  <2> QED BY <2>1, <2>2, Zenon
<1> QED BY <1>1, LinesKept, PTL

\* OverrunExplained: behind a prompt that is where backspace takes it to be
\* the buffer is overrun only by a line that does not fit.
THEOREM AlwaysExplained == Spec => OverrunExplained
<1>1. TypeOK /\ LineInv /\ [Next]_vars => [FirstOverrun]_vars
  BY LineSteps
<1> QED BY <1>1, TerminalTypes, LinesKept, PTL DEF Spec, OverrunExplained

-----------------------------------------------------------------------------
(* Login. *)

\* As long as the line has fitted, the buffer is the line and zeros behind it.
LoginInv ==
  ~wild =>
    /\ l = Len(typed) /\ l < BufSize
    /\ \A i \in 1 .. Len(typed) : login_buffer[i - 1] = typed[i]
    /\ \A j \in Len(typed) .. BufSize - 1 : login_buffer[j] = Zero

LEMMA LoginConstants ==
  /\ Zero \notin Keys /\ BufSize \in Nat /\ BufSize > 0
  /\ root \in Seq(Keys) /\ Len(root) \in Nat /\ Len(root) < BufSize
  /\ toor \in Seq(Keys) /\ Len(toor) \in Nat /\ Len(toor) < BufSize
<1>1. /\ Zero \notin Keys /\ BufSize \in Nat
      /\ root \in Seq(Keys) /\ Len(root) < BufSize
      /\ toor \in Seq(Keys) /\ Len(toor) < BufSize
  BY LoginAssumption
<1>2. Len(root) \in Nat /\ Len(toor) \in Nat
  BY <1>1
<1> QED BY <1>1, <1>2

\* strcmp compares what has been typed, in full.
LEMMA MatchesExact ==
  ASSUME LoginTypeOK, LoginInv, ~wild,
         NEW word \in Seq(Keys), Len(word) < BufSize
  PROVE  Matches(word) <=> typed = word
<1>1. /\ typed \in Seq(Keys) /\ Len(typed) \in Nat /\ Len(word) \in Nat
      /\ Zero \notin Keys /\ BufSize \in Nat
  BY LoginConstants DEF LoginTypeOK
<1>2. /\ l = Len(typed) /\ l < BufSize
      /\ \A i \in 1 .. Len(typed) : login_buffer[i - 1] = typed[i]
      /\ \A j \in Len(typed) .. BufSize - 1 : login_buffer[j] = Zero
  BY Zenon DEF LoginInv
<1>3. DOMAIN word = 1 .. Len(word) /\ DOMAIN typed = 1 .. Len(typed)
  BY <1>1
<1>4. /\ \A i \in 1 .. Len(word) : word[i] \in Keys
      /\ \A i \in 1 .. Len(typed) : typed[i] \in Keys
  BY <1>1
<1>5. ASSUME typed = word PROVE Matches(word)
  BY <1>1, <1>2, <1>3, <1>5 DEF Matches
<1>6. ASSUME Matches(word) PROVE typed = word
  <2>1. /\ \A i \in 1 .. Len(word) : login_buffer[i - 1] = word[i]
        /\ login_buffer[Len(word)] = Zero
    BY <1>3, <1>6 DEF Matches
  <2>2. ~(Len(typed) < Len(word))
    <3> SUFFICES ASSUME Len(typed) < Len(word) PROVE FALSE
      OBVIOUS
    <3>1. Len(typed) + 1 \in 1 .. Len(word) /\ (Len(typed) + 1) - 1 = Len(typed)
      BY <1>1
    <3>2. login_buffer[Len(typed)] = word[Len(typed) + 1]
      BY <2>1, <3>1
    <3>3. login_buffer[Len(typed)] = Zero
      BY <1>1, <1>2
    <3> QED BY <1>1, <1>4, <3>1, <3>2, <3>3
  <2>3. ~(Len(word) < Len(typed))
    <3> SUFFICES ASSUME Len(word) < Len(typed) PROVE FALSE
      OBVIOUS
    <3>1. Len(word) + 1 \in 1 .. Len(typed) /\ (Len(word) + 1) - 1 = Len(word)
      BY <1>1
    <3>2. login_buffer[Len(word)] = typed[Len(word) + 1]
      BY <1>2, <3>1
    <3> QED BY <1>1, <1>4, <2>1, <3>1, <3>2
  <2>4. Len(word) = Len(typed)
    BY <1>1, <2>2, <2>3
  <2>5. \A i \in 1 .. Len(word) : word[i] = typed[i]
    BY <1>2, <2>1, <2>4
  <2> QED BY <1>1, <2>4, <2>5
<1> QED BY <1>5, <1>6

LEMMA LoginStarts == LoginInit => LoginTypeOK /\ LoginInv
<1> SUFFICES ASSUME LoginInit PROVE LoginTypeOK /\ LoginInv
  OBVIOUS
<1>1. login_buffer = Cleared /\ l = 0 /\ stage = "name" /\ typed = <<>>
  BY DEF LoginInit
<1>2. wild = FALSE
  BY Zenon DEF LoginInit
<1>3. wild \in BOOLEAN
  BY <1>2, Zenon
<1>4. /\ login_buffer \in [0 .. BufSize - 1 -> Keys \cup {Zero}]
      /\ l \in 0 .. BufSize
      /\ stage \in {"name", "password", "accepted"}
      /\ typed \in Seq(Keys)
  BY <1>1, LoginConstants DEF Cleared
<1>5. /\ l = Len(typed) /\ l < BufSize
      /\ \A i \in 1 .. Len(typed) : login_buffer[i - 1] = typed[i]
      /\ \A j \in Len(typed) .. BufSize - 1 : login_buffer[j] = Zero
  BY <1>1, LoginConstants DEF Cleared
<1> QED BY <1>3, <1>4, <1>5, Zenon DEF LoginTypeOK, LoginInv

\* A key is stored behind the line, with a zero behind it.
LEMMA KeyStored ==
  ASSUME LoginTypeOK, LoginInv, NEW c \in Keys, LoginKey(c)
  PROVE  LoginTypeOK' /\ LoginInv'
<1>1. ~wild /\ wild' = (l + 1 >= BufSize) /\ stage' = stage
  BY Zenon DEF LoginKey
<1>2. wild' \in BOOLEAN
  <2>1. (l + 1 >= BufSize) \in BOOLEAN
    OBVIOUS
  <2> QED BY <1>1, <2>1, Zenon
<1>3. ~wild' => ~(l + 1 >= BufSize)
  BY <1>1, Zenon
<1>4. /\ l = Len(typed) /\ l < BufSize
      /\ \A i \in 1 .. Len(typed) : login_buffer[i - 1] = typed[i]
      /\ \A j \in Len(typed) .. BufSize - 1 : login_buffer[j] = Zero
  BY <1>1, Zenon DEF LoginInv
<1>5. /\ login_buffer \in [0 .. BufSize - 1 -> Keys \cup {Zero}]
      /\ stage \in {"name", "password", "accepted"}
      /\ typed \in Seq(Keys)
  BY Zenon DEF LoginTypeOK
<1>6. /\ l' = l + 1 /\ typed' = Append(typed, c)
      /\ login_buffer' = [i \in DOMAIN login_buffer |->
            IF i = l THEN c ELSE IF i = l + 1 THEN Zero ELSE login_buffer[i]]
  BY Zenon DEF LoginKey
<1>7. /\ Len(typed) \in Nat /\ BufSize \in Nat
      /\ DOMAIN login_buffer = 0 .. BufSize - 1
      /\ Len(typed') = Len(typed) + 1 /\ typed' \in Seq(Keys)
      /\ \A i \in 1 .. Len(typed) : typed'[i] = typed[i]
      /\ typed'[Len(typed) + 1] = c
  BY <1>5, <1>6, LoginConstants
<1>8. /\ login_buffer' \in [0 .. BufSize - 1 -> Keys \cup {Zero}]
      /\ l' \in 0 .. BufSize
  BY <1>4, <1>5, <1>6, <1>7
<1>9. ASSUME ~(l + 1 >= BufSize)
      PROVE  /\ l' = Len(typed') /\ l' < BufSize
             /\ \A i \in 1 .. Len(typed') : login_buffer'[i - 1] = typed'[i]
             /\ \A j \in Len(typed') .. BufSize - 1 : login_buffer'[j] = Zero
  <2>1. l' = Len(typed') /\ l' < BufSize
    BY <1>4, <1>6, <1>7, <1>9
  <2>2. ASSUME NEW i \in 1 .. Len(typed') PROVE login_buffer'[i - 1] = typed'[i]
    <3>1. i - 1 \in DOMAIN login_buffer /\ i - 1 <= l /\ i \in 1 .. Len(typed) + 1
      BY <1>4, <1>7, <1>9, <2>2
    <3>2. login_buffer'[i - 1] = IF i - 1 = l THEN c ELSE login_buffer[i - 1]
      BY <1>4, <1>6, <1>7, <3>1
    <3>3. CASE i = Len(typed) + 1
      BY <1>4, <1>7, <3>2, <3>3
    <3>4. CASE i \in 1 .. Len(typed)
      BY <1>4, <1>7, <3>2, <3>4
    <3> QED BY <1>7, <3>1, <3>3, <3>4
  <2>3. ASSUME NEW j \in Len(typed') .. BufSize - 1 PROVE login_buffer'[j] = Zero
    <3>1. j \in DOMAIN login_buffer /\ j # l /\ j \in Len(typed) .. BufSize - 1
      BY <1>4, <1>7, <2>3
    <3>2. login_buffer'[j] = IF j = l + 1 THEN Zero ELSE login_buffer[j]
      BY <1>6, <3>1
    <3> QED BY <1>4, <3>1, <3>2
  <2> QED BY <2>1, <2>2, <2>3
<1> QED BY <1>1, <1>2, <1>3, <1>5, <1>7, <1>8, <1>9, Zenon DEF LoginTypeOK, LoginInv

\* A line that is over leaves a buffer of zeros, or the login's last state.
LEMMA LineDone ==
  ASSUME LoginTypeOK, LoginInv, LoginEnter
  PROVE  LoginTypeOK' /\ LoginInv'
<1>1. ~wild /\ wild' = wild /\ wild \in BOOLEAN
  BY Zenon DEF LoginEnter, LoginTypeOK
<1>2. ASSUME NEW s \in {"name", "password", "accepted"}, Ask(s)
      PROVE  LoginTypeOK' /\ LoginInv'
  <2>1. login_buffer' = Cleared /\ l' = 0 /\ stage' = s /\ typed' = <<>>
    BY <1>2 DEF Ask
  <2>2. /\ login_buffer' \in [0 .. BufSize - 1 -> Keys \cup {Zero}]
        /\ l' \in 0 .. BufSize
        /\ stage' \in {"name", "password", "accepted"}
        /\ typed' \in Seq(Keys)
    BY <2>1, LoginConstants DEF Cleared
  <2>3. /\ l' = Len(typed') /\ l' < BufSize
        /\ \A i \in 1 .. Len(typed') : login_buffer'[i - 1] = typed'[i]
        /\ \A j \in Len(typed') .. BufSize - 1 : login_buffer'[j] = Zero
    BY <2>1, LoginConstants DEF Cleared
  <2> QED BY <1>1, <2>2, <2>3, Zenon DEF LoginTypeOK, LoginInv
<1>3. ASSUME stage' = "accepted", UNCHANGED <<login_buffer, l, typed>>
      PROVE  LoginTypeOK' /\ LoginInv'
  <2>1. stage' \in {"name", "password", "accepted"}
    BY <1>3
  <2> QED BY <1>1, <1>3, <2>1, Zenon DEF LoginTypeOK, LoginInv
<1>4. CASE stage = "name" /\ Ask(IF Matches(root) THEN "password" ELSE "name")
  BY <1>2, <1>4
<1>5. CASE stage = "password" /\ ~Matches(toor) /\ Ask("name")
  BY <1>2, <1>5
<1> QED BY <1>3, <1>4, <1>5, Zenon DEF LoginEnter

\* The end of a line, as LoginExact has it.
LEMMA LineExact ==
  ASSUME LoginTypeOK, LoginInv, LoginEnter
  PROVE  /\ stage' = "accepted" <=> stage = "password" /\ typed = toor
         /\ stage' = "password" <=> stage = "name" /\ typed = root
<1>1. ~wild
  BY Zenon DEF LoginEnter
<1>2. (Matches(root) <=> typed = root) /\ (Matches(toor) <=> typed = toor)
  BY <1>1, MatchesExact, LoginConstants
<1>3. \/ stage = "name" /\ stage' = (IF Matches(root) THEN "password" ELSE "name")
      \/ stage = "password" /\ ~Matches(toor) /\ stage' = "name"
      \/ stage = "password" /\ Matches(toor) /\ stage' = "accepted"
  BY Zenon DEF LoginEnter, Ask
<1> QED BY <1>2, <1>3

-----------------------------------------------------------------------------
(* LateInit. *)

\* The calls of late_init before the one it is at have been made, and their
\* tasks have ended where it waits; the calls behind it have not been made.
ScriptInv ==
  \A i \in DOMAIN Script :
    /\ i < next => /\ Started(Script[i].task)
                   /\ Script[i].wait => task[Script[i].task] = "ended"
    /\ i > next => ~Started(Script[i].task)
    /\ i = next /\ waiting => Started(Script[i].task)
    /\ i = next /\ ~waiting /\ i # LastCall => ~Started(Script[i].task)
    /\ i = next /\ ~waiting /\ i = LastCall => task[Script[i].task] # "running"

\* The login ends only by accepting, or over its buffer.
LoginEnded == task["login"] = "ended" => stage = "accepted" \/ wild

BootInv == BootTypeOK /\ ScriptInv /\ LoginEnded /\ LoginInv

LEMMA ScriptLength == DOMAIN Script = 1 .. 14 /\ LastCall = 14
BY DEF Script, LastCall

LEMMA ScriptTasks ==
  /\ Script[1].task = "kbd_init" /\ Script[2].task = "vfs_init"
  /\ Script[3].task = "loader_init" /\ Script[4].task = "cursor_update"
  /\ Script[5].task = "devicemm" /\ Script[6].task = "testdev"
  /\ Script[7].task = "elf_init" /\ Script[8].task = "rtc_init"
  /\ Script[9].task = "fdc_init" /\ Script[10].task = "ata_init"
  /\ Script[11].task = "mod_init" /\ Script[12].task = "pci_init"
  /\ Script[13].task = "login" /\ Script[14].task = "_test"
BY DEF Script, Start, StartAndWait

LEMMA ScriptWaits ==
  /\ Script[5].wait /\ Script[9].wait /\ Script[13].wait /\ Script[14].wait
BY DEF Script, Start, StartAndWait

\* No task is named twice.
LEMMA ScriptDistinct ==
  ASSUME NEW i \in 1 .. 14, NEW j \in 1 .. 14, Script[i].task = Script[j].task
  PROVE  i = j
<1>1. i \in {1, 2, 3, 4, 5, 6, 7, 8, 9, 10, 11, 12, 13, 14}
  OBVIOUS
<1>2. j \in {1, 2, 3, 4, 5, 6, 7, 8, 9, 10, 11, 12, 13, 14}
  OBVIOUS
<1> HIDE DEF Script
<1> QED BY <1>1, <1>2, ScriptTasks

\* Where the tasks of the script are known.
LEMMA TaskOf ==
  ASSUME NEW i \in 1 .. 14
  PROVE  Script[i].task \in Tasks
BY ScriptLength DEF Tasks

LEMMA TypeOfBoot ==
  ASSUME BootTypeOK
  PROVE  /\ next \in 1 .. 14 /\ waiting \in BOOLEAN
         /\ task \in [Tasks -> {"unborn", "running", "ended"}]
         /\ LoginTypeOK
BY ScriptLength, Zenon DEF BootTypeOK

\* START changes the state of one task.
LEMMA OneStarted ==
  ASSUME BootTypeOK, START, NEW i \in 1 .. 14
  PROVE  task'[Script[i].task] = IF i = next THEN "running" ELSE task[Script[i].task]
<1>1. next \in 1 .. 14 /\ task \in [Tasks -> {"unborn", "running", "ended"}]
  BY TypeOfBoot, Zenon
<1>2. task' = [task EXCEPT ![Script[next].task] = "running"]
  BY Zenon DEF START, Awaited
<1>3. Script[i].task \in Tasks /\ Script[next].task \in Tasks
  BY <1>1, TaskOf
<1>4. i # next => Script[i].task # Script[next].task
  BY <1>1, ScriptDistinct
<1> QED BY <1>1, <1>2, <1>3, <1>4

\* Where late_init is after a call.
LEMMA CallAfter ==
  ASSUME NEW i \in 1 .. 14
  PROVE  /\ After(i) \in 1 .. 14
         /\ i # LastCall => After(i) = i + 1
         /\ i = LastCall => After(i) = i
BY ScriptLength DEF After

\* The call and the wait keep ScriptInv.
LEMMA StartKeeps == BootTypeOK /\ ScriptInv /\ START => ScriptInv'
<1> SUFFICES ASSUME BootTypeOK, ScriptInv, START, NEW i \in 1 .. 14
             PROVE  /\ i < next' => /\ Started(Script[i].task)'
                                    /\ Script[i].wait => task'[Script[i].task] = "ended"
                    /\ i > next' => ~Started(Script[i].task)'
                    /\ i = next' /\ waiting' => Started(Script[i].task)'
                    /\ i = next' /\ ~waiting' /\ i # LastCall => ~Started(Script[i].task)'
                    /\ i = next' /\ ~waiting' /\ i = LastCall => task'[Script[i].task] # "running"
  BY ScriptLength DEF ScriptInv
<1>1. next \in 1 .. 14 /\ ~waiting
  BY TypeOfBoot, Zenon DEF START
<1>2. task'[Script[i].task] = IF i = next THEN "running" ELSE task[Script[i].task]
  BY OneStarted
<1>3. /\ i < next => /\ Started(Script[i].task)
                     /\ Script[i].wait => task[Script[i].task] = "ended"
      /\ i > next => ~Started(Script[i].task)
  BY ScriptLength, Zenon DEF ScriptInv
<1>4. CASE Script[next].wait
  <2>1. waiting' = TRUE /\ next' = next
    BY <1>4, Zenon DEF START
  <2>2. waiting'
    BY <2>1, Zenon
  <2>3. /\ i < next => /\ Started(Script[i].task)'
                       /\ Script[i].wait => task'[Script[i].task] = "ended"
        /\ i > next => ~Started(Script[i].task)'
        /\ i = next => Started(Script[i].task)'
    BY <1>1, <1>2, <1>3 DEF Started
  <2> QED BY <2>1, <2>2, <2>3, Zenon
<1>5. CASE ~Script[next].wait
  <2>1. next' = After(next) /\ waiting' = waiting
    BY <1>5, Zenon DEF START
  <2>2. ~waiting'
    BY <1>1, <2>1, Zenon
  <2>3. next # LastCall
    BY <1>5, ScriptWaits, ScriptLength
  <2>4. next' = next + 1
    BY <1>1, <2>1, <2>3, CallAfter
  <2>5. i = next => ~Script[i].wait
    BY <1>5
  <2>6. /\ i < next' => /\ Started(Script[i].task)'
                        /\ Script[i].wait => task'[Script[i].task] = "ended"
        /\ i > next' => ~Started(Script[i].task)'
        /\ i = next' => ~Started(Script[i].task)'
        /\ i = next' => task'[Script[i].task] # "running"
    BY <1>1, <1>2, <1>3, <2>4, <2>5 DEF Started
  <2> QED BY <2>2, <2>6, Zenon
<1> QED BY <1>4, <1>5

LEMMA WaitKeeps == BootTypeOK /\ ScriptInv /\ WaitEnds => ScriptInv'
<1> SUFFICES ASSUME BootTypeOK, ScriptInv, WaitEnds, NEW i \in 1 .. 14
             PROVE  /\ i < next' => /\ Started(Script[i].task)'
                                    /\ Script[i].wait => task'[Script[i].task] = "ended"
                    /\ i > next' => ~Started(Script[i].task)'
                    /\ i = next' /\ waiting' => Started(Script[i].task)'
                    /\ i = next' /\ ~waiting' /\ i # LastCall => ~Started(Script[i].task)'
                    /\ i = next' /\ ~waiting' /\ i = LastCall => task'[Script[i].task] # "running"
  BY ScriptLength DEF ScriptInv
<1>1. next \in 1 .. 14 /\ task \in [Tasks -> {"unborn", "running", "ended"}]
  BY TypeOfBoot, Zenon
<1>2. /\ waiting /\ task[Script[next].task] # "running"
      /\ waiting' = FALSE /\ next' = After(next) /\ task' = task
  BY Zenon DEF WaitEnds, Awaited
<1>3. ~waiting'
  BY <1>2, Zenon
<1>4. /\ i < next => /\ Started(Script[i].task)
                     /\ Script[i].wait => task[Script[i].task] = "ended"
      /\ i > next => ~Started(Script[i].task)
      /\ i = next => Started(Script[i].task)
  BY <1>2, ScriptLength, Zenon DEF ScriptInv
<1>5. task[Script[next].task] # "running" /\ next' = After(next) /\ task' = task
  BY <1>2, Zenon
<1>6. i = next => task[Script[i].task] = "ended"
  <2>1. Script[i].task \in Tasks
    BY TaskOf
  <2> QED BY <1>1, <1>4, <1>5, <2>1 DEF Started
<1>7. CASE next = LastCall
  <2>1. next' = next /\ next = 14
    BY <1>1, <1>5, <1>7, CallAfter, ScriptLength
  <2>2. /\ i < next' => /\ Started(Script[i].task)'
                        /\ Script[i].wait => task'[Script[i].task] = "ended"
        /\ i > next' => ~Started(Script[i].task)'
        /\ i = next' => task'[Script[i].task] # "running" /\ i = LastCall
    BY <1>1, <1>4, <1>5, <1>6, <1>7, <2>1 DEF Started
  <2> QED BY <1>3, <2>2, Zenon
<1>8. CASE next # LastCall
  <2>1. next' = next + 1
    BY <1>1, <1>5, <1>8, CallAfter
  <2>2. /\ i < next' => /\ Started(Script[i].task)'
                        /\ Script[i].wait => task'[Script[i].task] = "ended"
        /\ i > next' => ~Started(Script[i].task)'
        /\ i = next' => ~Started(Script[i].task)'
        /\ i = next' => task'[Script[i].task] # "running"
    BY <1>1, <1>4, <1>5, <1>6, <2>1 DEF Started
  <2> QED BY <1>3, <2>2, Zenon
<1> QED BY <1>7, <1>8

\* A task that ends, late_init standing where it is.
LEMMA EndKeeps ==
  ASSUME BootTypeOK, ScriptInv, NEW t \in Tasks, Ends(t)
  PROVE  ScriptInv'
<1>1. task \in [Tasks -> {"unborn", "running", "ended"}]
  BY TypeOfBoot, Zenon
<1>2. /\ task[t] = "running" /\ task' = [task EXCEPT ![t] = "ended"]
      /\ next' = next /\ waiting' = waiting
  BY Zenon DEF Ends
<1>3. ASSUME NEW i \in 1 .. 14
      PROVE  \/ task'[Script[i].task] = task[Script[i].task]
             \/ task[Script[i].task] = "running" /\ task'[Script[i].task] = "ended"
  <2>1. Script[i].task \in Tasks
    BY TaskOf
  <2>2. task[t] = "running" /\ task' = [task EXCEPT ![t] = "ended"]
    BY <1>2, Zenon
  <2> QED BY <1>1, <2>1, <2>2
<1>4. ASSUME NEW i \in 1 .. 14
      PROVE  /\ Started(Script[i].task)' <=> Started(Script[i].task)
             /\ task[Script[i].task] = "ended" => task'[Script[i].task] = "ended"
             /\ task[Script[i].task] # "running" => task'[Script[i].task] # "running"
  BY <1>3 DEF Started
<1> QED BY <1>2, <1>4, ScriptLength, Zenon DEF ScriptInv

LEMMA NamesAreTasks ==
  /\ {"cursor_update", "devicemm", "testdev", "fdc_init", "ata_init",
      "mod_init", "pci_init", "login", "_test"} \subseteq Tasks
  /\ "login" # "_test"
<1>1. /\ Script[4].task \in Tasks /\ Script[5].task \in Tasks /\ Script[6].task \in Tasks
      /\ Script[9].task \in Tasks /\ Script[10].task \in Tasks /\ Script[11].task \in Tasks
      /\ Script[12].task \in Tasks /\ Script[13].task \in Tasks /\ Script[14].task \in Tasks
  BY TaskOf
<1> QED BY <1>1, ScriptTasks

\* The steps of the boot by what they do to the login: nothing, a key, or the
\* end of a line; and to the tasks: late_init goes on, one task ends, or none.
LEMMA BootSteps ==
  ASSUME BootTypeOK, [BootNext]_bootvars
  PROVE  \/ (START \/ WaitEnds) /\ UNCHANGED login
         \/ \E t \in Tasks \ {"login"} : Ends(t) /\ UNCHANGED login
         \/ Ends("login") /\ wild /\ UNCHANGED login
         \/ task["login"] = "running" /\ (\E c \in Keys : LoginKey(c)) /\ UNCHANGED boot
         \/ /\ task["login"] = "running" /\ LoginEnter
            /\ IF stage' = "accepted" THEN Ends("login") ELSE UNCHANGED boot
         \/ UNCHANGED <<boot, login>>
<1>1. "cursor_update" \in Tasks \ {"login"}
  BY NamesAreTasks
<1>2. CASE \E t \in Tasks : TaskEnds(t)
  BY <1>2, Zenon DEF TaskEnds
<1>3. CASE KillCursor
  BY <1>1, <1>3, Zenon DEF KillCursor
<1>4. CASE late_init
  BY <1>4, Zenon DEF late_init, START, WaitEnds
<1>5. CASE schedule_noirq \/ UNCHANGED bootvars
  BY <1>5, Zenon DEF schedule_noirq, bootvars
<1>6. CASE KeyTyped
  BY <1>6, Zenon DEF KeyTyped
<1>7. CASE LineTyped
  BY <1>7, Zenon DEF LineTyped
<1>8. CASE LoginCrash
  BY <1>8, Zenon DEF LoginCrash
<1> QED BY <1>2, <1>3, <1>4, <1>5, <1>6, <1>7, <1>8, Zenon DEF BootNext

LEMMA LoginUnchanged ==
  ASSUME UNCHANGED login
  PROVE  /\ LoginTypeOK => LoginTypeOK'
         /\ LoginInv => LoginInv'
         /\ stage' = stage /\ typed' = typed /\ wild' = wild
BY Zenon DEF login, LoginTypeOK, LoginInv

LEMMA BootUnchanged ==
  ASSUME UNCHANGED boot
  PROVE  next' = next /\ waiting' = waiting /\ task' = task
BY Zenon DEF boot

LEMMA BootStarts == BootInit => BootInv
<1> SUFFICES ASSUME BootInit PROVE BootInv
  OBVIOUS
<1>1. LoginTypeOK /\ LoginInv
  BY LoginStarts, Zenon DEF BootInit
<1>2. next = 1 /\ task = [t \in Tasks |-> "unborn"]
  BY DEF BootInit
<1>3. waiting = FALSE
  BY Zenon DEF BootInit
<1>4. waiting \in BOOLEAN /\ ~waiting
  BY <1>3, Zenon
<1>5. next \in DOMAIN Script /\ task \in [Tasks -> {"unborn", "running", "ended"}]
  BY <1>2, ScriptLength
<1>6. ASSUME NEW i \in 1 .. 14
      PROVE  /\ ~(i < next)
             /\ ~Started(Script[i].task) /\ task[Script[i].task] # "running"
  BY <1>2, TaskOf DEF Started
<1>7. ScriptInv
  BY <1>4, <1>6, ScriptLength, Zenon DEF ScriptInv
<1>8. task["login"] # "ended"
  BY <1>2, NamesAreTasks
<1> QED BY <1>1, <1>4, <1>5, <1>7, <1>8, Zenon DEF BootInv, BootTypeOK, LoginEnded

\* What each of these steps keeps of the state of late_init and its tasks.
LEMMA BootTyped ==
  ASSUME BootTypeOK,
         \/ START \/ WaitEnds
         \/ \E t \in Tasks : Ends(t)
         \/ UNCHANGED boot
  PROVE  /\ next' \in DOMAIN Script /\ waiting' \in BOOLEAN
         /\ task' \in [Tasks -> {"unborn", "running", "ended"}]
<1>1. /\ next \in 1 .. 14 /\ waiting \in BOOLEAN
      /\ task \in [Tasks -> {"unborn", "running", "ended"}]
  BY TypeOfBoot, Zenon
<1>2. After(next) \in DOMAIN Script /\ next \in DOMAIN Script
  BY <1>1, CallAfter, ScriptLength
<1>3. CASE START
  <2>1. next' \in {next, After(next)} /\ waiting' \in {TRUE, waiting}
    BY <1>3, Zenon DEF START
  <2>2. task' = [task EXCEPT ![Awaited] = "running"]
    BY <1>3, Zenon DEF START
  <2>3. task' \in [Tasks -> {"unborn", "running", "ended"}]
    BY <1>1, <2>2
  <2> QED BY <1>1, <1>2, <2>1, <2>3, Zenon
<1>4. CASE WaitEnds
  BY <1>1, <1>2, <1>4, Zenon DEF WaitEnds
<1>5. ASSUME NEW t \in Tasks, Ends(t)
      PROVE  /\ next' = next /\ waiting' = waiting
             /\ task' \in [Tasks -> {"unborn", "running", "ended"}]
  <2>1. task' = [task EXCEPT ![t] = "ended"]
    BY <1>5, Zenon DEF Ends
  <2>2. task' \in [Tasks -> {"unborn", "running", "ended"}]
    BY <1>1, <2>1
  <2> QED BY <1>5, <2>2, Zenon DEF Ends
<1>6. CASE UNCHANGED boot
  BY <1>1, <1>2, <1>6, BootUnchanged, Zenon
<1> QED BY <1>1, <1>2, <1>3, <1>4, <1>5, <1>6, Zenon

\* A task of another name does not touch the login's, and neither does late_init
\* once the login has ended.
LEMMA OthersEnd ==
  ASSUME BootTypeOK, NEW t \in Tasks \ {"login"}, Ends(t)
  PROVE  task'["login"] = task["login"]
<1>1. task \in [Tasks -> {"unborn", "running", "ended"}]
  BY TypeOfBoot, Zenon
<1>2. task' = [task EXCEPT ![t] = "ended"]
  BY Zenon DEF Ends
<1> QED BY <1>1, <1>2, NamesAreTasks

LEMMA LoginStarted ==
  ASSUME BootTypeOK, START, task'["login"] = "ended"
  PROVE  task["login"] = "ended"
<1>1. task'[Script[13].task] = IF 13 = next THEN "running" ELSE task[Script[13].task]
  BY OneStarted
<1> QED BY <1>1, ScriptTasks

LEMMA BootStep == BootInv /\ [BootNext]_bootvars => BootInv'
<1> SUFFICES ASSUME BootInv, [BootNext]_bootvars PROVE BootInv'
  OBVIOUS
<1>0. BootTypeOK /\ ScriptInv /\ LoginEnded /\ LoginInv /\ LoginTypeOK
  BY Zenon DEF BootInv, BootTypeOK
<1>1. ASSUME next' \in DOMAIN Script, waiting' \in BOOLEAN,
             task' \in [Tasks -> {"unborn", "running", "ended"}], LoginTypeOK'
      PROVE  BootTypeOK'
  BY <1>1, Zenon DEF BootTypeOK
<1>s. "login" \in Tasks /\ "running" # "ended"
  BY NamesAreTasks
<1>2. CASE (START \/ WaitEnds) /\ UNCHANGED login
  <2>1. BootTypeOK' /\ LoginInv'
    BY <1>0, <1>1, <1>2, BootTyped, LoginUnchanged, Zenon
  <2>2. ScriptInv'
    BY <1>0, <1>2, StartKeeps, WaitKeeps, Zenon
  <2>3. task'["login"] = "ended" => task["login"] = "ended"
    BY <1>0, <1>2, LoginStarted, Zenon DEF WaitEnds
  <2>4. LoginEnded'
    BY <1>0, <1>2, <2>3, LoginUnchanged, Zenon DEF LoginEnded
  <2> QED BY <2>1, <2>2, <2>4, Zenon DEF BootInv
<1>3. ASSUME NEW t \in Tasks \ {"login"}, Ends(t), UNCHANGED login PROVE BootInv'
  <2>1. BootTypeOK' /\ LoginInv'
    BY <1>0, <1>1, <1>3, BootTyped, LoginUnchanged, Zenon
  <2>2. ScriptInv'
    BY <1>0, <1>3, EndKeeps, Zenon
  <2>3. LoginEnded'
    BY <1>0, <1>3, OthersEnd, LoginUnchanged, Zenon DEF LoginEnded
  <2> QED BY <2>1, <2>2, <2>3, Zenon DEF BootInv
<1>4. CASE Ends("login") /\ wild /\ UNCHANGED login
  <2>1. BootTypeOK' /\ LoginInv'
    BY <1>0, <1>1, <1>4, <1>s, BootTyped, LoginUnchanged, Zenon
  <2>2. ScriptInv'
    BY <1>0, <1>4, <1>s, EndKeeps, Zenon
  <2>3. LoginEnded'
    BY <1>4, LoginUnchanged, Zenon DEF LoginEnded
  <2> QED BY <2>1, <2>2, <2>3, Zenon DEF BootInv
<1>b. ASSUME UNCHANGED boot PROVE ScriptInv'
  <2>1. next' = next /\ waiting' = waiting /\ task' = task
    BY <1>b, BootUnchanged, Zenon
  <2>2. ASSUME NEW i \in 1 .. 14
        PROVE  /\ Started(Script[i].task)' <=> Started(Script[i].task)
               /\ task'[Script[i].task] = task[Script[i].task]
    BY <2>1, Zenon DEF Started
  <2> QED BY <1>0, <2>1, <2>2, ScriptLength, Zenon DEF ScriptInv
<1>5. CASE task["login"] = "running" /\ (\E c \in Keys : LoginKey(c)) /\ UNCHANGED boot
  <2>1. LoginTypeOK' /\ LoginInv'
    BY <1>0, <1>5, KeyStored, Zenon
  <2>2. BootTypeOK'
    BY <1>0, <1>1, <1>5, <2>1, BootTyped, Zenon
  <2>3. LoginEnded'
    BY <1>5, <1>s, BootUnchanged, Zenon DEF LoginEnded
  <2> QED BY <1>5, <1>b, <2>1, <2>2, <2>3, Zenon DEF BootInv
<1>6. CASE /\ task["login"] = "running" /\ LoginEnter
           /\ IF stage' = "accepted" THEN Ends("login") ELSE UNCHANGED boot
  <2>1. LoginTypeOK' /\ LoginInv'
    BY <1>0, <1>6, LineDone, Zenon
  <2>2. BootTypeOK'
    BY <1>0, <1>1, <1>6, <1>s, <2>1, BootTyped, Zenon
  <2>3. ScriptInv'
    BY <1>0, <1>6, <1>b, <1>s, EndKeeps, Zenon
  <2>4. LoginEnded'
    BY <1>6, <1>s, BootUnchanged, Zenon DEF LoginEnded
  <2> QED BY <2>1, <2>2, <2>3, <2>4, Zenon DEF BootInv
<1>7. CASE UNCHANGED <<boot, login>>
  <2>1. UNCHANGED boot /\ UNCHANGED login
    BY <1>7, Zenon
  <2>2. LoginTypeOK' /\ LoginInv'
    BY <1>0, <2>1, LoginUnchanged, Zenon
  <2>3. BootTypeOK'
    BY <1>0, <1>1, <2>1, <2>2, BootTyped, Zenon
  <2>4. LoginEnded'
    BY <1>0, <2>1, BootUnchanged, LoginUnchanged, Zenon DEF LoginEnded
  <2> QED BY <1>b, <2>1, <2>2, <2>3, <2>4, Zenon DEF BootInv
<1> QED BY <1>0, <1>2, <1>3, <1>4, <1>5, <1>6, <1>7, BootSteps, Zenon

\* The inductive invariant of the boot.
THEOREM BootInvariance == BootSpec => []BootInv
BY BootStarts, BootStep, PTL DEF BootSpec

\* late_init never runs past its last call and the login's index never past the
\* end of its buffer, whatever is typed.
THEOREM BootTypes == BootSpec => []BootTypeOK
<1>1. BootInv => BootTypeOK
  BY Zenon DEF BootInv
<1> QED BY <1>1, BootInvariance, PTL

\* BootOrder: however the tasks interleave, and whichever of them hang or end.
THEOREM BootOrdered == BootSpec => []BootOrder
<1>1. BootInv => BootOrder
  <2> SUFFICES ASSUME BootInv PROVE BootOrder
    OBVIOUS
  <2>1. next \in 1 .. 14 /\ LoginEnded
    BY TypeOfBoot, Zenon DEF BootInv
  <2>2. ASSUME NEW i \in 1 .. 14
        PROVE  /\ i < next /\ Script[i].wait => task[Script[i].task] = "ended"
               /\ i > next => ~Started(Script[i].task)
    BY ScriptLength, Zenon DEF BootInv, ScriptInv
  <2>3. ASSUME NEW i \in 1 .. 14, NEW j \in 1 .. 14, i < j, Script[i].wait,
               Started(Script[j].task)
        PROVE  task[Script[i].task] = "ended"
    <3>1. i < next
      BY <2>1, <2>2, <2>3
    <3> QED BY <2>2, <2>3, <3>1
  <2>4. \A j \in {6, 9, 10, 11, 12} : Started(Script[j].task) => task[Script[5].task] = "ended"
    BY <2>3, ScriptWaits
  <2>5. \A t \in {"testdev", "fdc_init", "ata_init", "mod_init", "pci_init"} :
          Started(t) => task["devicemm"] = "ended"
    BY <2>4, ScriptTasks
  <2>6. ~(task["fdc_init"] = "running" /\ task["ata_init"] = "running")
    <3>1. Started(Script[10].task) => task[Script[9].task] = "ended"
      BY <2>3, ScriptWaits
    <3> QED BY <3>1, ScriptTasks DEF Started
  <2>7. Started("_test") => task["login"] = "ended"
    <3>1. Started(Script[14].task) => task[Script[13].task] = "ended"
      BY <2>3, ScriptWaits
    <3> QED BY <3>1, ScriptTasks
  <2> QED BY <2>1, <2>5, <2>6, <2>7, Zenon DEF BootOrder, LoginEnded
<1> QED BY <1>1, BootInvariance, PTL

\* LoginExact: for any two words that fit and any keys, backspace among them.
THEOREM LoginAlwaysExact == BootSpec => LoginExact
<1>1. BootInv /\ [BootNext]_bootvars => [LoginStep]_login
  <2> SUFFICES ASSUME BootInv, [BootNext]_bootvars, ~(UNCHANGED login) PROVE LoginStep
    OBVIOUS
  <2>0. BootTypeOK /\ LoginInv /\ LoginTypeOK
    BY Zenon DEF BootInv, BootTypeOK
  <2>1. CASE \E c \in Keys : LoginKey(c)
    <3>1. PICK c \in Keys : LoginKey(c)
      BY <2>1
    <3>2. stage' = stage /\ typed' = Append(typed, c) /\ typed \in Seq(Keys)
      BY <2>0, <3>1, Zenon DEF LoginKey, LoginTypeOK
    <3>3. typed' # <<>>
      BY <3>2
    <3> QED BY <3>2, <3>3, Zenon DEF LoginStep, LineEnds
  <2>2. CASE LoginEnter
    BY <2>0, <2>2, LineExact, Zenon DEF LoginStep
  <2> QED BY <2>0, <2>1, <2>2, BootSteps, Zenon
<1> QED BY <1>1, BootInvariance, PTL DEF BootSpec, LoginExact

\* Each task is started at most once, and the terminal again only after it has
\* ended.
StartStep ==
  \A t \in Tasks : task'[t] # task[t] =>
    \/ task[t] = "unborn" /\ task'[t] = "running"
    \/ task[t] = "running" /\ task'[t] = "ended"
    \/ t = "_test" /\ task[t] = "ended" /\ task'[t] = "running"

StartedInTurn == [][StartStep]_bootvars

\* late_init never starts a second instance of a task that is running, nor a
\* driver, or the login, that has ended.
THEOREM AlwaysInTurn == BootSpec => StartedInTurn
<1>1. BootInv /\ [BootNext]_bootvars => StartStep
  <2> SUFFICES ASSUME BootInv, [BootNext]_bootvars PROVE StartStep
    OBVIOUS
  <2>0. BootTypeOK /\ ScriptInv
    BY Zenon DEF BootInv
  <2>t. next \in 1 .. 14 /\ task \in [Tasks -> {"unborn", "running", "ended"}]
    BY <2>0, TypeOfBoot, Zenon
  <2>1. CASE START
    <3> SUFFICES ASSUME NEW t \in Tasks, task'[t] # task[t]
                 PROVE  \/ task[t] = "unborn" /\ task'[t] = "running"
                        \/ t = "_test" /\ task[t] = "ended" /\ task'[t] = "running"
      BY Zenon DEF StartStep
    <3>1. PICK i \in 1 .. 14 : t = Script[i].task
      BY ScriptLength DEF Tasks
    <3>2. i = next /\ task'[t] = "running"
      BY <2>0, <2>1, <3>1, OneStarted
    <3>3. ~waiting
      BY <2>1, Zenon DEF START
    <3>4. /\ i # LastCall => ~Started(Script[i].task)
          /\ i = LastCall => task[Script[i].task] # "running"
      BY <2>0, <3>2, <3>3, ScriptLength, Zenon DEF ScriptInv
    <3>5. i = LastCall => t = "_test"
      BY <3>1, ScriptTasks, ScriptLength
    <3> QED BY <2>t, <3>1, <3>2, <3>4, <3>5 DEF Started
  <2>2. ASSUME NEW s \in Tasks, Ends(s) PROVE StartStep
    <3>1. task[s] = "running" /\ task' = [task EXCEPT ![s] = "ended"]
      BY <2>2, Zenon DEF Ends
    <3> QED BY <2>t, <3>1 DEF StartStep
  <2>3. ASSUME task' = task PROVE StartStep
    BY <2>3 DEF StartStep
  <2>4. CASE WaitEnds \/ UNCHANGED boot
    BY <2>3, <2>4, BootUnchanged, Zenon DEF WaitEnds
  <2>5. "login" \in Tasks
    BY NamesAreTasks
  <2>6. CASE UNCHANGED <<boot, login>>
    <3>1. UNCHANGED boot
      BY <2>6, Zenon
    <3> QED BY <2>4, <3>1
  <2> QED BY <2>0, <2>1, <2>2, <2>4, <2>5, <2>6, BootSteps, Zenon
<1> QED BY <1>1, BootInvariance, PTL DEF BootSpec, StartedInTurn

=============================================================================
