------------------------------ MODULE Terminal ------------------------------
(***************************************************************************)
(* The kernel terminal _test of kernel/main.c: its line editor, the        *)
(* commands that change its state, and its restart by late_init after a    *)
(* crash.  The display, the keyboard and the commands' own work are        *)
(* external; of the display only the column con.cx is kept.                *)
(*                                                                         *)
(* One key is one step.  Other tasks print on the same display between any *)
(* two steps (they are not waited for, see LateInit).                      *)
(***************************************************************************)
EXTENDS Integers, Sequences, SequencesExt

CONSTANTS
  Chars,        \* the characters of a line
  NUL,
  BufferSize,   \* 256
  Columns,      \* 80
  KernelPrompt, \* strlen("(kernel) $ ")
  RootPrompt,   \* strlen(username) + strlen(hostname) + 4
  PromptMod,    \* 2^8, the modulus of prompt_size
  LocMod,       \* 2^16, the modulus of loc
  WdSize,       \* 512
  ArgLengths,   \* of the directories a user may enter
  MaxLine       \* bound: the characters typed on one line

ASSUME TerminalAssumption ==
  /\ NUL \notin Chars
  /\ {BufferSize, Columns, KernelPrompt, RootPrompt, PromptMod, LocMod, WdSize, MaxLine}
       \subseteq Nat \ {0}
  /\ BufferSize < LocMod
  /\ KernelPrompt < Columns
  /\ KernelPrompt < PromptMod
  /\ ArgLengths \subseteq Nat \ {0}

VARIABLES
  pc,            \* "prompt", "typing", "command", or "dead"
  buffer, loc,
  prompt_size,
  root_mounted,
  wd,            \* the lengths of the path up to each of its slashes, <<1>> for "/";
                 \* empty before a mount: NULL
  cx,            \* disp->con.cx
  line,          \* history: what the user sees typed since the prompt
  midline,       \* history: the terminal has died in the middle of a line
  trusted,       \* history: the prompt began in column 0 and not after a death
                 \* in the middle of a line, is prompt_size wide, and nobody
                 \* else has printed since
  stray          \* history: what has been written out of bounds

vars == <<pc, buffer, loc, prompt_size, root_mounted, wd, cx, line, midline, trusted, stray>>

-----------------------------------------------------------------------------
Blank == [i \in 0 .. BufferSize - 1 |-> NUL]

\* strlen(wd): the path ends with a slash.
PathLength(w) == Last(w)

PromptWidth == IF root_mounted THEN RootPrompt + PathLength(wd) ELSE KernelPrompt

\* buffer[i] = c
Store(b, i, c) == IF i < BufferSize THEN [b EXCEPT ![i] = c] ELSE b
Strays(indices) == stray' = IF \E i \in indices : i >= BufferSize
                            THEN stray \cup {"line"} ELSE stray

Init ==
  /\ pc = "prompt"
  /\ buffer = Blank
  /\ loc = 0
  /\ prompt_size = KernelPrompt
  /\ root_mounted = FALSE
  /\ wd = <<>>
  /\ cx = 0
  /\ line = <<>>
  /\ midline = FALSE
  /\ trusted = FALSE
  /\ stray = {}

\* prompt: the prompt is printed, the buffer cleared; loc is not touched.
Prompt ==
  /\ pc = "prompt"
  /\ cx' = (cx + PromptWidth) % Columns
  /\ trusted' = (cx = 0 /\ ~midline /\ prompt_size = PromptWidth)
  /\ buffer' = Blank
  /\ line' = <<>>
  /\ pc' = "typing"
  /\ UNCHANGED <<loc, prompt_size, root_mounted, wd, stray, midline>>

-----------------------------------------------------------------------------
(* The line editor. *)

Type(c) ==
  /\ pc = "typing"
  /\ Len(line) < MaxLine
  /\ LET next == (loc + 1) % LocMod IN
       /\ buffer' = Store(Store(buffer, loc, c), next, NUL)
       /\ Strays({loc, next})
       /\ loc' = next
  /\ cx' = (cx + 1) % Columns
  /\ line' = Append(line, c)
  /\ UNCHANGED <<pc, prompt_size, root_mounted, wd, trusted, midline>>

Erase ==
  /\ cx' = cx - 1
  /\ buffer' = Store(buffer, loc, NUL)
  /\ Strays({loc})
  /\ loc' = (loc + LocMod - 1) % LocMod
  /\ line' = IF line = <<>> THEN <<>> ELSE Front(line)
  /\ UNCHANGED <<pc, prompt_size, root_mounted, wd, trusted, midline>>

\* Mutant: the test of the column is off by one.
BackspaceTooFar == pc = "typing" /\ cx >= prompt_size /\ cx > 0 /\ Erase

\* '\r': the column decides whether there is anything to erase.
Backspace ==
  /\ pc = "typing"
  /\ cx > prompt_size
  /\ Erase

\* Mutant: loc is not reset.
EnterKeepsLoc ==
  /\ pc = "typing"
  /\ cx' = 0
  /\ buffer' = Store(buffer, loc, NUL)
  /\ Strays({loc})
  /\ midline' = FALSE
  /\ pc' = "command"
  /\ UNCHANGED <<loc, prompt_size, root_mounted, wd, line, trusted>>

Enter ==
  /\ pc = "typing"
  /\ cx' = 0
  /\ buffer' = Store(buffer, loc, NUL)
  /\ Strays({loc})
  /\ loc' = 0
  /\ midline' = FALSE
  /\ pc' = "command"
  /\ UNCHANGED <<prompt_size, root_mounted, wd, line, trusted>>

-----------------------------------------------------------------------------
(* The commands; each ends with goto prompt. *)

EmptyLine == buffer[0] = NUL

\* The commands that only print whole lines, clear the screen or fail, and the
\* empty line.
PlainCommand ==
  /\ pc = "command"
  /\ cx' = 0
  /\ pc' = "prompt"
  /\ UNCHANGED <<buffer, loc, prompt_size, root_mounted, wd, line, trusted, stray, midline>>

\* exec_start: a program may leave the cursor anywhere.
RunProgram ==
  /\ pc = "command"
  /\ ~EmptyLine
  /\ cx' \in 0 .. Columns - 1
  /\ pc' = "prompt"
  /\ UNCHANGED <<buffer, loc, prompt_size, root_mounted, wd, line, trusted, stray, midline>>

\* fl, when the device can be mounted.
Mount ==
  /\ pc = "command"
  /\ ~EmptyLine
  /\ root_mounted' = TRUE
  /\ wd' = <<1>>
  /\ prompt_size' = (RootPrompt + PathLength(wd')) % PromptMod
  /\ cx' = 0
  /\ pc' = "prompt"
  /\ UNCHANGED <<buffer, loc, line, trusted, stray, midline>>

\* wd is changed and prompt_size with it.
ChangeDir(w) ==
  /\ pc = "command"
  /\ ~EmptyLine
  /\ root_mounted
  /\ wd' = w
  /\ prompt_size' = (RootPrompt + PathLength(w)) % PromptMod
  /\ cx' = 0
  /\ pc' = "prompt"
  /\ UNCHANGED <<buffer, loc, root_mounted, line, trusted, midline>>

\* str_backspace(wd, '/') takes the last directory off.
CdParent ==
  /\ root_mounted /\ PathLength(wd) # 1
  /\ ChangeDir(Front(wd))
  /\ UNCHANGED stray

\* memcpy(wd, _w, strlen(_w) + 1), whatever the size of wd (bound: no further
\* directory once wd is full).
CdInto(n) ==
  /\ root_mounted /\ PathLength(wd) < WdSize
  /\ LET size == PathLength(wd) + n + 1 IN
       /\ ChangeDir(Append(wd, size))
       /\ stray' = IF size + 1 > WdSize THEN stray \cup {"wd"} ELSE stray

\* write and touch: f[strlen(wd) + strlen(arg) + 1] is one past the end of f;
\* wd is NULL as long as nothing is mounted, device 19 if there is none, and
\* nobody asks.
WriteFile ==
  /\ pc = "command"
  /\ ~EmptyLine
  /\ \E dev \in BOOLEAN :
       stray' = stray \cup {"path"} \cup (IF root_mounted /\ dev THEN {} ELSE {"null"})
  /\ cx' = 0
  /\ pc' = "prompt"
  /\ UNCHANGED <<buffer, loc, prompt_size, root_mounted, wd, line, trusted, midline>>

-----------------------------------------------------------------------------
\* A program, or memory that has been overwritten, takes the terminal down.
Crash ==
  /\ pc = "command" \/ stray # {}
  /\ pc # "dead"
  /\ midline' = (pc = "typing" \/ midline)
  /\ pc' = "dead"
  /\ UNCHANGED <<buffer, loc, prompt_size, root_mounted, wd, cx, line, trusted, stray>>

\* late_init starts _test again: a new buffer and prompt_size, the statics
\* loc, wd and root_mounted as they are.
Restart ==
  /\ pc = "dead"
  /\ buffer' = Blank
  /\ prompt_size' = KernelPrompt
  /\ cx' = 0
  /\ pc' = "prompt"
  /\ UNCHANGED <<loc, root_mounted, wd, line, trusted, stray, midline>>

\* Another task prints.
ForeignOutput ==
  /\ cx' \in 0 .. Columns - 1
  /\ trusted' = FALSE
  /\ UNCHANGED <<pc, buffer, loc, prompt_size, root_mounted, wd, line, stray, midline>>

Next ==
  \/ Prompt
  \/ \E c \in Chars : Type(c)
  \/ Backspace \/ Enter
  \/ PlainCommand \/ RunProgram \/ Mount \/ CdParent \/ WriteFile
  \/ \E n \in ArgLengths : CdInto(n)
  \/ Crash \/ Restart \/ ForeignOutput

Spec == Init /\ [][Next]_vars

-----------------------------------------------------------------------------
(* Properties. *)

TypeOK ==
  /\ pc \in {"prompt", "typing", "command", "dead"}
  /\ buffer \in [0 .. BufferSize - 1 -> Chars \cup {NUL}]
  /\ loc \in 0 .. LocMod - 1
  /\ prompt_size \in 0 .. PromptMod - 1
  /\ root_mounted \in BOOLEAN
  /\ wd \in Seq(Nat)
  /\ root_mounted => wd # <<>> /\ wd[1] = 1
  /\ cx \in 0 .. Columns - 1
  /\ line \in Seq(Chars)
  /\ midline \in BOOLEAN
  /\ trusted \in BOOLEAN
  /\ stray \subseteq {"line", "wd", "path", "null"}

\* What the user sees is what is executed: behind a prompt of the expected
\* width that nobody has printed over, the buffer holds exactly the characters
\* left on the screen, although backspace goes by the column, which wraps at
\* the end of a row, and not by loc.
LineShown ==
  trusted /\ pc \in {"typing", "command"} /\ "line" \notin stray /\ Len(line) < BufferSize =>
    /\ \A i \in 1 .. Len(line) : buffer[i - 1] = line[i]
    /\ pc = "typing" => loc = Len(line)
    /\ pc = "command" => buffer[Len(line)] = NUL

\* The buffer is overrun only by a line that does not fit, or behind a prompt
\* that is not where backspace takes it to be: after the output of another
\* task, of a program that does not end with a newline, a restart of the
\* terminal with a root mounted or in the middle of a line (loc is static), or
\* a prompt of more than 255 columns.
FirstOverrun ==
  "line" \notin stray /\ "line" \in stray' => ~trusted \/ Len(line) >= BufferSize - 1

OverrunExplained == [][FirstOverrun]_vars

=============================================================================
