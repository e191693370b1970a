------------------------------- MODULE Shell --------------------------------
(***************************************************************************)
(* The shell of include/shell.c, InitializeShell to shell_exit: keys go to *)
(* shell_buffer, which takes no more than it has room for, and to the      *)
(* screen, which takes them all; at a newline the buffer is ended with a   *)
(* zero, if there is room, split into words and the first one looked up.   *)
(*                                                                         *)
(* Left out: what the commands print, the colour that "color" sets, and    *)
(* the two other command functions of the file, which keep no line.        *)
(***************************************************************************)
EXTENDS Integers, Sequences, SequencesExt

CONSTANTS
  Letters, SPACE, NEWLINE,
  SHELL_BUFFER_SIZE,
  ARGS, ARG_SIZE,     \* 32 words of 32 bytes
  MaxShown,           \* bound: the characters of a line
  test, help, color, clear, exit    \* the command words

Commands == <<test, help, color, clear, exit>>
Names    == <<"test", "help", "color", "clear", "exit">>
Seps     == {SPACE, NEWLINE}
Chars    == Letters \cup {SPACE}

ASSUME ShellAssumption ==
  /\ Seps \cap Letters = {} /\ SPACE # NEWLINE
  /\ {SHELL_BUFFER_SIZE, ARGS, ARG_SIZE, MaxShown} \subseteq Nat \ {0}
  /\ SHELL_BUFFER_SIZE > 2
  /\ \A i \in DOMAIN Commands : Commands[i] \in Seq(Letters) \ {<<>>}

VARIABLES
  shell_buffer,   \* the first shell_buffersize characters
  running,
  shown,          \* the line on the screen, behind the prompt
  dropped,        \* history: a key of this line did not go into the buffer
  ran,            \* history: the command run for the last line
  beyond,         \* history: shell_interpreter has left shell_buffer or argv
  turn            \* history: changes with each newline

vars == <<shell_buffer, running, shown, dropped, ran, beyond, turn>>

-----------------------------------------------------------------------------
shell_bufferpush(b, c) == IF Len(b) < SHELL_BUFFER_SIZE THEN Append(b, c) ELSE b

\* Without the character popped, which is never 0.
shell_bufferpop(b) == IF b # <<>> THEN Front(b) ELSE b

\* What is on the screen is a character longer or shorter.
Backspace ==
  /\ running /\ ~beyond
  /\ shell_buffer' = shell_bufferpop(shell_buffer)
  /\ shown' = IF shell_buffer # <<>> THEN Front(shown) ELSE shown
  /\ UNCHANGED <<running, dropped, ran, beyond, turn>>

Key(c) ==
  /\ running /\ ~beyond
  /\ Len(shown) < MaxShown
  /\ shell_buffer' = shell_bufferpush(shell_buffer, c)
  /\ shown' = Append(shown, c)
  /\ dropped' = (dropped \/ Len(shell_buffer) >= SHELL_BUFFER_SIZE)
  /\ UNCHANGED <<running, ran, beyond, turn>>

-----------------------------------------------------------------------------
(* shell_interpreter, given the characters in front of the zero. *)

\* Mutant: a space does not end a word.
argvNoSpace(command) ==
  FoldLeft(LAMBDA a, c : IF c = NEWLINE
                         THEN [words |-> Append(a.words, a.word), word |-> <<>>]
                         ELSE [a EXCEPT !.word = Append(@, c)],
           [words |-> <<>>, word |-> <<>>], command).words

\* A word ends at each separator; what follows the last one is no word.
argv(command) ==
  FoldLeft(LAMBDA a, c : IF c \in Seps
                         THEN [words |-> Append(a.words, a.word), word |-> <<>>]
                         ELSE [a EXCEPT !.word = Append(@, c)],
           [words |-> <<>>, word |-> <<>>], command).words

\* It fits: 32 words, each with the zero behind it.
Fits(words) == Len(words) <= ARGS /\ \A i \in DOMAIN words : Len(words[i]) < ARG_SIZE

Lookup(word) ==
  IF word = <<>> THEN "nothing"
  ELSE IF \E i \in DOMAIN Commands : Commands[i] = word
       THEN Names[CHOOSE i \in DOMAIN Commands : /\ Commands[i] = word
                                                 /\ \A j \in 1 .. i - 1 : Commands[j] # word]
       ELSE "unknown"

\* The prompt, and the buffer is empty.
shell_clear == shell_buffer' = <<>>

\* A newline: it and the zero are pushed, either may not fit.
Newline ==
  /\ running /\ ~beyond
  /\ LET line  == shell_bufferpush(shell_buffer, NEWLINE)
         words == argv(line)
     IN  IF Len(line) = SHELL_BUFFER_SIZE \/ ~Fits(words)
         THEN beyond' = TRUE /\ UNCHANGED <<shell_buffer, running, ran>>
         ELSE /\ ran' = Lookup(words[1])
              /\ running' = (ran' # "exit")
              /\ shell_clear
              /\ UNCHANGED beyond
  /\ shown' = <<>>
  /\ dropped' = FALSE
  /\ turn' = 1 - turn

-----------------------------------------------------------------------------
Init ==
  /\ shell_buffer = <<>>
  /\ running = TRUE
  /\ shown = <<>>
  /\ dropped = FALSE
  /\ ran = "nothing"
  /\ beyond = FALSE
  /\ turn = 0

Next == Backspace \/ (\E c \in Chars : Key(c)) \/ Newline

Spec == Init /\ [][Next]_vars

-----------------------------------------------------------------------------
(* Properties. *)

TypeOK ==
  /\ shell_buffer \in Seq(Chars) /\ Len(shell_buffer) <= SHELL_BUFFER_SIZE
  /\ running \in BOOLEAN
  /\ shown \in Seq(Chars) /\ Len(shown) <= MaxShown
  /\ dropped \in BOOLEAN
  /\ ran \in {"nothing", "unknown"} \cup Range(Names)
  /\ beyond \in BOOLEAN
  /\ turn \in {0, 1}

\* The line that will be executed is the line on the screen, unless it was once
\* longer than the buffer; even then backspace never erases the prompt, because
\* the screen has at least the characters of the buffer.
BufferShown ==
  ~beyond => /\ ~dropped => shown = shell_buffer
             /\ Len(shell_buffer) <= Len(shown)

\* The line the user has before him runs the command its first word names, and
\* only a line that fills the buffer up to the zero, or has words that argv
\* cannot hold, makes the interpreter leave its arrays.
FirstWord(s) ==
  LET ends == {i \in DOMAIN s : s[i] = SPACE}
  IN  SubSeq(s, 1, (IF ends = {} THEN Len(s) + 1 ELSE Min(ends)) - 1)

CommandStep ==
  turn' # turn /\ ~dropped =>
    /\ beyond' <=> \/ Len(shown) >= SHELL_BUFFER_SIZE - 1
                   \/ ~Fits(argv(Append(shown, NEWLINE)))
    /\ beyond' \/ ran' = Lookup(FirstWord(shown))

RunsShown == [][CommandStep]_vars

=============================================================================
