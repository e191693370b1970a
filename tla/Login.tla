------------------------------- MODULE Login --------------------------------
(***************************************************************************)
(* __login of kernel/main.c: it reads a name and a password, keeping each  *)
(* line in a buffer of 64 bytes that strcmp reads, and goes back to the    *)
(* name after any wrong line.  It ends by _kill, which LateInit composes   *)
(* with the rest of the boot.                                              *)
(*                                                                         *)
(* Left out: the banner, the prompts and the echo.                         *)
(***************************************************************************)
EXTENDS Integers, Sequences

CONSTANTS
  Keys,             \* the characters of keyboard_get_key, backspace among them
  Zero,             \* the end of a string
  BufSize,          \* 64
  root, toor        \* the two words

ASSUME LoginAssumption ==
  /\ Zero \notin Keys
  /\ BufSize \in Nat
  /\ root \in Seq(Keys) /\ Len(root) < BufSize
  /\ toor \in Seq(Keys) /\ Len(toor) < BufSize

VARIABLES
  login_buffer, l,  \* buffer and l of __login
  stage,     \* the line that is read, or "accepted": _kill has been called
  typed,     \* history: the keys of this line
  wild       \* history: a byte has been stored behind the buffer

login == <<login_buffer, l, stage, typed, wild>>

Cleared == [i \in 0 .. BufSize - 1 |-> Zero]

LoginInit ==
  /\ login_buffer = Cleared
  /\ l = 0
  /\ stage = "name"
  /\ typed = <<>>
  /\ wild = FALSE

-----------------------------------------------------------------------------
\* buffer[l] = c, and a zero behind it, in both loops.
LoginKey(c) ==
  /\ stage # "accepted" /\ ~wild
  /\ login_buffer' = [i \in DOMAIN login_buffer |->
                        IF i = l THEN c ELSE IF i = l + 1 THEN Zero ELSE login_buffer[i]]
  /\ l' = l + 1
  /\ typed' = Append(typed, c)
  /\ wild' = (l + 1 >= BufSize)
  /\ UNCHANGED stage

\* strcmp(buffer, word) == 0
Matches(word) ==
  /\ \A i \in DOMAIN word : login_buffer[i - 1] = word[i]
  /\ login_buffer[Len(word)] = Zero

\* Mutant: the index is not set back.
AskStale(s) ==
  /\ stage' = s
  /\ login_buffer' = Cleared
  /\ typed' = <<>>
  /\ UNCHANGED l

\* The buffer is cleared and line s asked for.
Ask(s) ==
  /\ stage' = s
  /\ login_buffer' = Cleared
  /\ l' = 0
  /\ typed' = <<>>

LoginEnter ==
  /\ ~wild
  /\ \/ stage = "name" /\ Ask(IF Matches(root) THEN "password" ELSE "name")
     \/ stage = "password" /\ ~Matches(toor) /\ Ask("name")
     \/ stage = "password" /\ Matches(toor) /\ stage' = "accepted" /\ UNCHANGED <<login_buffer, l, typed>>
  /\ UNCHANGED wild

-----------------------------------------------------------------------------
LoginTypeOK ==
  /\ login_buffer \in [0 .. BufSize - 1 -> Keys \cup {Zero}]
  /\ l \in 0 .. BufSize
  /\ stage \in {"name", "password", "accepted"}
  /\ typed \in Seq(Keys)
  /\ wild \in BOOLEAN

LineEnds == stage' # stage \/ (typed # <<>> /\ typed' = <<>>)

LoginStep ==
  LineEnds =>
    /\ stage' = "accepted" <=> stage = "password" /\ typed = toor
    /\ stage' = "password" <=> stage = "name" /\ typed = root

\* Whatever lines have been tried before: the password is asked for after a line
\* of exactly the name's keys, the login ends after exactly those of the
\* password, and any other line leads back to the name.
LoginExact == [][LoginStep]_login

=============================================================================
