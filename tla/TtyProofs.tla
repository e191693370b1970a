----------------------------- MODULE TtyProofs -----------------------------
(***************************************************************************)
(* Proofs about Tty, for every set of threads and ttys, every screen size  *)
(* and every text.                                                         *)
(***************************************************************************)
EXTENDS Tty, SequenceTheorems, TLAPS

\* A screen position is smaller than the modulus of size_t.
LEMMA SizeFacts ==
  /\ tty_width \in Nat /\ tty_width > 0 /\ tty_width < SizeMod
  /\ tty_height \in Nat /\ tty_height > 0 /\ tty_height < SizeMod
  /\ SizeMod \in Nat
<1>1. tty_width \in Nat /\ tty_width > 0 /\ tty_height \in Nat /\ tty_height > 0 /\ SizeMod \in Nat
  BY SizeAssumption
<1>2. tty_width * (tty_height + 1) = tty_width + tty_width * tty_height
  BY <1>1
<1>3. tty_width * tty_height >= tty_height /\ tty_width * tty_height >= 0
  BY <1>1
<1>4. QED
  BY <1>1, <1>2, <1>3, SizeAssumption

\* A writer at the head of its loop, inside its terminal, has a good position.
LEMMA InsidePosition ==
  ASSUME NEW a, x'[ptr[a]] \in Nat, y'[ptr[a]] \in Nat, tty_width \in Nat, tty_height \in Nat,
         x'[ptr[a]] < tty_width, y'[ptr[a]] < tty_height,
         ptr'[a] = ptr[a], pc'[a] = "loop"
  PROVE  PositionOK(a)'
BY DEF PositionOK

\* Inside the screen the index that tty_set_char computes is inside the buffer.
LEMMA CellInBuffer ==
  ASSUME NEW c \in Nat, NEW r \in Nat, c < tty_width, r < tty_height
  PROVE  Cell(c, r) < tty_width * tty_height
<1> DEFINE k == tty_height - 1 - r
<1>1. k \in Nat /\ tty_height = k + 1 + r /\ tty_width \in Nat
  BY SizeFacts
<1>2. tty_width * tty_height = k * tty_width + tty_width + r * tty_width
  BY <1>1
<1>3. k * tty_width \in Nat /\ r * tty_width \in Nat
  BY <1>1
<1>4. c + r * tty_width < tty_width * tty_height
  BY <1>1, <1>2, <1>3
<1>5. tty_width * tty_height < SizeMod
  BY SizeFacts, SizeAssumption
<1>6. QED
  BY <1>1, <1>3, <1>4, <1>5, SizeFacts DEF Cell

-----------------------------------------------------------------------------
(* Type correctness. *)

\* size_t is closed under what the code does to x and y.
LEMMA SizeClosed ==
  /\ 0 \in Size /\ tty_height - 1 \in Size
  /\ \A n \in Size : Inc(n) \in Size /\ Dec(n) \in Size
BY SizeFacts DEF Size, Inc, Dec

LEMMA TailSeq ==
  ASSUME NEW S, NEW s \in Seq(S), s # <<>>
  PROVE  Tail(s) \in Seq(S) /\ (Len(s) # 1 => Tail(s) # <<>>)
<1>1. Len(Tail(s)) = Len(s) - 1 /\ Tail(s) \in Seq(S) /\ Len(s) \in Nat
  BY HeadTailProperties
<1>2. ASSUME NEW t \in Seq(S), t = <<>> PROVE Len(t) = 0
  BY <1>2, EmptySeq
<1>3. QED
  BY <1>1, <1>2

LEMMA TypeInit == Init => TypeOK
<1> SUFFICES ASSUME Init PROVE TypeOK
  OBVIOUS
<1>1. \A S : <<>> \in Seq(S)
  OBVIOUS
<1>2. cursor \in [tty : Ttys, col : Size, row : Size]
  BY SizeClosed, TtyAssumption DEF Init
<1>3. QED
  BY <1>1, <1>2, SizeClosed, TtyAssumption, ActorAssumption DEF Init, TypeOK, Pcs, Actors

\* A step of an actor to another place, perhaps as a call of update_cursor.
LEMMA TypeGoto ==
  ASSUME TypeOK, NEW a \in Actors, NEW next \in Pcs, pc' = [pc EXCEPT ![a] = next],
         ret' \in [Actors -> {"call", "last_row", "sw_end"}],
         UNCHANGED <<shared, driver, out, ptr, str, reg, row, arg, ghosts>>
  PROVE  TypeOK'
<1>1. pc' \in [Actors -> Pcs]
  BY DEF TypeOK
<1>2. /\ lock' = lock /\ x' = x /\ y' = y /\ current_screen' = current_screen /\ current_tty' = current_tty
      /\ shown' = shown /\ cursor' = cursor /\ out' = out /\ ptr' = ptr /\ str' = str /\ reg' = reg
      /\ row' = row /\ arg' = arg /\ stray' = stray /\ late' = late
  BY DEF shared, driver, ghosts
<1>3. panic' = panic /\ intruded' = intruded
  BY DEF shared, driver, ghosts
<1> QED BY <1>1, <1>2, <1>3, Zenon DEF TypeOK

LEMMA TypeStep == TypeOK /\ [Next]_vars => TypeOK'
<1> SUFFICES ASSUME TypeOK, [Next]_vars PROVE TypeOK'
  OBVIOUS
<1> USE SizeClosed, TtyAssumption, ActorAssumption, JobAssumption
    DEF TypeOK, Pcs, CursorPcs, PrintPcs, FillPcs, SwitchPcs, Actors, shared, driver, locals, ghosts
<1>1. TypeOK'
  <2>1. ASSUME NEW p \in Threads, StartJob(p) PROVE TypeOK'
    BY <2>1 DEF StartJob, At, Goto
  <2>2. ASSUME NEW p \in Threads, ktty_enter(p) PROVE TypeOK'
    BY <2>2 DEF ktty_enter, At, Goto, tty_current_process
  <2>3. ASSUME NEW p \in Threads, ktty_leave(p) PROVE TypeOK'
    BY <2>3 DEF ktty_leave, At, Goto, tty_current_process
  <2>4. ASSUME NEW a \in Actors, kcall(a) PROVE TypeOK'
    <3>1. tty_current_process(a) \in Ttys
      BY DEF tty_current_process
    <3>2. CASE out[a] = <<>>
      <4>1. /\ pc' = [pc EXCEPT ![a] = Done(a)] /\ ret' = ret
            /\ UNCHANGED <<shared, driver, out, ptr, str, reg, row, arg, ghosts>>
        BY <2>4, <3>2, Zenon DEF kcall, Goto
      <4>2. Done(a) \in Pcs
        BY DEF Done
      <4> QED BY <4>1, <4>2, TypeGoto
    <3>3. CASE out[a] # <<>>
      <4>1. Tail(out[a]) \in Seq(Call) /\ Head(out[a]) \in Call
        BY <3>3
      <4>2. /\ out' = [out EXCEPT ![a] = Tail(out[a])]
            /\ ptr' = [ptr EXCEPT ![a] = tty_current_process(a)]
            /\ UNCHANGED <<shared, driver, reg, row, arg, ret, ghosts>>
        BY <2>4, <3>3 DEF kcall
      <4>3. out' \in [Actors -> Seq(Call)] /\ ptr' \in [Actors -> Ttys]
        BY <3>1, <4>1, <4>2
      <4>4. CASE Head(out[a]) = Fill
        <5>1. pc' = [pc EXCEPT ![a] = "fill_y"] /\ str' = str
          BY <2>4, <3>3, <4>4 DEF kcall, Goto
        <5>2. QED
          BY <4>2, <4>3, <5>1
      <4>5. CASE Head(out[a]) # Fill
        <5>1. Head(out[a]) \in Seq(Chars)
          BY <4>1, <4>5 DEF Call
        <5>2. pc' = [pc EXCEPT ![a] = "loop"] /\ str' = [str EXCEPT ![a] = Head(out[a])]
          BY <2>4, <3>3, <4>5 DEF kcall, Goto
        <5>3. QED
          BY <4>2, <4>3, <5>1, <5>2
      <4>6. QED
        BY <4>4, <4>5
    <3>4. QED
      BY <3>2, <3>3
  <2>5. ASSUME NEW a \in Actors, PrintEnd(a) PROVE TypeOK'
    <3>1. \/ pc' = [pc EXCEPT ![a] = "cursor_load"] /\ ret' = [ret EXCEPT ![a] = "call"]
          \/ pc' = [pc EXCEPT ![a] = "call"] /\ ret' = ret
      BY <2>5, Zenon DEF PrintEnd, Goto
    <3>2. UNCHANGED <<shared, driver, out, ptr, str, reg, row, arg, ghosts>>
      BY <2>5, Zenon DEF PrintEnd
    <3>3. ret' \in [Actors -> {"call", "last_row", "sw_end"}]
      BY <3>1
    <3> QED BY <3>1, <3>2, <3>3, TypeGoto
  <2>6. ASSUME NEW a \in Actors, PrintSetColor(a) PROVE TypeOK'
    <3>1. \A s \in Seq(Chars) : s # <<>> =>
            (IF Len(s) = 1 THEN <<>> ELSE Tail(Tail(s))) \in Seq(Chars)
      <4>1. \A s \in Seq(Chars) : s # <<>> /\ Len(s) # 1 => Tail(Tail(s)) \in Seq(Chars)
        BY TailSeq
      <4>2. <<>> \in Seq(Chars)
        OBVIOUS
      <4>3. QED
        BY <4>1, <4>2
    <3>2. str' \in [Actors -> Seq(Chars)]
      BY <2>6, <3>1 DEF PrintSetColor, Reading, At
    <3>3. QED
      BY <2>6, <3>2 DEF PrintSetColor, Reading, At
  <2>7. ASSUME NEW a \in Actors, PrintNewline(a) PROVE TypeOK'
    BY <2>7, TailSeq DEF PrintNewline, Reading, Consume, At, Goto
  <2>8. ASSUME NEW a \in Actors, PrintReturn(a) PROVE TypeOK'
    BY <2>8, TailSeq DEF PrintReturn, Reading, Consume, At
  <2>9. ASSUME NEW a \in Actors, PrintBackspace(a) PROVE TypeOK'
    BY <2>9, TailSeq DEF PrintBackspace, Reading, Consume, At, Goto
  <2>10. ASSUME NEW a \in Actors, BackspaceLoad(a) PROVE TypeOK'
    BY <2>10 DEF BackspaceLoad, At, Goto
  <2>11. ASSUME NEW a \in Actors, BackspaceStore(a) PROVE TypeOK'
    BY <2>11 DEF BackspaceStore, At, Goto
  <2>12. ASSUME NEW a \in Actors, tty_set_char(a) PROVE TypeOK'
    BY <2>12, TailSeq DEF tty_set_char, Reading, Consume, At, Goto
  <2>13. ASSUME NEW a \in Actors, AdvanceLoad(a) PROVE TypeOK'
    BY <2>13 DEF AdvanceLoad, At, Goto
  <2>14. ASSUME NEW a \in Actors, AdvanceStore(a) PROVE TypeOK'
    BY <2>14 DEF AdvanceStore, At, Goto
  <2>15. ASSUME NEW a \in Actors, Wrap(a) PROVE TypeOK'
    BY <2>15 DEF Wrap, At, Goto
  <2>16. ASSUME NEW a \in Actors, NewlineColumn(a) PROVE TypeOK'
    BY <2>16 DEF NewlineColumn, At, Goto
  <2>17. ASSUME NEW a \in Actors, NewlineLoad(a) PROVE TypeOK'
    BY <2>17 DEF NewlineLoad, At, Goto
  <2>18. ASSUME NEW a \in Actors, NewlineStore(a) PROVE TypeOK'
    BY <2>18 DEF NewlineStore, At, Goto
  <2>19. ASSUME NEW a \in Actors, NewlineTest(a) PROVE TypeOK'
    BY <2>19 DEF NewlineTest, At, Goto
  <2>20. ASSUME NEW a \in Actors, tty_scroll(a) PROVE TypeOK'
    <3>1. \/ pc' = [pc EXCEPT ![a] = "cursor_load"] /\ ret' = [ret EXCEPT ![a] = "last_row"]
          \/ pc' = [pc EXCEPT ![a] = "last_row"] /\ ret' = ret
      BY <2>20, Zenon DEF tty_scroll, Goto
    <3>2. UNCHANGED <<shared, driver, out, ptr, str, reg, row, arg, ghosts>>
      BY <2>20, Zenon DEF tty_scroll
    <3>3. ret' \in [Actors -> {"call", "last_row", "sw_end"}]
      BY <3>1
    <3> QED BY <3>1, <3>2, <3>3, TypeGoto
  <2>21. ASSUME NEW a \in Actors, LastRow(a) PROVE TypeOK'
    BY <2>21 DEF LastRow, At, Goto
  <2>22. ASSUME NEW a \in Actors, FillRow(a) PROVE TypeOK'
    BY <2>22 DEF FillRow, At, Goto
  <2>23. ASSUME NEW a \in Actors, FillColumn(a) PROVE TypeOK'
    BY <2>23 DEF FillColumn, At, Goto
  <2>24. ASSUME NEW a \in Actors, FillEnd(a) PROVE TypeOK'
    <3>1. \/ pc' = [pc EXCEPT ![a] = "cursor_load"] /\ ret' = [ret EXCEPT ![a] = "call"]
          \/ pc' = [pc EXCEPT ![a] = "call"] /\ ret' = ret
      BY <2>24, Zenon DEF FillEnd, Goto
    <3>2. UNCHANGED <<shared, driver, out, ptr, str, reg, row, arg, ghosts>>
      BY <2>24, Zenon DEF FillEnd
    <3>3. ret' \in [Actors -> {"call", "last_row", "sw_end"}]
      BY <3>1
    <3> QED BY <3>1, <3>2, <3>3, TypeGoto
  <2>25. ASSUME NEW a \in Actors, SwitchTest(a) PROVE TypeOK'
    BY <2>25 DEF SwitchTest, At, Goto
  <2>26. ASSUME NEW a \in Actors, SwitchSet(a) PROVE TypeOK'
    BY <2>26 DEF SwitchSet, At, Goto
  <2>27. ASSUME NEW a \in Actors, SwitchDraw(a) PROVE TypeOK'
    BY <2>27 DEF SwitchDraw, At, Goto, Judged
  <2>28. ASSUME NEW a \in Actors, SwitchEnd(a) PROVE TypeOK'
    BY <2>28 DEF SwitchEnd, At, Goto
  <2>29. ASSUME NEW a \in Actors, CursorLoad(a) PROVE TypeOK'
    BY <2>29 DEF CursorLoad, At, Goto
  <2>30. ASSUME NEW a \in Actors, CursorDraw(a) PROVE TypeOK'
    <3>1. cursor' \in [tty : Ttys, col : Size, row : Size] /\ late' \subseteq {"screen", "cursor"}
      BY <2>30 DEF CursorDraw, Judged
    <3>2. QED
      BY <2>30, <3>1 DEF CursorDraw, At, Goto
  <2>31. ASSUME NEW p \in Threads, StartSwitch(p) PROVE TypeOK'
    BY <2>31 DEF StartSwitch, At, Goto
  <2>col. ASSUME NEW a \in Actors, CursorColumn(a) PROVE TypeOK'
    BY <2>col DEF CursorColumn, At, Goto
  <2>row. ASSUME NEW a \in Actors, CursorRow(a) PROVE TypeOK'
    BY <2>row DEF CursorRow, At, Goto
  <2>32. CASE IrqEnter
    BY <2>32 DEF IrqEnter, Goto, Intrude
  <2>33. CASE IrqLeave
    BY <2>33 DEF IrqLeave, Goto
  <2>34. CASE Exception
    BY <2>34 DEF Exception, Goto, Intrude
  <2>35. CASE Halt
    BY <2>35 DEF Halt, vars
  <2>36. CASE UNCHANGED vars
    BY <2>36 DEF vars
  <2>37. QED
    BY <2>1, <2>2, <2>3, <2>4, <2>5, <2>6, <2>7, <2>8, <2>9, <2>10, <2>11, <2>12, <2>13, <2>14, <2>15, <2>16, <2>17, <2>18, <2>19, <2>20, <2>21, <2>22, <2>23, <2>24, <2>25, <2>26, <2>27, <2>28, <2>29, <2>30, <2>col, <2>row, <2>31, <2>32, <2>33, <2>34, <2>35, <2>36 DEF Next, Step, TtyPrint
<1>2. QED
  BY <1>1

\* Every variable keeps its type: in particular x and y stay within size_t
\* and no actor runs off the end of a function.
THEOREM TypeCorrect == Spec => []TypeOK
<1>1. Init => TypeOK
  BY TypeInit
<1>2. TypeOK /\ [Next]_vars => TypeOK'
  BY TypeStep
<1>3. QED
  BY <1>1, <1>2, PTL DEF Spec

-----------------------------------------------------------------------------
(* Control: who prints where, and who holds which lock. *)

ControlInv == RedirectInv /\ OwnerInv /\ IntrusionInv

LEMMA ControlInit == Init => ControlInv
BY ActorAssumption, TtyAssumption
DEF Init, ControlInv, RedirectInv, OwnerInv, IntrusionInv, InSection, Writing, Actors,
    CursorPcs, PrintPcs, FillPcs

LEMMA ControlStep == TypeOK /\ ControlInv /\ [Next]_vars => ControlInv'
<1> SUFFICES ASSUME TypeOK, ControlInv, [Next]_vars PROVE ControlInv'
  OBVIOUS
<1> USE TtyAssumption, ActorAssumption
    DEF TypeOK, ControlInv, RedirectInv, OwnerInv, IntrusionInv, InSection, Writing, Running, Actors,
        CursorPcs, PrintPcs, FillPcs, SwitchPcs, shared, driver, locals, ghosts
<1>1. ControlInv'
  <2>1. ASSUME NEW p \in Threads, StartJob(p) PROVE ControlInv'
    BY <2>1 DEF StartJob, At, Goto
  <2>2. ASSUME NEW p \in Threads, ktty_enter(p) PROVE ControlInv'
    BY <2>2 DEF ktty_enter, At, Goto, tty_current_process
  <2>3. ASSUME NEW p \in Threads, ktty_leave(p) PROVE ControlInv'
    BY <2>3 DEF ktty_leave, At, Goto, tty_current_process
  <2>4. ASSUME NEW a \in Actors, kcall(a) PROVE ControlInv'
    BY <2>4 DEF kcall, At, Goto, tty_current_process, Done
  <2>5. ASSUME NEW a \in Actors, PrintEnd(a) PROVE ControlInv'
    <3>1. CASE ptr[a] = current_screen
      BY <2>5, <3>1 DEF PrintEnd, At, Goto
    <3>2. CASE ~(ptr[a] = current_screen)
      BY <2>5, <3>2 DEF PrintEnd, At, Goto
    <3>3. QED
      BY <3>1, <3>2
  <2>6. ASSUME NEW a \in Actors, PrintSetColor(a) PROVE ControlInv'
    BY <2>6 DEF PrintSetColor, Reading, At
  <2>7. ASSUME NEW a \in Actors, PrintNewline(a) PROVE ControlInv'
    BY <2>7 DEF PrintNewline, Reading, At, Goto
  <2>8. ASSUME NEW a \in Actors, PrintReturn(a) PROVE ControlInv'
    BY <2>8 DEF PrintReturn, Reading, At
  <2>9. ASSUME NEW a \in Actors, PrintBackspace(a) PROVE ControlInv'
    BY <2>9 DEF PrintBackspace, Reading, At, Goto
  <2>10. ASSUME NEW a \in Actors, BackspaceLoad(a) PROVE ControlInv'
    BY <2>10 DEF BackspaceLoad, At, Goto
  <2>11. ASSUME NEW a \in Actors, BackspaceStore(a) PROVE ControlInv'
    BY <2>11 DEF BackspaceStore, At, Goto
  <2>12. ASSUME NEW a \in Actors, tty_set_char(a) PROVE ControlInv'
    BY <2>12 DEF tty_set_char, Reading, At, Goto
  <2>13. ASSUME NEW a \in Actors, AdvanceLoad(a) PROVE ControlInv'
    BY <2>13 DEF AdvanceLoad, At, Goto
  <2>14. ASSUME NEW a \in Actors, AdvanceStore(a) PROVE ControlInv'
    BY <2>14 DEF AdvanceStore, At, Goto
  <2>15. ASSUME NEW a \in Actors, Wrap(a) PROVE ControlInv'
    BY <2>15 DEF Wrap, At, Goto
  <2>16. ASSUME NEW a \in Actors, NewlineColumn(a) PROVE ControlInv'
    BY <2>16 DEF NewlineColumn, At, Goto
  <2>17. ASSUME NEW a \in Actors, NewlineLoad(a) PROVE ControlInv'
    BY <2>17 DEF NewlineLoad, At, Goto
  <2>18. ASSUME NEW a \in Actors, NewlineStore(a) PROVE ControlInv'
    BY <2>18 DEF NewlineStore, At, Goto
  <2>19. ASSUME NEW a \in Actors, NewlineTest(a) PROVE ControlInv'
    BY <2>19 DEF NewlineTest, At, Goto
  <2>20. ASSUME NEW a \in Actors, tty_scroll(a) PROVE ControlInv'
    <3>1. CASE ptr[a] = current_screen
      BY <2>20, <3>1 DEF tty_scroll, At, Goto
    <3>2. CASE ~(ptr[a] = current_screen)
      BY <2>20, <3>2 DEF tty_scroll, At, Goto
    <3>3. QED
      BY <3>1, <3>2
  <2>21. ASSUME NEW a \in Actors, LastRow(a) PROVE ControlInv'
    BY <2>21 DEF LastRow, At, Goto
  <2>22. ASSUME NEW a \in Actors, FillRow(a) PROVE ControlInv'
    BY <2>22 DEF FillRow, At, Goto
  <2>23. ASSUME NEW a \in Actors, FillColumn(a) PROVE ControlInv'
    BY <2>23 DEF FillColumn, At, Goto
  <2>24. ASSUME NEW a \in Actors, FillEnd(a) PROVE ControlInv'
    BY <2>24 DEF FillEnd, At, Goto
  <2>25. ASSUME NEW a \in Actors, SwitchTest(a) PROVE ControlInv'
    BY <2>25 DEF SwitchTest, At, Goto
  <2>26. ASSUME NEW a \in Actors, SwitchSet(a) PROVE ControlInv'
    BY <2>26 DEF SwitchSet, At, Goto
  <2>27. ASSUME NEW a \in Actors, SwitchDraw(a) PROVE ControlInv'
    BY <2>27 DEF SwitchDraw, At, Goto
  <2>28. ASSUME NEW a \in Actors, SwitchEnd(a) PROVE ControlInv'
    BY <2>28 DEF SwitchEnd, At, Goto
  <2>29. ASSUME NEW a \in Actors, CursorLoad(a) PROVE ControlInv'
    BY <2>29 DEF CursorLoad, At, Goto
  <2>30. ASSUME NEW a \in Actors, CursorDraw(a) PROVE ControlInv'
    BY <2>30 DEF CursorDraw, At, Goto
  <2>31. ASSUME NEW p \in Threads, StartSwitch(p) PROVE ControlInv'
    BY <2>31 DEF StartSwitch, At, Goto
  <2>col. ASSUME NEW a \in Actors, CursorColumn(a) PROVE ControlInv'
    BY <2>col DEF CursorColumn, At, Goto
  <2>row. ASSUME NEW a \in Actors, CursorRow(a) PROVE ControlInv'
    BY <2>row DEF CursorRow, At, Goto
  <2>32. CASE IrqEnter
    <3>1. lock[default_tty] # NoThread => intruded'
      BY <2>32 DEF IrqEnter, Intrude
    <3>2. intruded => intruded'
      BY <2>32 DEF IrqEnter, Intrude
    <3>3. QED
      BY <2>32, <3>1, <3>2 DEF IrqEnter, Goto
  <2>33. CASE IrqLeave
    BY <2>33 DEF IrqLeave, Goto
  <2>34. CASE Exception
    <3>1. lock[default_tty] # NoThread => intruded'
      BY <2>34 DEF Exception, Intrude
    <3>2. intruded => intruded'
      BY <2>34 DEF Exception, Intrude
    <3>3. QED
      BY <2>34, <3>1, <3>2 DEF Exception, Goto
  <2>35. CASE Halt
    BY <2>35 DEF Halt, vars
  <2>36. CASE UNCHANGED vars
    BY <2>36 DEF vars
  <2>37. QED
    BY <2>1, <2>2, <2>3, <2>4, <2>5, <2>6, <2>7, <2>8, <2>9, <2>10, <2>11, <2>12, <2>13, <2>14, <2>15, <2>16, <2>17, <2>18, <2>19, <2>20, <2>21, <2>22, <2>23, <2>24, <2>25, <2>26, <2>27, <2>28, <2>29, <2>30, <2>col, <2>row, <2>31, <2>32, <2>33, <2>34, <2>35, <2>36 DEF Next, Step, TtyPrint
<1>2. QED
  BY <1>1

-----------------------------------------------------------------------------
(* Positions: an undisturbed tty has one writer at a time. *)

\* The tty that a prints on.
Home(a) == IF a \in Threads THEN ThreadTty[a] ELSE default_tty

LEMMA WriterHome ==
  ASSUME TypeOK, ControlInv, NEW a \in Actors, Writing(a)
  PROVE  InSection(a) /\ ptr[a] = Home(a)
BY ActorAssumption DEF ControlInv, RedirectInv, OwnerInv, InSection, Home, Actors

LEMMA OneUser ==
  ASSUME TypeOK, ControlInv, NEW a \in Actors, NEW b \in Actors,
         InSection(a), InSection(b), Home(a) = Home(b), Undisturbed(Home(a))
  PROVE  a = b
<1>1. CASE a \in Threads /\ b \in Threads
  BY <1>1 DEF ControlInv, OwnerInv, Home
<1>2. CASE a \in Threads /\ b = Isr
  <2>1. pc[Isr] # "idle"
    BY <1>2 DEF InSection, Writing, CursorPcs, PrintPcs, FillPcs
  <2>2. QED
    BY <1>2, <2>1, ActorAssumption DEF ControlInv, IntrusionInv, Home, Undisturbed
<1>3. CASE a = Isr /\ b \in Threads
  <2>1. pc[Isr] # "idle"
    BY <1>3 DEF InSection, Writing, CursorPcs, PrintPcs, FillPcs
  <2>2. QED
    BY <1>3, <2>1, ActorAssumption DEF ControlInv, IntrusionInv, Home, Undisturbed
<1>4. QED
  BY <1>1, <1>2, <1>3 DEF Actors

\* Actors other than a, and ttys other than the one a prints on, stay as they
\* are.
Others(a) ==
  /\ intruded' = intruded
  /\ \A b \in Actors \ {a} :
       pc'[b] = pc[b] /\ ptr'[b] = ptr[b] /\ reg'[b] = reg[b] /\ ret'[b] = ret[b]
  /\ \A s \in Ttys \ {Home(a)} : x'[s] = x[s] /\ y'[s] = y[s]

\* A step of a in its section that leaves its own tty in order keeps all in
\* order.
LEMMA SectionStep ==
  ASSUME TypeOK, ControlInv, WriterInv, RestInv,
         NEW a \in Actors, InSection(a), Others(a),
         Writing(a)' => ptr'[a] = Home(a),
         Undisturbed(Home(a)) /\ Writing(a)' => PositionOK(a)',
         Undisturbed(Home(a)) /\ ~Writing(a)' =>
           x'[Home(a)] < tty_width /\ y'[Home(a)] < tty_height
  PROVE  WriterInv' /\ RestInv'
<1>1. ASSUME NEW b \in Actors, Writing(b)', Undisturbed(ptr[b])' PROVE PositionOK(b)'
  <2>1. CASE b = a
    BY <1>1, <2>1 DEF Others, Undisturbed
  <2>2. CASE b # a
    <3>1. Writing(b) /\ Undisturbed(ptr[b]) /\ ptr'[b] = ptr[b] /\ ptr[b] \in Ttys
      BY <1>1, <2>2 DEF Others, Writing, Undisturbed, TypeOK
    <3>2. ptr[b] # Home(a)
      BY <2>2, <3>1, WriterHome, OneUser
    <3>3. x'[ptr[b]] = x[ptr[b]] /\ y'[ptr[b]] = y[ptr[b]]
      BY <3>1, <3>2 DEF Others
    <3>4. PositionOK(b)
      BY <3>1 DEF WriterInv
    <3>5. QED
      BY <2>2, <3>1, <3>3, <3>4 DEF PositionOK, Others
  <2>3. QED
    BY <2>1, <2>2
<1>2. ASSUME NEW s \in Ttys, Undisturbed(s)', \A b \in Actors : Writing(b)' => ptr'[b] # s
      PROVE  x'[s] < tty_width /\ y'[s] < tty_height
  <2>1. CASE s = Home(a)
    BY <1>2, <2>1 DEF Others, Undisturbed
  <2>2. CASE s # Home(a)
    <3>1. ASSUME NEW b \in Actors, Writing(b) PROVE ptr[b] # s
      <4>1. CASE b = a
        BY <3>1, <4>1, <2>2, WriterHome
      <4>2. CASE b # a
        BY <3>1, <4>2, <1>2 DEF Others, Writing
      <4>3. QED
        BY <4>1, <4>2
    <3>2. x'[s] = x[s] /\ y'[s] = y[s]
      BY <2>2 DEF Others
    <3>3. QED
      BY <1>2, <3>1, <3>2 DEF RestInv, Undisturbed, Others
  <2>3. QED
    BY <2>1, <2>2
<1>3. QED
  BY <1>1, <1>2 DEF WriterInv, RestInv

\* A step outside the sections moves nothing.
LEMMA OutsideStep ==
  ASSUME TypeOK, WriterInv, RestInv,
         NEW a \in Actors, ~Writing(a), ~Writing(a)',
         x' = x, y' = y, intruded => intruded',
         \A b \in Actors \ {a} :
           pc'[b] = pc[b] /\ ptr'[b] = ptr[b] /\ reg'[b] = reg[b] /\ ret'[b] = ret[b]
  PROVE  WriterInv' /\ RestInv'
<1>1. ASSUME NEW b \in Actors, Writing(b)', Undisturbed(ptr[b])' PROVE PositionOK(b)'
  <2>1. b # a
    BY <1>1
  <2>2. Writing(b) /\ Undisturbed(ptr[b]) /\ ptr'[b] = ptr[b]
    BY <1>1, <2>1 DEF Writing, Undisturbed
  <2>3. QED
    BY <2>1, <2>2 DEF WriterInv, PositionOK
<1>2. ASSUME NEW s \in Ttys, Undisturbed(s)', \A b \in Actors : Writing(b)' => ptr'[b] # s
      PROVE  x'[s] < tty_width /\ y'[s] < tty_height
  <2>1. \A b \in Actors : Writing(b) => ptr[b] # s
    BY <1>2 DEF Writing
  <2>2. QED
    BY <1>2, <2>1 DEF RestInv, Undisturbed
<1>3. QED
  BY <1>1, <1>2 DEF WriterInv, RestInv

\* One lemma for the steps inside tty_print and tty_fill_color: they satisfy
\* the conditions of SectionStep.
LEMMA PrintingStep ==
  ASSUME TypeOK, ControlInv, ControlInv', WriterInv, RestInv, NEW a \in Actors,
         TtyPrint(a) \/ FillRow(a) \/ FillColumn(a) \/ FillEnd(a)
  PROVE  WriterInv' /\ RestInv'
<1> DEFINE Good ==
      /\ Writing(a)
      /\ Others(a)
      /\ ptr' = ptr
      /\ Undisturbed(ptr[a]) /\ Writing(a)' => PositionOK(a)'
      /\ Undisturbed(ptr[a]) /\ ~Writing(a)' =>
           x'[ptr[a]] < tty_width /\ y'[ptr[a]] < tty_height
<1>1. SUFFICES Good
  <2>1. InSection(a) /\ ptr[a] = Home(a)
    BY <1>1, WriterHome
  <2>2. QED
    BY <1>1, <2>1, SectionStep
<1>2. ASSUME Writing(a) PROVE ptr[a] = Home(a) /\ ptr[a] \in Ttys
  BY <1>2, WriterHome DEF TypeOK
<1>3. ASSUME Writing(a), Undisturbed(ptr[a]) PROVE PositionOK(a)
  BY <1>3 DEF WriterInv
<1>4. \A n \in Nat : /\ n < tty_width \/ n < tty_height => Inc(n) = n + 1
                     /\ n > 0 => Dec(n) = n - 1
  BY SizeFacts DEF Inc, Dec
<1>5. \A n \in Size : n \in Nat
  BY SizeFacts DEF Size
<1> USE SizeFacts
    DEF TypeOK, Others, PositionOK, Undisturbed, Writing, CursorPcs, PrintPcs, FillPcs, shared, driver, locals, ghosts
<1>6. CASE PrintEnd(a)
  <2>1. CASE ptr[a] = current_screen
    BY <1>6, <2>1, <1>2, <1>3, <1>5 DEF PrintEnd, At, Goto
  <2>2. CASE ptr[a] # current_screen
    BY <1>6, <2>2, <1>2, <1>3, <1>5, SMTT(30) DEF PrintEnd, At, Goto
  <2>3. QED
    BY <2>1, <2>2
<1>7. CASE PrintSetColor(a)
  BY <1>7, <1>2, <1>3, <1>4, <1>5 DEF PrintSetColor, Reading, At
<1>8. CASE PrintNewline(a)
  BY <1>8, <1>2, <1>3, <1>4, <1>5 DEF PrintNewline, Reading, At, Goto
<1>9. CASE PrintReturn(a)
  BY <1>9, <1>2, <1>3, <1>4, <1>5 DEF PrintReturn, Reading, At
<1>10. CASE PrintBackspace(a)
  <2>1. CASE x[ptr[a]] # 0
    BY <1>10, <2>1, <1>2, <1>3, <1>5, SMTT(30) DEF PrintBackspace, Reading, At, Goto
  <2>2. CASE x[ptr[a]] = 0
    BY <1>10, <2>2, <1>2, <1>3, <1>5 DEF PrintBackspace, Reading, At, Goto
  <2>3. QED
    BY <2>1, <2>2
<1>11. CASE BackspaceLoad(a)
  BY <1>11, <1>2, <1>3, <1>4, <1>5 DEF BackspaceLoad, At, Goto
<1>12. CASE BackspaceStore(a)
  <2>1. Writing(a) /\ ptr' = ptr /\ Others(a) /\ Writing(a)'
    BY <1>12, <1>2 DEF BackspaceStore, At, Goto
  <2>2. ASSUME Undisturbed(ptr[a])
        PROVE  /\ reg[a] = x[ptr[a]] /\ x[ptr[a]] > 0 /\ x[ptr[a]] <= tty_width
               /\ y[ptr[a]] < tty_height
    BY <1>12, <2>2, <1>2, <1>3, <1>5, SMTT(30) DEF BackspaceStore, At
  <2>3. ASSUME Undisturbed(ptr[a])
        PROVE  x'[ptr[a]] = x[ptr[a]] - 1 /\ y' = y /\ pc'[a] = "loop"
    BY <1>12, <2>2, <2>3, <1>2, <1>4, <1>5 DEF BackspaceStore, At, Goto
  <2>4. ASSUME Undisturbed(ptr[a]) PROVE PositionOK(a)'
    <3>1. x[ptr[a]] \in Nat /\ y[ptr[a]] \in Nat
      BY <1>2, <1>5, <2>1
    <3>2. /\ x'[ptr[a]] < tty_width /\ y'[ptr[a]] < tty_height
          /\ ptr'[a] = ptr[a] /\ pc'[a] = "loop"
      BY <2>1, <2>2, <2>3, <2>4, <3>1
    <3>3. x'[ptr[a]] \in Nat /\ y'[ptr[a]] \in Nat
      BY <2>2, <2>3, <2>4, <3>1
    <3> HIDE DEF PositionOK
    <3>4. QED
      BY <3>2, <3>3, InsidePosition
  <2>5. QED
    BY <2>1, <2>4
<1>13. CASE tty_set_char(a)
  BY <1>13, <1>2, <1>3, <1>4, <1>5 DEF tty_set_char, Reading, At, Goto
<1>14. CASE AdvanceLoad(a)
  BY <1>14, <1>2, <1>3, <1>4, <1>5 DEF AdvanceLoad, At, Goto
<1>15. CASE AdvanceStore(a)
  <2>1. Writing(a) /\ pc[a] = "x_store" /\ reg[a] \in Nat /\ x[ptr[a]] \in Nat
    BY <1>15, <1>2, <1>5 DEF AdvanceStore, At
  <2>2. ASSUME Undisturbed(ptr[a]) PROVE Inc(reg[a]) = x[ptr[a]] + 1 /\ x[ptr[a]] + 1 <= tty_width
    BY <2>1, <2>2, <1>3, <1>4
  <2>3. QED
    BY <1>15, <2>1, <2>2, <1>2, <1>3, <1>5 DEF AdvanceStore, At, Goto
<1>16. CASE Wrap(a)
  BY <1>16, <1>2, <1>3, <1>4, <1>5 DEF Wrap, At, Goto
<1>17. CASE NewlineColumn(a)
  BY <1>17, <1>2, <1>3, <1>4, <1>5 DEF NewlineColumn, At, Goto
<1>18. CASE NewlineLoad(a)
  BY <1>18, <1>2, <1>3, <1>4, <1>5 DEF NewlineLoad, At, Goto
<1>19. CASE NewlineStore(a)
  <2>1. Writing(a) /\ pc[a] = "nl_store" /\ reg[a] \in Nat /\ y[ptr[a]] \in Nat
    BY <1>19, <1>2, <1>5 DEF NewlineStore, At
  <2>2. ASSUME Undisturbed(ptr[a]) PROVE Inc(reg[a]) = y[ptr[a]] + 1 /\ y[ptr[a]] + 1 <= tty_height
    BY <2>1, <2>2, <1>3, <1>4
  <2>3. QED
    BY <1>19, <2>1, <2>2, <1>2, <1>3, <1>5 DEF NewlineStore, At, Goto
<1>20. CASE NewlineTest(a)
  BY <1>20, <1>2, <1>3, <1>4, <1>5 DEF NewlineTest, At, Goto
<1>21. CASE tty_scroll(a)
  <2>1. CASE ptr[a] = current_screen
    BY <1>21, <2>1, <1>2, <1>3, <1>4, <1>5, SMTT(30) DEF tty_scroll, At, Goto
  <2>2. CASE ptr[a] # current_screen
    BY <1>21, <2>2, <1>2, <1>3, <1>4, <1>5, SMTT(30) DEF tty_scroll, At, Goto
  <2> QED BY <2>1, <2>2
<1>22. CASE LastRow(a)
  BY <1>22, <1>2, <1>3, <1>4, <1>5 DEF LastRow, At, Goto
<1>23. CASE FillRow(a)
  BY <1>23, <1>2, <1>3, <1>4, <1>5 DEF FillRow, At, Goto
<1>24. CASE FillColumn(a)
  BY <1>24, <1>2, <1>3, <1>4, <1>5 DEF FillColumn, At, Goto
<1>25. CASE FillEnd(a)
  <2>1. CASE ptr[a] = current_screen
    BY <1>25, <2>1, <1>2, <1>3, <1>5 DEF FillEnd, At, Goto
  <2>2. CASE ptr[a] # current_screen
    BY <1>25, <2>2, <1>2, <1>3, <1>5, SMTT(30) DEF FillEnd, At, Goto
  <2>3. QED
    BY <2>1, <2>2
<1>26. QED
  BY <1>6, <1>7, <1>8, <1>9, <1>10, <1>11, <1>12, <1>13, <1>14, <1>15, <1>16, <1>17, <1>18, <1>19, <1>20, <1>21, <1>22, <1>23, <1>24, <1>25 DEF TtyPrint

\* Every step keeps the positions in order.
LEMMA PositionStep ==
  ASSUME TypeOK, ControlInv, ControlInv', WriterInv, RestInv, [Next]_vars
  PROVE  WriterInv' /\ RestInv'
<1> USE ActorAssumption
    DEF TypeOK, Writing, InSection, CursorPcs, PrintPcs, FillPcs, shared, driver, locals, ghosts, Actors
<1>1. ASSUME NEW p \in Threads, StartJob(p) \/ ktty_enter(p) PROVE WriterInv' /\ RestInv'
  <2>1. ~Writing(p) /\ ~Writing(p)' /\ p \in Actors
    BY <1>1 DEF StartJob, ktty_enter, At, Goto
  <2>2. /\ x' = x /\ y' = y /\ intruded' = intruded
        /\ \A b \in Actors \ {p} :
             pc'[b] = pc[b] /\ ptr'[b] = ptr[b] /\ reg'[b] = reg[b] /\ ret'[b] = ret[b]
    BY <1>1 DEF StartJob, ktty_enter, Goto
  <2>3. QED
    BY <2>1, <2>2, OutsideStep
<1>2. ASSUME NEW p \in Threads, ktty_leave(p) PROVE WriterInv' /\ RestInv'
  BY <1>2, OutsideStep DEF ktty_leave, At, Goto
<1>3. ASSUME NEW a \in Actors, kcall(a) PROVE WriterInv' /\ RestInv'
  <2>1. InSection(a) /\ ~Writing(a)
    BY <1>3 DEF kcall, At
  <2>2. tty_current_process(a) = Home(a) /\ Home(a) \in Ttys
    BY <1>3, TtyAssumption DEF kcall, At, Running, ControlInv, RedirectInv, tty_current_process, Home
  <2>3. Others(a) /\ x' = x /\ y' = y
    BY <1>3 DEF kcall, Goto, Others
  <2>4. Writing(a)' => ptr'[a] = Home(a)
    BY <1>3, <2>2 DEF kcall, Goto, Done
  <2>5. Undisturbed(Home(a)) => x[Home(a)] < tty_width /\ y[Home(a)] < tty_height
    <3>1. ASSUME Undisturbed(Home(a)), NEW b \in Actors, Writing(b) PROVE ptr[b] # Home(a)
      BY <2>1, <3>1, WriterHome, OneUser
    <3>2. QED
      BY <2>2, <3>1 DEF RestInv
  <2>6. pc'[a] \in {"loop", "fill_y", "leave", "halt", "irq_leave"}
    BY <1>3 DEF kcall, Goto, Done
  <2>7. x[Home(a)] \in Nat /\ y[Home(a)] \in Nat
    BY <2>2, SizeFacts DEF Size
  <2>8. Undisturbed(Home(a)) /\ Writing(a)' => PositionOK(a)'
    BY <2>3, <2>4, <2>5, <2>6, <2>7, SizeFacts DEF PositionOK
  <2>9. QED
    BY <2>1, <2>3, <2>4, <2>5, <2>8, SectionStep
<1>4. ASSUME NEW a \in Actors, TtyPrint(a) \/ FillRow(a) \/ FillColumn(a) \/ FillEnd(a)
      PROVE  WriterInv' /\ RestInv'
  BY <1>4, PrintingStep
<1>5. ASSUME NEW a \in Actors, SwitchTest(a) \/ SwitchSet(a) \/ SwitchDraw(a) \/ SwitchEnd(a)
      PROVE  WriterInv' /\ RestInv'
  <2>1. ~Writing(a) /\ ~Writing(a)'
    BY <1>5 DEF SwitchTest, SwitchSet, SwitchDraw, SwitchEnd, At, Goto
  <2>2. /\ x' = x /\ y' = y /\ intruded' = intruded
        /\ \A b \in Actors \ {a} :
             pc'[b] = pc[b] /\ ptr'[b] = ptr[b] /\ reg'[b] = reg[b] /\ ret'[b] = ret[b]
    BY <1>5 DEF SwitchTest, SwitchSet, SwitchDraw, SwitchEnd, Goto
  <2>3. QED
    BY <2>1, <2>2, OutsideStep
<1>6. ASSUME NEW a \in Actors, CursorLoad(a) \/ CursorColumn(a) \/ CursorRow(a) \/ CursorDraw(a)
      PROVE  WriterInv' /\ RestInv'
  <2>1. /\ x' = x /\ y' = y /\ ptr' = ptr /\ intruded' = intruded
        /\ \A b \in Actors \ {a} : pc'[b] = pc[b] /\ ret'[b] = ret[b] /\ reg'[b] = reg[b]
    BY <1>6 DEF CursorLoad, CursorColumn, CursorRow, CursorDraw, Goto
  <2>2. CASE ret[a] = "sw_end"
    <3>1. ~Writing(a) /\ ~Writing(a)'
      BY <1>6, <2>2 DEF CursorLoad, CursorColumn, CursorRow, CursorDraw, At, Goto
    <3>2. QED
      BY <2>1, <3>1, OutsideStep
  <2>3. CASE ret[a] # "sw_end"
    <3>1. Writing(a)
      BY <1>6, <2>3 DEF CursorLoad, CursorColumn, CursorRow, CursorDraw, At
    <3>2. ptr[a] = Home(a) /\ InSection(a) /\ ptr[a] \in Ttys
      BY <3>1, WriterHome
    <3>3. Undisturbed(ptr[a]) => PositionOK(a)
      BY <3>1 DEF WriterInv
    <3>4. x[ptr[a]] \in Nat /\ y[ptr[a]] \in Nat
      BY <3>2, SizeFacts DEF Size
    <3>5. CASE CursorLoad(a) \/ CursorColumn(a) \/ CursorRow(a)
      <4>1. Writing(a)' /\ pc'[a] \in CursorPcs /\ ret' = ret /\ pc[a] \in CursorPcs
        BY <2>3, <3>5 DEF CursorLoad, CursorColumn, CursorRow, At, Goto
      <4>2. Undisturbed(ptr[a]) => PositionOK(a)'
        BY <2>1, <3>3, <4>1 DEF PositionOK
      <4>3. QED
        BY <2>1, <3>2, <4>1, <4>2, SectionStep DEF Others
    <3>6. CASE CursorDraw(a)
      <4>1. pc'[a] = ret[a] /\ ret[a] \in {"call", "last_row"} /\ pc[a] = "cursor_draw"
        BY <2>3, <3>6 DEF CursorDraw, At, Goto
      <4>2. Undisturbed(ptr[a]) /\ Writing(a)' => PositionOK(a)'
        BY <2>1, <3>3, <3>4, <4>1, SizeFacts DEF PositionOK
      <4>3. Undisturbed(ptr[a]) /\ ~Writing(a)' =>
              x'[ptr[a]] < tty_width /\ y'[ptr[a]] < tty_height
        BY <2>1, <3>3, <3>4, <4>1, SizeFacts DEF PositionOK
      <4>4. Others(a)
        BY <2>1 DEF Others
      <4>5. ptr'[a] = Home(a)
        BY <2>1, <3>2
      <4>6. QED
        BY <3>2, <4>2, <4>3, <4>4, <4>5, SectionStep
    <3>7. QED
      BY <1>6, <3>5, <3>6
  <2>4. QED
    BY <2>2, <2>3
<1>7. ASSUME NEW p \in Threads, StartSwitch(p) PROVE WriterInv' /\ RestInv'
  <2>1. ~Writing(p) /\ ~Writing(p)' /\ p \in Actors
    BY <1>7 DEF StartSwitch, At, Goto
  <2>2. /\ x' = x /\ y' = y /\ intruded' = intruded
        /\ \A b \in Actors \ {p} :
             pc'[b] = pc[b] /\ ptr'[b] = ptr[b] /\ reg'[b] = reg[b] /\ ret'[b] = ret[b]
    BY <1>7 DEF StartSwitch, Goto
  <2>3. QED
    BY <2>1, <2>2, OutsideStep
<1>8. CASE IrqEnter
  BY <1>8, OutsideStep DEF IrqEnter, Goto, Intrude
<1>9. CASE IrqLeave
  BY <1>9, OutsideStep DEF IrqLeave, Goto
<1>10. CASE Exception
  <2>1. CASE pc[Isr] = "idle"
    BY <1>10, <2>1, OutsideStep DEF Exception, Goto, Intrude
  <2>2. CASE pc[Isr] # "idle"
    <3>1. /\ intruded' /\ x' = x /\ y' = y /\ ~Writing(Isr)'
          /\ \A b \in Actors \ {Isr} :
               pc'[b] = pc[b] /\ ptr'[b] = ptr[b] /\ reg'[b] = reg[b] /\ ret'[b] = ret[b]
      BY <1>10, <2>2 DEF Exception, Goto, Intrude
    <3>2. Writing(Isr) => ptr[Isr] = default_tty
      BY DEF ControlInv, RedirectInv
    <3>3. ASSUME NEW b \in Actors, Writing(b)', Undisturbed(ptr[b])' PROVE PositionOK(b)'
      <4>1. b # Isr /\ Writing(b) /\ Undisturbed(ptr[b]) /\ ptr'[b] = ptr[b]
        BY <3>1, <3>3 DEF Undisturbed
      <4>2. QED
        BY <3>1, <4>1 DEF WriterInv, PositionOK
    <3>4. ASSUME NEW s \in Ttys, Undisturbed(s)', \A b \in Actors : Writing(b)' => ptr'[b] # s
          PROVE  x'[s] < tty_width /\ y'[s] < tty_height
      <4>1. s # default_tty
        BY <3>1, <3>4 DEF Undisturbed
      <4>2. \A b \in Actors : Writing(b) => ptr[b] # s
        BY <3>1, <3>2, <3>4, <4>1
      <4>3. QED
        BY <3>1, <4>1, <4>2 DEF RestInv, Undisturbed
    <3>5. QED
      BY <3>3, <3>4 DEF WriterInv, RestInv
  <2>3. QED
    BY <2>1, <2>2
<1>11. CASE UNCHANGED vars \/ Halt
  <2>1. x' = x /\ y' = y /\ pc' = pc /\ ptr' = ptr /\ reg' = reg /\ ret' = ret /\ intruded' = intruded
    BY <1>11 DEF vars, Halt
  <2>2. WriterInv'
    BY <2>1 DEF WriterInv, PositionOK, Undisturbed
  <2>3. RestInv'
    BY <2>1 DEF RestInv, Undisturbed
  <2>4. QED
    BY <2>2, <2>3
<1>12. QED
  BY <1>1, <1>2, <1>3, <1>4, <1>5, <1>6, <1>7, <1>8, <1>9, <1>10, <1>11 DEF Next, Step

-----------------------------------------------------------------------------
(* Memory. *)

\* Only tty_set_char writes characters, and an intrusion is not forgotten.
LEMMA StrayStep ==
  ASSUME [Next]_vars
  PROVE  \/ stray' = stray /\ (intruded => intruded')
         \/ \E a \in Actors : tty_set_char(a)
<1> USE DEF ghosts
<1>1. ASSUME NEW p \in Threads, StartJob(p) \/ ktty_enter(p) \/ ktty_leave(p) \/ StartSwitch(p)
      PROVE  stray' = stray /\ intruded' = intruded
  BY <1>1 DEF StartJob, ktty_enter, ktty_leave, StartSwitch
<1>2. ASSUME NEW a \in Actors, Step(a), ~tty_set_char(a)
      PROVE  stray' = stray /\ intruded' = intruded
  <2>1. CASE PrintEnd(a) \/ PrintSetColor(a) \/ PrintNewline(a) \/ PrintReturn(a) \/ PrintBackspace(a) \/ BackspaceLoad(a) \/ BackspaceStore(a) \/ AdvanceLoad(a) \/ AdvanceStore(a) \/ Wrap(a)
    BY <2>1 DEF PrintEnd, PrintSetColor, PrintNewline, PrintReturn, PrintBackspace, BackspaceLoad, BackspaceStore, AdvanceLoad, AdvanceStore, Wrap
  <2>2. CASE NewlineColumn(a) \/ NewlineLoad(a) \/ NewlineStore(a) \/ NewlineTest(a) \/ tty_scroll(a) \/ LastRow(a)
    BY <2>2 DEF NewlineColumn, NewlineLoad, NewlineStore, NewlineTest, tty_scroll, LastRow
  <2>3. CASE kcall(a) \/ FillRow(a) \/ FillColumn(a) \/ FillEnd(a)
    BY <2>3 DEF kcall, FillRow, FillColumn, FillEnd
  <2>4. CASE SwitchTest(a) \/ SwitchSet(a) \/ SwitchDraw(a) \/ SwitchEnd(a)
    BY <2>4 DEF SwitchTest, SwitchSet, SwitchDraw, SwitchEnd
  <2>6. CASE CursorLoad(a) \/ CursorColumn(a) \/ CursorRow(a) \/ CursorDraw(a)
    BY <2>6 DEF CursorLoad, CursorColumn, CursorRow, CursorDraw
  <2>5. QED
    BY <1>2, <2>1, <2>2, <2>3, <2>4, <2>6 DEF Step, TtyPrint
<1>3. CASE IrqLeave \/ Halt \/ UNCHANGED vars
  BY <1>3 DEF IrqLeave, Halt, vars
<1>4. CASE IrqEnter \/ Exception
  BY <1>4 DEF IrqEnter, Exception, Intrude
<1>5. QED
  BY <1>1, <1>2, <1>3, <1>4 DEF Next

LEMMA MemoryStep ==
  ASSUME TypeOK, WriterInv, MemorySafe, [Next]_vars
  PROVE  MemorySafe'
<1>1. CASE stray' = stray /\ (intruded => intruded')
  BY <1>1 DEF MemorySafe
<1>2. ASSUME NEW a \in Actors, tty_set_char(a) PROVE MemorySafe'
  <2>1. /\ intruded' = intruded /\ Writing(a) /\ pc[a] = "loop" /\ ptr[a] \in Ttys
        /\ stray' = stray \/ stray' = stray \cup {ptr[a]}
    BY <1>2 DEF tty_set_char, Reading, At, Writing, PrintPcs, TypeOK
  <2>2. CASE Undisturbed(ptr[a])
    <3>1. PositionOK(a)
      BY <2>1, <2>2 DEF WriterInv
    <3>2. x[ptr[a]] \in Nat /\ y[ptr[a]] \in Nat
      BY <2>1, SizeFacts DEF TypeOK, Size
    <3>3. x[ptr[a]] < tty_width /\ y[ptr[a]] < tty_height
      BY <2>1, <3>1, <3>2, SizeFacts DEF PositionOK, CursorPcs
    <3>4. stray' = stray
      BY <1>2, <3>2, <3>3, CellInBuffer DEF tty_set_char
    <3>5. QED
      BY <2>1, <3>4 DEF MemorySafe
  <2>3. CASE ~Undisturbed(ptr[a])
    BY <2>1, <2>3 DEF Undisturbed, MemorySafe
  <2>4. QED
    BY <2>2, <2>3
<1>3. QED
  BY <1>1, <1>2, StrayStep

-----------------------------------------------------------------------------
(* The theorems. *)

LEMMA InvInit == Init => IInv
<1> SUFFICES ASSUME Init PROVE IInv
  OBVIOUS
<1>1. TypeOK /\ ControlInv
  BY TypeInit, ControlInit
<1>2. WriterInv
  BY DEF Init, WriterInv, Writing, CursorPcs, PrintPcs, FillPcs
<1>3. RestInv
  BY SizeFacts DEF Init, RestInv
<1>4. MemorySafe
  BY DEF Init, MemorySafe
<1>5. QED
  BY <1>1, <1>2, <1>3, <1>4 DEF IInv, ControlInv

LEMMA InvStep == IInv /\ [Next]_vars => IInv'
<1> SUFFICES ASSUME IInv, [Next]_vars PROVE IInv'
  OBVIOUS
<1>1. TypeOK /\ ControlInv /\ WriterInv /\ RestInv /\ MemorySafe
  BY DEF IInv, ControlInv
<1>2. TypeOK' /\ ControlInv'
  BY <1>1, TypeStep, ControlStep
<1>3. WriterInv' /\ RestInv'
  BY <1>1, <1>2, PositionStep
<1>4. MemorySafe'
  BY <1>1, MemoryStep
<1>5. QED
  BY <1>2, <1>3, <1>4 DEF IInv, ControlInv

\* The inductive invariant holds in every reachable state.
THEOREM Invariance == Spec => []IInv
<1>1. Init => IInv
  BY InvInit
<1>2. IInv /\ [Next]_vars => IInv'
  BY InvStep
<1>3. QED
  BY <1>1, <1>2, PTL DEF Spec

\* Between ktty_enter and ktty_leave a thread has its tty to itself, whatever
\* interrupts do to current_tty meanwhile.
THEOREM MutexCorrect == Spec => []MutualExclusion
<1>1. IInv => MutualExclusion
  BY DEF IInv, OwnerInv, MutualExclusion
<1>2. QED
  BY <1>1, Invariance, PTL

\* tty_set_char never writes outside tty->mem, on any screen size, except on
\* default_tty after an interrupt printed there in the middle of other output.
THEOREM MemoryCorrect == Spec => []MemorySafe
<1>1. IInv => MemorySafe
  BY DEF IInv
<1>2. QED
  BY <1>1, Invariance, PTL


\* Only the holder of a tty's lock moves its position, and the interrupt
\* handlers that of default_tty.
MovedBy(a) == \A s \in Ttys : x'[s] # x[s] \/ y'[s] # y[s] => s = ptr[a]

LEMMA MoveStep ==
  ASSUME TypeOK, [Next]_vars
  PROVE  \/ x' = x /\ y' = y
         \/ \E a \in Actors : /\ Running(a) /\ Writing(a) /\ MovedBy(a)
                              /\ pc'[a] # pc[a] \/ str'[a] # str[a]
<1> USE DEF shared, driver, locals, ghosts
<1>1. ASSUME NEW p \in Threads, StartJob(p) \/ ktty_enter(p) \/ ktty_leave(p) \/ StartSwitch(p)
      PROVE  x' = x /\ y' = y
  BY <1>1 DEF StartJob, ktty_enter, ktty_leave, StartSwitch
<1> DEFINE Moved(a) == /\ Running(a) /\ Writing(a) /\ MovedBy(a)
                       /\ pc'[a] # pc[a] \/ str'[a] # str[a]
<1>2. ASSUME NEW a \in Actors, Step(a) PROVE (x' = x /\ y' = y) \/ Moved(a)
  <2>1. CASE PrintEnd(a) \/ PrintSetColor(a) \/ PrintNewline(a) \/ PrintBackspace(a) \/ BackspaceLoad(a) \/ tty_set_char(a) \/ AdvanceLoad(a) \/ Wrap(a) \/ NewlineLoad(a) \/ NewlineTest(a) \/ tty_scroll(a)
    BY <2>1 DEF PrintEnd, PrintSetColor, PrintNewline, PrintBackspace, BackspaceLoad, tty_set_char, AdvanceLoad, Wrap, NewlineLoad, NewlineTest, tty_scroll
  <2>2. CASE kcall(a) \/ FillEnd(a) \/ SwitchTest(a) \/ SwitchSet(a) \/ SwitchDraw(a) \/ SwitchEnd(a)
    BY <2>2 DEF kcall, FillEnd, SwitchTest, SwitchSet, SwitchDraw, SwitchEnd
  <2>9. CASE CursorLoad(a) \/ CursorColumn(a) \/ CursorRow(a) \/ CursorDraw(a)
    BY <2>9 DEF CursorLoad, CursorColumn, CursorRow, CursorDraw
  <2>3. ASSUME NEW s \in Seq(Chars), s # <<>> PROVE Tail(s) # s
    <3>1. Len(Tail(s)) = Len(s) - 1 /\ Len(s) \in Nat
      BY <2>3, HeadTailProperties
    <3>2. QED
      BY <3>1
  <2>4. CASE PrintReturn(a)
    BY <2>3, <2>4 DEF PrintReturn, Reading, Consume, At, TypeOK, MovedBy, Writing, PrintPcs
  <2>5. CASE BackspaceStore(a) \/ AdvanceStore(a)
    BY <2>5 DEF BackspaceStore, AdvanceStore, At, Goto, TypeOK, MovedBy, Writing, PrintPcs
  <2>6. CASE NewlineColumn(a) \/ NewlineStore(a) \/ LastRow(a)
    BY <2>6 DEF NewlineColumn, NewlineStore, LastRow, At, Goto, TypeOK, MovedBy, Writing, PrintPcs
  <2>7. CASE FillRow(a) \/ FillColumn(a)
    BY <2>7 DEF FillRow, FillColumn, At, Goto, TypeOK, MovedBy, Writing, FillPcs
  <2>8. QED
    BY <1>2, <2>1, <2>2, <2>4, <2>5, <2>6, <2>7, <2>9 DEF Step, TtyPrint
<1>3. CASE IrqEnter \/ IrqLeave \/ Exception \/ Halt \/ UNCHANGED vars
  BY <1>3 DEF IrqEnter, IrqLeave, Exception, Halt, vars
<1>4. QED
  BY <1>1, <1>2, <1>3 DEF Next

\* Nobody moves the position of a tty but the thread that holds its lock, and
\* the interrupt handlers on default_tty.
THEOREM PositionGuardedCorrect == Spec => PositionGuarded
<1>1. IInv /\ [Next]_vars => [MovesGuarded]_vars
  <2> SUFFICES ASSUME IInv, [Next]_vars, NEW s \in Ttys, x'[s] # x[s] \/ y'[s] # y[s]
               PROVE  \/ s = default_tty /\ pc[Isr] # "idle"
                      \/ \E p \in Threads : lock[s] = p /\ (pc'[p] # pc[p] \/ str'[p] # str[p])
    BY DEF MovesGuarded
  <2>1. TypeOK /\ ControlInv
    BY DEF IInv, ControlInv
  <2>2. PICK a \in Actors : /\ Running(a) /\ Writing(a) /\ MovedBy(a)
                            /\ pc'[a] # pc[a] \/ str'[a] # str[a]
    BY <2>1, MoveStep
  <2>3. s = ptr[a] /\ ptr[a] = Home(a) /\ InSection(a)
    BY <2>1, <2>2, WriterHome DEF MovedBy
  <2>4. CASE a \in Threads
    <3>1. lock[s] = a
      BY <2>1, <2>3, <2>4 DEF ControlInv, OwnerInv, Home
    <3>2. QED
      BY <2>2, <2>4, <3>1
  <2>5. CASE a = Isr
    <3>1. s = default_tty
      BY <2>3, <2>5, ActorAssumption DEF Home
    <3>2. pc[Isr] # "idle"
      BY <2>2, <2>5 DEF Writing, CursorPcs, PrintPcs, FillPcs
    <3>3. QED
      BY <3>1, <3>2
  <2>6. QED
    BY <2>4, <2>5 DEF Actors
<1>2. QED
  BY <1>1, Invariance, PTL DEF Spec, PositionGuarded

-----------------------------------------------------------------------------
(* The monitor. *)

\* Only ktty_enter and ktty_leave take a thread in and out of its section.
LEMMA SectionChange ==
  ASSUME TypeOK, ControlInv, [Next]_vars
  PROVE  \/ \A p \in Threads : InSection(p)' <=> InSection(p)
         \/ \E p \in Threads : ktty_enter(p) \/ ktty_leave(p)
<1> DEFINE Kept == \A p \in Threads : InSection(p)' <=> InSection(p)
<1> USE ActorAssumption DEF shared, driver, locals, ghosts
<1>1. ASSUME NEW a \in Actors,
             \A b \in Actors \ {a} : pc'[b] = pc[b] /\ ret'[b] = ret[b],
             a \in Threads => (InSection(a)' <=> InSection(a))
      PROVE  Kept
  BY <1>1 DEF InSection, Writing, Actors
<1>2. ASSUME NEW p \in Threads, StartJob(p) PROVE Kept
  <2>1. /\ \A b \in Actors \ {p} : pc'[b] = pc[b] /\ ret'[b] = ret[b]
        /\ InSection(p)' <=> InSection(p)
    BY <1>2 DEF StartJob, At, Goto, TypeOK, Actors, InSection, Writing, CursorPcs, PrintPcs, FillPcs
  <2>2. QED
    BY <1>1, <2>1 DEF Actors
<1>3. ASSUME NEW a \in Actors, Step(a) PROVE Kept
  <2>1. CASE kcall(a)
    <3>1. \A b \in Actors \ {a} : pc'[b] = pc[b] /\ ret'[b] = ret[b]
      BY <2>1 DEF kcall, Goto, TypeOK
    <3>2. a \in Threads => InSection(a) /\ InSection(a)'
      BY <2>1 DEF kcall, At, Goto, Done, TypeOK, InSection, Writing, PrintPcs, FillPcs
    <3>3. QED
      BY <1>1, <3>1, <3>2
  <2>2. CASE TtyPrint(a) \/ FillRow(a) \/ FillColumn(a) \/ FillEnd(a)
    <3>1. \A b \in Actors \ {a} : pc'[b] = pc[b] /\ ret'[b] = ret[b]
      BY <2>2 DEF TtyPrint, PrintEnd, PrintSetColor, PrintNewline, PrintReturn, PrintBackspace,
                  BackspaceLoad, BackspaceStore, tty_set_char, AdvanceLoad, AdvanceStore, Wrap,
                  NewlineColumn, NewlineLoad, NewlineStore, NewlineTest, tty_scroll, LastRow,
                  FillRow, FillColumn, FillEnd, Goto, TypeOK
    <3>2. InSection(a)
      BY <2>2 DEF TtyPrint, PrintEnd, PrintSetColor, PrintNewline, PrintReturn, PrintBackspace,
                  BackspaceLoad, BackspaceStore, tty_set_char, AdvanceLoad, AdvanceStore, Wrap,
                  NewlineColumn, NewlineLoad, NewlineStore, NewlineTest, tty_scroll, LastRow,
                  FillRow, FillColumn, FillEnd, Reading, At, InSection, Writing, PrintPcs, FillPcs
    <3>3. InSection(a)'
      <4>1. CASE PrintEnd(a) \/ FillEnd(a)
        BY <4>1 DEF PrintEnd, FillEnd, Goto, TypeOK, InSection, Writing, CursorPcs
      <4>2. CASE tty_scroll(a)
        BY <4>2 DEF tty_scroll, Goto, TypeOK, InSection, Writing, CursorPcs, PrintPcs
      <4>3. CASE PrintSetColor(a) \/ PrintReturn(a)
        BY <4>3 DEF PrintSetColor, PrintReturn, Reading, At, InSection, Writing, PrintPcs
      <4>4. CASE PrintNewline(a) \/ PrintBackspace(a) \/ tty_set_char(a)
        BY <4>4 DEF PrintNewline, PrintBackspace, tty_set_char, Goto, TypeOK, InSection, Writing,
                    Reading, At, PrintPcs
      <4>5. CASE BackspaceLoad(a) \/ BackspaceStore(a) \/ AdvanceLoad(a) \/ AdvanceStore(a) \/ Wrap(a)
        BY <4>5 DEF BackspaceLoad, BackspaceStore, AdvanceLoad, AdvanceStore, Wrap, Goto, TypeOK,
                    InSection, Writing, PrintPcs
      <4>6. CASE \/ NewlineColumn(a) \/ NewlineLoad(a) \/ NewlineStore(a) \/ NewlineTest(a)
                 \/ LastRow(a) \/ FillRow(a) \/ FillColumn(a)
        BY <4>6 DEF NewlineColumn, NewlineLoad, NewlineStore, NewlineTest, LastRow, FillRow,
                    FillColumn, Goto, TypeOK, InSection, Writing, PrintPcs, FillPcs
      <4>7. QED
        BY <2>2, <4>1, <4>2, <4>3, <4>4, <4>5, <4>6 DEF TtyPrint
    <3>4. QED
      BY <1>1, <3>1, <3>2, <3>3
  <2>3. CASE SwitchTest(a) \/ SwitchSet(a) \/ SwitchDraw(a) \/ SwitchEnd(a)
    <3>1. \A b \in Actors \ {a} : pc'[b] = pc[b] /\ ret'[b] = ret[b]
      BY <2>3 DEF SwitchTest, SwitchSet, SwitchDraw, SwitchEnd, Goto, TypeOK
    <3>2. a \in Threads => ~InSection(a) /\ ~InSection(a)'
      BY <2>3 DEF SwitchTest, SwitchSet, SwitchDraw, SwitchEnd, At, Goto, TypeOK, InSection, Writing,
                  CursorPcs, PrintPcs, FillPcs
    <3>3. QED
      BY <1>1, <3>1, <3>2
  <2>4. CASE CursorLoad(a) \/ CursorColumn(a) \/ CursorRow(a)
    <3>1. \A b \in Actors \ {a} : pc'[b] = pc[b] /\ ret'[b] = ret[b]
      BY <2>4 DEF CursorLoad, CursorColumn, CursorRow, Goto, TypeOK
    <3>2. InSection(a)' <=> InSection(a)
      BY <2>4 DEF CursorLoad, CursorColumn, CursorRow, At, Goto, TypeOK, InSection, Writing, CursorPcs, PrintPcs, FillPcs
    <3>3. QED
      BY <1>1, <3>1, <3>2
  <2>5. CASE CursorDraw(a)
    <3>1. \A b \in Actors \ {a} : pc'[b] = pc[b] /\ ret'[b] = ret[b]
      BY <2>5 DEF CursorDraw, Goto, TypeOK
    <3>2. InSection(a)' <=> InSection(a)
      BY <2>5 DEF CursorDraw, At, Goto, TypeOK, InSection, Writing, CursorPcs, PrintPcs, FillPcs
    <3>3. QED
      BY <1>1, <3>1, <3>2
  <2>6. QED
    BY <1>3, <2>1, <2>2, <2>3, <2>4, <2>5 DEF Step
<1>4. ASSUME NEW p \in Threads, StartSwitch(p) PROVE Kept
  <2>1. /\ \A b \in Actors \ {p} : pc'[b] = pc[b] /\ ret'[b] = ret[b]
        /\ InSection(p)' <=> InSection(p)
    BY <1>4 DEF StartSwitch, At, Goto, TypeOK, Actors, InSection, Writing, CursorPcs, PrintPcs, FillPcs
  <2>2. QED
    BY <1>1, <2>1 DEF Actors
<1>5. CASE IrqEnter \/ IrqLeave \/ Exception
  <2>1. \A b \in Actors \ {Isr} : pc'[b] = pc[b] /\ ret'[b] = ret[b]
    BY <1>5 DEF IrqEnter, IrqLeave, Exception, Goto, TypeOK
  <2>2. QED
    BY <1>1, <2>1 DEF Actors
<1>6. CASE Halt \/ UNCHANGED vars
  BY <1>6 DEF Halt, vars, InSection, Writing
<1>7. QED
  BY <1>2, <1>3, <1>4, <1>5, <1>6 DEF Next

\* A step that keeps every section where it is keeps Inside.
LEMMA InsideSame ==
  ASSUME \A p \in Threads : InSection(p)' <=> InSection(p)
  PROVE  Inside' = Inside
BY DEF Inside

\* With interrupts returned from, a thread finds the tty of its process.
LEMMA OwnTty ==
  ASSUME ControlInv, NEW p \in Threads, Running(p)
  PROVE  tty_current_process(p) = ThreadTty[p]
BY ActorAssumption DEF ControlInv, RedirectInv, Running, tty_current_process

LEMMA EnterMonitor ==
  ASSUME TypeOK, ControlInv, NEW p \in Threads, ktty_enter(p)
  PROVE  Monitor!Enter(p)
<1>1. tty_current_process(p) = ThreadTty[p] /\ ThreadTty[p] \in Ttys
  BY OwnTty, TtyAssumption DEF ktty_enter, At
<1>2. \A q \in Threads : ThreadTty[q] = ThreadTty[p] => ~InSection(q)
  BY <1>1, ActorAssumption DEF ktty_enter, ControlInv, OwnerInv, Actors
<1>3. /\ InSection(p)'
      /\ \A q \in Threads \ {p} : InSection(q)' <=> InSection(q)
  BY DEF ktty_enter, Goto, TypeOK, InSection, Writing, locals, Actors
<1>4. Inside[ThreadTty[p]] = {}
  BY <1>1, <1>2 DEF Inside
<1>5. ASSUME NEW t \in Ttys
      PROVE  Inside'[t] = IF t = ThreadTty[p] THEN {p} ELSE Inside[t]
  <2>1. Inside'[t] = {q \in Threads : ThreadTty[q] = t /\ InSection(q)'}
    BY DEF Inside
  <2>2. Inside[t] = {q \in Threads : ThreadTty[q] = t /\ InSection(q)}
    BY DEF Inside
  <2>3. QED
    BY <1>2, <1>3, <2>1, <2>2
<1>6. Inside' = [Inside EXCEPT ![ThreadTty[p]] = {p}]
  BY <1>5 DEF Inside
<1>7. Position' = Position
  BY DEF ktty_enter, Position
<1>8. QED
  BY <1>4, <1>6, <1>7 DEF Monitor!Enter

LEMMA LeaveMonitor ==
  ASSUME TypeOK, ControlInv, NEW p \in Threads, ktty_leave(p)
  PROVE  Monitor!Leave(p)
<1>1. InSection(p) /\ ThreadTty[p] \in Ttys
  BY TtyAssumption DEF ktty_leave, At, InSection
<1>2. \A q \in Threads : ThreadTty[q] = ThreadTty[p] /\ InSection(q) => q = p
  BY <1>1 DEF ControlInv, OwnerInv
<1>3. /\ ~InSection(p)'
      /\ \A q \in Threads \ {p} : InSection(q)' <=> InSection(q)
  BY DEF ktty_leave, Goto, TypeOK, InSection, Writing, Actors, CursorPcs, PrintPcs, FillPcs
<1>4. Inside[ThreadTty[p]] = {p}
  BY <1>1, <1>2 DEF Inside
<1>5. ASSUME NEW t \in Ttys
      PROVE  Inside'[t] = IF t = ThreadTty[p] THEN {} ELSE Inside[t]
  <2>1. Inside'[t] = {q \in Threads : ThreadTty[q] = t /\ InSection(q)'}
    BY DEF Inside
  <2>2. Inside[t] = {q \in Threads : ThreadTty[q] = t /\ InSection(q)}
    BY DEF Inside
  <2>3. QED
    BY <1>2, <1>3, <2>1, <2>2
<1>6. Inside' = [Inside EXCEPT ![ThreadTty[p]] = {}]
  BY <1>5 DEF Inside
<1>7. Position' = Position
  BY DEF ktty_leave, Position
<1>8. QED
  BY <1>4, <1>6, <1>7 DEF Monitor!Leave

\* A step that moves positions moves that of one tty.
LEMMA MoveMonitor ==
  ASSUME TypeOK, TypeOK', NEW a \in Actors, ptr[a] \in Ttys, MovedBy(a), Inside' = Inside
  PROVE  Monitor!Move(ptr[a])
<1>1. <<x'[ptr[a]], y'[ptr[a]]>> \in Size \X Size
  BY DEF TypeOK
<1>2. Position' = [Position EXCEPT ![ptr[a]] = <<x'[ptr[a]], y'[ptr[a]]>>]
  BY DEF Position, MovedBy
<1>3. QED
  BY <1>1, <1>2 DEF Monitor!Move

LEMMA MonitorStep == IInv /\ IInv' /\ [Next]_vars => [Monitor!Next]_<<Inside, Position>>
<1> SUFFICES ASSUME IInv, IInv', [Next]_vars,
                    ~(Inside' = Inside /\ Position' = Position)
             PROVE  Monitor!Next
  OBVIOUS
<1>1. TypeOK /\ TypeOK' /\ ControlInv
  BY DEF IInv, ControlInv
<1>2. ASSUME NEW p \in Threads, ktty_enter(p) \/ ktty_leave(p) PROVE Monitor!Next
  BY <1>1, <1>2, EnterMonitor, LeaveMonitor DEF Monitor!Next
<1>3. CASE \A p \in Threads : InSection(p)' <=> InSection(p)
  <2>1. Inside' = Inside
    BY <1>3, InsideSame
  <2>2. ~(x' = x /\ y' = y)
    BY <2>1 DEF Position
  <2>3. PICK a \in Actors : Running(a) /\ Writing(a) /\ MovedBy(a)
    BY <1>1, <2>2, MoveStep
  <2>4. ptr[a] \in Ttys /\ InSection(a) /\ ptr[a] = Home(a)
    BY <1>1, <2>3, WriterHome DEF TypeOK
  <2>5. Monitor!Move(ptr[a])
    BY <1>1, <2>1, <2>3, <2>4, MoveMonitor
  <2>6. CASE a \in Threads
    <3>1. ptr[a] = ThreadTty[a]
      BY <2>4, <2>6 DEF Home
    <3>2. \A q \in Threads : ThreadTty[q] = ThreadTty[a] /\ InSection(q) => q = a
      BY <1>1, <2>4, <2>6 DEF ControlInv, OwnerInv
    <3>3. Inside[ThreadTty[a]] = {a}
      BY <2>4, <2>6, <3>1, <3>2 DEF Inside
    <3>4. Monitor!Write(a)
      BY <2>5, <3>1, <3>3 DEF Monitor!Write
    <3>5. QED
      BY <2>6, <3>4 DEF Monitor!Next
  <2>7. CASE a = Isr
    <3>1. ptr[a] = default_tty
      BY <2>4, <2>7, ActorAssumption DEF Home
    <3>2. QED
      BY <2>5, <3>1 DEF Monitor!Next
  <2>8. QED
    BY <2>6, <2>7 DEF Actors
<1>4. QED
  BY <1>1, <1>2, <1>3, SectionChange

\* MonitorSpec: for any threads, ttys, screens and output, the terminals driven
\* load by load and store by store are monitors.
THEOREM MonitorImplemented == Spec => MonitorSpec
<1>1. Init => Monitor!Init
  <2> SUFFICES ASSUME Init PROVE Monitor!Init
    OBVIOUS
  <2>1. \A p \in Threads : ~InSection(p)
    BY DEF Init, InSection, Writing, Actors, CursorPcs, PrintPcs, FillPcs
  <2>2. Inside = [t \in Ttys |-> {}]
    BY <2>1 DEF Inside
  <2>3. Position = [t \in Ttys |-> <<0, 0>>]
    BY DEF Init, Position
  <2>4. QED
    BY <2>2, <2>3 DEF Monitor!Init
<1>2. QED
  BY <1>1, MonitorStep, Invariance, PTL DEF Spec, MonitorSpec, Monitor!Spec, Monitor!vars

-----------------------------------------------------------------------------
(* The cursor. *)

\* a is going to redraw the cursor, or to print where it stands.
Redraws(a) ==
  \/ pc[a] \in CursorPcs \cup {"sw_draw"}
  \/ Writing(a) /\ ptr[a] = current_screen

\* A step of a that does not draw the cursor: the screen stays, and whoever
\* owes a redraw owes it still.
Owes(a) ==
  /\ cursor' = cursor /\ late' = late /\ current_screen' = current_screen /\ panic' = panic
  /\ \A b \in Actors \ {a} : pc'[b] = pc[b] /\ ptr'[b] = ptr[b] /\ ret'[b] = ret[b]
  /\ Redraws(a) => Redraws(a)'

LEMMA RedrawStep ==
  ASSUME TypeOK, [Next]_vars, ~panic'
  PROVE  \/ \E a \in Actors : CursorDraw(a) \/ Owes(a) \/ Redraws(a)'
         \/ UNCHANGED vars
<1> USE DEF shared, driver, locals, ghosts, At, Goto
<1>1. ASSUME NEW p \in Threads, StartJob(p) \/ ktty_enter(p) \/ ktty_leave(p) \/ StartSwitch(p)
      PROVE  Owes(p)
  <2>1. ~Redraws(p)
    BY <1>1 DEF StartJob, ktty_enter, ktty_leave, StartSwitch, Redraws, Writing, PrintPcs, FillPcs, CursorPcs
  <2>2. QED
    BY <1>1, <2>1 DEF StartJob, ktty_enter, ktty_leave, StartSwitch, Owes, TypeOK
<1>2. ASSUME NEW a \in Actors, Step(a) PROVE CursorDraw(a) \/ Owes(a) \/ Redraws(a)'
  <2>1. CASE kcall(a)
    <3>1. ~Redraws(a)
      BY <2>1 DEF kcall, Redraws, Writing, PrintPcs, FillPcs, CursorPcs
    <3>2. QED
      BY <2>1, <3>1 DEF kcall, Owes, TypeOK
  <2>2. CASE PrintEnd(a) \/ FillEnd(a) \/ tty_scroll(a)
    <3>1. CASE ptr[a] = current_screen
      BY <2>2, <3>1 DEF PrintEnd, FillEnd, tty_scroll, Redraws, CursorPcs, TypeOK
    <3>2. CASE ptr[a] # current_screen
      <4>1. ~Redraws(a)
        BY <2>2, <3>2 DEF PrintEnd, FillEnd, tty_scroll, Redraws, Writing, PrintPcs, FillPcs, CursorPcs
      <4>2. QED
        BY <2>2, <3>2, <4>1 DEF PrintEnd, FillEnd, tty_scroll, Owes, TypeOK
    <3>3. QED
      BY <3>1, <3>2
  <2>3. CASE PrintSetColor(a) \/ PrintReturn(a)
    BY <2>3 DEF PrintSetColor, PrintReturn, Reading, Owes, Redraws, Writing
  <2>4. CASE PrintNewline(a) \/ PrintBackspace(a) \/ tty_set_char(a)
    BY <2>4 DEF PrintNewline, PrintBackspace, tty_set_char, Reading, Owes, Redraws, Writing,
                PrintPcs, CursorPcs, TypeOK
  <2>5. CASE BackspaceLoad(a) \/ BackspaceStore(a) \/ AdvanceLoad(a) \/ AdvanceStore(a) \/ Wrap(a)
    BY <2>5 DEF BackspaceLoad, BackspaceStore, AdvanceLoad, AdvanceStore, Wrap, Owes, Redraws, Writing,
                PrintPcs, CursorPcs, TypeOK
  <2>6. CASE NewlineColumn(a) \/ NewlineLoad(a) \/ NewlineStore(a) \/ NewlineTest(a) \/ LastRow(a)
    BY <2>6 DEF NewlineColumn, NewlineLoad, NewlineStore, NewlineTest, LastRow, Owes, Redraws, Writing,
                PrintPcs, CursorPcs, TypeOK
  <2>7. CASE FillRow(a) \/ FillColumn(a)
    BY <2>7 DEF FillRow, FillColumn, Owes, Redraws, Writing, FillPcs, CursorPcs, TypeOK
  <2>8. CASE SwitchTest(a) \/ SwitchEnd(a)
    <3>1. ~Redraws(a)
      BY <2>8 DEF SwitchTest, SwitchEnd, Redraws, Writing, PrintPcs, FillPcs, CursorPcs
    <3>2. QED
      BY <2>8, <3>1 DEF SwitchTest, SwitchEnd, Owes, TypeOK
  <2>9. CASE SwitchSet(a) \/ SwitchDraw(a) \/ CursorLoad(a) \/ CursorColumn(a) \/ CursorRow(a)
    BY <2>9 DEF SwitchSet, SwitchDraw, CursorLoad, CursorColumn, CursorRow, Redraws, CursorPcs, TypeOK
  <2>10. QED
    BY <1>2, <2>1, <2>2, <2>3, <2>4, <2>5, <2>6, <2>7, <2>8, <2>9 DEF Step, TtyPrint
<1>4. CASE IrqEnter \/ IrqLeave
  <2>1. ~Redraws(Isr)
    BY <1>4 DEF IrqEnter, IrqLeave, Redraws, Writing, PrintPcs, FillPcs, CursorPcs
  <2>2. Owes(Isr)
    BY <1>4, <2>1 DEF IrqEnter, IrqLeave, Owes, TypeOK
  <2>3. QED
    BY <2>2 DEF Actors
<1>5. CASE Exception \/ Halt
  BY <1>5 DEF Exception, Halt
<1>6. QED
  BY <1>1, <1>2, <1>4, <1>5 DEF Next, Actors

LEMMA CursorStep == TypeOK /\ CursorFollows /\ [Next]_vars => CursorFollows'
<1> SUFFICES ASSUME TypeOK, CursorFollows, [Next]_vars, ~panic',
                    "cursor" \notin late', \A a \in Actors : ~Redraws(a)'
             PROVE  (cursor = CursorHome)'
  BY DEF CursorFollows, Redraws
<1>1. CASE UNCHANGED vars
  BY <1>1 DEF vars, shared, driver, locals, ghosts, CursorFollows, CursorHome, Redraws, Writing
<1>2. ASSUME NEW a \in Actors, CursorDraw(a) PROVE (cursor = CursorHome)'
  <2>1. cursor' = CursorHome
    BY <1>2 DEF CursorDraw, Judged
  <2>2. QED
    BY <1>2, <2>1 DEF CursorDraw, CursorHome, shared
<1>3. ASSUME NEW a \in Actors, Owes(a) PROVE (cursor = CursorHome)'
  <2>1. \A b \in Actors : ~Redraws(b)
    <3>1. SUFFICES ASSUME NEW b \in Actors, Redraws(b) PROVE Redraws(b)'
      OBVIOUS
    <3>2. CASE b = a
      BY <1>3, <3>1, <3>2 DEF Owes
    <3>3. CASE b # a
      BY <1>3, <3>1, <3>3 DEF Owes, Redraws, Writing
    <3>4. QED
      BY <3>2, <3>3
  <2>2. cursor = CursorHome
    BY <1>3, <2>1 DEF Owes, CursorFollows, Redraws
  <2>3. x'[current_screen] = x[current_screen] /\ y'[current_screen] = y[current_screen]
    BY <2>1, MoveStep DEF MovedBy, Redraws, TypeOK
  <2>4. QED
    BY <1>3, <2>2, <2>3 DEF Owes, CursorHome
<1>4. QED
  BY <1>1, <1>2, <1>3, RedrawStep

\* The cursor on the display is where the next character goes
\* (tty_update_cursor_location is called after every move on the current
\* screen), whoever else prints, switches or interrupts in between, unless the
\* last update itself was overtaken between its loads and its draw.
THEOREM CursorCorrect == Spec => []CursorFollows
<1>1. Init => CursorFollows
  BY TtyAssumption DEF Init, CursorFollows, CursorHome
<1>2. TypeOK /\ CursorFollows /\ [Next]_vars => CursorFollows'
  BY CursorStep
<1>3. QED
  BY <1>1, <1>2, TypeCorrect, PTL DEF Spec

-----------------------------------------------------------------------------
(* The exception screen. *)

\* a is inside tty_switch.
Switching(a) == pc[a] \in SwitchPcs \/ (pc[a] \in CursorPcs /\ ret[a] = "sw_end")

Drawn == cursor = [tty |-> default_tty, col |-> x[default_tty], row |-> y[default_tty]]

\* Only the exception handler switches above a thread, and the display follows:
\* a screen that is not shown yet is about to be, unless another tty_switch
\* overtook the call of the driver.
ShownInv ==
  /\ Switching(Isr) \/ pc[Isr] = "halt" => panic
  /\ \/ shown = current_screen
     \/ \E a \in Actors : pc[a] = "sw_draw" /\ ptr[a] = current_screen
     \/ "screen" \in late

\* The exception handler on its way to the halt: no thread runs any more, it
\* has default_tty as its tty and, once past the switch, as the screen, and
\* it ends on a cursor update.
PanicInv ==
  panic =>
    /\ pc[Isr] \notin {"idle", "enter", "leave", "irq_leave"}
    /\ ptr[Isr] = default_tty
    /\ pc[Isr] \notin {"sw_test", "sw_set"} => current_screen = default_tty
    /\ pc[Isr] \in {"cursor_col", "cursor_row", "cursor_draw"} => arg[Isr] = default_tty
    /\ pc[Isr] \in {"cursor_row", "cursor_draw"} => reg[Isr] = x[default_tty]
    /\ pc[Isr] = "cursor_draw" => row[Isr] = y[default_tty]
    /\ Switching(Isr) => out[Isr] # <<>>
    /\ pc[Isr] = "call" /\ out[Isr] = <<>> => Drawn
    /\ pc[Isr] = "halt" => Drawn

ScreenInv == ShownInv /\ PanicInv

LEMMA ScreenInit == Init => ScreenInv
BY ActorAssumption DEF Init, ScreenInv, ShownInv, PanicInv, Switching, SwitchPcs, CursorPcs, Actors

\* What a step of a outside tty_switch keeps.
Aside(a) ==
  /\ panic' = panic /\ shown' = shown /\ current_screen' = current_screen
  /\ "screen" \in late => "screen" \in late'
  /\ \A b \in Actors \ {a} :
       pc'[b] = pc[b] /\ ptr'[b] = ptr[b] /\ ret'[b] = ret[b] /\ out'[b] = out[b] /\ arg'[b] = arg[b]

LEMMA AsideShown ==
  ASSUME TypeOK, ShownInv, NEW a \in Actors, Aside(a),
         pc[a] # "sw_draw", pc'[a] # "sw_draw",
         a = Isr => (Switching(a)' => Switching(a)) /\ (pc'[a] = "halt" => panic)
  PROVE  ShownInv'
<1>1. Switching(Isr)' \/ pc'[Isr] = "halt" => panic'
  BY ActorAssumption DEF Aside, ShownInv, Switching, Actors
<1>2. \/ shown' = current_screen'
      \/ \E b \in Actors : pc'[b] = "sw_draw" /\ ptr'[b] = current_screen'
      \/ "screen" \in late'
  BY DEF Aside, ShownInv
<1>3. QED
  BY <1>1, <1>2 DEF ShownInv

\* The exception handler prints: whatever it does, a cursor update follows.
LEMMA PanicPrints ==
  ASSUME panic, PanicInv, pc[Isr] \notin {"sw_test", "sw_set"},
         pc'[Isr] \in PrintPcs \cup FillPcs \/ (pc'[Isr] = "cursor_load" /\ ret'[Isr] # "sw_end"),
         ptr'[Isr] = default_tty, current_screen' = current_screen
  PROVE  PanicInv'
BY DEF PanicInv, Switching, SwitchPcs, CursorPcs, PrintPcs, FillPcs

LEMMA ScreenStep == TypeOK /\ ControlInv /\ ScreenInv /\ [Next]_vars => ScreenInv'
<1> SUFFICES ASSUME TypeOK, ControlInv, ShownInv, PanicInv, [Next]_vars
             PROVE  ShownInv' /\ PanicInv'
  BY DEF ScreenInv
<1> USE DEF shared, driver, locals, ghosts, At, Goto
\* While the exception is served, no thread runs.
<1>1. ASSUME NEW p \in Threads, Running(p) PROVE ~panic /\ p # Isr
  BY <1>1, ActorAssumption DEF Running, PanicInv
<1>2. ASSUME ~panic' PROVE PanicInv'
  BY <1>2 DEF PanicInv
<1>3. ASSUME NEW p \in Threads, StartJob(p) \/ ktty_enter(p) \/ ktty_leave(p) \/ StartSwitch(p)
      PROVE  ShownInv' /\ PanicInv'
  <2>1. Aside(p) /\ ~panic' /\ p # Isr
    BY <1>1, <1>3 DEF StartJob, ktty_enter, ktty_leave, StartSwitch, Aside, TypeOK
  <2>2. pc[p] # "sw_draw" /\ pc'[p] # "sw_draw"
    BY <1>3 DEF StartJob, ktty_enter, ktty_leave, StartSwitch, TypeOK, Actors
  <2>3. QED
    BY <1>2, <2>1, <2>2, AsideShown DEF Actors
<1>5. ASSUME NEW a \in Actors, Step(a) PROVE ShownInv' /\ PanicInv'
  <2> DEFINE Plain == /\ Aside(a)
                      /\ pc[a] # "sw_draw" /\ pc'[a] # "sw_draw"
                      /\ a = Isr => (Switching(a)' => Switching(a)) /\ (pc'[a] = "halt" => panic)
  <2>1. ASSUME Plain, a = Isr /\ panic => PanicInv' PROVE ShownInv' /\ PanicInv'
    <3>1. ShownInv'
      BY <2>1, AsideShown
    <3>2. CASE a = Isr /\ panic
      BY <2>1, <3>1, <3>2
    <3>3. CASE ~(a = Isr /\ panic)
      <4>1. Running(a)
        BY <1>5 DEF Step, TtyPrint, kcall, PrintEnd, PrintSetColor, PrintNewline, PrintReturn, PrintBackspace,
             BackspaceLoad, BackspaceStore, tty_set_char, AdvanceLoad, AdvanceStore, Wrap, NewlineColumn,
             NewlineLoad, NewlineStore, NewlineTest, tty_scroll, LastRow, FillRow, FillColumn, FillEnd,
             SwitchTest, SwitchSet, SwitchDraw, SwitchEnd, CursorLoad, CursorColumn, CursorRow, CursorDraw, Reading
      <4>2. ~panic'
        BY <1>1, <2>1, <3>3, <4>1 DEF Aside, Actors
      <4>3. QED
        BY <1>2, <3>1, <4>2
    <3>4. QED
      BY <3>2, <3>3
  <2>2. ASSUME a = Isr, panic
        PROVE  ptr[a] = default_tty /\ (pc[a] \notin {"sw_test", "sw_set"} => current_screen = default_tty)
    BY <2>2 DEF PanicInv
  <2>3. CASE PrintSetColor(a) \/ PrintReturn(a)
    <3>1. Plain
      BY <2>3 DEF PrintSetColor, PrintReturn, Reading, Aside, Switching
    <3>2. a = Isr /\ panic => PanicInv'
      BY <2>2, <2>3, PanicPrints DEF PrintSetColor, PrintReturn, Reading, PrintPcs
    <3>3. QED
      BY <2>1, <3>1, <3>2
  <2>4. CASE PrintNewline(a) \/ PrintBackspace(a) \/ tty_set_char(a)
    <3>1. Plain
      BY <2>4 DEF PrintNewline, PrintBackspace, tty_set_char, Reading, Aside, Switching, SwitchPcs, CursorPcs, TypeOK
    <3>2. ASSUME a = Isr, panic PROVE PanicInv'
      <4>1. pc[a] \in PrintPcs /\ pc'[a] \in PrintPcs /\ ptr' = ptr /\ current_screen' = current_screen
        BY <2>4 DEF PrintNewline, PrintBackspace, tty_set_char, Reading, PrintPcs, TypeOK
      <4>2. QED
        BY <2>2, <3>2, <4>1, PanicPrints DEF PrintPcs
    <3>3. QED
      BY <2>1, <3>1, <3>2
  <2>5. CASE BackspaceLoad(a) \/ BackspaceStore(a) \/ AdvanceLoad(a) \/ AdvanceStore(a) \/ Wrap(a)
    <3>1. Plain
      BY <2>5 DEF BackspaceLoad, BackspaceStore, AdvanceLoad, AdvanceStore, Wrap, Aside, Switching, SwitchPcs, CursorPcs, TypeOK
    <3>2. ASSUME a = Isr, panic PROVE PanicInv'
      <4>1. pc[a] \in PrintPcs /\ pc'[a] \in PrintPcs /\ ptr' = ptr /\ current_screen' = current_screen
        BY <2>5 DEF BackspaceLoad, BackspaceStore, AdvanceLoad, AdvanceStore, Wrap, PrintPcs, TypeOK
      <4>2. QED
        BY <2>2, <3>2, <4>1, PanicPrints DEF PrintPcs
    <3>3. QED
      BY <2>1, <3>1, <3>2
  <2>6. CASE NewlineColumn(a) \/ NewlineLoad(a) \/ NewlineStore(a) \/ NewlineTest(a) \/ LastRow(a)
    <3>1. Plain
      BY <2>6 DEF NewlineColumn, NewlineLoad, NewlineStore, NewlineTest, LastRow, Aside, Switching, SwitchPcs, CursorPcs, TypeOK
    <3>2. ASSUME a = Isr, panic PROVE PanicInv'
      <4>1. pc[a] \in PrintPcs /\ pc'[a] \in PrintPcs /\ ptr' = ptr /\ current_screen' = current_screen
        BY <2>6 DEF NewlineColumn, NewlineLoad, NewlineStore, NewlineTest, LastRow, PrintPcs, TypeOK
      <4>2. QED
        BY <2>2, <3>2, <4>1, PanicPrints DEF PrintPcs
    <3>3. QED
      BY <2>1, <3>1, <3>2
  <2>7. CASE FillRow(a) \/ FillColumn(a)
    <3>1. Plain
      BY <2>7 DEF FillRow, FillColumn, Aside, Switching, SwitchPcs, CursorPcs, TypeOK
    <3>2. ASSUME a = Isr, panic PROVE PanicInv'
      <4>1. pc[a] \in FillPcs /\ pc'[a] \in FillPcs /\ ptr' = ptr /\ current_screen' = current_screen
        BY <2>7 DEF FillRow, FillColumn, FillPcs, TypeOK
      <4>2. QED
        BY <2>2, <3>2, <4>1, PanicPrints DEF FillPcs
    <3>3. QED
      BY <2>1, <3>1, <3>2
  <2>8. CASE PrintEnd(a) \/ FillEnd(a) \/ tty_scroll(a)
    <3>1. Plain
      BY <2>8 DEF PrintEnd, FillEnd, tty_scroll, Aside, Switching, SwitchPcs, CursorPcs, TypeOK
    <3>2. ASSUME a = Isr, panic PROVE PanicInv'
      <4>1. pc[a] \in PrintPcs \cup FillPcs /\ ptr' = ptr /\ current_screen' = current_screen
        BY <2>8 DEF PrintEnd, FillEnd, tty_scroll, PrintPcs, FillPcs
      <4>2. ptr[a] = current_screen
        BY <2>2, <3>2, <4>1 DEF PrintPcs, FillPcs
      <4>3. pc'[a] = "cursor_load" /\ ret'[a] # "sw_end"
        BY <2>8, <4>2 DEF PrintEnd, FillEnd, tty_scroll, TypeOK
      <4>4. QED
        BY <2>2, <3>2, <4>1, <4>3, PanicPrints DEF PrintPcs, FillPcs
    <3>3. QED
      BY <2>1, <3>1, <3>2
  <2>9. CASE kcall(a)
    <3>1. Plain
      BY <2>9 DEF kcall, Done, Aside, Switching, SwitchPcs, CursorPcs, TypeOK, Actors
    <3>2. CASE a = Isr /\ panic /\ out[a] = <<>>
      <4>1. Drawn /\ x' = x /\ y' = y /\ cursor' = cursor /\ pc'[Isr] = "halt" /\ panic' = panic
            /\ ptr' = ptr /\ current_screen' = current_screen
        BY <2>9, <3>2, ActorAssumption DEF kcall, Done, PanicInv, TypeOK, Actors
      <4>2. Drawn'
        BY <4>1 DEF Drawn
      <4>3. QED
        BY <2>1, <2>2, <2>9, <3>1, <3>2, <4>1, <4>2 DEF PanicInv, Switching, SwitchPcs, CursorPcs, kcall
    <3>3. CASE a = Isr /\ panic /\ out[a] # <<>>
      <4>1. ptr'[a] = default_tty
        BY <2>9, <3>3, TtyAssumption DEF kcall, tty_current_process, ControlInv, RedirectInv, TypeOK, Actors
      <4>2. pc'[a] \in {"fill_y", "loop"} /\ pc[a] = "call" /\ current_screen' = current_screen
        BY <2>9, <3>3 DEF kcall, TypeOK
      <4>3. PanicInv'
        BY <3>3, <4>1, <4>2, PanicPrints DEF PrintPcs, FillPcs
      <4>4. QED
        BY <2>1, <3>1, <4>3
    <3>4. QED
      BY <2>1, <3>1, <3>2, <3>3
  <2>10. CASE SwitchTest(a)
    <3>1. Plain
      BY <2>10 DEF SwitchTest, Aside, Switching, SwitchPcs, CursorPcs, TypeOK
    <3>2. a = Isr /\ panic => PanicInv'
      BY <2>10 DEF SwitchTest, PanicInv, Switching, SwitchPcs, CursorPcs, TypeOK
    <3>3. QED
      BY <2>1, <3>1, <3>2
  <2>11. CASE SwitchEnd(a)
    <3>1. Plain
      BY <2>11 DEF SwitchEnd, Aside, Switching, SwitchPcs, CursorPcs, TypeOK
    <3>2. a = Isr /\ panic => PanicInv'
      BY <2>11 DEF SwitchEnd, PanicInv, Switching, SwitchPcs, CursorPcs, TypeOK
    <3>3. QED
      BY <2>1, <3>1, <3>2
  <2>12. CASE CursorLoad(a) \/ CursorColumn(a) \/ CursorRow(a)
    <3>1. Plain
      BY <2>12 DEF CursorLoad, CursorColumn, CursorRow, Aside, Switching, SwitchPcs, CursorPcs, TypeOK
    <3>2. CASE a = Isr /\ panic /\ CursorLoad(a)
      BY <2>1, <3>1, <3>2 DEF CursorLoad, PanicInv, Switching, SwitchPcs, CursorPcs, TypeOK
    <3>3. CASE a = Isr /\ panic /\ CursorColumn(a)
      BY <2>1, <3>1, <3>3 DEF CursorColumn, PanicInv, Switching, SwitchPcs, CursorPcs, TypeOK
    <3>4. CASE a = Isr /\ panic /\ CursorRow(a)
      BY <2>1, <3>1, <3>4 DEF CursorRow, PanicInv, Switching, SwitchPcs, CursorPcs, TypeOK
    <3>5. QED
      BY <2>1, <2>12, <3>1, <3>2, <3>3, <3>4
  <2>13. CASE CursorDraw(a)
    <3>1. Plain
      BY <2>13 DEF CursorDraw, Judged, Aside, Switching, SwitchPcs, CursorPcs, TypeOK
    <3>2. ASSUME a = Isr, panic PROVE PanicInv'
      <4>1. /\ arg[Isr] = default_tty /\ x' = x /\ y' = y
            /\ reg[Isr] = x[default_tty] /\ row[Isr] = y[default_tty]
        BY <2>13, <3>2 DEF CursorDraw, PanicInv
      <4>2. Drawn'
        BY <2>13, <3>2, <4>1 DEF CursorDraw, Drawn
      <4>3. QED
        BY <2>13, <3>2, <4>2 DEF CursorDraw, PanicInv, Switching, SwitchPcs, CursorPcs, TypeOK
    <3>3. QED
      BY <2>1, <3>1, <3>2
  <2>14. CASE SwitchSet(a)
    <3>1. panic' = panic /\ pc'[a] = "sw_draw" /\ ptr' = ptr /\ ptr'[a] = current_screen'
          /\ (\A b \in Actors \ {a} : pc'[b] = pc[b]) /\ ret' = ret /\ out' = out
      BY <2>14 DEF SwitchSet, TypeOK, Actors
    <3>2. a = Isr => panic
      BY <2>14 DEF SwitchSet, ShownInv, Switching, SwitchPcs
    <3>3. ShownInv'
      <4>1. Switching(Isr)' \/ pc'[Isr] = "halt" => panic'
        BY <3>1, <3>2, ActorAssumption DEF ShownInv, Switching, Actors
      <4>2. QED
        BY <3>1, <4>1 DEF ShownInv
    <3>4. a \in Threads => ~panic
      BY <1>1, <2>14 DEF SwitchSet
    <3>5. a = Isr /\ panic => PanicInv'
      BY <2>14, <3>1 DEF SwitchSet, PanicInv, Switching, SwitchPcs, CursorPcs
    <3>6. QED
      BY <1>2, <3>1, <3>2, <3>3, <3>4, <3>5 DEF Actors
  <2>15. CASE SwitchDraw(a)
    <3>1. panic' = panic /\ pc'[a] = "cursor_load" /\ ret'[a] = "sw_end" /\ ptr' = ptr
          /\ shown' = ptr[a] /\ current_screen' = current_screen /\ out' = out
          /\ (\A b \in Actors \ {a} : pc'[b] = pc[b] /\ ret'[b] = ret[b])
      BY <2>15 DEF SwitchDraw, TypeOK, Actors
    <3>2. a \in Threads => ~panic
      BY <1>1, <2>15 DEF SwitchDraw
    <3>3. a = Isr => panic
      BY <2>15 DEF SwitchDraw, ShownInv, Switching, SwitchPcs
    <3>4. ptr[a] = current_screen \/ "screen" \in late'
      BY <2>15 DEF SwitchDraw, Judged
    <3>5. ShownInv'
      <4>1. Switching(Isr)' \/ pc'[Isr] = "halt" => panic'
        BY <3>1, <3>3, ActorAssumption DEF ShownInv, Switching, SwitchPcs, CursorPcs, Actors
      <4>2. QED
        BY <3>1, <3>4, <4>1 DEF ShownInv
    <3>6. a = Isr /\ panic => PanicInv'
      BY <2>15, <3>1 DEF SwitchDraw, PanicInv, Switching, SwitchPcs, CursorPcs
    <3>7. QED
      BY <1>2, <3>1, <3>2, <3>3, <3>5, <3>6 DEF Actors
  <2>16. QED
    BY <1>5, <2>3, <2>4, <2>5, <2>6, <2>7, <2>8, <2>9, <2>10, <2>11, <2>12, <2>13, <2>14, <2>15 DEF Step, TtyPrint
<1>6. CASE IrqEnter \/ IrqLeave
  <2>1. pc[Isr] \in {"idle", "irq_leave"} /\ ~panic /\ Isr \in Actors
    BY <1>6 DEF IrqEnter, IrqLeave, PanicInv, Actors
  <2>2. Aside(Isr) /\ pc'[Isr] \in {"call", "idle"}
    BY <1>6, <2>1 DEF IrqEnter, IrqLeave, Aside, TypeOK
  <2>3. ShownInv'
    BY <2>1, <2>2, AsideShown DEF Switching, SwitchPcs, CursorPcs
  <2>4. QED
    BY <1>2, <2>1, <2>2, <2>3 DEF Aside
<1>7. CASE Exception
  <2>1. ~panic /\ panic' /\ pc'[Isr] = "sw_test" /\ out'[Isr] = PanicJob /\ ptr'[Isr] = default_tty
        /\ shown' = shown /\ current_screen' = current_screen /\ late' = late
    BY <1>7 DEF Exception, TypeOK, Actors
  <2>2. \A b \in Actors \ {Isr} : pc'[b] = pc[b] /\ ptr'[b] = ptr[b] /\ ret'[b] = ret[b]
    BY <1>7 DEF Exception, TypeOK, Actors
  <2>3. ~Switching(Isr)
    BY <2>1 DEF ShownInv
  <2>4. ShownInv'
    <3>1. \/ shown' = current_screen'
          \/ \E b \in Actors : pc'[b] = "sw_draw" /\ ptr'[b] = current_screen'
          \/ "screen" \in late'
      BY <2>1, <2>2, <2>3 DEF ShownInv, Switching, SwitchPcs
    <3>2. QED
      BY <2>1, <3>1 DEF ShownInv
  <2>5. PanicInv'
    BY <2>1, JobAssumption DEF PanicInv
  <2>6. QED
    BY <2>4, <2>5
<1>8. CASE UNCHANGED vars
  <2>1. Drawn' <=> Drawn
    BY <1>8 DEF vars, Drawn
  <2>2. QED
    BY <1>8, <2>1 DEF vars, ShownInv, PanicInv, Switching
<1>9. QED
  BY <1>3, <1>5, <1>6, <1>7, <1>8 DEF Next, Halt

\* When the exception handler halts the CPU, its message is what the screen
\* shows: default_tty is the current screen with the cursor at its end, and it
\* is on display unless the exception struck a tty_switch to it half-way, or
\* two switches at once had left another tty there.
THEOREM PanicCorrect == Spec => []PanicVisible
<1>1. Init => ScreenInv
  BY ScreenInit
<1>2. IInv => ControlInv
  BY DEF IInv, ControlInv
<1>3. TypeOK /\ ControlInv /\ ScreenInv /\ [Next]_vars => ScreenInv'
  BY ScreenStep
<1>4. ScreenInv => PanicVisible
  BY DEF ScreenInv, ShownInv, PanicInv, PanicVisible, Drawn, CursorHome, Actors
<1>5. QED
  BY <1>1, <1>2, <1>3, <1>4, TypeCorrect, Invariance, PTL DEF Spec

=============================================================================
