--------------------------- MODULE TerminalProofs ---------------------------
(***************************************************************************)
(* Terminal for every page size: however interrupts fall into the main     *)
(* line's terminal_putchar, the main line writes inside the page and leaves *)
(* the cursor inside it, and echoes are written off the page only while it *)
(* wraps the cursor.                                                       *)
(***************************************************************************)
EXTENDS Terminal, TLAPS

\* What the main line's registers hold was read while the cursor was in the
\* page, and stays in the page after an interrupt has moved the cursor on.
Registers ==
  /\ pc \in {"char_c", "write", "advance"} => c < VGA_WIDTH
  /\ pc = "store_column" => c <= VGA_WIDTH
  /\ pc \in {"char_r", "write", "advance", "store_column", "wrap_column", "next_row"} => r < VGA_HEIGHT
  /\ pc \in {"store_row", "newline_row", "newline_column"} => r <= VGA_HEIGHT

\* In each window in which one coordinate may be too large, the other is not.
Windows ==
  /\ pc = "wrap_column" => terminal_row < VGA_HEIGHT
  /\ pc \in {"wrap_row", "newline_column"} => terminal_column < VGA_WIDTH
  /\ pc = "newline_column" /\ r < VGA_HEIGHT => terminal_row < VGA_HEIGHT

\* The inductive invariant.
TInv == TypeOK /\ CursorComesBack /\ WritesInPage /\ Registers /\ Windows

USE TerminalAssumption

-----------------------------------------------------------------------------
\* An interrupt that finds the row in the page leaves it there, and so for
\* the column; coordinates stay natural numbers in any case.
LEMMA EchoKeepsCoordinates ==
  ASSUME terminal_row \in Nat, terminal_column \in Nat, EchoNewline \/ EchoChar
  PROVE  /\ terminal_row' \in Nat /\ terminal_column' \in Nat
         /\ terminal_row < VGA_HEIGHT => terminal_row' < VGA_HEIGHT
         /\ terminal_column < VGA_WIDTH => terminal_column' < VGA_WIDTH
         /\ terminal_row' <= terminal_row + 1 /\ terminal_column' <= terminal_column + 1
<1>1. EchoNewline => /\ terminal_row' \in Nat /\ terminal_column' = 0
                     /\ terminal_row < VGA_HEIGHT => terminal_row' < VGA_HEIGHT
                     /\ terminal_row' <= terminal_row + 1
  BY DEF EchoNewline
<1>2. CASE EchoNewline
  BY <1>1, <1>2
<1>3. CASE EchoChar
  <2>1. CASE terminal_column + 1 = VGA_WIDTH
    BY <1>1, <1>3, <2>1 DEF EchoChar
  <2>2. CASE terminal_column + 1 # VGA_WIDTH
    BY <1>3, <2>2 DEF EchoChar
  <2>3. QED
    BY <2>1, <2>2
<1>4. QED
  BY <1>2, <1>3

\* The cursor starts at the top left corner.
LEMMA InitInv == Init => TInv
  BY DEF Init, TInv, TypeOK, Points, CursorComesBack, Wraps, WritesInPage,
         InPage, Registers, Windows

\* A key press never breaks the invariant, wherever it catches the main line.
LEMMA InterruptStep ==
  ASSUME TInv, Interrupt
  PROVE  TInv'
<1> DEFINE landed == [at |-> pc, cell |-> cursor]
<1>1. /\ UNCHANGED <<pc, r, c, call>> /\ burst' \in 0 .. MaxBurst
      /\ IF pc = "idle" THEN burst' = 1 ELSE burst' = burst + 1
  BY DEF Interrupt, TInv, TypeOK
<1>2. /\ terminal_row' \in Nat /\ terminal_column' \in Nat
      /\ terminal_row < VGA_HEIGHT => terminal_row' < VGA_HEIGHT
      /\ terminal_column < VGA_WIDTH => terminal_column' < VGA_WIDTH
      /\ terminal_row' <= terminal_row + 1 /\ terminal_column' <= terminal_column + 1
  BY EchoKeepsCoordinates DEF Interrupt, TInv, TypeOK
<1>7. echo' = echo \/ echo' = landed
  BY DEF Interrupt, EchoWrite
<1>8. /\ landed.at = pc /\ landed.cell[1] = terminal_row /\ landed.cell[2] = terminal_column
      /\ landed \in [at : Points, cell : Nat \X Nat]
  BY DEF cursor, TInv, TypeOK
<1> HIDE DEF landed
<1>9. echo' \in [at : Points, cell : Nat \X Nat]
  BY <1>7, <1>8 DEF TInv, TypeOK
<1>3. TypeOK'
  <2>1. /\ terminal_row' \in 0 .. VGA_HEIGHT + burst'
        /\ terminal_column' \in 0 .. VGA_WIDTH + burst'
    <3>1. CASE pc = "idle"
      <4>1. terminal_row < VGA_HEIGHT /\ terminal_column < VGA_WIDTH
        BY <3>1 DEF TInv, CursorComesBack, Wraps, InPage
      <4>2. burst' = 1
        BY <1>1, <3>1
      <4>3. QED
        BY <1>2, <4>1, <4>2 DEF TInv, TypeOK
    <3>2. CASE pc # "idle"
      <4>1. burst' = burst + 1
        BY <1>1, <3>2
      <4>2. QED
        BY <1>2, <4>1 DEF TInv, TypeOK
    <3>3. QED
      BY <3>1, <3>2
  <2>2. QED
    BY <1>1, <1>9, <2>1 DEF TInv, TypeOK
<1>4. WritesInPage' /\ Registers'
  <2>1. CASE echo' = echo
    BY <1>1, <1>2, <2>1 DEF TInv, WritesInPage, InPage, Registers
  <2>2. CASE echo' = landed
    BY <1>1, <1>2, <1>8, <2>2 DEF TInv, WritesInPage, CursorComesBack, InPage, Registers
  <2>3. QED
    BY <1>7, <2>1, <2>2
<1>5. CursorComesBack' /\ Windows'
  BY <1>1, <1>2 DEF TInv, CursorComesBack, Wraps, InPage, Windows
<1>6. QED
  BY <1>3, <1>4, <1>5 DEF TInv

\* Starting a call and filling its registers.
LEMMA LoadStep ==
  ASSUME TInv, (\E newline \in BOOLEAN : Call(newline)) \/ LoadColumn \/ LoadRow \/ Write
  PROVE  TInv'
<1> USE DEF TInv, TypeOK, CursorComesBack, Wraps, WritesInPage, InPage,
            Registers, Windows, Goto, cursor, Points
<1>1. ASSUME NEW newline \in BOOLEAN, Call(newline) PROVE TInv'
  <2>1. /\ pc = "idle" /\ pc' \in {"char", "newline"}
        /\ UNCHANGED <<terminal_row, terminal_column, r, c, echo>>
        /\ call' = [newline |-> newline, from |-> cursor, wrote |-> cursor]
        /\ burst' = 0
    BY <1>1 DEF Call
  <2>2. call' \in [newline : BOOLEAN, from : Nat \X Nat, wrote : Nat \X Nat]
    BY <2>1
  <2>3. QED
    BY <2>1, <2>2
<1>2. CASE LoadColumn
  BY <1>2 DEF LoadColumn
<1>3. CASE LoadRow
  BY <1>3 DEF LoadRow
<1>4. CASE Write
  <2>1. /\ pc = "write" /\ pc' = "advance"
        /\ UNCHANGED <<terminal_row, terminal_column, r, c, echo, burst>>
        /\ call' = [call EXCEPT !.wrote = <<r, c>>]
    BY <1>4 DEF Write
  <2>2. /\ call' \in [newline : BOOLEAN, from : Nat \X Nat, wrote : Nat \X Nat]
        /\ call'.wrote = <<r, c>>
    BY <2>1
  <2>3. QED
    BY <2>1, <2>2
<1>5. QED
  BY <1>1, <1>2, <1>3, <1>4

\* Moving the cursor after a character.
LEMMA AdvanceStep ==
  ASSUME TInv, Advance \/ StoreColumn \/ WrapColumn \/ NextRow \/ StoreRow \/ WrapRow
  PROVE  TInv'
<1> USE DEF TInv, TypeOK, CursorComesBack, Wraps, WritesInPage, InPage,
            Registers, Windows, Goto, cursor, Points
<1>1. CASE Advance
  BY <1>1 DEF Advance, Again
<1>2. CASE WrapColumn
  BY <1>2 DEF WrapColumn
<1>3. CASE NextRow
  BY <1>3 DEF NextRow, Again
<1>4. CASE WrapRow
  BY <1>4 DEF WrapRow
<1>5. CASE StoreColumn
  BY <1>5 DEF StoreColumn
<1>6. CASE StoreRow
  BY <1>6 DEF StoreRow
<1>7. QED
  BY <1>1, <1>2, <1>3, <1>4, <1>5, <1>6

\* Moving the cursor for a newline.
LEMMA NewlineStep ==
  ASSUME TInv, LoadNewlineRow \/ StoreNewlineRow \/ StoreNewlineColumn
  PROVE  TInv'
<1> USE DEF TInv, TypeOK, CursorComesBack, Wraps, WritesInPage, InPage,
            Registers, Windows, Goto, cursor, Points
<1>1. CASE LoadNewlineRow
  BY <1>1 DEF LoadNewlineRow
<1>2. CASE StoreNewlineRow
  BY <1>2 DEF StoreNewlineRow
<1>3. CASE StoreNewlineColumn
  BY <1>3 DEF StoreNewlineColumn
<1>4. QED
  BY <1>1, <1>2, <1>3

\* Every step of the screen code preserves the invariant.
LEMMA NextInv == TInv /\ [Next]_vars => TInv'
<1> SUFFICES ASSUME TInv, [Next]_vars PROVE TInv'
  OBVIOUS
<1>1. CASE Interrupt
  BY <1>1, InterruptStep
<1>2. CASE Main
  BY <1>2, LoadStep, AdvanceStep, NewlineStep DEF Main
<1>3. CASE UNCHANGED vars
  BY <1>3 DEF vars, cursor, TInv, TypeOK, CursorComesBack, Wraps, WritesInPage,
              InPage, Registers, Windows
<1>4. QED
  BY <1>1, <1>2, <1>3 DEF Next

-----------------------------------------------------------------------------
\* The inductive invariant holds in every state of the screen code.
THEOREM TerminalInvariance == Spec => []TInv
  BY InitInv, NextInv, PTL DEF Spec

\* For every page size and any number of interrupts, the main line's writes
\* to video memory stay inside the page, and so do the interrupt's, but where
\* it finds the main line wrapping the cursor.
THEOREM WritesStayInPage == Spec => []WritesInPage
<1>1. TInv => WritesInPage
  BY DEF TInv
<1>2. QED
  BY <1>1, TerminalInvariance, PTL

\* For every page size, the cursor is outside the page only in the windows in
\* which the main line is about to wrap it.
THEOREM ComesBack == Spec => []CursorComesBack
<1>1. TInv => CursorComesBack
  BY DEF TInv
<1>2. QED
  BY <1>1, TerminalInvariance, PTL

\* Type correctness of the cursor and the registers.
THEOREM TerminalTypeCorrect == Spec => []TypeOK
<1>1. TInv => TypeOK
  BY DEF TInv
<1>2. QED
  BY <1>1, TerminalInvariance, PTL

-----------------------------------------------------------------------------
(* What one undisturbed call does *)

\* The cell after one: a newline, and a character in the last column, go to the
\* start of the next row, round the page.
After(newline, row, column) ==
  IF ~newline /\ column + 1 < VGA_WIDTH
  THEN <<row, column + 1>>
  ELSE <<IF row + 1 = VGA_HEIGHT THEN 0 ELSE row + 1, 0>>

Putting  == {"char", "char_c", "char_r", "write", "advance", "store_column",
             "wrap_column", "next_row", "store_row"}
Breaking == {"newline", "newline_row", "newline_column"}

\* How far a call has got that no interrupt has disturbed: its registers and the
\* cursor are those of the cell it began at, moved on by the steps it has made.
OnItsWay(row, column) ==
  /\ pc \in Putting => ~call.newline
  /\ pc \in Breaking => call.newline
  /\ pc \in {"char_c", "write", "advance"} => c = column
  /\ pc = "store_column" => c = column + 1
  /\ pc \in {"char_r", "write", "advance", "store_column", "wrap_column", "next_row"} => r = row
  /\ pc \in {"store_row", "newline_row", "newline_column"} => r = row + 1
  /\ pc \in {"char", "char_c", "char_r", "write", "advance", "store_column",
              "newline", "newline_row"} => cursor = <<row, column>>
  /\ pc = "wrap_column" => terminal_row = row
  /\ pc \in {"next_row", "store_row"} => cursor = <<row, 0>>
  /\ pc \in {"wrap_column", "next_row", "store_row"} => column + 1 = VGA_WIDTH
  /\ pc = "wrap_row" => /\ row + 1 = VGA_HEIGHT /\ terminal_column = 0
                        /\ call.newline \/ column + 1 = VGA_WIDTH
  /\ pc = "newline_column" => terminal_row = row + 1
  /\ pc = "idle" => cursor = After(call.newline, row, column)
  /\ pc \in {"idle", "advance", "store_column", "wrap_column", "next_row", "store_row", "wrap_row"}
       /\ ~call.newline =>
       call.wrote = <<row, column>>

PutInv == /\ InPage(call.from[1], call.from[2])
          /\ burst = 0 => OnItsWay(call.from[1], call.from[2])

LEMMA InitPut == Init => PutInv
  BY DEF Init, PutInv, InPage

\* A key press ends what can be said of the call it falls into.
LEMMA InterruptPut ==
  ASSUME TInv, PutInv, Interrupt
  PROVE  PutInv'
<1>1. UNCHANGED call /\ burst' # 0
  BY DEF Interrupt, TInv, TypeOK
<1>2. QED
  BY <1>1 DEF PutInv, InPage

\* Each step of the main line takes an undisturbed call one step on.
LEMMA MainPut ==
  ASSUME TInv, PutInv, Main
  PROVE  PutInv'
<1> DEFINE row    == call.from[1]
           column == call.from[2]
<1>1. ASSUME NEW newline \in BOOLEAN, Call(newline) PROVE PutInv'
  <2>1. /\ pc = "idle" /\ pc' = (IF newline THEN "newline" ELSE "char")
        /\ cursor' = cursor /\ call'.newline = newline
        /\ call'.from = cursor
    BY <1>1 DEF Call, Goto
  <2>2. InPage(terminal_row, terminal_column)
    BY <2>1 DEF TInv, CursorComesBack, Wraps
  <2>3. call'.from[1] = terminal_row /\ call'.from[2] = terminal_column
    BY <2>1 DEF cursor
  <2>4. InPage(call'.from[1], call'.from[2])
    BY <2>2, <2>3
  <2>5. OnItsWay(terminal_row, terminal_column)'
    BY <2>1 DEF OnItsWay, cursor, Putting, Breaking
  <2>6. OnItsWay(call.from[1], call.from[2])'
    BY <2>1, <2>3, <2>5 DEF OnItsWay, cursor, Putting, Breaking
  <2>7. QED
    BY <2>4, <2>6 DEF PutInv, InPage
<1>2. ASSUME UNCHANGED <<call, burst>>, burst = 0 => OnItsWay(row, column)' PROVE PutInv'
  BY <1>2 DEF PutInv, InPage
<1> USE DEF OnItsWay, Goto, cursor, Putting, Breaking
<1>3. ASSUME burst = 0, InPage(row, column), OnItsWay(row, column), LoadColumn
      PROVE  OnItsWay(row, column)'
  BY <1>3 DEF LoadColumn
<1>4. ASSUME burst = 0, InPage(row, column), OnItsWay(row, column), LoadRow
      PROVE  OnItsWay(row, column)'
  BY <1>4 DEF LoadRow
<1>5. ASSUME burst = 0, InPage(row, column), OnItsWay(row, column), Write
      PROVE  /\ burst' = 0 /\ call'.from = call.from /\ call'.newline = call.newline
             /\ OnItsWay(row, column)'
  <2>1. call \in [newline : BOOLEAN, from : Nat \X Nat, wrote : Nat \X Nat]
    BY DEF TInv, TypeOK
  <2>2. call'.from = call.from /\ call'.newline = call.newline /\ call'.wrote = <<r, c>>
    BY <1>5, <2>1 DEF Write
  <2>3. QED
    BY <1>5, <2>2 DEF Write
<1>6. ASSUME burst = 0, InPage(row, column), OnItsWay(row, column), StoreColumn
      PROVE  OnItsWay(row, column)'
  <2>1. column \in Nat /\ column < VGA_WIDTH
    BY <1>6 DEF InPage, TInv, TypeOK
  <2>2. /\ pc = "store_column" /\ terminal_column' = column + 1
        /\ pc' = (IF column + 1 = VGA_WIDTH THEN "wrap_column" ELSE "idle")
        /\ UNCHANGED <<terminal_row, r, c, call, burst>>
    BY <1>6 DEF StoreColumn
  <2>3. CASE column + 1 = VGA_WIDTH
    BY <1>6, <2>1, <2>2, <2>3
  <2>4. CASE column + 1 # VGA_WIDTH
    <3>1. column + 1 < VGA_WIDTH
      BY <2>1, <2>4
    <3>2. pc' = "idle" /\ ~call.newline /\ call.wrote = <<row, column>>
          /\ terminal_row = row
      BY <1>6, <2>2, <2>4
    <3>3. After(call.newline, row, column) = <<row, column + 1>>
      BY <3>1, <3>2 DEF After
    <3>4. QED
      BY <2>2, <3>2, <3>3
  <2>5. QED
    BY <2>3, <2>4
<1>19. ASSUME burst = 0, InPage(row, column), OnItsWay(row, column), Advance
       PROVE  OnItsWay(row, column)'
  BY <1>19 DEF Advance, Again
<1>7. ASSUME burst = 0, InPage(row, column), OnItsWay(row, column), WrapColumn
      PROVE  OnItsWay(row, column)'
  BY <1>7 DEF WrapColumn
<1>8. ASSUME burst = 0, InPage(row, column), OnItsWay(row, column), StoreRow
      PROVE  OnItsWay(row, column)'
  <2>1. /\ pc = "store_row" /\ terminal_row' = row + 1 /\ terminal_column' = 0
        /\ pc' = (IF row + 1 = VGA_HEIGHT THEN "wrap_row" ELSE "idle")
        /\ UNCHANGED <<r, c, call, burst>>
    BY <1>8 DEF StoreRow
  <2>2. row + 1 # VGA_HEIGHT => After(call.newline, row, column) = <<row + 1, 0>>
    BY <1>8, <2>1 DEF After
  <2>3. QED
    BY <1>8, <2>1, <2>2
<1>20. ASSUME burst = 0, InPage(row, column), OnItsWay(row, column), NextRow
       PROVE  OnItsWay(row, column)'
  BY <1>20 DEF NextRow, Again
<1>9. ASSUME burst = 0, InPage(row, column), OnItsWay(row, column), WrapRow
      PROVE  OnItsWay(row, column)'
  <2>1. After(call.newline, row, column) = <<0, 0>>
    BY <1>9 DEF WrapRow, After
  <2>2. QED
    BY <1>9, <2>1 DEF WrapRow
<1>10. ASSUME burst = 0, InPage(row, column), OnItsWay(row, column), LoadNewlineRow
       PROVE  OnItsWay(row, column)'
  BY <1>10 DEF LoadNewlineRow
<1>11. ASSUME burst = 0, InPage(row, column), OnItsWay(row, column), StoreNewlineRow
       PROVE  OnItsWay(row, column)'
  BY <1>11 DEF StoreNewlineRow
<1>12. ASSUME burst = 0, InPage(row, column), OnItsWay(row, column), StoreNewlineColumn
       PROVE  OnItsWay(row, column)'
  <2>1. row + 1 # VGA_HEIGHT => After(call.newline, row, column) = <<row + 1, 0>>
    BY <1>12 DEF StoreNewlineColumn, After
  <2>2. QED
    BY <1>12, <2>1 DEF StoreNewlineColumn
<1> HIDE DEF OnItsWay, row, column
<1>13. InPage(row, column) /\ (burst = 0 => OnItsWay(row, column))
  BY DEF PutInv, row, column
<1>14. CASE Write
  <2>1. UNCHANGED burst /\ call'.from = call.from
    BY <1>14 DEF Write, TInv, TypeOK
  <2>2. burst = 0 => OnItsWay(row, column)'
    BY <1>5, <1>13, <1>14
  <2>3. row' = row /\ column' = column
    BY <2>1 DEF row, column
  <2>4. QED
    BY <1>13, <2>1, <2>2, <2>3 DEF PutInv, InPage, row, column
<1>15. CASE LoadColumn \/ LoadRow
  <2>1. UNCHANGED <<call, burst>>
    BY <1>15 DEF LoadColumn, LoadRow
  <2>2. QED
    BY <1>2, <1>3, <1>4, <1>13, <1>15, <2>1
<1>16. CASE Advance \/ StoreColumn \/ WrapColumn \/ NextRow \/ StoreRow \/ WrapRow
  <2>1. UNCHANGED <<call, burst>>
    BY <1>16 DEF Advance, StoreColumn, WrapColumn, NextRow, StoreRow, WrapRow
  <2>2. QED
    BY <1>2, <1>6, <1>7, <1>8, <1>9, <1>13, <1>16, <1>19, <1>20, <2>1
<1>17. CASE LoadNewlineRow \/ StoreNewlineRow \/ StoreNewlineColumn
  <2>1. UNCHANGED <<call, burst>>
    BY <1>17 DEF LoadNewlineRow, StoreNewlineRow, StoreNewlineColumn
  <2>2. QED
    BY <1>2, <1>10, <1>11, <1>12, <1>13, <1>17, <2>1
<1>18. QED
  BY <1>1, <1>14, <1>15, <1>16, <1>17 DEF Main

\* Every step of the screen code keeps to what one call does.
LEMMA NextPut == TInv /\ PutInv /\ [Next]_vars => PutInv'
<1>1. ASSUME PutInv, UNCHANGED vars PROVE PutInv'
  BY <1>1 DEF vars, cursor, PutInv, InPage, OnItsWay
<1>2. QED
  BY <1>1, InterruptPut, MainPut DEF Next

\* The cells of a page are numbered row by row, so moving on is adding one,
\* round the page.
LEMMA CellAfter ==
  ASSUME NEW row \in Nat, NEW column \in Nat, InPage(row, column)
  PROVE  /\ Cell(After(TRUE, row, column)[1], After(TRUE, row, column)[2])
              = Cell(row + 1, 0) % (VGA_WIDTH * VGA_HEIGHT)
         /\ Cell(After(FALSE, row, column)[1], After(FALSE, row, column)[2])
              = (Cell(row, column) + 1) % (VGA_WIDTH * VGA_HEIGHT)
<1> DEFINE W == VGA_WIDTH
           H == VGA_HEIGHT
           P == W * H
           R == row * W
<1>1. W \in Nat /\ W > 0 /\ H \in Nat /\ H > 0 /\ row < H /\ column < W
  BY DEF InPage
<1> HIDE DEF W, H
<1>2. P \in Nat /\ R \in Nat
  BY <1>1
<1>3. (row + 1) * W = R + W /\ 0 * W = 0
  BY <1>1
<1>4. row + 1 = H => P = R + W
  BY <1>1, <1>3
<1>5. row + 1 < H => P >= (R + W) + W
  <2> SUFFICES ASSUME row + 1 < H PROVE P >= (R + W) + W
    OBVIOUS
  <2>1. PICK k \in Nat : H = row + 2 + k
    <3>1. (H - row) - 2 \in Nat /\ H = row + 2 + ((H - row) - 2)
      BY <1>1
    <3>2. QED
      BY <3>1
  <2>2. P = R + W + W + k * W /\ k * W \in Nat
    BY <1>1, <2>1
  <2>3. QED
    BY <1>1, <1>2, <2>2
<1> HIDE DEF P, R
<1>6. \A x \in Nat : x < P => x % P = x
  BY <1>2
<1>7. P > 0 => P % P = 0
  BY <1>2
<1>8. Cell(row + 1, 0) = R + W /\ Cell(row, column) = R + column /\ Cell(0, 0) = 0
  BY <1>1, <1>2, <1>3 DEF Cell, W, R
<1>9. column + 1 < W => Cell(row, column + 1) = R + (column + 1)
  BY <1>1, <1>2 DEF Cell, W, R
<1>10. (R + W) % P = IF row + 1 = H THEN 0 ELSE R + W
  <2>1. CASE row + 1 = H
    BY <1>1, <1>2, <1>4, <1>7, <2>1
  <2>2. CASE row + 1 < H
    BY <1>1, <1>2, <1>5, <1>6, <2>2
  <2>3. QED
    BY <1>1, <2>1, <2>2
<1>11. column + 1 < W => (R + column + 1) % P = R + (column + 1)
  <2> SUFFICES ASSUME column + 1 < W PROVE (R + column + 1) % P = R + (column + 1)
    OBVIOUS
  <2>1. P >= R + W
    BY <1>1, <1>2, <1>4, <1>5
  <2>2. R + column + 1 \in Nat /\ R + column + 1 < P /\ R + column + 1 = R + (column + 1)
    BY <1>1, <1>2, <2>1
  <2>3. QED
    BY <1>6, <2>2
<1>12. column + 1 >= W => R + column + 1 = R + W
  BY <1>1, <1>2
<1> DEFINE next == IF row + 1 = H THEN 0 ELSE row + 1
<1>13. After(TRUE, row, column) = <<next, 0>>
  BY DEF After, W, H
<1>14. Cell(next, 0) = (R + W) % P
  <2>1. row + 1 = H => Cell(next, 0) = 0 /\ (R + W) % P = 0
    BY <1>8, <1>10
  <2>2. row + 1 # H => Cell(next, 0) = R + W /\ (R + W) % P = R + W
    BY <1>8, <1>10
  <2>3. QED
    BY <2>1, <2>2
<1> HIDE DEF next
<1>15. Cell(After(TRUE, row, column)[1], After(TRUE, row, column)[2]) = (R + W) % P
  <2>1. <<next, 0>>[1] = next /\ <<next, 0>>[2] = 0
    OBVIOUS
  <2>2. QED
    BY <1>13, <1>14, <2>1, Zenon
<1>16. Cell(After(FALSE, row, column)[1], After(FALSE, row, column)[2])
         = (R + column + 1) % P
  <2>1. CASE column + 1 < W
    <3>1. After(FALSE, row, column) = <<row, column + 1>>
      BY <2>1 DEF After, W
    <3>2. <<row, column + 1>>[1] = row /\ <<row, column + 1>>[2] = column + 1
      OBVIOUS
    <3>3. Cell(row, column + 1) = (R + column + 1) % P
      BY <1>9, <1>11, <2>1
    <3>4. QED
      BY <3>1, <3>2, <3>3, Zenon
  <2>2. CASE ~ column + 1 < W
    <3>1. After(FALSE, row, column) = After(TRUE, row, column)
      BY <2>2 DEF After, W
    <3>2. R + column + 1 = R + W
      BY <1>1, <1>12, <2>2
    <3>3. QED
      BY <1>15, <3>1, <3>2, Zenon
  <2>3. QED
    BY <2>1, <2>2
<1>17. QED
  BY <1>8, <1>15, <1>16 DEF P, W, H

\* For every page size, a call that no key press has fallen into writes its
\* character at the cursor and moves the cursor on by one cell, or to the next
\* row, round the page.
THEOREM PutsSequentially == Spec => []SequentialPut
<1>1. Init => TInv /\ PutInv
  BY InitInv, InitPut
<1>2. TInv /\ PutInv /\ [Next]_vars => (TInv /\ PutInv)'
  BY NextInv, NextPut
<1>3. TInv /\ PutInv => SequentialPut
  <2> SUFFICES ASSUME TInv, PutInv, Undisturbed PROVE SequentialPut
    BY DEF SequentialPut
  <2> DEFINE row    == call.from[1]
             column == call.from[2]
  <2>1. row \in Nat /\ column \in Nat /\ call.newline \in BOOLEAN /\ call.from = <<row, column>>
    BY DEF TInv, TypeOK
  <2>2. InPage(row, column) /\ cursor = After(call.newline, row, column)
        /\ (~call.newline => call.wrote = call.from)
    BY <2>1 DEF PutInv, Undisturbed, OnItsWay
  <2> HIDE DEF row, column
  <2>3. /\ terminal_row = After(call.newline, row, column)[1]
        /\ terminal_column = After(call.newline, row, column)[2]
    BY <2>2 DEF cursor, After
  <2>4. CASE call.newline = TRUE
    BY <2>1, <2>2, <2>3, <2>4, CellAfter DEF SequentialPut, row, column
  <2>5. CASE call.newline = FALSE
    BY <2>1, <2>2, <2>3, <2>5, CellAfter DEF SequentialPut, row, column
  <2>6. QED
    BY <2>1, <2>4, <2>5
<1>4. QED
  BY <1>1, <1>2, <1>3, PTL DEF Spec
=============================================================================
