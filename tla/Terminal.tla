------------------------------ MODULE Terminal ------------------------------
(***************************************************************************)
(* The text screen: terminal_putchar of vga.c, called by the kernel's main *)
(* line through printf and, on every key press, by the keyboard interrupt. *)
(* Both move the same cursor, terminal_row and terminal_column, which are  *)
(* plain variables: the interrupt may fall between any two of the main     *)
(* line's loads and stores, while the interrupt's own call is atomic.      *)
(*                                                                         *)
(* The accesses of the main line race with the interrupt, so a value it    *)
(* has loaded may be kept in a register or loaded again where the source   *)
(* names it again: both outcomes are allowed.  A test made directly after  *)
(* a store is made on the value stored, which is what the -O1 build does.  *)
(*                                                                         *)
(* Colours and glyphs are left out: what is kept of a character is whether *)
(* it is a newline, and of a write to the screen, its cell.                *)
(***************************************************************************)
EXTENDS Integers

CONSTANTS
  VGA_WIDTH,   \* 80 in the code
  VGA_HEIGHT,  \* 25 in the code
  MaxBurst     \* bound on the interrupts during one call, for model checking

ASSUME TerminalAssumption ==
  /\ VGA_WIDTH \in Nat \ {0}
  /\ VGA_HEIGHT \in Nat \ {0}
  /\ MaxBurst \in Nat \ {0}

VARIABLES
  terminal_row, terminal_column,  \* the shared cursor
  pc,                             \* where the main line is in terminal_putchar
  r, c,                           \* its registers: row and column
  call,                           \* history: the call it makes or made last
  echo,                           \* history: the last store of the interrupt, and
                                  \* where it found the main line
  burst                           \* history: interrupts since that call began

cursor == <<terminal_row, terminal_column>>
vars   == <<cursor, pc, r, c, call, echo, burst>>

Points == {"idle", "char", "char_c", "char_r", "write",
           "advance", "store_column", "wrap_column", "next_row", "store_row", "wrap_row",
           "newline", "newline_row", "newline_column"}

InPage(row, column) == row < VGA_HEIGHT /\ column < VGA_WIDTH

\* The index terminal_putentryat computes.
Cell(row, column) == row * VGA_WIDTH + column

-----------------------------------------------------------------------------
(* terminal_putchar as the interrupt handler executes it: in one piece. *)

\* Fault: the row is not wrapped.
EchoNewline_NoWrap ==
  /\ terminal_row' = terminal_row + 1
  /\ terminal_column' = 0

EchoNewline ==
  /\ terminal_row' = IF terminal_row + 1 = VGA_HEIGHT THEN 0 ELSE terminal_row + 1
  /\ terminal_column' = 0

EchoChar ==
  IF terminal_column + 1 = VGA_WIDTH
  THEN EchoNewline
  ELSE /\ terminal_column' = terminal_column + 1
       /\ UNCHANGED terminal_row

\* terminal_putentryat at the cursor, wherever the main line has left it.
EchoWrite == echo' = [at |-> pc, cell |-> cursor]

Interrupt == /\ pc = "idle" \/ burst < MaxBurst
             /\ burst' = IF pc = "idle" THEN 1 ELSE burst + 1
             /\ \/ EchoNewline /\ UNCHANGED echo
                \/ EchoWrite /\ EchoChar
             /\ UNCHANGED <<pc, r, c, call>>

-----------------------------------------------------------------------------
(* terminal_putchar as the main line executes it: access by access. *)

Goto(point) == pc' = point

\* The value of a variable named again: still in its register, or re-read.
Again(register, variable) == {register, variable}

Call(newline) == /\ pc = "idle"
                 /\ Goto(IF newline THEN "newline" ELSE "char")
                 /\ call' = [newline |-> newline, from |-> cursor, wrote |-> cursor]
                 /\ burst' = 0
                 /\ UNCHANGED <<cursor, r, c, echo>>

\* The arguments of terminal_putentryat, evaluated in either order.
LoadColumn == /\ pc \in {"char", "char_r"}
              /\ c' = terminal_column
              /\ Goto(IF pc = "char" THEN "char_c" ELSE "write")
              /\ UNCHANGED <<cursor, r, call, echo, burst>>

LoadRow == /\ pc \in {"char", "char_c"}
           /\ r' = terminal_row
           /\ Goto(IF pc = "char" THEN "char_r" ELSE "write")
           /\ UNCHANGED <<cursor, c, call, echo, burst>>

Write == /\ pc = "write"
         /\ call' = [call EXCEPT !.wrote = <<r, c>>]
         /\ Goto("advance")
         /\ UNCHANGED <<cursor, r, c, echo, burst>>

\* ++terminal_column: a load and a store, with time for a key between them.
Advance == /\ pc = "advance"
           /\ \E column \in Again(c, terminal_column) : c' = column + 1
           /\ Goto("store_column")
           /\ UNCHANGED <<cursor, r, call, echo, burst>>

\* Fault: the test for the end of the row comes one column late.
StoreColumn_OneLate == /\ pc = "store_column"
                       /\ terminal_column' = c
                       /\ Goto(IF c > VGA_WIDTH THEN "wrap_column" ELSE "idle")
                       /\ UNCHANGED <<terminal_row, r, c, call, echo, burst>>

StoreColumn == /\ pc = "store_column"
               /\ terminal_column' = c
               /\ Goto(IF c = VGA_WIDTH THEN "wrap_column" ELSE "idle")
               /\ UNCHANGED <<terminal_row, r, c, call, echo, burst>>

\* Fault: the end of a row does not move to the next.
WrapColumn_SameRow == /\ pc = "wrap_column"
                      /\ terminal_column' = 0
                      /\ Goto("idle")
                      /\ UNCHANGED <<terminal_row, r, c, call, echo, burst>>

WrapColumn == /\ pc = "wrap_column"
              /\ terminal_column' = 0
              /\ Goto("next_row")
              /\ UNCHANGED <<terminal_row, r, c, call, echo, burst>>

\* ++terminal_row
NextRow == /\ pc = "next_row"
           /\ \E row \in Again(r, terminal_row) : r' = row + 1
           /\ Goto("store_row")
           /\ UNCHANGED <<cursor, c, call, echo, burst>>

StoreRow == /\ pc = "store_row"
            /\ terminal_row' = r
            /\ Goto(IF r = VGA_HEIGHT THEN "wrap_row" ELSE "idle")
            /\ UNCHANGED <<terminal_column, r, c, call, echo, burst>>

WrapRow == /\ pc = "wrap_row"
           /\ terminal_row' = 0
           /\ Goto("idle")
           /\ UNCHANGED <<terminal_column, r, c, call, echo, burst>>

LoadNewlineRow == /\ pc = "newline"
                  /\ r' = terminal_row + 1
                  /\ Goto("newline_row")
                  /\ UNCHANGED <<cursor, c, call, echo, burst>>

StoreNewlineRow == /\ pc = "newline_row"
                   /\ terminal_row' = r
                   /\ Goto("newline_column")
                   /\ UNCHANGED <<terminal_column, r, c, call, echo, burst>>

\* Fault: the test reads the row again, as an unoptimised build would.
StoreNewlineColumn_Rereads ==
  /\ pc = "newline_column"
  /\ terminal_column' = 0
  /\ Goto(IF terminal_row = VGA_HEIGHT THEN "wrap_row" ELSE "idle")
  /\ UNCHANGED <<terminal_row, r, c, call, echo, burst>>

StoreNewlineColumn == /\ pc = "newline_column"
                      /\ terminal_column' = 0
                      /\ Goto(IF r = VGA_HEIGHT THEN "wrap_row" ELSE "idle")
                      /\ UNCHANGED <<terminal_row, r, c, call, echo, burst>>

Main == \/ \E newline \in BOOLEAN : Call(newline)
        \/ LoadColumn \/ LoadRow \/ Write
        \/ Advance \/ StoreColumn \/ WrapColumn \/ NextRow \/ StoreRow \/ WrapRow
        \/ LoadNewlineRow \/ StoreNewlineRow \/ StoreNewlineColumn

-----------------------------------------------------------------------------
\* terminal_initialize runs before sti.
Init == /\ terminal_row = 0 /\ terminal_column = 0
        /\ pc = "idle"
        /\ r = 0 /\ c = 0
        /\ call = [newline |-> FALSE, from |-> <<0, 0>>, wrote |-> <<0, 0>>]
        /\ echo = [at |-> "idle", cell |-> <<0, 0>>]
        /\ burst = 1

Next == Interrupt \/ Main

Spec == Init /\ [][Next]_vars

-----------------------------------------------------------------------------
(* Properties *)

TypeOK ==
  /\ terminal_row \in 0 .. VGA_HEIGHT + burst
  /\ terminal_column \in 0 .. VGA_WIDTH + burst
  /\ pc \in Points
  /\ r \in Nat /\ c \in Nat
  /\ call \in [newline : BOOLEAN, from : Nat \X Nat, wrote : Nat \X Nat]
  /\ echo \in [at : Points, cell : Nat \X Nat]
  /\ burst \in 0 .. MaxBurst

\* The cursor may leave the page only while the main line has stored a row or
\* a column one too large and has not yet wrapped it.  Interrupts push it
\* further out meanwhile, but the main line always brings it back: no race
\* leaves the cursor outside the page for good.
Wraps == {"wrap_column", "newline_column", "wrap_row"}

CursorComesBack == pc \notin Wraps => InPage(terminal_row, terminal_column)

\* The main line never writes outside the page, whatever interrupted it
\* between its loads of the row and of the column.  The interrupt does: an echo
\* that finds the main line wrapping the cursor is written where the cursor
\* then is, and no echo is off the page otherwise.
WritesInPage == /\ InPage(call.wrote[1], call.wrote[2])
                /\ echo.at \notin Wraps => InPage(echo.cell[1], echo.cell[2])

\* Undisturbed, a call has its sequential meaning: the character is written
\* at the cursor and the cursor moves one cell, or to the start of the next
\* row, round the page.
Undisturbed == pc = "idle" /\ burst = 0

SequentialPut ==
  LET pages == VGA_WIDTH * VGA_HEIGHT
      from  == Cell(call.from[1], call.from[2])
      now   == Cell(terminal_row, terminal_column)
  IN Undisturbed =>
       IF call.newline
       THEN now = (Cell(call.from[1] + 1, 0)) % pages
       ELSE /\ call.wrote = call.from
            /\ now = (from + 1) % pages
=============================================================================
