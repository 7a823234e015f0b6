------------------------------ MODULE Console ------------------------------
(***************************************************************************)
(* The command line of the kernel: the keyboard interrupt handler          *)
(* isr1_handler fills the shared buffer cmd, sets pending at a newline,    *)
(* and the loop of kernel_main polls pending, lets process_command copy    *)
(* the buffer into argv and run the command, and clears pending.           *)
(*                                                                         *)
(* IRQ 1 is delivered through an interrupt gate, so the handler is atomic  *)
(* for the loop; the loop is interrupted between any two of its accesses   *)
(* to the shared variables, which are its steps here.                      *)
(*                                                                         *)
(* Scancodes that neither store a character nor touch shift_state and      *)
(* caps_state (backspace, control keys, other releases) change nothing the *)
(* model keeps: they are stuttering steps.  The prefix 0xE0 of an extended *)
(* key is one of them, and the byte after it counts as the plain key, the  *)
(* fake shifts around arrow keys included.  What a command other than one  *)
(* that stops the machine does is left to other modules.                   *)
(*                                                                         *)
(* Nothing bounds pos.  Behind cmd lie whatever variables the linker put   *)
(* there: a store or a read past its end takes the machine to the point    *)
(* "astray", from which on nothing is said of it.                          *)
(***************************************************************************)
EXTENDS Integers, Sequences

CONSTANTS
  Letters,    \* keys that give a letter, sensitive to shift and caps lock
  Symbols,    \* keys with two legends, sensitive to shift only
  Plain,      \* keys that give the same character always: space, tab, escape
  Blank,      \* the space bar
  ShiftKeys,  \* scancodes 0x2A and 0x36
  NUL,        \* the byte '\0'
  CmdSize,    \* cells of cmd, 256 in the code
  MaxArgs,    \* rows of argv, 10 in the code
  HaltNames,  \* commands that never return: "halt" and "reboot"
  MaxKeys     \* bound on the number of scancodes, for model checking

Glyphs == Letters \cup Symbols \cup Plain

\* A character is its key and the table column it was taken from.
Chars == Glyphs \X BOOLEAN

ASSUME ConsoleAssumption ==
  /\ CmdSize \in Nat \ {0}
  /\ MaxArgs \in Nat \ {0}
  /\ MaxKeys \in Nat
  /\ Blank \in Plain
  /\ NUL \notin Chars

Cells == 0 .. CmdSize - 1

VARIABLES
  cmd, pos, pending,        \* shared by the handler and the loop
  shift_state, caps_state,  \* the handler's modifier flags
  pc,                       \* where the loop is
  i, j,                     \* process_command: next cell, blanks seen
  parsed,                   \* process_command: what has been copied to argv
  held,                     \* shift keys physically down
  keys,                     \* scancodes delivered so far
  line, torn,               \* history: the accepted line, has it been overwritten unread
  last,                     \* history: the command that ran last
  nAccepted, nRun, nDropped \* history: lines accepted, run, dropped

shared   == <<cmd, pos, pending>>
modifier == <<shift_state, caps_state, held>>
loop     == <<pc, i, j, parsed>>
history  == <<line, torn, last, nAccepted, nRun, nDropped>>
vars     == <<shared, modifier, loop, keys, history>>

Points == {"boot", "poll", "parse", "run", "clear", "dead", "astray"}

\* No instruction of the program as written follows.
Over == pc \in {"dead", "astray"}

\* The loop has an accepted line still to read.
Unread == pending /\ pc \in {"boot", "poll", "parse"}

\* The line being typed: cells 0 .. pos-1.
Typed == [k \in 1 .. pos |-> cmd[k - 1]]

-----------------------------------------------------------------------------
(* The keyboard interrupt *)

SpaceChar == <<Blank, FALSE>>

\* The four tables sta, staS, staC and staSC: caps lock inverts the case of
\* letters and leaves symbols alone; plain keys are the same in all four.
Translate(key) ==
  IF key \in Letters THEN <<key, shift_state # caps_state>>
  ELSE IF key \in Symbols THEN <<key, shift_state>>
  ELSE <<key, FALSE>>

Scancode == /\ ~Over
            /\ keys < MaxKeys
            /\ keys' = keys + 1

Interrupt == Scancode /\ UNCHANGED loop

ShiftDown(key) == /\ Interrupt
                  /\ shift_state' = TRUE
                  /\ held' = held \cup {key}
                  /\ UNCHANGED <<shared, caps_state, history>>

\* Fault: releases are ignored.
ShiftUp_Ignored(key) == /\ Interrupt
                        /\ key \in held
                        /\ held' = held \ {key}
                        /\ UNCHANGED <<shared, shift_state, caps_state, history>>

\* Either release clears the one flag that both shift keys share.
ShiftUp(key) == /\ Interrupt
                /\ key \in held
                /\ shift_state' = FALSE
                /\ held' = held \ {key}
                /\ UNCHANGED <<shared, caps_state, history>>

CapsDown == /\ Interrupt
            /\ caps_state' = ~caps_state
            /\ UNCHANGED <<shared, shift_state, held, history>>

\* A store at pos hits a cell the loop has still to read.
Overtakes == Unread /\ pos >= i

\* cmd[pos++] = c
CharDown(key) == /\ Interrupt
                 /\ pos \in Cells
                 /\ cmd' = [cmd EXCEPT ![pos] = Translate(key)]
                 /\ pos' = pos + 1
                 /\ torn' = (torn \/ Overtakes)
                 /\ UNCHANGED <<pending, modifier, line, last, nAccepted, nRun, nDropped>>

\* Fault: the line is accepted without its terminator.
EnterDown_NoTerminator ==
  /\ Interrupt
  /\ pos \in Cells
  /\ ~pending
  /\ pending' = TRUE
  /\ pos' = 0
  /\ torn' = FALSE /\ line' = Typed /\ nAccepted' = nAccepted + 1
  /\ UNCHANGED <<cmd, nDropped, modifier, last, nRun>>

\* A newline ends the line.  It sets pending whether or not the loop is still
\* busy with an earlier line, and the loop will clear it only once.
EnterDown == /\ Interrupt
             /\ pos \in Cells
             /\ cmd' = [cmd EXCEPT ![pos] = NUL]
             /\ pending' = TRUE
             /\ pos' = 0
             /\ IF pending
                THEN /\ torn' = (torn \/ Overtakes)
                     /\ nDropped' = nDropped + 1
                     /\ UNCHANGED <<line, nAccepted>>
                ELSE /\ torn' = FALSE
                     /\ line' = Typed
                     /\ nAccepted' = nAccepted + 1
                     /\ UNCHANGED nDropped
             /\ UNCHANGED <<modifier, last, nRun>>

\* The same two stores behind a line that has filled cmd: a character, or the
\* terminator.  Neither looks whether pos is still inside.
StoreBeyond == /\ Scancode
               /\ pos \notin Cells
               /\ pc' = "astray"
               /\ UNCHANGED <<shared, modifier, i, j, parsed, history>>

Keyboard == \/ \E key \in ShiftKeys : ShiftDown(key) \/ ShiftUp(key)
            \/ CapsDown
            \/ \E key \in Glyphs : CharDown(key)
            \/ EnterDown
            \/ StoreBeyond

-----------------------------------------------------------------------------
(* The loop of kernel_main *)

Unseen == <<shared, modifier, keys, history>>

\* From sti to the loop: clock set-up and the greeting.
Booted == /\ pc = "boot"
          /\ pc' = "poll"
          /\ UNCHANGED <<i, j, parsed, Unseen>>


Poll == /\ pc = "poll"
        /\ pending
        /\ pc' = "parse"
        /\ i' = 0 /\ j' = 0 /\ parsed' = <<>>
        /\ UNCHANGED Unseen

\* Fault: the rows of argv are not counted.
More_AnyArgc == cmd[i] # NUL

\* The test of the while loop of process_command.
More == cmd[i] # NUL /\ j < MaxArgs

\* Fault: the continue at the end of the branch for blanks is missing, and the
\* cell behind a blank is passed unlooked.
ParseChar_FallsThrough ==
  /\ pc = "parse"
  /\ i \in Cells
  /\ More
  /\ parsed' = Append(parsed, cmd[i])
  /\ j' = IF cmd[i] = SpaceChar THEN j + 1 ELSE j
  /\ i' = IF cmd[i] = SpaceChar THEN i + 2 ELSE i + 1
  /\ UNCHANGED <<pc, Unseen>>

ParseChar == /\ pc = "parse"
             /\ i \in Cells
             /\ More
             /\ parsed' = Append(parsed, cmd[i])
             /\ j' = IF cmd[i] = SpaceChar THEN j + 1 ELSE j
             /\ i' = i + 1
             /\ UNCHANGED <<pc, Unseen>>

ParseEnd == /\ pc = "parse"
            /\ i \in Cells
            /\ ~More
            /\ pc' = "run"
            /\ UNCHANGED <<i, j, parsed, Unseen>>

\* The test of the loop reads behind cmd, where a line typed meanwhile has
\* taken the last terminator.
ParseBeyond == /\ pc = "parse"
               /\ i \notin Cells
               /\ pc' = "astray"
               /\ UNCHANGED <<i, j, parsed, Unseen>>

\* argv[0]: what comes before the first blank.
Argv0(s) ==
  LET IsBlank(k) == s[k] = SpaceChar
      before     == {n \in 0 .. Len(s) : \A k \in 1 .. n : ~IsBlank(k)}
  IN SubSeq(s, 1, CHOOSE n \in before : \A m \in before : m <= n)

\* The command runs; "halt" and "reboot" end in cli and hlt for ever.
Run == /\ pc = "run"
       /\ pc' = IF Argv0(parsed) \in HaltNames THEN "dead" ELSE "clear"
       /\ last' = [line |-> line, torn |-> torn, ran |-> parsed, args |-> j]
       /\ nRun' = nRun + 1
       /\ UNCHANGED <<i, j, parsed, shared, modifier, keys, line, torn, nAccepted, nDropped>>

\* Fault: pending is not cleared.
Clear_KeepsPending == /\ pc = "clear"
                      /\ pc' = "poll"
                      /\ i' = 0 /\ j' = 0 /\ parsed' = <<>>
                      /\ UNCHANGED Unseen

Clear == /\ pc = "clear"
         /\ pending' = FALSE
         /\ pc' = "poll"
         /\ i' = 0 /\ j' = 0 /\ parsed' = <<>>
         /\ UNCHANGED <<cmd, pos, modifier, keys, history>>

\* Fault: the loop never gets past the command it ran.
Main_NeverClears == Booted \/ Poll \/ ParseChar \/ ParseEnd \/ ParseBeyond \/ Run

Main == Booted \/ Poll \/ ParseChar \/ ParseEnd \/ ParseBeyond \/ Run \/ Clear

-----------------------------------------------------------------------------
NoLine == [line |-> <<>>, torn |-> FALSE, ran |-> <<>>, args |-> 0]

Init == /\ cmd = [k \in Cells |-> NUL]
        /\ pos = 0
        /\ pending = FALSE
        /\ shift_state = FALSE /\ caps_state = FALSE
        /\ held \in SUBSET ShiftKeys
        /\ pc = "boot"
        /\ i = 0 /\ j = 0 /\ parsed = <<>>
        /\ keys = 0
        /\ line = <<>> /\ torn = FALSE
        /\ last = NoLine
        /\ nAccepted = 0 /\ nRun = 0 /\ nDropped = 0

Next == Keyboard \/ Main

\* The processor always returns from the interrupt handler and goes on with
\* the loop; nobody owes the machine a key press.
Fairness == WF_vars(Main)

Spec == Init /\ [][Next]_vars /\ Fairness

-----------------------------------------------------------------------------
(* Properties *)

TypeOK ==
  /\ cmd \in [Cells -> Chars \cup {NUL}]
  /\ pos \in 0 .. CmdSize
  /\ pending \in BOOLEAN
  /\ shift_state \in BOOLEAN /\ caps_state \in BOOLEAN
  /\ held \in SUBSET ShiftKeys
  /\ pc \in Points
  /\ i \in 0 .. CmdSize /\ j \in 0 .. MaxArgs
  /\ parsed \in Seq(Chars)
  /\ keys \in 0 .. MaxKeys
  /\ line \in Seq(Chars) /\ torn \in BOOLEAN
  /\ last \in [line : Seq(Chars), torn : BOOLEAN, ran : Seq(Chars), args : 0 .. MaxArgs]
  /\ nAccepted \in Nat /\ nRun \in Nat /\ nDropped \in Nat

\* However lines are typed over the one that process_command is reading, there
\* is a terminator at or behind the cell it reads next, unless the line being
\* typed has filled the whole of cmd: only then can it read past the end, and
\* only with the next key will the handler store there.
ParseStaysInBuffer ==
  pc = "parse" => pos = CmdSize \/ \E k \in Cells : k >= i /\ cmd[k] = NUL

\* The command that ran is the line that was entered, cut after MaxArgs
\* blanks, unless a key typed ahead was stored in a cell the parser had
\* not read yet.  Typing ahead behind the parser is harmless.
RanAsTyped ==
  ~last.torn =>
    /\ Len(last.ran) <= Len(last.line)
    /\ \A k \in 1 .. Len(last.ran) : last.ran[k] = last.line[k]
    /\ Len(last.ran) = Len(last.line) \/ last.args = MaxArgs

\* Every accepted line is run exactly once: none is lost and none is run
\* twice, however many newlines arrive while the shell is busy.
EachAcceptedRunsOnce ==
  pc # "astray" =>
    nAccepted = nRun + (IF pending /\ pc # "clear" /\ pc # "dead" THEN 1 ELSE 0)

\* A shifted legend is produced only while a shift key is really down.
ShiftOnlyWhileHeld == shift_state => held # {}

\* A newline wakes the shell: pending is eventually cleared, or the command
\* was one that stops the machine, or a line that fills cmd led it astray.
ShellComesBack == pending ~> (~pending \/ Over)

\* The console implements the one-line command server, which breaks down only
\* while a line of CmdSize characters is being typed.
Server == INSTANCE CommandServer WITH
            Size <- CmdSize, busy <- pending, halted <- Over, fill <- pos
=============================================================================
