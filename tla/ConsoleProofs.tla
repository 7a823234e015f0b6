--------------------------- MODULE ConsoleProofs ---------------------------
(***************************************************************************)
(* Console for every size of the buffer, every number of argument rows and *)
(* every number of keys: type correctness, the three safety invariants of  *)
(* the command loop, and the refinement of CommandServer (safety part).    *)
(***************************************************************************)
EXTENDS Console, TLAPS

\* What has been copied is the beginning of the accepted line.
CopiedPrefix == /\ i <= Len(line)
                /\ \A k \in 1 .. i : parsed[k] = line[k]

\* The cells still to be read hold the rest of the line and its terminator.
RestInPlace == /\ Len(line) < CmdSize
               /\ \A k \in i .. Len(line) - 1 : cmd[k] = line[k + 1]
               /\ cmd[Len(line)] = NUL

\* Only a line that fills cmd takes the last terminator.
Guarded == pos # CmdSize => cmd[CmdSize - 1] = NUL

TypedIsText == \A k \in 0 .. pos - 1 : cmd[k] \in Chars

LoopShape ==
  /\ pc \in {"boot", "poll"} => i = 0 /\ parsed = <<>> /\ j = 0
  /\ pc \notin {"boot", "poll", "astray"} => pending
  /\ pc = "parse" /\ pos # CmdSize => i \in Cells
  /\ Len(parsed) = i

LineIntact == (Unread /\ ~torn) => CopiedPrefix /\ RestInPlace

LineCopied == (pc = "run" /\ ~torn) => /\ CopiedPrefix
                                       /\ i = Len(line) \/ j = MaxArgs

\* The inductive invariant.
IInv == /\ TypeOK
        /\ Guarded
        /\ TypedIsText
        /\ LoopShape
        /\ LineIntact
        /\ LineCopied
        /\ EachAcceptedRunsOnce
        /\ RanAsTyped

USE ConsoleAssumption

-----------------------------------------------------------------------------
(* Lemmas *)

\* A function on 1 .. n with values in S is a sequence of S of length n.
LEMMA FunctionIsSequence ==
  ASSUME NEW S, NEW n \in Nat, NEW f \in [1 .. n -> S]
  PROVE  f \in Seq(S) /\ Len(f) = n
  OBVIOUS

\* Extending a sequence keeps what it had and puts the element at the end.
LEMMA AppendFacts ==
  ASSUME NEW S, NEW s \in Seq(S), NEW e \in S
  PROVE  /\ Append(s, e) \in Seq(S)
         /\ Len(Append(s, e)) = Len(s) + 1
         /\ \A k \in 1 .. Len(s) : Append(s, e)[k] = s[k]
         /\ Append(s, e)[Len(s) + 1] = e
  OBVIOUS

\* Whatever the modifier flags, a glyph key gives a character, never NUL.
LEMMA TranslateIsChar ==
  ASSUME NEW key \in Glyphs, shift_state \in BOOLEAN, caps_state \in BOOLEAN
  PROVE  Translate(key) \in Chars /\ Translate(key) # NUL
<1>1. (shift_state # caps_state) \in BOOLEAN
  OBVIOUS
<1>2. \A legend \in BOOLEAN, k \in Glyphs : <<k, legend>> \in Chars
  BY DEF Chars
<1>3. Translate(key) \in Chars
  <2>1. CASE key \in Letters
    BY <2>1, <1>1, <1>2, Zenon DEF Translate
  <2>2. CASE key \notin Letters /\ key \in Symbols
    BY <2>2, <1>2, Zenon DEF Translate
  <2>3. CASE key \notin Letters /\ key \notin Symbols
    BY <2>3, <1>2, Zenon DEF Translate
  <2>4. QED
    BY <2>1, <2>2, <2>3
<1>4. QED
  BY <1>3, ConsoleAssumption

\* The line being typed is text, as long as pos.
LEMMA TypedIsLine ==
  ASSUME TypeOK, TypedIsText
  PROVE  /\ Typed \in Seq(Chars)
         /\ Len(Typed) = pos
         /\ \A k \in 1 .. pos : Typed[k] = cmd[k - 1]
<1>1. Typed \in [1 .. pos -> Chars]
  BY DEF Typed, TypedIsText, TypeOK, Cells
<1>2. pos \in Nat
  BY DEF TypeOK, Cells
<1>3. QED
  BY <1>1, <1>2, FunctionIsSequence DEF Typed

\* The invariant holds when the kernel has just set up its buffers (kernel.c 124-129).
LEMMA InitInvariant == Init => IInv
<1> SUFFICES ASSUME Init PROVE IInv
  OBVIOUS
<1> USE DEF Init
<1>1. TypeOK
  BY DEF TypeOK, Cells, Points, NoLine
<1>2. Guarded /\ TypedIsText
  BY DEF Guarded, TypedIsText, Cells
<1>3. LoopShape /\ LineIntact /\ LineCopied
  BY DEF LoopShape, LineIntact, LineCopied, Unread
<1>4. EachAcceptedRunsOnce /\ RanAsTyped
  BY DEF EachAcceptedRunsOnce, RanAsTyped, NoLine
<1>5. QED
  BY <1>1, <1>2, <1>3, <1>4 DEF IInv

-----------------------------------------------------------------------------
(* Every step preserves the invariant: one lemma per action. *)

\* Shift and caps lock scancodes touch only the two flags, so no part of the
\* invariant is disturbed.
LEMMA ModifierStep ==
  ASSUME IInv, Interrupt, UNCHANGED <<shared, history>>,
         shift_state' \in BOOLEAN, caps_state' \in BOOLEAN, held' \in SUBSET ShiftKeys
  PROVE  IInv'
<1> USE DEF IInv, Interrupt, Scancode, shared, history, loop
<1>1. TypeOK'
  BY DEF TypeOK
<1>2. Guarded' /\ TypedIsText' /\ LoopShape'
  BY DEF Guarded, TypedIsText, LoopShape
<1>3. LineIntact' /\ LineCopied'
  BY DEF LineIntact, LineCopied, CopiedPrefix, RestInPlace, Unread
<1>4. EachAcceptedRunsOnce' /\ RanAsTyped'
  BY DEF EachAcceptedRunsOnce, RanAsTyped
<1>5. QED
  BY <1>1, <1>2, <1>3, <1>4

\* Storing a typed character (cmd[pos++] = c): either the cell has been read
\* already, or torn records that an unread cell was overwritten.
LEMMA CharDownStep ==
  ASSUME IInv, NEW key \in Glyphs, CharDown(key)
  PROVE  IInv'
<1> DEFINE c == Translate(key)
<1>1. c \in Chars /\ c # NUL
  BY TranslateIsChar DEF IInv, TypeOK
<1>2. /\ pos' = pos + 1 /\ pos' \in 0 .. CmdSize /\ pos \in Cells
      /\ cmd' = [cmd EXCEPT ![pos] = c]
  BY DEF CharDown, IInv, TypeOK, Cells
<1>3. /\ UNCHANGED <<pc, i, j, parsed, pending, line, last, nAccepted, nRun, nDropped>>
      /\ UNCHANGED <<shift_state, caps_state, held>>
      /\ torn' = (torn \/ Overtakes)
      /\ keys' \in 0 .. MaxKeys
  BY DEF CharDown, Interrupt, Scancode, loop, modifier, IInv, TypeOK
<1> HIDE DEF c
<1>4. TypeOK'
  <2>1. torn' \in BOOLEAN
    BY <1>3 DEF IInv, TypeOK, Overtakes
  <2>2. cmd' \in [Cells -> Chars \cup {NUL}]
    BY <1>1, <1>2 DEF IInv, TypeOK
  <2>3. QED
    BY <1>2, <1>3, <2>1, <2>2 DEF IInv, TypeOK
<1>5. Guarded' /\ TypedIsText' /\ LoopShape'
  BY <1>1, <1>2, <1>3 DEF IInv, TypeOK, Cells, Guarded, TypedIsText, LoopShape
<1>6. LineIntact'
  <2> SUFFICES ASSUME Unread', ~torn'
               PROVE  CopiedPrefix' /\ RestInPlace'
    BY DEF LineIntact
  <2>1. Unread /\ ~torn /\ pos < i
    BY <1>3 DEF Unread, Overtakes, IInv, TypeOK, Cells
  <2>2. CopiedPrefix /\ RestInPlace
    BY <2>1 DEF IInv, LineIntact
  <2>3. Len(line) \in Nat /\ i \in Nat /\ CmdSize \in Nat /\ pos \in Nat
    BY DEF IInv, TypeOK
  <2>4. CopiedPrefix'
    BY <1>3, <2>2 DEF CopiedPrefix
  <2>5. \A k \in Cells : k # pos => cmd'[k] = cmd[k]
    BY <1>2 DEF IInv, TypeOK
  <2>6. Len(line) < CmdSize /\ i <= Len(line)
    BY <2>2 DEF CopiedPrefix, RestInPlace
  <2>7. \A k \in i .. Len(line) : k \in Cells /\ k # pos
    BY <2>1, <2>3, <2>6 DEF Cells
  <2>8. RestInPlace'
    BY <1>3, <2>2, <2>3, <2>5, <2>6, <2>7 DEF RestInPlace
  <2>9. QED
    BY <2>4, <2>8
<1>7. LineCopied' /\ EachAcceptedRunsOnce' /\ RanAsTyped'
  BY <1>3 DEF IInv, LineCopied, CopiedPrefix, EachAcceptedRunsOnce, RanAsTyped
<1>8. QED
  BY <1>4, <1>5, <1>6, <1>7 DEF IInv

\* A newline: while pending it is dropped, otherwise the typed cells become the
\* accepted line, still in place because the loop is idle.
LEMMA EnterDownStep ==
  ASSUME IInv, EnterDown
  PROVE  IInv'
<1>1. /\ pos \in Cells /\ pos' = 0 /\ pending' = TRUE
      /\ cmd' = [cmd EXCEPT ![pos] = NUL]
  BY DEF EnterDown, IInv, TypeOK
<1>2. /\ UNCHANGED <<pc, i, j, parsed, last, nRun>>
      /\ UNCHANGED <<shift_state, caps_state, held>>
      /\ keys' \in 0 .. MaxKeys
  BY DEF EnterDown, Interrupt, Scancode, loop, modifier, IInv, TypeOK
<1>3. CASE pending
  <2>1. torn' = (torn \/ Overtakes) /\ nDropped' = nDropped + 1 /\ UNCHANGED <<line, nAccepted>>
    BY <1>3 DEF EnterDown
  <2>2. TypeOK'
    <3>1. torn' \in BOOLEAN
      BY <2>1 DEF IInv, TypeOK, Overtakes
    <3>2. QED
      BY <1>1, <1>2, <2>1, <3>1 DEF IInv, TypeOK, Cells
  <2>3. Guarded' /\ TypedIsText' /\ LoopShape'
    BY <1>1, <1>2 DEF IInv, TypeOK, Cells, Guarded, TypedIsText, LoopShape
  <2>4. LineIntact'
    <3> SUFFICES ASSUME Unread', ~torn'
                 PROVE  CopiedPrefix' /\ RestInPlace'
      BY DEF LineIntact
    <3>1. Unread /\ ~torn /\ pos < i
      <4>1. Unread
        BY <1>2, <1>3 DEF Unread
      <4>2. ~torn /\ ~Overtakes
        BY <2>1
      <4>3. pos \in Int /\ i \in Int
        BY DEF IInv, TypeOK, Cells
      <4>4. QED
        BY <4>1, <4>2, <4>3 DEF Overtakes
    <3>2. CopiedPrefix /\ RestInPlace
      BY <3>1 DEF IInv, LineIntact
    <3>3. Len(line) \in Nat /\ i \in Nat
      BY DEF IInv, TypeOK
    <3>4. QED
      BY <1>1, <1>2, <2>1, <3>1, <3>2, <3>3 DEF CopiedPrefix, RestInPlace, IInv, TypeOK, Cells
  <2>5. LineCopied' /\ EachAcceptedRunsOnce' /\ RanAsTyped'
    <3>1. LineCopied'
      BY <1>2, <2>1 DEF IInv, LineCopied, CopiedPrefix
    <3>2. EachAcceptedRunsOnce' /\ RanAsTyped'
      BY <1>1, <1>2, <1>3, <2>1 DEF IInv, EachAcceptedRunsOnce, RanAsTyped
    <3>3. QED
      BY <3>1, <3>2
  <2>6. QED
    BY <2>2, <2>3, <2>4, <2>5 DEF IInv
<1>4. CASE ~pending
  <2>1. torn' = FALSE /\ line' = Typed /\ nAccepted' = nAccepted + 1 /\ UNCHANGED nDropped
    BY <1>4 DEF EnterDown
  <2>2. /\ line' \in Seq(Chars) /\ Len(line') = pos
        /\ \A k \in 1 .. pos : line'[k] = cmd[k - 1]
    BY <2>1, TypedIsLine DEF IInv
  <2>3. pc \in {"boot", "poll"} /\ i = 0 /\ parsed = <<>>
    BY <1>4 DEF EnterDown, Interrupt, Scancode, Over, IInv, LoopShape, TypeOK, Points
  <2>4. TypeOK'
    <3>1. cmd' \in [Cells -> Chars \cup {NUL}] /\ pos' \in 0 .. CmdSize
      BY <1>1 DEF IInv, TypeOK, Cells
    <3>2. nAccepted' \in Nat /\ nDropped' \in Nat
      BY <2>1 DEF IInv, TypeOK
    <3>3. QED
      BY <1>1, <1>2, <2>1, <2>2, <3>1, <3>2 DEF IInv, TypeOK
  <2>5. Guarded' /\ TypedIsText' /\ LoopShape'
    BY <1>1, <1>2 DEF IInv, TypeOK, Cells, Guarded, TypedIsText, LoopShape
  <2>6. LineIntact'
    <3>1. CopiedPrefix'
      BY <1>1, <1>2, <2>2, <2>3 DEF CopiedPrefix, Cells
    <3>2. RestInPlace'
      BY <1>1, <1>2, <2>2, <2>3 DEF RestInPlace, Cells, IInv, TypeOK
    <3>3. QED
      BY <3>1, <3>2 DEF LineIntact
  <2>7. LineCopied' /\ EachAcceptedRunsOnce' /\ RanAsTyped'
    <3>1. LineCopied' /\ RanAsTyped'
      BY <1>2, <2>3 DEF IInv, LineCopied, RanAsTyped
    <3>2. nAccepted = nRun
      BY <1>4, <2>3 DEF IInv, TypeOK, EachAcceptedRunsOnce
    <3>3. EachAcceptedRunsOnce'
      BY <1>1, <1>2, <2>1, <2>3, <3>2 DEF IInv, TypeOK, EachAcceptedRunsOnce
    <3>4. QED
      BY <3>1, <3>3
  <2>8. QED
    BY <2>4, <2>5, <2>6, <2>7 DEF IInv
<1>5. QED
  BY <1>3, <1>4 DEF IInv, TypeOK

\* Entering the loop, and leaving the poll with the whole line still to read.
LEMMA BootedOrPollStep ==
  ASSUME IInv, Booted \/ Poll
  PROVE  IInv'
<1>1. /\ UNCHANGED <<shared, modifier, keys, history>>
      /\ pc \in {"boot", "poll"} /\ pc' \in {"poll", "parse"}
      /\ pc' = "parse" => pending
      /\ i' = 0 /\ j' = 0 /\ parsed' = <<>>
      /\ i = 0 /\ j = 0 /\ parsed = <<>>
  BY DEF Booted, Poll, Unseen, IInv, LoopShape
<1> USE DEF shared, modifier, history
<1>2. TypeOK'
  BY <1>1 DEF IInv, TypeOK, Points
<1>3. Guarded' /\ TypedIsText' /\ LoopShape'
  BY <1>1 DEF IInv, Guarded, TypedIsText, LoopShape, Cells
<1>4. LineIntact' /\ LineCopied'
  BY <1>1 DEF IInv, LineIntact, LineCopied, Unread, CopiedPrefix, RestInPlace
<1>5. EachAcceptedRunsOnce' /\ RanAsTyped'
  BY <1>1 DEF IInv, EachAcceptedRunsOnce, RanAsTyped
<1>6. QED
  BY <1>2, <1>3, <1>4, <1>5 DEF IInv

\* Copying one character of the line: the copied prefix grows by the cell read,
\* and a terminator in the last cell keeps the index inside cmd.
LEMMA ParseCharStep ==
  ASSUME IInv, ParseChar
  PROVE  IInv'
<1>1. /\ pc = "parse" /\ pc' = "parse" /\ pending
      /\ UNCHANGED <<shared, modifier, keys, history>>
      /\ i' = i + 1 /\ parsed' = Append(parsed, cmd[i])
  BY DEF ParseChar, Unseen, IInv, LoopShape
<1>2. i \in Cells /\ cmd[i] \in Chars /\ i + 1 \in 0 .. CmdSize /\ (pos # CmdSize => i + 1 \in Cells)
  <2>1. i \in Cells /\ cmd[i] # NUL
    BY DEF ParseChar, More
  <2>2. cmd[i] \in Chars
    BY <2>1 DEF IInv, TypeOK
  <2>3. pos # CmdSize => i # CmdSize - 1
    BY <2>1 DEF IInv, Guarded
  <2>4. QED
    BY <2>1, <2>2, <2>3 DEF Cells
<1>3. j' \in 0 .. MaxArgs
  BY DEF ParseChar, More, IInv, TypeOK
<1>4. /\ parsed' \in Seq(Chars) /\ Len(parsed') = i + 1
      /\ \A k \in 1 .. i : parsed'[k] = parsed[k]
      /\ parsed'[i + 1] = cmd[i]
  <2>1. parsed \in Seq(Chars) /\ Len(parsed) = i
    BY DEF IInv, TypeOK, LoopShape
  <2>2. QED
    BY <1>1, <1>2, <2>1, AppendFacts
<1> USE DEF shared, modifier, history
<1>5. TypeOK'
  BY <1>1, <1>2, <1>3, <1>4 DEF IInv, TypeOK, Points, Cells
<1>6. Guarded' /\ TypedIsText' /\ LoopShape'
  BY <1>1, <1>2, <1>4 DEF IInv, Guarded, TypedIsText, LoopShape, Cells
<1>7. LineIntact'
  <2> SUFFICES ASSUME ~torn
               PROVE  CopiedPrefix' /\ RestInPlace'
    BY <1>1 DEF LineIntact
  <2>1. CopiedPrefix /\ RestInPlace
    BY <1>1 DEF IInv, LineIntact, Unread
  <2>2. i \in Nat /\ Len(line) \in Nat
    BY DEF IInv, TypeOK
  <2>3. i < Len(line) /\ cmd[i] = line[i + 1]
    BY <1>2, <2>1, <2>2, ConsoleAssumption DEF CopiedPrefix, RestInPlace
  <2>4. CopiedPrefix'
    BY <1>1, <1>4, <2>1, <2>2, <2>3 DEF CopiedPrefix
  <2>5. RestInPlace'
    BY <1>1, <2>1, <2>2 DEF RestInPlace
  <2>6. QED
    BY <2>4, <2>5
<1>8. LineCopied' /\ EachAcceptedRunsOnce' /\ RanAsTyped'
  BY <1>1 DEF ParseChar, IInv, LineCopied, EachAcceptedRunsOnce, RanAsTyped
<1>9. QED
  BY <1>5, <1>6, <1>7, <1>8 DEF IInv

\* The copying loop ends at the terminator of the line or after MaxArgs blanks.
LEMMA ParseEndStep ==
  ASSUME IInv, ParseEnd
  PROVE  IInv'
<1>1. /\ pc = "parse" /\ pc' = "run" /\ pending /\ ~More
      /\ UNCHANGED <<i, j, parsed, shared, modifier, keys, history>>
  BY DEF ParseEnd, Unseen, IInv, LoopShape
<1> USE DEF shared, modifier, history
<1>2. TypeOK'
  BY <1>1 DEF IInv, TypeOK, Points
<1>3. Guarded' /\ TypedIsText' /\ LoopShape'
  BY <1>1 DEF IInv, Guarded, TypedIsText, LoopShape
<1>4. LineCopied'
  <2> SUFFICES ASSUME ~torn
               PROVE  CopiedPrefix' /\ (i = Len(line) \/ j = MaxArgs)'
    BY <1>1 DEF LineCopied
  <2>1. CopiedPrefix /\ RestInPlace
    BY <1>1 DEF IInv, LineIntact, Unread
  <2>2. i \in Nat /\ Len(line) \in Nat /\ j \in 0 .. MaxArgs /\ line \in Seq(Chars)
    BY DEF IInv, TypeOK
  <2>3. ASSUME i < Len(line) PROVE cmd[i] # NUL
    <3>1. cmd[i] = line[i + 1] /\ line[i + 1] \in Chars
      BY <2>1, <2>2, <2>3 DEF RestInPlace
    <3>2. QED
      BY <3>1, ConsoleAssumption
  <2>4. i = Len(line) \/ j = MaxArgs
    BY <1>1, <2>1, <2>2, <2>3 DEF More, CopiedPrefix
  <2>5. QED
    BY <1>1, <2>1, <2>4 DEF CopiedPrefix
<1>5. LineIntact' /\ EachAcceptedRunsOnce' /\ RanAsTyped'
  BY <1>1 DEF IInv, LineIntact, Unread, EachAcceptedRunsOnce, RanAsTyped
<1>6. QED
  BY <1>2, <1>3, <1>4, <1>5 DEF IInv

\* Past the end of cmd, from the handler or from the parser: nothing is claimed
\* of what follows, and nothing has been changed.
LEMMA BeyondStep ==
  ASSUME IInv, StoreBeyond \/ ParseBeyond
  PROVE  IInv'
<1>1. /\ pc' = "astray" /\ keys' \in 0 .. MaxKeys
      /\ UNCHANGED <<i, j, parsed, shared, modifier, history>>
  BY DEF StoreBeyond, ParseBeyond, Scancode, Unseen, IInv, TypeOK
<1> USE DEF shared, modifier, history
<1>2. TypeOK'
  BY <1>1 DEF IInv, TypeOK, Points
<1>3. Guarded' /\ TypedIsText' /\ LoopShape'
  BY <1>1 DEF IInv, Guarded, TypedIsText, LoopShape
<1>4. LineIntact' /\ LineCopied'
  BY <1>1 DEF LineIntact, LineCopied, Unread
<1>5. EachAcceptedRunsOnce' /\ RanAsTyped'
  BY <1>1 DEF IInv, EachAcceptedRunsOnce, RanAsTyped
<1>6. QED
  BY <1>2, <1>3, <1>4, <1>5 DEF IInv

\* Running the command closes the account of the accepted line.
LEMMA RunStep ==
  ASSUME IInv, Run
  PROVE  IInv'
<1>1. /\ pc = "run" /\ pc' \in {"dead", "clear"} /\ pending
      /\ UNCHANGED <<i, j, parsed, shared, modifier, keys, line, torn, nAccepted, nDropped>>
      /\ last' = [line |-> line, torn |-> torn, ran |-> parsed, args |-> j]
      /\ nRun' = nRun + 1
  BY DEF Run, IInv, LoopShape
<1> USE DEF shared, modifier
<1>2. TypeOK'
  <2>1. last' \in [line : Seq(Chars), torn : BOOLEAN, ran : Seq(Chars), args : 0 .. MaxArgs]
    BY <1>1 DEF IInv, TypeOK
  <2>2. pc' \in Points
    BY <1>1 DEF Points
  <2>3. nRun' \in Nat
    BY <1>1 DEF IInv, TypeOK
  <2>4. UNCHANGED <<cmd, pos, pending, shift_state, caps_state, held, keys,
                    i, j, parsed, line, torn, nAccepted, nDropped>>
    BY <1>1
  <2>5. QED
    BY <2>1, <2>2, <2>3, <2>4 DEF IInv, TypeOK
<1>3. Guarded' /\ TypedIsText' /\ LoopShape'
  BY <1>1 DEF IInv, Guarded, TypedIsText, LoopShape
<1>4. LineIntact' /\ LineCopied'
  BY <1>1 DEF LineIntact, LineCopied, Unread
<1>5. EachAcceptedRunsOnce'
  BY <1>1 DEF IInv, TypeOK, EachAcceptedRunsOnce
<1>6. RanAsTyped'
  BY <1>1 DEF IInv, LineCopied, CopiedPrefix, LoopShape, RanAsTyped
<1>7. QED
  BY <1>2, <1>3, <1>4, <1>5, <1>6 DEF IInv

\* pending = false: nothing accepted is left to run.
LEMMA ClearStep ==
  ASSUME IInv, Clear
  PROVE  IInv'
<1>1. /\ pc = "clear" /\ pc' = "poll" /\ pending /\ pending' = FALSE
      /\ i' = 0 /\ j' = 0 /\ parsed' = <<>>
      /\ UNCHANGED <<cmd, pos, modifier, keys, history>>
  BY DEF Clear, IInv, LoopShape
<1> USE DEF modifier, history
<1>2. TypeOK'
  <2>1. pc' \in Points /\ pending' \in BOOLEAN
    BY <1>1 DEF Points
  <2>2. i' \in 0 .. CmdSize /\ j' \in 0 .. MaxArgs /\ parsed' \in Seq(Chars)
    BY <1>1
  <2>3. UNCHANGED <<cmd, pos, shift_state, caps_state, held, keys,
                    line, torn, last, nAccepted, nRun, nDropped>>
    BY <1>1
  <2>4. QED
    BY <2>1, <2>2, <2>3 DEF IInv, TypeOK
<1>3. Guarded' /\ TypedIsText' /\ LoopShape'
  BY <1>1 DEF IInv, Guarded, TypedIsText, LoopShape
<1>4. LineIntact' /\ LineCopied'
  BY <1>1 DEF LineIntact, LineCopied, Unread
<1>5. EachAcceptedRunsOnce' /\ RanAsTyped'
  BY <1>1 DEF IInv, EachAcceptedRunsOnce, RanAsTyped
<1>6. QED
  BY <1>2, <1>3, <1>4, <1>5 DEF IInv

\* Every step of the handler and of the loop preserves the invariant.
LEMMA NextInvariant == IInv /\ [Next]_vars => IInv'
<1> SUFFICES ASSUME IInv, [Next]_vars PROVE IInv'
  OBVIOUS
<1>1. ASSUME NEW key \in ShiftKeys, ShiftDown(key) \/ ShiftUp(key) PROVE IInv'
  BY <1>1, ModifierStep DEF ShiftDown, ShiftUp, IInv, TypeOK
<1>2. CASE CapsDown
  BY <1>2, ModifierStep DEF CapsDown, IInv, TypeOK
<1>3. ASSUME NEW key \in Glyphs, CharDown(key) PROVE IInv'
  BY <1>3, CharDownStep
<1>4. CASE EnterDown
  BY <1>4, EnterDownStep
<1>5. CASE Main \/ StoreBeyond
  BY <1>5, BootedOrPollStep, ParseCharStep, ParseEndStep, BeyondStep, RunStep, ClearStep DEF Main
<1>6. CASE UNCHANGED vars
  <2> USE <1>6 DEF IInv, vars, shared, modifier, loop, history
  <2>1. TypeOK'
    BY DEF TypeOK
  <2>2. Guarded' /\ TypedIsText' /\ LoopShape'
    BY DEF Guarded, TypedIsText, LoopShape
  <2>3. LineIntact' /\ LineCopied'
    BY DEF LineIntact, LineCopied, Unread, CopiedPrefix, RestInPlace
  <2>4. EachAcceptedRunsOnce' /\ RanAsTyped'
    BY DEF EachAcceptedRunsOnce, RanAsTyped
  <2>5. QED
    BY <2>1, <2>2, <2>3, <2>4
<1>7. QED
  BY <1>1, <1>2, <1>3, <1>4, <1>5, <1>6 DEF Next, Keyboard

-----------------------------------------------------------------------------
(* The theorems *)

\* The inductive invariant holds in every state the console reaches.
THEOREM Invariance == Spec => []IInv
  BY InitInvariant, NextInvariant, PTL DEF Spec

\* Types, for every buffer size: neither pos nor the parse index goes more than
\* one cell past the end of cmd before the machine is astray.
THEOREM TypeCorrect == Spec => []TypeOK
<1>1. IInv => TypeOK
  BY DEF IInv
<1>2. QED
  BY <1>1, Invariance, PTL

\* The command that runs is the line that was entered, unless type-ahead tore it.
THEOREM RunsAsTyped == Spec => []RanAsTyped
<1>1. IInv => RanAsTyped
  BY DEF IInv
<1>2. QED
  BY <1>1, Invariance, PTL

\* However newlines and the busy shell interleave, an accepted line runs once.
THEOREM RunsOnce == Spec => []EachAcceptedRunsOnce
<1>1. IInv => EachAcceptedRunsOnce
  BY DEF IInv
<1>2. QED
  BY <1>1, Invariance, PTL

\* Whatever is typed over the line it reads, process_command has a terminator
\* before it inside cmd, unless the line being typed fills cmd to the last cell.
THEOREM StaysInBuffer == Spec => []ParseStaysInBuffer
<1>1. IInv => ParseStaysInBuffer
  BY DEF IInv, ParseStaysInBuffer, Guarded, LoopShape, TypeOK, Cells
<1>2. QED
  BY <1>1, Invariance, PTL

\* Shifted characters come only while a shift key is down: a press sets the
\* flag and holds the key, and every release clears the flag.
THEOREM ShiftsWhileHeld == Spec => []ShiftOnlyWhileHeld
<1>1. Init => ShiftOnlyWhileHeld
  BY DEF Init, ShiftOnlyWhileHeld
<1>2. ShiftOnlyWhileHeld /\ [Next]_vars => ShiftOnlyWhileHeld'
  <2> SUFFICES ASSUME ShiftOnlyWhileHeld, [Next]_vars PROVE ShiftOnlyWhileHeld'
    OBVIOUS
  <2>1. ASSUME NEW key \in ShiftKeys, ShiftDown(key) PROVE ShiftOnlyWhileHeld'
    BY <2>1 DEF ShiftDown, ShiftOnlyWhileHeld
  <2>2. ASSUME NEW key \in ShiftKeys, ShiftUp(key) PROVE ShiftOnlyWhileHeld'
    BY <2>2 DEF ShiftUp, ShiftOnlyWhileHeld
  <2>3. CASE UNCHANGED <<shift_state, held>>
    BY <2>3 DEF ShiftOnlyWhileHeld
  <2>4. CapsDown \/ (\E key \in Glyphs : CharDown(key)) \/ EnterDown \/ StoreBeyond \/ Main \/ UNCHANGED vars
          => UNCHANGED <<shift_state, held>>
    BY DEF CapsDown, CharDown, EnterDown, StoreBeyond, Main, Booted, Poll, ParseChar, ParseEnd, ParseBeyond, Run, Clear,
           Unseen, modifier, vars
  <2>5. QED
    BY <2>1, <2>2, <2>3, <2>4 DEF Next, Keyboard
<1>3. QED
  BY <1>1, <1>2, PTL DEF Spec


\* The console starts as a free server.
LEMMA ServerInit == Init => Server!Init
  BY DEF Init, Over, Server!Init

\* Each step of handler or loop is one step of the server, or none.
LEMMA ServerStep == IInv /\ [Next]_vars => [Server!Next]_Server!vars
<1> SUFFICES ASSUME IInv, [Next]_vars PROVE [Server!Next]_Server!vars
  OBVIOUS
<1> USE DEF shared, modifier, loop, history, Interrupt, Scancode, Unseen, Over, Server!vars
<1>1. ASSUME NEW key \in ShiftKeys, ShiftDown(key) \/ ShiftUp(key) PROVE UNCHANGED Server!vars
  BY <1>1 DEF ShiftDown, ShiftUp
<1>2. CASE CapsDown
  BY <1>2 DEF CapsDown
<1>3. ASSUME NEW key \in Glyphs, CharDown(key) PROVE Server!Next
  <2>1. pos < CmdSize
    BY <1>3 DEF CharDown, Cells
  <2>2. Server!Type
    BY <1>3, <2>1 DEF CharDown, Server!Type
  <2>3. QED
    BY <2>2 DEF Server!Next
<1>4. CASE EnterDown
  <2>1. pos < CmdSize
    BY <1>4 DEF EnterDown, Cells
  <2>2. Server!Submit
    BY <1>4, <2>1 DEF EnterDown, Server!Submit
  <2>3. CASE pending
    BY <1>4, <2>2, <2>3 DEF EnterDown, Server!Next, Server!Drop
  <2>4. CASE ~pending
    BY <1>4, <2>2, <2>4 DEF EnterDown, Server!Next, Server!Accept
  <2>5. QED
    BY <2>3, <2>4
<1>5. CASE Booted \/ Poll \/ ParseChar \/ ParseEnd
  BY <1>5 DEF Booted, Poll, ParseChar, ParseEnd
<1>10. CASE StoreBeyond \/ ParseBeyond
  <2>1. pos = CmdSize
    BY <1>10 DEF StoreBeyond, ParseBeyond, IInv, TypeOK, LoopShape, Cells
  <2>2. pc \notin {"dead", "astray"} /\ pc' = "astray"
    BY <1>10 DEF StoreBeyond, ParseBeyond
  <2>3. UNCHANGED <<pos, pending, nAccepted, nRun, nDropped>>
    BY <1>10 DEF StoreBeyond, ParseBeyond
  <2>4. Server!Break
    BY <2>1, <2>2, <2>3 DEF Server!Break
  <2>5. QED
    BY <2>4 DEF Server!Next
<1>6. CASE Run
  <2>1. pc = "run" /\ pc' \in {"dead", "clear"} /\ pending /\ nRun < nAccepted
    BY <1>6 DEF Run, IInv, TypeOK, LoopShape, EachAcceptedRunsOnce
  <2>2. nRun' = nRun + 1 /\ UNCHANGED <<pos, pending, nAccepted, nDropped>>
    BY <1>6 DEF Run
  <2>3. (pc \in {"dead", "astray"})' \in BOOLEAN
    OBVIOUS
  <2>4. Server!Run
    BY <2>1, <2>2, <2>3 DEF Server!Run
  <2>5. QED
    BY <2>4 DEF Server!Next
<1>7. CASE Clear
  <2>1. pc = "clear" /\ pending /\ nRun = nAccepted
    BY <1>7 DEF Clear, IInv, LoopShape, EachAcceptedRunsOnce, TypeOK
  <2>2. pc' = "poll" /\ pending' = FALSE /\ UNCHANGED <<pos, nAccepted, nRun, nDropped>>
    BY <1>7 DEF Clear
  <2>3. Server!Release
    BY <2>1, <2>2 DEF Server!Release
  <2>4. QED
    BY <2>3 DEF Server!Next
<1>8. CASE UNCHANGED vars
  BY <1>8 DEF vars
<1>9. QED
  BY <1>1, <1>2, <1>3, <1>4, <1>5, <1>6, <1>7, <1>8, <1>10 DEF Next, Keyboard, Main

\* The safety part of the refinement: the console is a one-line command server.
THEOREM ImplementsServer == Spec => Server!Init /\ [][Server!Next]_Server!vars
  BY ServerInit, ServerStep, Invariance, PTL DEF Spec

=============================================================================
