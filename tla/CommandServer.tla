--------------------------- MODULE CommandServer ---------------------------
(***************************************************************************)
(* What the console promises to the person at the keyboard, without saying *)
(* how: a server with room for ONE command line.  A line submitted while   *)
(* the server is free is accepted and run exactly once; a line submitted   *)
(* while it is busy is dropped, and disturbs no count.  This holds for     *)
(* lines of fewer than Size characters: while a longer one is being typed  *)
(* the server may break down, and never otherwise.                         *)
(* Console.tla refines this module (see Console!Served).                   *)
(***************************************************************************)
EXTENDS Naturals

CONSTANT Size  \* characters that it has room for, a terminator included

VARIABLES
  busy,      \* a line has been accepted and not yet released
  halted,    \* the last command run was one that never returns, or it broke down
  fill,      \* characters of the line being typed
  nAccepted, \* lines accepted so far
  nRun,      \* lines run so far
  nDropped   \* lines submitted while busy

vars == <<busy, halted, fill, nAccepted, nRun, nDropped>>

Init == /\ busy = FALSE
        /\ halted = FALSE
        /\ fill = 0
        /\ nAccepted = 0
        /\ nRun = 0
        /\ nDropped = 0

Type == /\ ~halted /\ fill < Size
        /\ fill' = fill + 1
        /\ UNCHANGED <<busy, halted, nAccepted, nRun, nDropped>>

\* The newline behind a line that fits.
Submit == /\ ~halted /\ fill < Size
          /\ fill' = 0

Accept == /\ Submit /\ ~busy
          /\ busy' = TRUE
          /\ nAccepted' = nAccepted + 1
          /\ UNCHANGED <<halted, nRun, nDropped>>

Drop == /\ Submit /\ busy
        /\ nDropped' = nDropped + 1
        /\ UNCHANGED <<busy, halted, nAccepted, nRun>>

\* The line typed has no end within its room.
Break == /\ ~halted /\ fill = Size
         /\ halted' = TRUE
         /\ UNCHANGED <<busy, fill, nAccepted, nRun, nDropped>>

\* Run the accepted line; the command may be one that stops the machine.
Run == /\ ~halted /\ busy
       /\ nRun < nAccepted
       /\ nRun' = nRun + 1
       /\ halted' \in BOOLEAN
       /\ UNCHANGED <<busy, fill, nAccepted, nDropped>>

\* The server becomes free only after the accepted line has been run.
Release == /\ ~halted /\ busy
           /\ nRun = nAccepted
           /\ busy' = FALSE
           /\ UNCHANGED <<halted, fill, nAccepted, nRun, nDropped>>

Next == Type \/ Accept \/ Drop \/ Break \/ Run \/ Release

Fairness == WF_vars(Run) /\ WF_vars(Release)

Spec == Init /\ [][Next]_vars /\ Fairness
=============================================================================
