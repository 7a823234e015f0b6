------------------------------- MODULE MCBoot -------------------------------
(* Boot with the timer, the keyboard and one line that has no gate. *)
EXTENDS Boot
=============================================================================
