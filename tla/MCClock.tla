------------------------------ MODULE MCClock ------------------------------
(* Clock with a few ticks a second, started in one February of a leap year and *)
(* running through another; see Clock.cfg.                                     *)
EXTENDS Clock

MCFebruary == {0} \cup (8 .. 13)
=============================================================================
