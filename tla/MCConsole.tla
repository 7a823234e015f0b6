----------------------------- MODULE MCConsole -----------------------------
(* Console on a buffer of five cells, two glyphs and two rows of argv. *)
EXTENDS Console

MCHaltNames == {<< <<"a", TRUE>> >>}
=============================================================================
