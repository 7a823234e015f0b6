----------------------------- MODULE MCTerminal -----------------------------
(* Terminal on a page of two rows of three cells; see Terminal.cfg. *)
EXTENDS Terminal
=============================================================================
