------------------------------- MODULE MCAta -------------------------------
(* Ata with sectors of two words and one buffer to write for one sector and *)
(* one for two; the drives are chosen in each .cfg.                         *)
EXTENDS Ata

MCData == {<<"x", "y">>, <<"x", "y", "y", "x">>}

MCMedia == {[d \in Present |-> [l \in Lbas |-> IF l = 0 THEN <<"x", "x">> ELSE <<"y", "y">>]]}

\* Nothing is claimed of what follows a word that its drive was not ready for:
\* such states are checked, but not their successors.
NotBehind == ~behind
=============================================================================
