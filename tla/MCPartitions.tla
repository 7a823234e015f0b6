---------------------------- MODULE MCPartitions ----------------------------
(* Partitions with a few slots and sizes; see the .cfg files. *)
EXTENDS Partitions
=============================================================================
