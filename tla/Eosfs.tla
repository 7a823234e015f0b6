------------------------------- MODULE Eosfs --------------------------------
(***************************************************************************)
(* The disk structures of eosfs (eosfs.h) and what eosfs.c makes of them,  *)
(* one sector at a time.  Sectors are numbered from the start of the       *)
(* partition.                                                              *)
(*                                                                         *)
(* The code tells the kinds of a sector apart by two flags that all of     *)
(* them have in the same place, and otherwise reads a sector as whatever   *)
(* it expects.  A sector is therefore described by what each view of it    *)
(* gives: three directory entries, the two flags, and the first byte,      *)
(* which is the flags of the first entry and also a group's block count.   *)
(* A group descriptor and a content block show no name in the first entry: *)
(* the bitmap's low byte, and the second byte of a block's group number,   *)
(* are 0.                                                                  *)
(***************************************************************************)
EXTENDS Integers, FiniteSets

Nowhere == [gid |-> 0, bid |-> 0]
NoEntry == [name |-> <<>>, flags |-> 0, first_content_block |-> Nowhere, next_entry |-> Nowhere]

\* 83 bytes an entry: the loop to 256 / 83 looks at three per sector.
PerSector == 0 .. 2

BlankSector == [entry            |-> [i \in PerSector |-> NoEntry],
                content_block    |-> FALSE,
                group_descriptor |-> FALSE]

GroupDescriptor(blocks) == [BlankSector EXCEPT !.entry[0].flags = blocks, !.group_descriptor = TRUE]

\* A content block; its data begins where the flag of a group descriptor is,
\* so that one with a first byte other than 0 is taken for a descriptor.
ContentBlock(byte) == [BlankSector EXCEPT !.content_block = TRUE, !.group_descriptor = byte # 0]

Directory(entries) == [BlankSector EXCEPT !.entry = entries]

Blocks(sector) == sector.entry[0].flags

-----------------------------------------------------------------------------
(* format_partition_eosfs *)

\* A 32-bit difference: it wraps for partitions of less than three sectors,
\* the minimum is then 32.
GroupBlocks(count) == IF count - 3 \in 0 .. 31 THEN count - 3 ELSE 32

\* The superblock, which nothing reads, and the group descriptor.  The root
\* directory stays as it is.
Formatted(sectors, count) ==
  [sectors EXCEPT ![1] = BlankSector, ![2] = GroupDescriptor(GroupBlocks(count))]

-----------------------------------------------------------------------------
(* list_root_dir_eosfs *)

Root == 3

Links(entry) == entry.next_entry.gid # 0

\* The entries of a sector that are handed out: up to the first empty name and
\* up to the first link, and none of a content block.
Shown(sector) ==
  IF sector.content_block THEN {}
  ELSE {i \in PerSector : /\ \A j \in 0 .. i : sector.entry[j].name # <<>>
                          /\ \A j \in 0 .. i - 1 : ~Links(sector.entry[j])}

LinkOf(sector) == {i \in Shown(sector) : Links(sector.entry[i])}

\* An empty name ends the listing, unless a link comes before it.
IsLast(sector) == /\ LinkOf(sector) = {}
                  /\ \E i \in PerSector : /\ sector.entry[i].name = <<>>
                                          /\ sector.content_block => i = 0

\* Where the walk goes from sector start.  A link is counted from the sector
\* before; the loop over the groups reads the same sector each time, and the
\* increment at the end of the loop is made after a link as well.
NextSector(sector, start) ==
  IF LinkOf(sector) = {} THEN start + 1
  ELSE LET next == sector.entry[CHOOSE i \in LinkOf(sector) : TRUE].next_entry
       IN start + (next.gid - 1) * Blocks(sector) + next.bid
=============================================================================
