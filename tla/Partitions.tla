----------------------------- MODULE Partitions -----------------------------
(***************************************************************************)
(* The disk tools of the shell: fdisk init, fdisk create and mkfs          *)
(* (shell.h 125-189, fdisking.c), on the master boot record and the        *)
(* sectors behind it.  A command reads sector 0, decides, and writes; mkfs *)
(* writes many sectors one after the other and the power may fail between  *)
(* any two of them, and before or after.                                   *)
(*                                                                         *)
(* A write returns with its sector in the drive's cache (run ata_flush of  *)
(* Ata): the drive reads it back from there, puts it on its medium when it *)
(* likes, and loses it when the power fails.  Of sector 0, which decides   *)
(* what later commands do, both copies are followed; of the sectors of a   *)
(* format only that mkfs has handed them to ata_write_sectors, for what    *)
(* the medium has of them after a power failure is any part, in any order. *)
(*                                                                         *)
(* A drive number from 4 on reads as whatever was on the stack and is      *)
(* never written, so commands for it change nothing here.                  *)
(***************************************************************************)
EXTENDS Integers, Sequences

CONSTANTS
  Drives,  \* drives present
  Slots,   \* slot numbers users type, those above 3 included
  Starts,  \* first sectors users type
  Counts   \* sector counts users type

ASSUME PartitionsAssumption ==
  /\ Drives \subseteq 0 .. 3
  /\ Slots \subseteq 0 .. 255
  /\ Starts \subseteq Nat /\ Counts \subseteq Nat

VARIABLES
  mbr,    \* per drive: the signature and the four entries of sector 0, as it reads
  medium, \* per drive: the same, as its medium has it
  todo,   \* sectors mkfs has still to write: <<sector, what for>>
  job,    \* history: the mkfs in progress or made last
  wrote   \* history: the sectors it has handed over

vars == <<mbr, medium, todo, job, wrote>>

Entry == [type : {0, 6}, start : Starts \cup {0}, count : Counts \cup {0}]
Empty == [type |-> 0, start |-> 0, count |-> 0]
NoTable == [s \in 0 .. 3 |-> Empty]

Filesystems == {"fat16", "ext2", "eosfs"}

NoJob == [fs |-> "none"]

-----------------------------------------------------------------------------
(* fdisk *)

\* What detect_architect finds: 0xAA55 at the end of sector 0.
Detected(d) == mbr[d].signature

InitMbr(d) == /\ todo = <<>>
              /\ mbr' = [mbr EXCEPT ![d] = [signature |-> TRUE, slots |-> NoTable]]
              /\ UNCHANGED <<medium, todo, job, wrote>>

\* Fault: the arguments are swapped.
Create_Swapped(d, slot, start, count) ==
  /\ todo = <<>>
  /\ Detected(d)
  /\ slot <= 3
  /\ mbr' = [mbr EXCEPT ![d].slots[slot] = [type |-> 6, start |-> count, count |-> start]]
  /\ UNCHANGED <<medium, todo, job, wrote>>

\* Fault: the drive is not checked for a master boot record.
Create_Unchecked(d, slot, start, count) ==
  /\ todo = <<>>
  /\ slot <= 3
  /\ mbr' = [mbr EXCEPT ![d].slots[slot] = [type |-> 6, start |-> start, count |-> count]]
  /\ UNCHANGED <<medium, todo, job, wrote>>

\* Fault: the entry is written into a blank sector, not into the one read.
Create_Blank(d, slot, start, count) ==
  /\ todo = <<>>
  /\ Detected(d)
  /\ slot <= 3
  /\ mbr' = [mbr EXCEPT ![d].slots =
               [NoTable EXCEPT ![slot] = [type |-> 6, start |-> start, count |-> count]]]
  /\ UNCHANGED <<medium, todo, job, wrote>>

\* The table is read, one entry is filled in, the table is written back.
\* Entries are not compared with each other.
Create(d, slot, start, count) ==
  /\ todo = <<>>
  /\ Detected(d)
  /\ slot <= 3
  /\ mbr' = [mbr EXCEPT ![d].slots[slot] = [type |-> 6, start |-> start, count |-> count]]
  /\ UNCHANGED <<medium, todo, job, wrote>>

-----------------------------------------------------------------------------
(* mkfs *)

\* str_partid on the name "d<drive>s<slot>".  The loop that should read the
\* slot starts again at the letter s, finds no digit, and atoi("") is 0.
str_partid(name) == [drive |-> name.drive, partition |-> 0]

\* The sectors a format writes, from the start of the partition, in order.
Fat16Writes == << <<0, "boot">> >>

\* Fault: both sectors are written one too far.
EosfsWrites_OneOff == << <<2, "superblock">>, <<3, "group">> >>

EosfsWrites == << <<1, "superblock">>, <<2, "group">> >>

\* n sectors from the first on.
Span(first, n, what) == [k \in 1 .. n |-> <<first + k - 1, what>>]

Ext2Writes(count) ==
  LET inodes    == 8 * (((count * 512) \div 8192 + 7) \div 8)
      table     == ((IF inodes < 8192 THEN inodes ELSE 8192) * 128 + 1023) \div 1024
      metadata  == 5 + table
      \* the table is written once at least
      tableSize == 2 * (IF table > 1 THEN table ELSE 1)
  IN Span(4, 2, "group") \o Span(6, 2, "block bitmap") \o Span(8, 2, "inode bitmap")
       \o Span(2 * metadata, tableSize, "inodes")
       \o Span(2 * metadata, 2, "root")
       \o Span(2, 2, "superblock")

Writes(fs, count) == IF fs = "fat16" THEN Fat16Writes
                     ELSE IF fs = "eosfs" THEN EosfsWrites
                     ELSE Ext2Writes(count)

\* The shell finds the drive and its table (shell.h 157-188); then
\* format_partition_mbr reads the entry and refuses an empty one.
Mkfs(fs, name) ==
  LET p == str_partid(name)
      e == mbr[p.drive].slots[p.partition]
  IN /\ todo = <<>>
     /\ Detected(p.drive)
     /\ e.count # 0 /\ e.type # 0
     /\ todo' = Writes(fs, e.count)
     /\ job' = [fs |-> fs, name |-> name, entry |-> e]
     /\ wrote' = {}
     /\ UNCHANGED <<mbr, medium>>

\* The next sector; a boot sector written to sector 0 leaves the signature and
\* no entries.
WriteSector ==
  /\ todo # <<>>
  /\ todo' = Tail(todo)
  /\ wrote' = wrote \cup {Head(todo)}
  /\ mbr' = IF job.entry.start + Head(todo)[1] = 0
            THEN [mbr EXCEPT ![job.name.drive] = [signature |-> TRUE, slots |-> NoTable]]
            ELSE mbr
  /\ UNCHANGED <<medium, job>>

\* A drive empties its cache, at a moment of its own.
WriteBack(d) == /\ medium' = [medium EXCEPT ![d] = mbr[d]]
                /\ UNCHANGED <<mbr, todo, job, wrote>>

\* The drives are left with what is on their media.
PowerFails == /\ todo' = <<>>
              /\ mbr' = medium
              /\ UNCHANGED <<medium, job, wrote>>

-----------------------------------------------------------------------------
Names == [drive : Drives, slot : Slots]

Init == /\ mbr = [d \in Drives |-> [signature |-> FALSE, slots |-> NoTable]]
        /\ medium = mbr
        /\ todo = <<>>
        /\ job = NoJob
        /\ wrote = {}

Next == \/ \E d \in Drives : InitMbr(d)
        \/ \E d \in Drives, slot \in Slots, start \in Starts, count \in Counts :
             Create(d, slot, start, count)
        \/ \E fs \in Filesystems, name \in Names : Mkfs(fs, name)
        \/ WriteSector
        \/ \E d \in Drives : WriteBack(d)
        \/ PowerFails

Spec == Init /\ [][Next]_vars

-----------------------------------------------------------------------------
(* Properties *)

Table == [signature : BOOLEAN, slots : [0 .. 3 -> Entry]]

TypeOK == /\ mbr \in [Drives -> Table] /\ medium \in [Drives -> Table]
          /\ \A k \in 1 .. Len(todo) : todo[k][1] \in Nat
          /\ job.fs \in Filesystems \cup {"none"}
          /\ \A w \in wrote : w[1] \in Nat

NoneAtZero == \A d \in Drives, s \in 0 .. 3 :
                mbr[d].slots[s].type # 0 => mbr[d].slots[s].start # 0

\* One table is emptied, and not by a format.
EmptiesTable == /\ todo = <<>>
                /\ \E d \in Drives : /\ mbr' = [mbr EXCEPT ![d] = mbr'[d]]
                                     /\ mbr'[d].slots = NoTable

ChangesOneEntry == \E d \in Drives, s \in 0 .. 3 :
                     mbr' = [mbr EXCEPT ![d].slots[s] = mbr'[d].slots[s]]

\* The drives fall back on their media, and the command in progress is gone.
FallsBack == mbr' = medium /\ todo' = <<>>

\* "so we don't overwrite existing partitions!" (fdisking.c 22): apart from
\* fdisk init, no command changes more than one entry of one drive's table, as
\* long as no partition begins at sector 0.  A power failure may take changes
\* back, of several commands even, but leaves whole tables.
KeepsOtherPartitions ==
  [][NoneAtZero => EmptiesTable \/ ChangesOneEntry \/ FallsBack]_vars

\* A partition is only ever found behind a signature, formats included, and in
\* whatever state a power failure leaves the disk.
TableBehindSignature ==
  \A d \in Drives : /\ mbr[d].slots # NoTable => mbr[d].signature
                    /\ medium[d].slots # NoTable => medium[d].signature

\* mkfs stays inside the partition it formats, if that has the sectors the
\* smallest file system of its kind needs: 1, 3 and 12.
Room(fs) == IF fs = "fat16" THEN 1 ELSE IF fs = "eosfs" THEN 3 ELSE 12

FormatStaysInside ==
  job.fs # "none" /\ job.entry.count >= Room(job.fs) =>
    \A w \in wrote : w[1] < job.entry.count
=============================================================================
