----------------------------- MODULE Arithmetic -----------------------------
(***************************************************************************)
(* The sums that the kernel does without asking anybody: the dates of      *)
(* Calendar, day after day; the descriptions of Formats, for every size of *)
(* a partition that is asked for; and the sectors that Fat16 finds, for    *)
(* every volume and every part of a file asked for.                        *)
(***************************************************************************)
EXTENDS Calendar, Formats, Fat16

CONSTANTS
  Counts,   \* sizes of partitions, in sectors
  Volumes,  \* fat16 volumes: [bpb, dir, first, fat] and the files as chains
  Skips, Reads  \* what is skipped and read of a file, in words

ASSUME ArithmeticAssumption == Counts \subseteq 1 .. 128 * Word - 1

BootRecord == [sectors_per_cluster : Nat \ {0}, reserved_sectors : Nat, num_fats : Nat,
               sectors_per_fat : Nat, root_dir_entries : Nat]

\* The file of entry e has clusters, and the table leads from each to the next and
\* from the last one to an end.  (An empty file has first cluster 0, which the code
\* takes for any other.)
Chained(v, e) ==
  LET chain == v.chain[e]
  IN /\ chain \in Seq(2 .. EndOfChain - 1) /\ chain # <<>>
     /\ v.first[e] = chain[1]
     /\ \A i \in 1 .. Len(chain) - 1 : v.fat[chain[i]] = chain[i + 1]
     /\ v.fat[chain[Len(chain)]] \in Nat /\ v.fat[chain[Len(chain)]] >= EndOfChain

ASSUME VolumesAssumption ==
  /\ Skips \subseteq Nat /\ Reads \subseteq Nat
  /\ \A v \in Volumes :
       /\ v.bpb \in BootRecord
       /\ \A e \in Listed(v) : e % PerDirSector = 0 => Chained(v, e)

VARIABLES
  count,  \* the partition that is formatted, 0 for none
  volume  \* the volume that is read, as a set of one or none

ArithmeticInit == Init /\ count = 0 /\ volume = {}

Day == NextDay /\ count = 0 /\ volume = {} /\ UNCHANGED <<count, volume>>

Format == /\ n = 0 /\ count = 0 /\ volume = {}
          /\ count' \in Counts
          /\ UNCHANGED <<vars, volume>>

Mount == /\ n = 0 /\ count = 0 /\ volume = {}
         /\ \E v \in Volumes : volume' = {v}
         /\ UNCHANGED <<vars, count>>

ArithmeticNext == Day \/ Format \/ Mount

ArithmeticSpec == ArithmeticInit /\ [][ArithmeticNext]_<<vars, count, volume>>

-----------------------------------------------------------------------------
(* Properties *)

\* The code's dates are the calendar's, in both directions (time.c 37-119).
DatesAgree == DateOfDays /\ DaysOfDate

\* From 37 sectors on, where fat16 has its room, the boot record describes a
\* file system that the partition can hold: the tables and the root directory
\* lie inside it, and the tables have an entry for every cluster and for the two
\* that are not clusters.  Below 32 MB the total is right (fat16.c 34-39).
FatDescribesPartition ==
  count >= 37 =>
    LET bpb      == fat16_bpb(count)
        data     == bpb.reserved_sectors + bpb.num_fats * bpb.sectors_per_fat + bpb.root_dir_entries \div 16
        clusters == (count - data) \div bpb.sectors_per_cluster
    IN /\ data <= count
       /\ clusters + 2 <= 256 * bpb.sectors_per_fat
       /\ count < Word => bpb.total_sectors_short = count

\* What superblock and descriptor of ext2 speak of, in blocks, and what the
\* block bitmap marks.
InodeTable ==
  LET first == ext2_bgd(count).inode_table
  IN first .. (first + RoundedUp(ext_sb(count).inodes_per_group, 8)) - 1

Fixed == {ext_sb(count).first_data_block, ext_sb(count).first_data_block + 1,
          ext2_bgd(count).block_bitmap, ext2_bgd(count).inode_bitmap}

Marked == {ext_sb(count).first_data_block + bit : bit \in ext2_bgd(count).bits}

\* From 12 sectors on, the block bitmap of ext2 marks what the superblock and
\* the group descriptor speak of and nothing else: superblock, descriptor, both
\* bitmaps, the inode table where the descriptor has it, and the root directory,
\* which do not overlap and lie inside the partition.  The free counts follow
\* each a rule of its own.  The superblock's free_blocks are the blocks of the
\* partition that are not marked, block 0 before the first group among them; the
\* descriptor's are all bits of the bitmap that are 0, blocks past the end of the
\* partition included, and so the two agree for partitions of 8192 blocks only.
\* The descriptor's free_inodes are the inodes that are not marked, if the ten
\* that are exist; the superblock counts nine more (ext2.c 11-41, 47-65, 76).
Ext2DescribesPartition ==
  count >= 12 =>
    LET sb  == ext_sb(count)
        bgd == ext2_bgd(count)
    IN /\ Marked = Fixed \cup InodeTable \cup {root_dir_block(count)}
       /\ Cardinality(Marked) = 4 + Cardinality(InodeTable) + 1
       /\ \A block \in Marked : block < sb.blocks_count
       /\ sb.free_blocks = Cardinality((0 .. sb.blocks_count - 1) \ Marked)
       /\ bgd.free_blocks_count = Cardinality((0 .. sb.blocks_per_group - 1) \ bgd.bits)
       /\ bgd.free_blocks_count = sb.free_blocks <=> sb.blocks_count = 8192
       /\ bgd.inode_bits \subseteq 0 .. sb.inodes_per_group - 1 =>
            /\ bgd.free_inodes_count = Cardinality((0 .. sb.inodes_per_group - 1) \ bgd.inode_bits)
            /\ sb.inodes_per_group = sb.inodes_count => sb.free_inodes = bgd.free_inodes_count + 9

\* The sectors of a file, by its chain.
FileSectors(v, chain) ==
  LET spc == v.bpb.sectors_per_cluster
  IN [s \in 1 .. spc * Len(chain) |-> SectorOf(v, chain[1 + (s - 1) \div spc], (s - 1) % spc)]

\* A file whose entry comes first in its sector of the root directory is listed,
\* and read_file_fat16 reads the sectors of its chain one after the other, from
\* the one skipped to up to as many as are asked for.  It stores them two sectors
\* apart: the first at the caller's buffer, every other one where a caller would
\* not look for it.  It answers that the file has ended when its last sector is
\* among those read or before them (fat16.c 146-244).
FatFilesRead ==
  \A v \in volume : \A e \in Listed(v) :
    e % PerDirSector = 0 =>
      \A skip \in Skips, reads \in Reads :
        LET file == FileSectors(v, v.chain[e])
            from == skip \div 256
            k    == reads \div 256
            read == read_file_fat16(v, File(v, e), reads, skip)
        IN /\ read.got = SubSeq(file, from + 1, IF from + k < Len(file) THEN from + k ELSE Len(file))
           /\ read.put = [i \in 1 .. Len(read.got) |-> 512 * (i - 1)]
           /\ read.ended <=> from >= Len(file) \/ (k > 0 /\ from + k >= Len(file))
=============================================================================
