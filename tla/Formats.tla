------------------------------ MODULE Formats -------------------------------
(***************************************************************************)
(* What format_partition_fat16 and format_partition_ext2 write into the    *)
(* boot record, the superblock, the group descriptor and the block bitmap  *)
(* of a partition of `count` sectors.  Names are those of the structures.  *)
(* The sums are the code's 32-bit ones without their wrap: count * 512 of  *)
(* ext2 stays below 2^32 for less than 2^23 sectors.                       *)
(***************************************************************************)
EXTENDS Integers, FiniteSets

\* A 16-bit field is kept modulo this.
Word == 256 * 256

Smaller(a, b) == IF a < b THEN a ELSE b

RoundedUp(n, unit) == (n + unit - 1) \div unit

-----------------------------------------------------------------------------
(* fat16 *)

\* Fault: a FAT entry is taken for one byte.
sectors_per_fat_Bytes(count) == RoundedUp((count - 33) \div 4, 512)

\* Two words an entry and 256 of them a sector: twice what is needed.  Below 33
\* sectors the difference wraps, and what is left in 16 bits is 0.
sectors_per_fat(count) ==
  IF count < 33 THEN 0 ELSE RoundedUp(2 * ((count - 33) \div 4), 256) % Word

fat16_bpb(count) == [sectors_per_cluster |-> 4,
                     reserved_sectors    |-> 1,
                     num_fats            |-> 2,
                     root_dir_entries    |-> 512,
                     sectors_per_fat     |-> sectors_per_fat(count),
                     total_sectors_short |-> count % Word]

-----------------------------------------------------------------------------
(* ext2 *)

inodes_count(count) == 8 * RoundedUp((count * 512) \div 8192, 8)

inodes_per_group(count) == Smaller(8192, inodes_count(count))

\* 128 bytes an inode, in blocks of 1024.
inode_table_size(count) == RoundedUp(inodes_per_group(count) * 128, 1024)

\* Fault: the block of the root directory is left out.
metadata_NoRoot(count) == 4 + inode_table_size(count)

metadata(count) == 5 + inode_table_size(count)

\* Without inodes (below 16 sectors) free_inodes is the -1 of 32 bits.
ext_sb(count) == [inodes_count     |-> inodes_count(count),
                  blocks_count     |-> count \div 2,
                  blocks_per_group |-> 8192,
                  free_blocks      |-> count \div 2 - metadata(count),
                  free_inodes      |-> inodes_count(count) - 1,
                  first_data_block |-> 1,
                  inodes_per_group |-> inodes_per_group(count)]

\* bits, inode_bits: the two bitmaps, as the sets of bits that are 1.
ext2_bgd(count) == [block_bitmap      |-> 3,
                    inode_bitmap      |-> 4,
                    inode_table       |-> 5,
                    free_blocks_count |-> (8192 - metadata(count)) % Word,
                    free_inodes_count |-> (inodes_per_group(count) - 10) % Word,
                    bits              |-> 0 .. metadata(count) - 1,
                    inode_bits        |-> 0 .. 9]

\* The root directory, from which the block pointer of its inode is filled in.
root_dir_block(count) == metadata(count)
=============================================================================
