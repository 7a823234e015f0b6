-------------------------- MODULE ArithmeticProofs --------------------------
(***************************************************************************)
(* Arithmetic for any set of partition sizes, any volumes and any number   *)
(* of years: what the boot record of fat16 and the metadata of ext2 say of *)
(* a partition fits into it, reading a fat16 file follows its chain, and   *)
(* the dates are those of the calendar.                                    *)
(***************************************************************************)
EXTENDS Arithmetic, FiniteSetTheorems, SequenceTheorems, WellFoundedInduction, TLAPS

\* No partition, or one of a size that is asked for.
SizeOK == count \in {0} \cup Counts

\* All that matters of the size of a 16-bit field.
LEMMA WordSize == Word \in Nat /\ Word > 8192
  BY SMT DEF Word

\* A number that fits is kept.
LEMMA Kept == ASSUME NEW w \in Nat, NEW k \in 0 .. w - 1
              PROVE  k % w = k
  BY SMT

\* The number of sectors of a FAT is the rounded quotient: its 16 bits suffice.
LEMMA SectorsPerFat ==
  ASSUME NEW c \in 37 .. 128 * Word - 1, NEW q \in Int, q = (c - 33) \div 4
  PROVE  /\ sectors_per_fat(c) \in 1 .. Word - 1
         /\ 256 * sectors_per_fat(c) >= 2 * q
         /\ 256 * sectors_per_fat(c) <= 2 * q + 255
<1> DEFINE p == (2 * q + 255) \div 256
<1>1. q \in 1 .. 32 * Word
  BY WordSize, SMT
<1>2. p \in 1 .. Word - 1 /\ 256 * p >= 2 * q /\ 256 * p <= 2 * q + 255
  BY <1>1, WordSize, SMT
<1>3. sectors_per_fat(c) = p % Word
  BY WordSize, SMT DEF sectors_per_fat, RoundedUp
<1>4. p % Word = p
  BY <1>2, WordSize, Kept, SMT
<1>5. QED
  BY <1>2, <1>3, <1>4, SMT

\* A partition of any size from 37 sectors on holds what its boot record says.
LEMMA Fits ==
  ASSUME count \in 0 .. 128 * Word - 1
  PROVE  FatDescribesPartition
<1> SUFFICES ASSUME count >= 37
             PROVE  FatDescribesPartition
  BY SMT DEF FatDescribesPartition
<1> DEFINE spf      == sectors_per_fat(count)
           q        == (count - 33) \div 4
           data     == 1 + 2 * spf + 512 \div 16
           clusters == (count - data) \div 4
<1>1. q \in Int /\ 4 * q <= count - 33 /\ count - 33 < 4 * q + 4
  BY WordSize, SMT
<1>2. spf \in 1 .. Word - 1 /\ 256 * spf >= 2 * q /\ 256 * spf <= 2 * q + 255
  BY <1>1, WordSize, SectorsPerFat, SMT
<1>3. data = 33 + 2 * spf
  BY <1>2, SMT
<1>4. data <= count
  BY <1>1, <1>2, <1>3, SMT
<1>5. clusters + 2 <= 256 * spf
  <2>1. 4 * clusters <= count - data
    BY <1>2, <1>3, SMT
  <2>2. QED
    BY <1>1, <1>2, <1>3, <2>1, SMT
<1>6. count < Word => count % Word = count
  BY WordSize, Kept, SMT
<1>7. QED
  BY <1>4, <1>5, <1>6, SMT DEF FatDescribesPartition, fat16_bpb

\* What format_partition_fat16 writes into the boot record describes a file
\* system that the partition can hold, for every size asked for (fat16.c 34-39).
THEOREM FatFits == ArithmeticSpec => []FatDescribesPartition
<1>1. ArithmeticInit => SizeOK
  BY DEF ArithmeticInit, SizeOK
<1>2. SizeOK /\ [ArithmeticNext]_<<vars, count, volume>> => SizeOK'
  BY DEF ArithmeticNext, Day, Format, Mount, SizeOK
<1>3. SizeOK => FatDescribesPartition
  BY ArithmeticAssumption, WordSize, Fits, SMT DEF SizeOK
<1>4. QED
  BY <1>1, <1>2, <1>3, PTL DEF ArithmeticSpec

-----------------------------------------------------------------------------
\* The inode table has a block for every eight inodes of the group, and leaves
\* room for the rest of the metadata.
LEMMA TableSize ==
  ASSUME NEW c \in Nat, c >= 12
  PROVE  /\ inodes_count(c) \in Nat /\ inodes_per_group(c) \in Nat
         /\ inode_table_size(c) \in Nat
         /\ inode_table_size(c) = RoundedUp(inodes_per_group(c), 8)
         /\ metadata(c) < c \div 2 /\ metadata(c) < 8192
         /\ inodes_per_group(c) <= 8192
<1> DEFINE inodes == inodes_count(c)
           i      == inodes_per_group(c)
<1>1. (c * 512) \div 8192 = c \div 16
  BY SMT
<1>2. PICK k \in Nat : /\ inodes = 8 * k
                       /\ k = (c \div 16 + 7) \div 8
  BY <1>1, SMT DEF inodes_count, RoundedUp
<1>3. i \in Nat /\ i <= inodes /\ i <= 8192
  BY <1>2, SMT DEF inodes_per_group, Smaller
<1>4. inode_table_size(c) = (i + 7) \div 8 /\ RoundedUp(i, 8) = (i + 7) \div 8
  BY <1>3, SMT DEF inode_table_size, RoundedUp
<1>5. inode_table_size(c) \in 0 .. k /\ inode_table_size(c) <= 1024
  BY <1>2, <1>3, <1>4, SMT
<1>6. 5 + k < c \div 2
  BY <1>2, SMT
<1>7. QED
  BY <1>2, <1>3, <1>4, <1>5, <1>6, SMT DEF metadata

\* The size of an interval that is not empty, or is so by one.
LEMMA Interval ==
  ASSUME NEW a \in Int, NEW b \in Int, b >= a - 1
  PROVE  IsFiniteSet(a .. b) /\ Cardinality(a .. b) = (b - a) + 1
<1>1. IsFiniteSet(a .. b) /\ Cardinality(a .. b) = IF a > b THEN 0 ELSE (b - a) + 1
  BY FS_Interval
<1>2. QED
  BY <1>1, SMT

\* What is left of an interval without a part at its beginning.
LEMMA Rest ==
  ASSUME NEW k \in Nat, NEW all \in Nat, k <= all
  PROVE  Cardinality((0 .. all - 1) \ (0 .. k - 1)) = all - k
<1>1. (0 .. all - 1) \ (0 .. k - 1) = k .. all - 1
  BY SMT
<1>2. /\ k \in Int /\ all - 1 \in Int /\ all - 1 >= k - 1
      /\ ((all - 1) - k) + 1 = all - k
  BY SMT
<1>3. Cardinality(k .. all - 1) = ((all - 1) - k) + 1
  BY <1>2, Interval
<1>4. QED
  BY <1>1, <1>2, <1>3

\* The counts of free inodes: without the first ten, and without the first.
LEMMA FreeInodes ==
  ASSUME NEW c \in Nat, c >= 12
  PROVE  LET sb  == ext_sb(c)
             bgd == ext2_bgd(c)
         IN bgd.inode_bits \subseteq 0 .. sb.inodes_per_group - 1 =>
              /\ bgd.free_inodes_count = Cardinality((0 .. sb.inodes_per_group - 1) \ bgd.inode_bits)
              /\ sb.inodes_per_group = sb.inodes_count => sb.free_inodes = bgd.free_inodes_count + 9
<1> DEFINE i == inodes_per_group(c)
<1>1. i \in Nat /\ i <= 8192 /\ inodes_count(c) \in Nat
  BY TableSize
<1>2. /\ ext_sb(c).inodes_per_group = i /\ ext_sb(c).inodes_count = inodes_count(c)
      /\ ext_sb(c).free_inodes = inodes_count(c) - 1
      /\ ext2_bgd(c).inode_bits = 0 .. 9
      /\ ext2_bgd(c).free_inodes_count = (i - 10) % Word
  BY DEF ext_sb, ext2_bgd
<1> HIDE DEF i
<1>3. ASSUME 0 .. 9 \subseteq 0 .. i - 1
      PROVE  /\ (i - 10) % Word = Cardinality((0 .. i - 1) \ (0 .. 9))
             /\ i = inodes_count(c) => inodes_count(c) - 1 = ((i - 10) % Word) + 9
  <2>1. 9 \in 0 .. i - 1
    BY <1>3, SMT
  <2>2. 10 <= i /\ i - 10 \in 0 .. Word - 1
    BY <1>1, <2>1, WordSize, SMT
  <2>3. (i - 10) % Word = i - 10
    BY <2>2, WordSize, Kept
  <2>4. Cardinality((0 .. i - 1) \ (0 .. 10 - 1)) = i - 10
    <3>1. PICK ten \in Nat : ten = 10
      BY SMT
    <3>2. ten <= i
      BY <2>2, <3>1, SMT
    <3>3. Cardinality((0 .. i - 1) \ (0 .. ten - 1)) = i - ten
      BY <1>1, <3>2, Rest
    <3>4. QED
      BY <3>1, <3>3, SMT
  <2>5. 10 - 1 = 9
    BY SMT
  <2>6. i - 10 + 9 = i - 1
    BY <1>1, SMT
  <2>7. QED
    BY <2>3, <2>4, <2>5, <2>6
<1>4. QED
  BY <1>2, <1>3

\* The blocks marked are those described, for every size.
LEMMA Ext2Fits ==
  ASSUME count \in Nat
  PROVE  Ext2DescribesPartition
<1> SUFFICES ASSUME count >= 12
             PROVE  Ext2DescribesPartition
  BY DEF Ext2DescribesPartition
<1> DEFINE sb     == ext_sb(count)
           bgd    == ext2_bgd(count)
           size   == inode_table_size(count)
           m      == metadata(count)
           blocks == count \div 2
           last   == 4 + size
<1>1. /\ size \in Nat /\ size = RoundedUp(inodes_per_group(count), 8)
      /\ m = 5 + size /\ m < blocks /\ blocks \in Nat /\ m < 8192
  <2>1. blocks \in Nat
    BY SMT
  <2>2. QED
    BY <2>1, TableSize DEF metadata
<1>2. /\ sb.first_data_block = 1 /\ sb.blocks_count = blocks /\ sb.free_blocks = blocks - m
      /\ sb.inodes_per_group = inodes_per_group(count) /\ sb.blocks_per_group = 8192
      /\ bgd.free_blocks_count = (8192 - m) % Word
      /\ bgd.block_bitmap = 3 /\ bgd.inode_bitmap = 4 /\ bgd.inode_table = 5
      /\ bgd.bits = 0 .. m - 1 /\ root_dir_block(count) = m
  BY DEF ext_sb, ext2_bgd, root_dir_block
<1> HIDE DEF sb, bgd, m, size, blocks, last
<1>3. Marked = 1 .. m
  <2>1. Marked = {1 + bit : bit \in 0 .. m - 1}
    BY <1>2 DEF Marked, sb, bgd
  <2>2. QED
    BY <1>1, <2>1, SMT
<1>4. Fixed = {1, 2, 3, 4}
  <2>1. Fixed = {1, 1 + 1, 3, 4} /\ 1 + 1 = 2
    BY <1>2, SMT DEF Fixed, sb, bgd
  <2>2. QED
    BY <2>1
<1>5. InodeTable = 5 .. last
  <2>1. InodeTable = 5 .. (5 + size) - 1 /\ (5 + size) - 1 = last
    BY <1>1, <1>2, SMT DEF InodeTable, sb, bgd, last
  <2>2. QED
    BY <2>1
<1>6. /\ IsFiniteSet(Marked) /\ Cardinality(Marked) = m
      /\ Cardinality(InodeTable) = size
  <2>1. /\ 1 \in Int /\ m \in Int /\ m >= 1 - 1 /\ (m - 1) + 1 = m
        /\ 5 \in Int /\ last \in Int /\ last >= 5 - 1 /\ (last - 5) + 1 = size
    BY <1>1, SMT DEF last
  <2>2. IsFiniteSet(1 .. m) /\ Cardinality(1 .. m) = (m - 1) + 1
    BY <2>1, Interval
  <2>3. Cardinality(5 .. last) = (last - 5) + 1
    BY <2>1, Interval
  <2>4. QED
    BY <1>3, <1>5, <2>1, <2>2, <2>3
<1>7. \A block \in Marked : block < blocks
  BY <1>1, <1>3, SMT
<1>8. Cardinality((0 .. blocks - 1) \ Marked) = blocks - m
  <2> DEFINE all == 0 .. blocks - 1
  <2>1. IsFiniteSet(all) /\ Cardinality(all) = blocks
    <3>1. /\ 0 \in Int /\ blocks - 1 \in Int /\ blocks - 1 >= 0 - 1
          /\ ((blocks - 1) - 0) + 1 = blocks
      BY <1>1, SMT
    <3>2. IsFiniteSet(0 .. blocks - 1) /\ Cardinality(0 .. blocks - 1) = ((blocks - 1) - 0) + 1
      BY <3>1, Interval
    <3>3. QED
      BY <3>1, <3>2
  <2>2. all \cap Marked = Marked
    BY <1>1, <1>3, <1>7, SMT
  <2>3. Cardinality(all \ Marked) = Cardinality(all) - Cardinality(all \cap Marked)
    BY <1>6, <2>1, FS_Difference
  <2>4. QED
    BY <1>6, <2>1, <2>2, <2>3
<1>9. Marked = Fixed \cup InodeTable \cup {m}
  BY <1>1, <1>3, <1>4, <1>5, SMT DEF last
<1>10. Cardinality(Marked) = 4 + Cardinality(InodeTable) + 1
  BY <1>1, <1>6, SMT
<1>11. bgd.free_blocks_count = 8192 - m
  <2>1. m \in Nat /\ 8192 - m \in 0 .. Word - 1
    BY <1>1, WordSize, SMT
  <2>2. (8192 - m) % Word = 8192 - m
    BY <2>1, WordSize, Kept
  <2>3. QED
    BY <1>2, <2>2
<1>12. bgd.free_blocks_count = Cardinality((0 .. sb.blocks_per_group - 1) \ bgd.bits)
  <2>1. PICK all \in Nat : all = 8192
    BY SMT
  <2>2. m \in Nat /\ m <= all
    BY <1>1, <2>1, SMT
  <2>3. Cardinality((0 .. all - 1) \ (0 .. m - 1)) = all - m
    BY <2>2, Rest
  <2>4. QED
    BY <1>2, <1>11, <2>1, <2>3, SMT
<1>13. bgd.free_blocks_count = sb.free_blocks <=> sb.blocks_count = 8192
  BY <1>1, <1>2, <1>11, SMT
<1>14. bgd.inode_bits \subseteq 0 .. sb.inodes_per_group - 1 =>
         /\ bgd.free_inodes_count = Cardinality((0 .. sb.inodes_per_group - 1) \ bgd.inode_bits)
         /\ sb.inodes_per_group = sb.inodes_count => sb.free_inodes = bgd.free_inodes_count + 9
  BY FreeInodes DEF sb, bgd
<1>15. /\ Marked = Fixed \cup InodeTable \cup {root_dir_block(count)}
       /\ \A block \in Marked : block < sb.blocks_count
       /\ sb.free_blocks = Cardinality((0 .. sb.blocks_count - 1) \ Marked)
  BY <1>2, <1>7, <1>8, <1>9
<1>16. QED
  BY <1>10, <1>12, <1>13, <1>14, <1>15 DEF Ext2DescribesPartition, sb, bgd

\* What format_partition_ext2 writes into superblock, descriptor and bitmap
\* about blocks agrees, and fits into the partition, and their free counts follow the
\* rules stated, for every size asked for (ext2.c 11-65).
THEOREM Ext2Agrees == ArithmeticSpec => []Ext2DescribesPartition
<1>1. ArithmeticInit => SizeOK
  BY DEF ArithmeticInit, SizeOK
<1>2. SizeOK /\ [ArithmeticNext]_<<vars, count, volume>> => SizeOK'
  BY DEF ArithmeticNext, Day, Format, Mount, SizeOK
<1>3. SizeOK => count \in Nat
  BY ArithmeticAssumption, WordSize, SMT DEF SizeOK
<1>4. SizeOK => Ext2DescribesPartition
  BY <1>3, Ext2Fits
<1>5. QED
  BY <1>1, <1>2, <1>4, PTL DEF ArithmeticSpec

-----------------------------------------------------------------------------
(* Numbers *)

\* A set of numbers has a least one.
LEMMA LeastOf ==
  ASSUME NEW S \in SUBSET Nat, S # {}
  PROVE  \E m \in S : \A k \in S : m <= k
<1> DEFINE Less == {p \in Nat \X Nat : p[1] < p[2]}
<1>1. IsWellFoundedOn(Less, Nat)
  <2>1. OpToRel(<, Nat) = Less
    BY DEF OpToRel
  <2>2. QED
    BY <2>1, NatLessThanWellFounded
<1> HIDE DEF Less
<1>2. \E x \in S : \A y \in S : ~ (<<y, x>> \in Less)
  BY <1>1, WFMin, Zenon
<1>3. \A x, y \in Nat : <<y, x>> \in Less <=> y < x
  BY DEF Less
<1>4. PICK x \in S : \A y \in S : ~ (<<y, x>> \in Less)
  BY <1>2
<1>5. \A y \in S : x <= y
  <2> TAKE y \in S
  <2>1. x \in Nat /\ y \in Nat /\ ~ (<<y, x>> \in Less)
    BY <1>4
  <2>2. ~ y < x
    BY <1>3, <2>1
  <2>3. QED
    BY <2>1, <2>2
<1>6. QED
  BY <1>5

\* A set of numbers from 0 to top that has 0 and with each number the next is all
\* of them: induction, as far as it is needed here.
LEMMA UpTo ==
  ASSUME NEW top \in Nat, NEW S, 0 \in S, \A k \in 0 .. top - 1 : k \in S => k + 1 \in S
  PROVE  0 .. top \subseteq S
<1> DEFINE Out == {k \in 0 .. top : k \notin S}
<1>1. SUFFICES ASSUME Out # {} PROVE FALSE
  OBVIOUS
<1>2. Out \in SUBSET Nat
  OBVIOUS
<1>3. PICK m \in Out : \A k \in Out : m <= k
  BY <1>1, <1>2, LeastOf
<1>4. m \in 0 .. top /\ m \notin S /\ m # 0
  BY <1>3
<1>5. m - 1 \in 0 .. top - 1 /\ m - 1 \notin Out
  BY <1>3, <1>4
<1>6. (m - 1) + 1 \in S
  BY <1>4, <1>5
<1>7. QED
  BY <1>4, <1>6

\* Quotient and remainder, and that there is only one of each.
LEMMA Quotient ==
  ASSUME NEW x \in Nat, NEW s \in Nat \ {0}
  PROVE  /\ x \div s \in Nat /\ x % s \in 0 .. s - 1 /\ x = s * (x \div s) + (x % s)
<1>1. x % s \in 0 .. s - 1
  BY SMT
<1>2. x = s * (x \div s) + (x % s)
  BY SMT
<1>3. x \div s \in Int
  BY SMT
<1>4. x \div s \in Nat
  BY SMT
<1>5. QED
  BY <1>1, <1>2, <1>4

LEMMA OneQuotient ==
  ASSUME NEW s \in Nat \ {0}, NEW b \in Nat, NEW r \in 0 .. s - 1
  PROVE  (s * b + r) \div s = b /\ (s * b + r) % s = r
<1> DEFINE x == s * b + r
           q == x \div s
           t == x % s
<1>1. x \in Nat
  BY SMT
<1>2. q \in Nat /\ t \in 0 .. s - 1 /\ x = s * q + t
  BY <1>1, Quotient
<1> HIDE DEF q, t
<1>3. s * q + t = s * b + r
  BY <1>2
<1>4. q = b
  <2>1. CASE q < b
    <3>1. b - q \in Nat /\ b - q >= 1
      BY <1>2, <2>1
    <3>2. s * (b - q) >= s
      BY <3>1, SMT
    <3>3. s * (b - q) = t - r
      BY <1>2, <1>3, SMT
    <3>4. QED
      BY <1>2, <3>2, <3>3
  <2>2. CASE b < q
    <3>1. q - b \in Nat /\ q - b >= 1
      BY <1>2, <2>2
    <3>2. s * (q - b) >= s
      BY <3>1, SMT
    <3>3. s * (q - b) = r - t
      BY <1>2, <1>3, SMT
    <3>4. QED
      BY <1>2, <3>2, <3>3
  <2>3. QED
    BY <1>2, <2>1, <2>2
<1>5. t = r
  BY <1>2, <1>3, <1>4
<1>6. QED
  BY <1>4, <1>5 DEF q, t

-----------------------------------------------------------------------------
(* fat16 *)

LEMMA EndIsNumber == EndOfChain \in Nat
  BY DEF EndOfChain

\* Following the table from the first cluster leads along the chain.
LEMMA SkippedChain ==
  ASSUME NEW v, NEW chain \in Seq(2 .. EndOfChain - 1), chain # <<>>,
         \A k \in 1 .. Len(chain) - 1 : v.fat[chain[k]] = chain[k + 1],
         v.fat[chain[Len(chain)]] \in Nat, v.fat[chain[Len(chain)]] >= EndOfChain,
         NEW i \in Nat
  PROVE  Skipped(v, chain[1], i) = IF i < Len(chain) THEN chain[i + 1] ELSE v.fat[chain[Len(chain)]]
<1> DEFINE c     == chain[1]
           l     == Len(chain)
           end   == v.fat[chain[l]]
           F(g)  == [k \in 0 .. i |->
                       IF k = 0 THEN c
                       ELSE LET before == g[k - 1]
                            IN IF before >= EndOfChain THEN before ELSE get_next_cluster_fat(v, before)]
           at    == CHOOSE g : g = F(g)
           along == [k \in 0 .. i |-> IF k < l THEN chain[k + 1] ELSE end]
<1>1. Skipped(v, c, i) = at[i]
  BY DEF Skipped
<1>2. EndOfChain \in Nat
  BY DEF EndOfChain
<1>3. l \in Nat /\ l >= 1 /\ (\A k \in 1 .. l : chain[k] \in Nat /\ chain[k] < EndOfChain)
  BY <1>2
<1>4. end \in Nat /\ end >= EndOfChain /\ \A k \in 1 .. l - 1 : v.fat[chain[k]] = chain[k + 1]
  OBVIOUS
<1>5. c = chain[1]
  OBVIOUS
<1> HIDE DEF c, l, end
<1>6. \A k \in 0 .. i : k # 0 =>
        along[k] = IF along[k - 1] >= EndOfChain THEN along[k - 1] ELSE get_next_cluster_fat(v, along[k - 1])
  <2> TAKE k \in 0 .. i
  <2> HAVE k # 0
  <2>1. k - 1 \in 0 .. i /\ k - 1 + 1 = k
    OBVIOUS
  <2>2. CASE k < l
    <3>1. along[k - 1] = chain[k] /\ along[k] = chain[k + 1] /\ k \in 1 .. l - 1
      BY <1>3, <2>1, <2>2
    <3>2. ~ chain[k] >= EndOfChain /\ v.fat[chain[k]] = chain[k + 1]
      BY <1>2, <1>3, <1>4, <2>2, <3>1
    <3>3. QED
      BY <3>1, <3>2 DEF get_next_cluster_fat
  <2>3. CASE k = l
    <3>1. along[k - 1] = chain[l] /\ along[k] = end /\ ~ chain[l] >= EndOfChain
      BY <1>2, <1>3, <2>1, <2>3
    <3>2. QED
      BY <3>1 DEF get_next_cluster_fat, end
  <2>4. CASE k > l
    <3>1. along[k - 1] = end /\ along[k] = end
      BY <1>3, <2>1, <2>4
    <3>2. QED
      BY <1>4, <3>1
  <2>5. QED
    BY <1>3, <2>2, <2>3, <2>4
<1>7. along[0] = c
  BY <1>3, <1>5
<1>8. along = F(along)
  <2> DEFINE G == F(along)
  <2>1. \A k \in 0 .. i : along[k] = G[k]
    BY <1>6, <1>7
  <2>2. G = [k \in 0 .. i |-> G[k]] /\ along = [k \in 0 .. i |-> along[k]]
    OBVIOUS
  <2> HIDE DEF G, along
  <2>3. along = G
    BY <2>1, <2>2
  <2>4. QED
    BY <2>3 DEF G
<1>9. at = F(at)
  <2> HIDE DEF F, along
  <2>1. QED
    BY <1>8
<1>10. \A k \in 0 .. i : at[k] = IF k = 0 THEN c ELSE IF at[k - 1] >= EndOfChain THEN at[k - 1]
                                              ELSE get_next_cluster_fat(v, at[k - 1])
  <2> HIDE DEF at
  <2>1. QED
    BY <1>9
<1>11. at[i] = along[i]
  <2> DEFINE S == {k \in 0 .. i : at[k] = along[k]}
  <2> HIDE DEF at, along
  <2>1. 0 \in S
    BY <1>7, <1>10
  <2>2. \A k \in 0 .. i - 1 : k \in S => k + 1 \in S
    <3> TAKE k \in 0 .. i - 1
    <3> HAVE k \in S
    <3>1. k + 1 \in 0 .. i /\ (k + 1) - 1 = k /\ k + 1 # 0
      OBVIOUS
    <3>2. at[k + 1] = along[k + 1]
      BY <1>6, <1>10, <3>1
    <3>3. QED
      BY <3>1, <3>2
  <2> HIDE DEF S
  <2>3. 0 .. i \subseteq S
    BY <2>1, <2>2, UpTo
  <2>4. i \in S
    BY <2>3
  <2>5. QED
    BY <2>4 DEF S
<1>12. along[i] = IF i < l THEN chain[i + 1] ELSE end
  OBVIOUS
<1>13. QED
  BY <1>1, <1>11, <1>12 DEF c, l, end

\* Where a sector of the chain is: cluster and place, and those of the next one.
LEMMA Places ==
  ASSUME NEW s \in Nat \ {0}, NEW l \in Nat, NEW j \in Nat, j < s * l
  PROVE  /\ j \div s \in 0 .. l - 1 /\ j % s \in 0 .. s - 1
         /\ (j % s) + 1 < s => /\ j + 1 < s * l
                               /\ (j + 1) \div s = j \div s
                               /\ (j + 1) % s = (j % s) + 1
         /\ ~ (j % s) + 1 < s => /\ j + 1 < s * l <=> (j \div s) + 1 < l
                                 /\ (j + 1) \div s = (j \div s) + 1
                                 /\ (j + 1) % s = 0
<1> DEFINE b == j \div s
           r == j % s
<1>1. b \in Nat /\ r \in 0 .. s - 1 /\ j = s * b + r
  BY Quotient
<1> HIDE DEF b, r
<1>2. b < l
  <2>1. CASE b >= l
    <3>1. s * b >= s * l
      BY <1>1, <2>1, SMT
    <3>2. s * b \in Nat /\ s * l \in Nat
      BY <1>1, SMT
    <3>3. QED
      BY <1>1, <3>1, <3>2
  <2>2. QED
    BY <1>1, <2>1
<1>3. ASSUME r + 1 < s
      PROVE  j + 1 < s * l /\ (j + 1) \div s = b /\ (j + 1) % s = r + 1
  <2>1. j + 1 = s * b + (r + 1) /\ r + 1 \in 0 .. s - 1
    BY <1>1, <1>3, SMT
  <2>2. (j + 1) \div s = b /\ (j + 1) % s = r + 1
    BY <1>1, <2>1, OneQuotient
  <2>3. s * (b + 1) <= s * l
    BY <1>1, <1>2, SMT
  <2>4. s * (b + 1) = s * b + s /\ s * b \in Nat /\ s * l \in Nat
    BY <1>1, SMT
  <2>5. j + 1 < s * l
    BY <1>1, <1>3, <2>3, <2>4
  <2>6. QED
    BY <2>2, <2>5
<1>4. ASSUME ~ r + 1 < s
      PROVE  (j + 1 < s * l <=> b + 1 < l) /\ (j + 1) \div s = b + 1 /\ (j + 1) % s = 0
  <2>1. s * (b + 1) = s * b + s /\ s * b \in Nat /\ s * l \in Nat
    BY <1>1, SMT
  <2>2. r + 1 = s
    BY <1>1, <1>4
  <2>3. j + 1 = s * (b + 1) + 0 /\ b + 1 \in Nat /\ 0 \in 0 .. s - 1
    BY <1>1, <2>1, <2>2
  <2>4. (j + 1) \div s = b + 1 /\ (j + 1) % s = 0
    <3>1. (s * (b + 1) + 0) \div s = b + 1 /\ (s * (b + 1) + 0) % s = 0
      BY <2>3, OneQuotient
    <3>2. QED
      BY <2>3, <3>1
  <2>5. ASSUME b + 1 < l PROVE j + 1 < s * l
    <3>1. s * (b + 2) <= s * l
      BY <1>1, <2>5, SMT
    <3>2. s * (b + 2) = s * (b + 1) + s
      BY <1>1, SMT
    <3>3. QED
      BY <1>1, <2>1, <2>3, <3>1, <3>2
  <2>6. ASSUME ~ b + 1 < l PROVE ~ j + 1 < s * l
    <3>1. b + 1 = l
      BY <1>1, <1>2, <2>6
    <3>2. QED
      BY <2>1, <2>3, <3>1
  <2>7. QED
    BY <2>4, <2>5, <2>6
<1>5. b \in 0 .. l - 1
  BY <1>1, <1>2
<1>6. QED
  BY <1>1, <1>3, <1>4, <1>5 DEF b, r

LEMMA Beyond ==
  ASSUME NEW s \in Nat \ {0}, NEW l \in Nat, NEW j \in Nat, ~ j < s * l
  PROVE  ~ j \div s < l
<1> DEFINE b == j \div s
           r == j % s
<1>1. b \in Nat /\ r \in 0 .. s - 1 /\ j = s * b + r
  BY Quotient
<1> HIDE DEF b, r
<1>2. CASE b < l
  <2>1. s * (b + 1) <= s * l
    BY <1>1, <1>2, SMT
  <2>2. s * (b + 1) = s * b + s /\ s * b \in Nat /\ s * l \in Nat
    BY <1>1, SMT
  <2>3. QED
    BY <1>1, <2>1, <2>2
<1>3. QED
  BY <1>2 DEF b

\* A part of a sequence and the element behind it.
LEMMA OneMore ==
  ASSUME NEW T, NEW file \in Seq(T), NEW from \in Nat, NEW last \in Nat, from <= last,
         last < Len(file)
  PROVE  SubSeq(file, from + 1, last + 1) = Append(SubSeq(file, from + 1, last), file[last + 1])
<1> DEFINE a == SubSeq(file, from + 1, last)
<1>1. from + 1 \in 1 .. Len(file) /\ last + 1 \in from + 1 .. Len(file) /\ (last + 1) - 1 = last
  OBVIOUS
<1>2. SubSeq(file, from + 1, last + 1) = a \o <<file[last + 1]>>
  <2>1. SubSeq(file, from + 1, last + 1) = SubSeq(file, from + 1, (last + 1) - 1) \o <<file[last + 1]>>
    BY <1>1, SubSeqRecursiveSecond
  <2>2. QED
    BY <1>1, <2>1
<1>3. a \in Seq(T) /\ file[last + 1] \in T
  BY <1>1, ElementOfSeq
<1> HIDE DEF a
<1>4. Append(a, file[last + 1]) = a \o <<file[last + 1]>>
  BY <1>3, AppendIsConcat
<1>5. QED
  BY <1>2, <1>4 DEF a

LEMMA FileOfChain ==
  ASSUME NEW v, NEW chain \in Seq(2 .. EndOfChain - 1),
         v.bpb \in BootRecord
  PROVE  LET file == FileSectors(v, chain)
             s    == v.bpb.sectors_per_cluster
         IN /\ file \in Seq(Int) /\ Len(file) = s * Len(chain)
            /\ \A j \in 0 .. Len(file) - 1 : file[j + 1] = SectorOf(v, chain[(j \div s) + 1], j % s)
<1> DEFINE s    == v.bpb.sectors_per_cluster
           l    == Len(chain)
           file == FileSectors(v, chain)
           At(i) == SectorOf(v, chain[1 + (i - 1) \div s], (i - 1) % s)
<1>1. s \in Nat \ {0} /\ l \in Nat /\ s * l \in Nat
  <2>1. s \in Nat \ {0} /\ l \in Nat
    BY DEF BootRecord
  <2> HIDE DEF s, l
  <2>2. QED
    BY <2>1, SMT
<1>2. drs_lba(v.bpb) \in Int
  <2> DEFINE b == v.bpb
  <2>1. /\ b.reserved_sectors \in Nat /\ b.num_fats \in Nat /\ b.sectors_per_fat \in Nat
        /\ b.root_dir_entries \in Nat
    BY DEF BootRecord
  <2>2. b.num_fats * b.sectors_per_fat \in Nat /\ (b.root_dir_entries * 32) \div 512 \in Int
    BY <2>1, SMT
  <2>3. QED
    BY <2>1, <2>2 DEF drs_lba, root_dir_lba, root_dir_sectors
<1>3. file = [i \in 1 .. s * l |-> At(i)]
  BY DEF FileSectors
<1>4. \A i \in 1 .. s * l : At(i) \in Int /\ At(i) = SectorOf(v, chain[((i - 1) \div s) + 1], (i - 1) % s)
  <2> SUFFICES ASSUME NEW i \in 1 .. s * l
               PROVE  At(i) \in Int /\ At(i) = SectorOf(v, chain[((i - 1) \div s) + 1], (i - 1) % s)
    OBVIOUS
  <2> DEFINE b == (i - 1) \div s
             r == (i - 1) % s
  <2>1. i - 1 \in Nat /\ i - 1 < s * l
    BY <1>1
  <2>2. b \in 0 .. l - 1 /\ r \in 0 .. s - 1
    BY <1>1, <2>1, Places
  <2> HIDE DEF b, r
  <2>3. chain[b + 1] \in Int /\ 1 + b = b + 1
    <3>1. b + 1 \in 1 .. Len(chain) /\ 1 + b = b + 1
      BY <1>1, <2>2
    <3>2. chain[b + 1] \in 2 .. EndOfChain - 1
      BY <3>1, ElementOfSeq
    <3>3. EndOfChain \in Nat
      BY EndIsNumber
    <3>4. QED
      BY <3>1, <3>2, <3>3
  <2>4. (chain[b + 1] - 2) * s \in Int
    <3> DEFINE c == chain[b + 1]
    <3> HIDE DEF c, s
    <3>1. c \in Int
      BY <2>3 DEF c
    <3>2. QED
      BY <1>1, <3>1, SMT DEF c
  <2>5. SectorOf(v, chain[b + 1], r) \in Int
    BY <1>1, <1>2, <2>2, <2>4 DEF SectorOf
  <2>6. QED
    BY <2>3, <2>5 DEF b, r
<1> HIDE DEF file, At
<1>5. file \in [1 .. s * l -> Int]
  BY <1>3, <1>4
<1>6. file \in Seq(Int) /\ Len(file) = s * l
  <2> HIDE DEF s, l
  <2>1. QED
    BY <1>1, <1>5
<1>7. \A j \in 0 .. Len(file) - 1 : file[j + 1] = SectorOf(v, chain[(j \div s) + 1], j % s)
  <2> SUFFICES ASSUME NEW j \in 0 .. Len(file) - 1
               PROVE  file[j + 1] = SectorOf(v, chain[(j \div s) + 1], j % s)
    OBVIOUS
  <2>1. j + 1 \in 1 .. s * l /\ (j + 1) - 1 = j
    BY <1>1, <1>6
  <2>2. QED
    BY <1>3, <1>4, <2>1
<1>8. QED
  BY <1>6, <1>7 DEF file

\* What a chain is, in numbers.
LEMMA ChainOfFile ==
  ASSUME NEW v, NEW e, Chained(v, e)
  PROVE  LET chain == v.chain[e]
         IN /\ Len(chain) \in Nat /\ Len(chain) >= 1
            /\ \A k \in 1 .. Len(chain) : chain[k] \in Nat /\ ~ chain[k] >= EndOfChain
<1> DEFINE chain == v.chain[e]
<1>1. chain \in Seq(2 .. EndOfChain - 1) /\ chain # <<>>
  BY DEF Chained
<1> HIDE DEF chain
<1>2. Len(chain) \in Nat /\ Len(chain) >= 1
  BY <1>1, EmptySeq
<1>3. ASSUME NEW k \in 1 .. Len(chain)
      PROVE  chain[k] \in Nat /\ ~ chain[k] >= EndOfChain
  <2>1. chain[k] \in 2 .. EndOfChain - 1
    BY <1>1, ElementOfSeq
  <2>2. QED
    BY <2>1, EndIsNumber
<1>4. QED
  BY <1>2, <1>3 DEF chain

\* Where the loop stands behind a sector: at the next one of the cluster, or at the
\* beginning of the next cluster.
Onward(v, got, put, toread, cluster) ==
  IF toread + 1 < v.bpb.sectors_per_cluster
  THEN [got |-> got, put |-> put, toread |-> toread + 1, cluster |-> cluster]
  ELSE [got |-> got, put |-> put, toread |-> 0, cluster |-> v.fat[cluster]]

LEMMA SectorStep ==
  ASSUME NEW v, NEW got, NEW put, NEW toread \in Int, NEW cluster
  PROVE  OneSector(v, [got |-> got, put |-> put, toread |-> toread, cluster |-> cluster])
           = Onward(v, Append(got, SectorOf(v, cluster, toread)), Append(put, StoredAt(Len(got))),
                    toread, cluster)
<1> DEFINE w    == [got |-> got, put |-> put, toread |-> toread, cluster |-> cluster]
           more == Append(got, SectorOf(v, cluster, toread))
           puts == Append(put, StoredAt(Len(got)))
<1>1. w.got = got /\ w.put = put /\ w.toread = toread /\ w.cluster = cluster
  OBVIOUS
<1> HIDE DEF w
<1>2. OneSector(v, w) = IF toread + 1 < v.bpb.sectors_per_cluster
                        THEN [got |-> more, put |-> puts, toread |-> toread + 1, cluster |-> cluster]
                        ELSE [got |-> more, put |-> puts, toread |-> 0, cluster |-> v.fat[cluster]]
  BY <1>1 DEF OneSector, get_next_cluster_fat
<1>3. QED
  BY <1>2 DEF w, Onward

\* The places of sectors stored one after the other, two sectors apart.
Apart(got) == [k \in 1 .. Len(got) |-> 512 * (k - 1)]

\* A sector more is stored behind the others.
LEMMA StoredStep ==
  ASSUME NEW S, NEW got \in Seq(S), NEW sector \in S
  PROVE  Append(Apart(got), StoredAt(Len(got))) = Apart(Append(got, sector))
<1> DEFINE n1   == Len(got)
           puts == Apart(got)
           more == Apart(Append(got, sector))
<1>1. n1 \in Nat /\ Len(Append(got, sector)) = n1 + 1
  BY LenProperties, AppendProperties
<1> HIDE DEF n1
<1>2. puts = [k \in 1 .. n1 |-> 512 * (k - 1)] /\ more = [k \in 1 .. n1 + 1 |-> 512 * (k - 1)]
  BY <1>1 DEF Apart, n1
<1>3. puts \in Seq(Int) /\ Len(puts) = n1
  <2>1. \A k \in 1 .. n1 : 512 * (k - 1) \in Int
    BY <1>1, SMT
  <2>2. puts \in [1 .. n1 -> Int]
    BY <1>2, <2>1
  <2> HIDE DEF puts
  <2>3. QED
    BY <1>1, <2>2, SeqDef, LenProperties
<1>4. more \in Seq(Int) /\ Len(more) = n1 + 1
  <2>1. \A k \in 1 .. n1 + 1 : 512 * (k - 1) \in Int
    BY <1>1, SMT
  <2>2. more \in [1 .. n1 + 1 -> Int]
    BY <1>2, <2>1
  <2> HIDE DEF more
  <2>3. n1 + 1 \in Nat
    BY <1>1
  <2>4. QED
    BY <2>2, <2>3, SeqDef, LenProperties
<1> HIDE DEF puts, more
<1>5. StoredAt(n1) = 512 * n1 /\ StoredAt(n1) \in Int
  BY <1>1, SMT DEF StoredAt
<1> DEFINE put == StoredAt(n1)
           app == Append(puts, put)
<1> HIDE DEF put
<1>6. /\ app \in Seq(Int) /\ Len(app) = n1 + 1
      /\ \A k \in 1 .. n1 : app[k] = puts[k]
      /\ app[n1 + 1] = put
  BY <1>3, <1>5, AppendProperties DEF put
<1>7. \A k \in 1 .. n1 + 1 : app[k] = more[k]
  <2> HIDE DEF app
  <2> TAKE k \in 1 .. n1 + 1
  <2>1. CASE k \in 1 .. n1
    BY <1>2, <1>6, <2>1
  <2>2. CASE k = n1 + 1
    <3>1. more[n1 + 1] = 512 * ((n1 + 1) - 1) /\ 512 * ((n1 + 1) - 1) = 512 * n1
      BY <1>1, <1>2, SMT
    <3>2. QED
      BY <1>5, <1>6, <2>2, <3>1 DEF put
  <2>3. QED
    BY <1>1, <2>1, <2>2
<1> HIDE DEF app
<1>8. app = more
  BY <1>4, <1>6, <1>7, SeqEqual
<1>9. QED
  BY <1>8 DEF app, puts, more, put, n1

\* The loop over the sectors: after i of them, those from the first one on are
\* read, as far as there are any, and it stands at the next one.
LEMMA ReadAlong ==
  ASSUME NEW v, NEW e, Chained(v, e), v.bpb \in BootRecord, e \in Nat, e % PerDirSector = 0,
         NEW reads \in Nat, NEW skip \in Nat
  PROVE  LET file == FileSectors(v, v.chain[e])
             from == skip \div 256
             m    == reads \div 256
             read == read_file_fat16(v, File(v, e), reads, skip)
         IN /\ read.got = SubSeq(file, from + 1, IF from + m < Len(file) THEN from + m ELSE Len(file))
            /\ read.put = Apart(read.got)
            /\ read.ended <=> ~ from + m < Len(file)
<1> DEFINE chain  == v.chain[e]
           s      == v.bpb.sectors_per_cluster
           end    == v.fat[chain[Len(chain)]]
           from   == skip \div 256
           m      == reads \div 256
           l      == Len(chain)
           file   == FileSectors(v, chain)
           N      == Len(file)
           Got(i) == SubSeq(file, from + 1, IF from + i < N THEN from + i ELSE N)
           At(i)  == [got     |-> Got(i),
                      put     |-> Apart(Got(i)),
                      toread  |-> IF from + i < N THEN (from + i) % s ELSE IF from < N THEN 0 ELSE from % s,
                      cluster |-> IF from + i < N THEN chain[((from + i) \div s) + 1] ELSE end]
           Step(w) == IF w.cluster >= EndOfChain THEN w ELSE OneSector(v, w)
           begin   == [got |-> <<>>, put |-> <<>>, toread |-> from - (from \div s) * s,
                       cluster |-> Skipped(v, v.first[EntryRead(v, File(v, e))], from \div s)]
           F(g)   == [i \in 0 .. m |-> IF i = 0 THEN begin
                                       ELSE LET w == g[i - 1]
                                            IN IF w.cluster >= EndOfChain THEN w ELSE OneSector(v, w)]
           walk   == CHOOSE g : g = F(g)
           along  == [i \in 0 .. m |-> At(i)]
<1>1. /\ s \in Nat \ {0} /\ end \in Nat /\ end >= EndOfChain /\ EndOfChain \in Nat
      /\ chain \in Seq(2 .. EndOfChain - 1) /\ chain # <<>>
      /\ \A k \in 1 .. l - 1 : v.fat[chain[k]] = chain[k + 1]
  BY EndIsNumber DEF Chained, BootRecord
<1>2. l \in Nat /\ l >= 1 /\ \A k \in 1 .. l : chain[k] \in Nat /\ ~ chain[k] >= EndOfChain
  BY ChainOfFile
<1>3. /\ file \in Seq(Int) /\ N = s * l /\ N \in Nat
      /\ \A j \in 0 .. N - 1 : file[j + 1] = SectorOf(v, chain[(j \div s) + 1], j % s)
  <2>1. chain \in Seq(2 .. EndOfChain - 1)
    BY <1>1
  <2> HIDE DEF chain
  <2>2. /\ file \in Seq(Int) /\ N = s * l
        /\ \A j \in 0 .. N - 1 : file[j + 1] = SectorOf(v, chain[(j \div s) + 1], j % s)
    BY <2>1, FileOfChain, Zenon
  <2> HIDE DEF file
  <2>3. N \in Nat
    BY <2>2, LenProperties
  <2>4. QED
    BY <2>2, <2>3
<1>4. from \in Nat /\ m \in Nat
  BY SMT
<1>5. read_file_fat16(v, File(v, e), reads, skip)
        = [got |-> walk[m].got, put |-> walk[m].put, ended |-> walk[m].cluster >= EndOfChain]
  BY DEF read_file_fat16
<1>6. v.first[EntryRead(v, File(v, e))] = chain[1]
  <2> DEFINE root == root_dir_lba(v.bpb)
  <2>1. root \in Int
    <3> DEFINE b == v.bpb
    <3>1. b.reserved_sectors \in Nat /\ b.num_fats \in Nat /\ b.sectors_per_fat \in Nat
      BY DEF BootRecord
    <3>2. b.num_fats * b.sectors_per_fat \in Nat
      BY <3>1, SMT
    <3>3. QED
      BY <3>1, <3>2 DEF root_dir_lba
  <2>2. e % 16 = 0
    BY DEF PerDirSector
  <2>3. EntryRead(v, File(v, e)) = 16 * ((root + (e \div 16)) - root) + (2 * 0) \div 32
    BY <2>2 DEF EntryRead, File, PerDirSector
  <2> HIDE DEF root
  <2>4. 16 * ((root + (e \div 16)) - root) + (2 * 0) \div 32 = e
    BY <2>1, <2>2, SMT
  <2>5. QED
    BY <2>3, <2>4 DEF Chained
<1>7. begin = [got |-> <<>>, put |-> <<>>, toread |-> from % s,
               cluster |-> IF from \div s < l THEN chain[(from \div s) + 1] ELSE end]
  <2> HIDE DEF from, s
  <2> DEFINE b == from \div s
             r == from % s
  <2>1. b \in Nat /\ r \in 0 .. s - 1 /\ from = s * b + r
    <3>1. s \in Nat \ {0} /\ from \in Nat
      BY <1>1, <1>4
    <3>2. from \div s \in Nat /\ from % s \in 0 .. s - 1 /\ from = s * (from \div s) + (from % s)
      BY <3>1, Quotient
    <3>3. QED
      BY <3>2
  <2> HIDE DEF b, r
  <2>2. from - b * s = r
    BY <1>1, <1>4, <2>1, SMT
  <2> HIDE DEF chain
  <2>3. Skipped(v, chain[1], b) = IF b < l THEN chain[b + 1] ELSE end
    BY <1>1, <2>1, SkippedChain
  <2> HIDE DEF l, end
  <2>4. QED
    BY <1>6, <2>2, <2>3 DEF b, r
<1>8. ASSUME NEW j \in Nat, j < N
      PROVE  /\ j \div s \in 0 .. l - 1
             /\ chain[(j \div s) + 1] \in Nat /\ ~ chain[(j \div s) + 1] >= EndOfChain
             /\ file[j + 1] = SectorOf(v, chain[(j \div s) + 1], j % s)
  <2> HIDE DEF s, l, N, file, chain
  <2>1. j < s * l
    BY <1>3, <1>8
  <2>2. j \div s \in 0 .. l - 1
    BY <1>1, <1>2, <2>1, Places
  <2>3. j \in 0 .. N - 1
    BY <1>3, <1>8
  <2>4. (j \div s) + 1 \in 1 .. l
    <3> DEFINE b == j \div s
    <3> HIDE DEF b
    <3>1. b \in 0 .. l - 1
      BY <2>2 DEF b
    <3>2. b + 1 \in 1 .. l
      BY <1>2, <3>1
    <3>3. QED
      BY <3>2 DEF b
  <2>5. QED
    BY <1>2, <1>3, <2>2, <2>3, <2>4
<1>9. from < N <=> from \div s < l
  <2> HIDE DEF s, l, N, from
  <2>1. ASSUME from < N PROVE from \div s < l
    <3>1. from \div s \in 0 .. l - 1
      BY <1>4, <1>8, <2>1
    <3> DEFINE b == from \div s
    <3> HIDE DEF b
    <3>2. b \in 0 .. l - 1
      BY <3>1 DEF b
    <3>3. b < l
      BY <1>2, <3>2
    <3>4. QED
      BY <3>3 DEF b
  <2>2. ASSUME ~ from < N PROVE ~ from \div s < l
    <3>1. ~ from < s * l
      BY <1>3, <2>2
    <3>2. QED
      BY <1>1, <1>2, <1>4, <3>1, Beyond
  <2>3. QED
    BY <2>1, <2>2
<1> HIDE DEF chain, s, end, from, m, l, file, N, begin
<1>10. At(0) = begin
  <2>1. from + 0 = from
    BY <1>4
  <2>2. Got(0) = <<>>
    <3> DEFINE to == IF from + 0 < N THEN from + 0 ELSE N
    <3>1. to < from + 1 /\ to \in Int /\ from + 1 \in Int
      BY <1>3, <1>4
    <3> HIDE DEF to
    <3>2. SubSeq(file, from + 1, to) = <<>>
      BY <3>1, SubSeqEmpty
    <3>3. QED
      BY <3>2 DEF to
  <2>3. Apart(<<>>) = <<>>
    <3>1. Len(<<>>) = 0 /\ 1 .. 0 = {}
      OBVIOUS
    <3>2. Apart(<<>>) = [k \in {} |-> 512 * (k - 1)]
      BY <3>1 DEF Apart
    <3>3. QED
      BY <3>2
  <2> HIDE DEF Got
  <2>4. QED
    BY <1>7, <1>9, <2>1, <2>2, <2>3
<1>11. ASSUME NEW i \in Nat PROVE At(i + 1) = Step(At(i))
  <2> DEFINE j == from + i
             w == At(i)
  <2>1. j \in Nat /\ from + (i + 1) = j + 1 /\ from <= j
    BY <1>4
  <2>2. CASE ~ j < N
    <3>1. ~ j + 1 < N
      BY <1>3, <2>1, <2>2
    <3>2. Got(i + 1) = Got(i)
      BY <2>1, <2>2, <3>1
    <3> HIDE DEF Got
    <3>3. At(i + 1) = At(i)
      BY <2>1, <2>2, <3>1, <3>2
    <3>4. At(i).cluster >= EndOfChain
      BY <1>1, <2>2
    <3> HIDE DEF At
    <3>5. QED
      BY <3>3, <3>4
  <2>3. CASE j < N
    <3> DEFINE b == j \div s
               r == j % s
               c == chain[b + 1]
               more == Append(Got(i), SectorOf(v, c, r))
               puts == Append(Apart(Got(i)), StoredAt(Len(Got(i))))
    <3>1. b \in 0 .. l - 1 /\ c \in Nat /\ ~ c >= EndOfChain /\ file[j + 1] = SectorOf(v, c, r)
      BY <1>8, <2>1, <2>3
    <3>2. Got(i + 1) = more
      <4>1. j < Len(file)
        BY <2>3 DEF N
      <4> HIDE DEF j, b, r, c
      <4>2. SubSeq(file, from + 1, j + 1) = Append(SubSeq(file, from + 1, j), file[j + 1])
        BY <1>3, <1>4, <2>1, <4>1, OneMore
      <4>3. Got(i) = SubSeq(file, from + 1, j)
        BY <2>3 DEF j
      <4>4. Got(i + 1) = SubSeq(file, from + 1, j + 1)
        <5>1. (IF from + (i + 1) < N THEN from + (i + 1) ELSE N) = j + 1
          BY <1>3, <2>1, <2>3
        <5>2. QED
          BY <5>1
      <4> HIDE DEF Got
      <4>5. QED
        BY <3>1, <4>2, <4>3, <4>4
    <3>2a. Apart(more) = puts
      <4>1. Got(i) \in Seq(Int)
        <5>1. \A k \in (from + 1) .. j : k \in 1 .. Len(file)
          BY <1>3, <1>4, <2>1, <2>3 DEF N
        <5>2. SubSeq(file, from + 1, j) \in Seq(Int)
          BY <1>3, <1>4, <2>1, <5>1, SubSeqProperties
        <5>3. QED
          BY <2>3, <5>2
      <4>2. SectorOf(v, c, r) \in Int
        <5>1. j + 1 \in 1 .. Len(file)
          BY <1>3, <2>1, <2>3 DEF N
        <5>2. file[j + 1] \in Int
          BY <1>3, <5>1, ElementOfSeq
        <5>3. QED
          BY <3>1, <5>2
      <4> HIDE DEF Got
      <4>3. QED
        BY <4>1, <4>2, StoredStep
    <3>3. w = [got |-> Got(i), put |-> Apart(Got(i)), toread |-> r, cluster |-> c]
      <4> HIDE DEF Got
      <4>1. QED
        BY <2>3
    <3>4. Step(w) = OneSector(v, w)
      <4> HIDE DEF w, Got, b, r, c
      <4>1. w.cluster = c
        BY <3>3
      <4>2. QED
        BY <3>1, <4>1
    <3>5. r \in 0 .. s - 1
      <4> HIDE DEF j
      <4>1. QED
        BY <1>1, <2>1, Quotient
    <3>6. OneSector(v, w) = IF r + 1 < s THEN [got |-> more, put |-> puts, toread |-> r + 1, cluster |-> c]
                            ELSE [got |-> more, put |-> puts, toread |-> 0, cluster |-> v.fat[c]]
      <4> HIDE DEF b, r, c, Got
      <4>1. r \in Int
        BY <1>1, <3>5
      <4> DEFINE g  == Got(i)
                 at == Apart(Got(i))
      <4> HIDE DEF g, at
      <4>2. OneSector(v, [got |-> g, put |-> at, toread |-> r, cluster |-> c])
              = Onward(v, Append(g, SectorOf(v, c, r)), Append(at, StoredAt(Len(g))), r, c)
        BY <4>1, SectorStep, Zenon
      <4> HIDE DEF w
      <4>3. OneSector(v, w) = Onward(v, more, puts, r, c)
        BY <3>3, <4>2, Zenon DEF g, at
      <4> HIDE DEF more, puts
      <4>4. QED
        BY <4>3, Zenon DEF Onward, s
    <3>7. At(i + 1) = [got     |-> more,
                       put     |-> puts,
                       toread  |-> IF j + 1 < N THEN (j + 1) % s ELSE 0,
                       cluster |-> IF j + 1 < N THEN chain[((j + 1) \div s) + 1] ELSE end]
      <4>1. from < N
        BY <1>3, <1>4, <2>1, <2>3
      <4> HIDE DEF Got, more, puts
      <4>2. QED
        BY <2>1, <3>2, <3>2a, <4>1
    <3>8. /\ r + 1 < s => j + 1 < N /\ (j + 1) \div s = b /\ (j + 1) % s = r + 1
          /\ ~ r + 1 < s => (j + 1 < N <=> b + 1 < l) /\ (j + 1) \div s = b + 1 /\ (j + 1) % s = 0
      <4> HIDE DEF j
      <4>1. j < s * l
        BY <1>3, <2>3
      <4>2. /\ r + 1 < s => j + 1 < s * l /\ (j + 1) \div s = b /\ (j + 1) % s = r + 1
            /\ ~ r + 1 < s => (j + 1 < s * l <=> b + 1 < l) /\ (j + 1) \div s = b + 1 /\ (j + 1) % s = 0
        <5>1. s \in Nat \ {0} /\ l \in Nat /\ j \in Nat /\ j < s * l
          BY <1>1, <1>2, <2>1, <4>1
        <5>2. ASSUME r + 1 < s
              PROVE  j + 1 < s * l /\ (j + 1) \div s = b /\ (j + 1) % s = r + 1
          <6>1. (j % s) + 1 < s
            BY <5>2
          <6>2. j + 1 < s * l /\ (j + 1) \div s = j \div s /\ (j + 1) % s = (j % s) + 1
            BY <5>1, <6>1, Places
          <6>3. QED
            BY <6>2
        <5>3. ASSUME ~ r + 1 < s
              PROVE  (j + 1 < s * l <=> b + 1 < l) /\ (j + 1) \div s = b + 1 /\ (j + 1) % s = 0
          <6>1. ~ (j % s) + 1 < s
            BY <5>3
          <6>2. /\ j + 1 < s * l <=> (j \div s) + 1 < l
                /\ (j + 1) \div s = (j \div s) + 1 /\ (j + 1) % s = 0
            BY <5>1, <6>1, Places
          <6>3. QED
            BY <6>2
        <5>4. QED
          BY <5>2, <5>3
      <4>3. QED
        BY <1>3, <4>2
    <3>9. ~ r + 1 < s => v.fat[c] = IF b + 1 < l THEN chain[(b + 1) + 1] ELSE end
      <4> HIDE DEF b
      <4>1. CASE b + 1 < l
        <5>1. b + 1 \in 1 .. l - 1
          BY <1>2, <3>1, <4>1
        <5>2. QED
          BY <1>1, <4>1, <5>1
      <4>2. CASE ~ b + 1 < l
        <5>1. b + 1 = l
          BY <1>2, <3>1, <4>2
        <5>2. QED
          BY <4>2, <5>1 DEF l, end
      <4>3. QED
        BY <4>1, <4>2
    <3> HIDE DEF w, At, Step, j, b, r, c, more, puts
    <3>10. CASE r + 1 < s
      BY <3>4, <3>6, <3>7, <3>8, <3>10 DEF c, w
    <3>11. CASE ~ r + 1 < s
      BY <3>4, <3>6, <3>7, <3>8, <3>9, <3>11 DEF w
    <3>12. QED
      BY <3>10, <3>11
  <2>4. QED
    BY <2>2, <2>3
<1> HIDE DEF At
<1>12. along = F(along)
  <2> DEFINE G == F(along)
  <2>1. \A i \in 0 .. m : along[i] = G[i]
    <3> TAKE i \in 0 .. m
    <3>1. CASE i = 0
      BY <1>10, <3>1
    <3>2. CASE i # 0
      <4>1. i - 1 \in Nat /\ i - 1 \in 0 .. m /\ (i - 1) + 1 = i
        BY <1>4, <3>2
      <4>2. At((i - 1) + 1) = Step(At(i - 1))
        BY <1>11, <4>1
      <4>3. QED
        BY <3>2, <4>1, <4>2
    <3>3. QED
      BY <3>1, <3>2
  <2>2. G = [i \in 0 .. m |-> G[i]] /\ along = [i \in 0 .. m |-> along[i]]
    OBVIOUS
  <2> HIDE DEF G, along
  <2>3. along = G
    BY <2>1, <2>2
  <2>4. QED
    BY <2>3 DEF G
<1>13. walk = F(walk)
  <2> HIDE DEF F, along
  <2>1. QED
    BY <1>12
<1> HIDE DEF walk
<1>14. walk[0] = begin
  <2>1. 0 \in 0 .. m
    BY <1>4
  <2>2. QED
    BY <1>13, <2>1
<1>15. \A i \in 0 .. m : i # 0 => walk[i] = Step(walk[i - 1])
  BY <1>13
<1>16. walk[m] = At(m)
  <2> DEFINE S == {i \in 0 .. m : walk[i] = At(i)}
  <2> HIDE DEF Step, along, F
  <2>1. 0 \in S
    BY <1>4, <1>10, <1>14
  <2>2. \A i \in 0 .. m - 1 : i \in S => i + 1 \in S
    <3> TAKE i \in 0 .. m - 1
    <3> HAVE i \in S
    <3>1. i \in Nat /\ i + 1 \in 0 .. m /\ (i + 1) - 1 = i /\ i + 1 # 0
      BY <1>4
    <3>2. walk[i] = At(i)
      OBVIOUS
    <3>3. walk[i + 1] = Step(walk[i])
      BY <1>15, <3>1
    <3>4. QED
      BY <1>11, <3>1, <3>2, <3>3
  <2> HIDE DEF S
  <2>3. 0 .. m \subseteq S
    BY <1>4, <2>1, <2>2, UpTo
  <2>4. m \in S
    BY <1>4, <2>3
  <2>5. QED
    BY <2>4 DEF S
<1>17. walk[m].got = Got(m) /\ walk[m].put = Apart(Got(m)) /\ walk[m].cluster = IF from + m < N THEN chain[((from + m) \div s) + 1] ELSE end
  <2> HIDE DEF Got
  <2>1. QED
    BY <1>16 DEF At
<1>18. walk[m].cluster >= EndOfChain <=> ~ from + m < N
  <2>1. from + m \in Nat
    BY <1>4
  <2>2. CASE from + m < N
    BY <1>8, <1>17, <2>1, <2>2
  <2>3. CASE ~ from + m < N
    BY <1>1, <1>17, <2>3
  <2>4. QED
    BY <2>2, <2>3
<1> DEFINE read == read_file_fat16(v, File(v, e), reads, skip)
<1>19. read.got = walk[m].got /\ read.put = walk[m].put /\ (read.ended <=> walk[m].cluster >= EndOfChain)
  <2> DEFINE w == walk[m]
  <2>1. read = [got |-> w.got, put |-> w.put, ended |-> w.cluster >= EndOfChain]
    BY <1>5
  <2> HIDE DEF w, read
  <2>2. read.got = w.got /\ read.put = w.put /\ read.ended = (w.cluster >= EndOfChain)
    BY <2>1
  <2>3. QED
    BY <2>2 DEF w
<1> HIDE DEF read
<1>20. /\ read.got = SubSeq(file, from + 1, IF from + m < N THEN from + m ELSE N)
       /\ read.put = Apart(read.got)
       /\ read.ended <=> ~ from + m < N
  BY <1>17, <1>18, <1>19
<1>21. QED
  BY <1>20, Zenon DEF N, file, chain, from, m, read

\* Of a file whose entry comes first in its sector of the root directory - the
\* others are misread, for the offset (134) is a byte and counts words -
\* read_file_fat16 reads the sectors of the chain that are asked for, in their
\* order, stores them two sectors apart, and says whether the last one is behind
\* it: for every volume on which these files have clusters, every skip and every
\* count (fat16.c 146-244).
THEOREM FatReads == ArithmeticSpec => []FatFilesRead
<1> DEFINE Known == volume \subseteq Volumes
<1>1. ArithmeticInit => Known
  BY DEF ArithmeticInit
<1>2. Known /\ [ArithmeticNext]_<<vars, count, volume>> => Known'
  BY DEF ArithmeticNext, Day, Format, Mount
<1>3. Known => FatFilesRead
  <2> SUFFICES ASSUME Known, NEW v \in volume, NEW e \in Listed(v), e % PerDirSector = 0,
                      NEW skip \in Skips, NEW reads \in Reads
               PROVE  LET file == FileSectors(v, v.chain[e])
                          from == skip \div 256
                          k    == reads \div 256
                          read == read_file_fat16(v, File(v, e), reads, skip)
                      IN /\ read.got = SubSeq(file, from + 1,
                                              IF from + k < Len(file) THEN from + k ELSE Len(file))
                         /\ read.put = [i \in 1 .. Len(read.got) |-> 512 * (i - 1)]
                         /\ read.ended <=> from >= Len(file) \/ (k > 0 /\ from + k >= Len(file))
    BY Zenon DEF FatFilesRead
  <2> DEFINE file == FileSectors(v, v.chain[e])
             from == skip \div 256
             k    == reads \div 256
             read == read_file_fat16(v, File(v, e), reads, skip)
  <2>1. skip \in Nat /\ reads \in Nat /\ v.bpb \in BootRecord /\ Chained(v, e)
    BY VolumesAssumption
  <2>2. e \in Nat
    <3> DEFINE top == PerDirSector * root_dir_sectors(v.bpb) - 1
    <3>1. top \in Int
      <4> DEFINE entries == v.bpb.root_dir_entries
      <4>1. entries \in Nat
        BY <2>1 DEF BootRecord
      <4> HIDE DEF entries
      <4>2. 16 * ((entries * 32) \div 512) - 1 \in Int
        BY <4>1, SMT
      <4>3. QED
        BY <4>2 DEF root_dir_sectors, PerDirSector, entries
    <3>2. e \in 0 .. top
      BY DEF Listed
    <3> HIDE DEF top
    <3>3. QED
      BY <3>1, <3>2
  <2>3. /\ read.got = SubSeq(file, from + 1, IF from + k < Len(file) THEN from + k ELSE Len(file))
        /\ read.put = Apart(read.got)
        /\ read.ended <=> ~ from + k < Len(file)
    BY <2>1, <2>2, ReadAlong, Zenon
  <2>4. from \in Nat /\ k \in Nat
    BY <2>1, SMT
  <2>5. Len(file) \in Nat
    <3>1. v.chain[e] \in Seq(2 .. EndOfChain - 1)
      BY <2>1 DEF Chained
    <3>2. file \in Seq(Int)
      BY <2>1, <3>1, FileOfChain, Zenon
    <3> HIDE DEF file
    <3>3. QED
      BY <3>2, LenProperties
  <2> HIDE DEF file, from, k, read
  <2>6. read.ended <=> from >= Len(file) \/ (k > 0 /\ from + k >= Len(file))
    BY <2>3, <2>4, <2>5
  <2>7. QED
    BY <2>3, <2>6, Zenon DEF file, from, k, read, Apart
<1>4. QED
  BY <1>1, <1>2, <1>3, PTL DEF ArithmeticSpec

-----------------------------------------------------------------------------
(* Dates *)

\* The days from 1 January 1970 to 1 January of year y, in closed form: a leap day
\* for each fourth year before y but the hundredth ones that are not four
\* hundredth.
DaysToYear(y) == 365 * (y - 1970) + (y - 1) \div 4 - (y - 1) \div 100 + (y - 1) \div 400 - 477

\* The days before a month, in a year that has no leap day and in year y.  There is
\* no month 13: it begins with the next year.
DaysToMonth == <<0, 31, 59, 90, 120, 151, 181, 212, 243, 273, 304, 334, 365>>

DaysInto(y, m) == DaysToMonth[m] + (IF m >= 3 /\ leap_year(y) THEN 1 ELSE 0)

\* One year more is one multiple of k more, or none.
LEMMA NextMultiple ==
  ASSUME NEW y \in Nat, NEW k \in {4, 100, 400}
  PROVE  y \div k = (y - 1) \div k + (IF y % k = 0 THEN 1 ELSE 0)
<1>1. CASE k = 4
  BY <1>1, SMT
<1>2. CASE k = 100
  BY <1>2, SMT
<1>3. CASE k = 400
  BY <1>3, SMT
<1>4. QED
  BY <1>1, <1>2, <1>3

\* A year has the code's number of days, and the next one begins behind them.
LEMMA YearLength ==
  ASSUME NEW y \in Nat
  PROVE  /\ DaysToYear(y) \in Int
         /\ YearDays(y) \in {365, 366}
         /\ DaysToYear(y + 1) = DaysToYear(y) + YearDays(y)
<1>1. /\ y \div 4 = (y - 1) \div 4 + (IF y % 4 = 0 THEN 1 ELSE 0)
      /\ y \div 100 = (y - 1) \div 100 + (IF y % 100 = 0 THEN 1 ELSE 0)
      /\ y \div 400 = (y - 1) \div 400 + (IF y % 400 = 0 THEN 1 ELSE 0)
  BY NextMultiple
<1>2. (y % 400 = 0 => y % 100 = 0) /\ (y % 100 = 0 => y % 4 = 0)
  BY SMT
<1>3. (y - 1) \div 4 \in Int /\ (y - 1) \div 100 \in Int /\ (y - 1) \div 400 \in Int
  BY SMT
<1>4. (y + 1) - 1 = y
  OBVIOUS
<1>5. DaysToYear(y + 1) = 365 * (y + 1 - 1970) + y \div 4 - y \div 100 + y \div 400 - 477
  BY <1>4 DEF DaysToYear
<1>6. DaysToYear(y) = 365 * (y - 1970) + (y - 1) \div 4 - (y - 1) \div 100 + (y - 1) \div 400 - 477
  BY DEF DaysToYear
<1>7. YearDays(y) = IF y % 4 = 0 /\ (y % 100 # 0 \/ y % 400 = 0) THEN 366 ELSE 365
  BY DEF YearDays, leap_year
<1> DEFINE a == (y - 1) \div 4
           b == (y - 1) \div 100
           c == (y - 1) \div 400
<1> HIDE DEF a, b, c
<1>8. a \in Int /\ b \in Int /\ c \in Int
  BY <1>3 DEF a, b, c
<1>9. /\ DaysToYear(y) = 365 * (y - 1970) + a - b + c - 477
      /\ DaysToYear(y + 1) = 365 * (y + 1 - 1970) + (a + (IF y % 4 = 0 THEN 1 ELSE 0))
           - (b + (IF y % 100 = 0 THEN 1 ELSE 0)) + (c + (IF y % 400 = 0 THEN 1 ELSE 0)) - 477
  BY <1>1, <1>5, <1>6 DEF a, b, c
<1>10. QED
  BY <1>2, <1>7, <1>8, <1>9, SMT

\* Later years begin later, by a day for each year at least.
LEMMA YearsGrow ==
  ASSUME NEW y \in Nat, NEW k \in Nat
  PROVE  DaysToYear(y + k) >= DaysToYear(y) + k
<1> DEFINE S == {i \in 0 .. k : DaysToYear(y + i) >= DaysToYear(y) + i}
<1>1. 0 \in S
  BY YearLength
<1>2. \A i \in 0 .. k - 1 : i \in S => i + 1 \in S
  <2> TAKE i \in 0 .. k - 1
  <2> HAVE i \in S
  <2>1. y + i \in Nat /\ (y + i) + 1 = y + (i + 1) /\ i + 1 \in 0 .. k
    OBVIOUS
  <2>2. DaysToYear(y + (i + 1)) = DaysToYear(y + i) + YearDays(y + i) /\ YearDays(y + i) \in {365, 366}
        /\ DaysToYear(y + i) \in Int /\ DaysToYear(y) \in Int
    BY <2>1, YearLength
  <2>3. QED
    BY <2>1, <2>2
<1> HIDE DEF S
<1>3. 0 .. k \subseteq S
  BY <1>1, <1>2, UpTo
<1>4. k \in S
  BY <1>3
<1>5. QED
  BY <1>4 DEF S

\* The loop over the years adds up to the closed form (time.c 41-44).
LEMMA YearsSummed ==
  ASSUME NEW y \in Nat, y >= 1970
  PROVE  YearsBefore(y) = DaysToYear(y)
<1> DEFINE F(g)   == [i \in 1970 .. y |-> IF i = 1970 THEN 0 ELSE g[i - 1] + YearDays(i - 1)]
           at     == CHOOSE g : g = F(g)
           closed == [i \in 1970 .. y |-> DaysToYear(i)]
<1>1. YearsBefore(y) = at[y]
  BY DEF YearsBefore
<1>2. DaysToYear(1970) = 0
  BY SMT DEF DaysToYear
<1>3. \A i \in 1970 .. y : i # 1970 => DaysToYear(i) = DaysToYear(i - 1) + YearDays(i - 1)
  <2> TAKE i \in 1970 .. y
  <2> HAVE i # 1970
  <2>1. i - 1 \in Nat /\ (i - 1) + 1 = i
    OBVIOUS
  <2>2. QED
    BY <2>1, YearLength
<1>4. closed = F(closed)
  <2>1. \A i \in 1970 .. y : i # 1970 => i - 1 \in 1970 .. y
    OBVIOUS
  <2>2. \A i \in 1970 .. y : closed[i] = F(closed)[i]
    BY <1>2, <1>3, <2>1
  <2> DEFINE G == F(closed)
  <2>3. G = [i \in 1970 .. y |-> G[i]] /\ closed = [i \in 1970 .. y |-> closed[i]]
    OBVIOUS
  <2>4. \A i \in 1970 .. y : closed[i] = G[i]
    BY <2>2
  <2> HIDE DEF G, closed
  <2>5. closed = G
    BY <2>3, <2>4
  <2>6. QED
    BY <2>5 DEF G
<1>5. at = F(at)
  <2> HIDE DEF F, closed
  <2>1. QED
    BY <1>4
<1>6. \A i \in 1970 .. y : at[i] = IF i = 1970 THEN 0 ELSE at[i - 1] + YearDays(i - 1)
  <2> HIDE DEF at
  <2>1. QED
    BY <1>5
<1> HIDE DEF at
<1> DEFINE S == {k \in 0 .. y - 1970 : at[1970 + k] = DaysToYear(1970 + k)}
<1>7. 0 \in S
  <2>1. 1970 \in 1970 .. y /\ 1970 + 0 = 1970 /\ 0 \in 0 .. y - 1970
    OBVIOUS
  <2>2. QED
    BY <1>2, <1>6, <2>1
<1>8. \A k \in 0 .. y - 1970 - 1 : k \in S => k + 1 \in S
  <2> TAKE k \in 0 .. y - 1970 - 1
  <2> HAVE k \in S
  <2> DEFINE i == 1970 + (k + 1)
  <2>1. i \in 1970 .. y /\ i # 1970 /\ i - 1 = 1970 + k /\ k + 1 \in 0 .. y - 1970
    OBVIOUS
  <2>2. at[i] = at[i - 1] + YearDays(i - 1) /\ DaysToYear(i) = DaysToYear(i - 1) + YearDays(i - 1)
    BY <1>3, <1>6, <2>1
  <2>3. at[i - 1] = DaysToYear(i - 1)
    BY <2>1
  <2>4. QED
    BY <2>1, <2>2, <2>3
<1> HIDE DEF S
<1>9. y - 1970 \in S
  <2>1. 0 .. y - 1970 \subseteq S
    BY <1>7, <1>8, UpTo
  <2>2. QED
    BY <2>1
<1>10. QED
  BY <1>1, <1>9 DEF S

\* The loop over the months, likewise (time.c 46-49).
LEMMA MonthsSummed ==
  ASSUME NEW m \in 1 .. 12
  PROVE  MonthsBefore(m) = DaysToMonth[m]
<1> DEFINE F(g)   == [i \in 0 .. m - 1 |-> IF i = 0 THEN 0 ELSE g[i - 1] + d_month[i]]
           at     == CHOOSE g : g = F(g)
           closed == [i \in 0 .. m - 1 |-> DaysToMonth[i + 1]]
<1>1. MonthsBefore(m) = at[m - 1]
  BY DEF MonthsBefore
<1>2. DaysToMonth[1] = 0
  BY DEF DaysToMonth
<1>3. \A i \in 1 .. 12 : DaysToMonth[i + 1] = DaysToMonth[i] + d_month[i]
  BY SMT DEF DaysToMonth, d_month
<1>4. \A i \in 0 .. m - 1 : i # 0 => i - 1 \in 0 .. m - 1 /\ (i - 1) + 1 = i /\ i \in 1 .. 12
  OBVIOUS
<1>5. closed = F(closed)
  <2> DEFINE G == F(closed)
  <2>1. \A i \in 0 .. m - 1 : closed[i] = G[i]
    <3> TAKE i \in 0 .. m - 1
    <3>1. CASE i = 0
      BY <1>2, <3>1
    <3>2. CASE i # 0
      <4>1. G[i] = closed[i - 1] + d_month[i]
        BY <3>2
      <4>2. closed[i] = DaysToMonth[i + 1] /\ closed[i - 1] = DaysToMonth[i]
        BY <1>4, <3>2
      <4>3. DaysToMonth[i + 1] = DaysToMonth[i] + d_month[i]
        BY <1>3, <1>4, <3>2
      <4>4. QED
        BY <4>1, <4>2, <4>3
    <3>3. QED
      BY <3>1, <3>2
  <2>2. G = [i \in 0 .. m - 1 |-> G[i]] /\ closed = [i \in 0 .. m - 1 |-> closed[i]]
    OBVIOUS
  <2> HIDE DEF G, closed
  <2>3. closed = G
    BY <2>1, <2>2
  <2>4. QED
    BY <2>3 DEF G
<1>6. at = F(at)
  <2> HIDE DEF F, closed
  <2>1. QED
    BY <1>5
<1>7. \A i \in 0 .. m - 1 : at[i] = IF i = 0 THEN 0 ELSE at[i - 1] + d_month[i]
  <2> HIDE DEF at
  <2>1. QED
    BY <1>6
<1> HIDE DEF at
<1> DEFINE S == {k \in 0 .. m - 1 : at[k] = DaysToMonth[k + 1]}
<1>8. 0 \in S
  BY <1>2, <1>7
<1>9. \A k \in 0 .. m - 1 - 1 : k \in S => k + 1 \in S
  <2> TAKE k \in 0 .. m - 1 - 1
  <2> HAVE k \in S
  <2> DEFINE i == k + 1
  <2>1. i \in 0 .. m - 1 /\ i # 0 /\ i - 1 = k /\ i \in 1 .. 12
    OBVIOUS
  <2>2. at[i] = at[k] + d_month[i] /\ DaysToMonth[i + 1] = DaysToMonth[i] + d_month[i]
    BY <1>3, <1>7, <2>1
  <2>3. QED
    BY <2>1, <2>2
<1> HIDE DEF S
<1>10. m - 1 \in S
  <2>1. 0 .. m - 1 \subseteq S
    BY <1>8, <1>9, UpTo
  <2>2. QED
    BY <2>1
<1>11. QED
  BY <1>1, <1>10 DEF S

\* The code's lengths of months are the calendar's (time.c 34-35, time.h 12-15).
LEMMA MonthLength ==
  ASSUME NEW y \in Nat, NEW m \in 1 .. 12
  PROVE  MonthDays(y, m) = Length(y, m) /\ MonthDays(y, m) \in 28 .. 31
<1>1. /\ y % 4 = 0 <=> 4 * (y \div 4) = y
      /\ y % 100 = 0 <=> 100 * (y \div 100) = y
      /\ y % 400 = 0 <=> 400 * (y \div 400) = y
      /\ y % 400 = 0 => y % 4 = 0
  BY SMT
<1>2. leap_year(y) <=> (4 * (y \div 4) = y /\ 100 * (y \div 100) # y) \/ 400 * (y \div 400) = y
  BY <1>1, Zenon DEF leap_year
<1>3. m \notin {2} => d_month[m] = IF m \in {4, 6, 9, 11} THEN 30 ELSE 31
  BY SMT DEF d_month
<1>4. d_month[2] = 28
  BY SMT DEF d_month
<1>5. QED
  BY <1>2, <1>3, <1>4 DEF MonthDays, Length

\* Where the months begin in a year.
LEMMA MonthsInYear ==
  ASSUME NEW y \in Nat
  PROVE  /\ \A m \in 1 .. 13 : DaysInto(y, m) \in Nat
         /\ \A m \in 1 .. 12 : DaysInto(y, m + 1) = DaysInto(y, m) + MonthDays(y, m)
         /\ DaysInto(y, 1) = 0 /\ DaysInto(y, 13) = YearDays(y)
<1>1. \A m \in 1 .. 13 : DaysToMonth[m] \in Nat
  BY SMT DEF DaysToMonth
<1>2. DaysToMonth[1] = 0 /\ DaysToMonth[13] = 365
  BY SMT DEF DaysToMonth
<1>3. \A m \in 1 .. 12 : DaysToMonth[m + 1] = DaysToMonth[m] + d_month[m]
  BY SMT DEF DaysToMonth, d_month
<1>4. d_month[2] = 28 /\ \A m \in 1 .. 12 : d_month[m] \in Nat
  BY SMT DEF d_month
<1> DEFINE leap == leap_year(y)
<1>5. leap \in BOOLEAN
  BY DEF leap_year
<1>6. /\ \A m \in 1 .. 13 : DaysInto(y, m) = DaysToMonth[m] + (IF m >= 3 /\ leap THEN 1 ELSE 0)
      /\ \A m \in 1 .. 12 : MonthDays(y, m) = IF m = 2 /\ leap THEN 29 ELSE d_month[m]
      /\ YearDays(y) = IF leap THEN 366 ELSE 365
  BY DEF DaysInto, MonthDays, YearDays
<1> HIDE DEF leap
<1>7. ASSUME NEW m \in 1 .. 12
      PROVE  DaysInto(y, m + 1) = DaysInto(y, m) + MonthDays(y, m)
  <2>1. m + 1 \in 1 .. 13 /\ m \in 1 .. 13 /\ (m + 1 >= 3 <=> m = 2 \/ m >= 3)
    OBVIOUS
  <2>2. DaysToMonth[m + 1] = DaysToMonth[m] + d_month[m] /\ DaysToMonth[m] \in Nat /\ d_month[m] \in Nat
    BY <1>1, <1>3, <1>4
  <2>3. DaysInto(y, m + 1) = DaysToMonth[m + 1] + (IF m + 1 >= 3 /\ leap THEN 1 ELSE 0)
        /\ DaysInto(y, m) = DaysToMonth[m] + (IF m >= 3 /\ leap THEN 1 ELSE 0)
        /\ MonthDays(y, m) = IF m = 2 /\ leap THEN 29 ELSE d_month[m]
    BY <1>6, <2>1
  <2>4. CASE m = 2
    BY <1>4, <1>5, <2>2, <2>3, <2>4
  <2>5. CASE m # 2
    BY <2>1, <2>2, <2>3, <2>5
  <2>6. QED
    BY <2>4, <2>5
<1>8. DaysInto(y, 1) = 0 /\ DaysInto(y, 13) = YearDays(y)
  <2>1. 1 \in 1 .. 13 /\ 13 \in 1 .. 13
    OBVIOUS
  <2>2. /\ DaysInto(y, 1) = DaysToMonth[1] + (IF 1 >= 3 /\ leap THEN 1 ELSE 0)
        /\ DaysInto(y, 13) = DaysToMonth[13] + (IF 13 >= 3 /\ leap THEN 1 ELSE 0)
    BY <1>6, <2>1
  <2>3. QED
    BY <1>2, <1>5, <1>6, <2>2
<1>9. \A m \in 1 .. 13 : DaysInto(y, m) \in Nat
  BY <1>1, <1>5, <1>6
<1>10. QED
  BY <1>7, <1>8, <1>9

\* The same of one month, and of the ends of the year.
LEMMA MonthStarts ==
  ASSUME NEW y \in Nat, NEW m \in Nat, 1 <= m, m <= 12
  PROVE  /\ DaysInto(y, m) \in Nat /\ DaysInto(y, m + 1) \in Nat
         /\ DaysInto(y, m + 1) = DaysInto(y, m) + MonthDays(y, m)
<1>1. \A i \in 1 .. 13 : DaysInto(y, i) \in Nat
  BY MonthsInYear, Zenon
<1>2. \A i \in 1 .. 12 : DaysInto(y, i + 1) = DaysInto(y, i) + MonthDays(y, i)
  BY MonthsInYear, Zenon
<1>3. m \in 1 .. 12 /\ m \in 1 .. 13 /\ m + 1 \in 1 .. 13
  OBVIOUS
<1>4. QED
  BY <1>1, <1>2, <1>3, Zenon

LEMMA YearEnds ==
  ASSUME NEW y \in Nat
  PROVE  DaysInto(y, 1) = 0 /\ DaysInto(y, 13) = YearDays(y)
  BY MonthsInYear, Zenon

\* Both loops of timestamp_to_time_t take off what comes next while it fits, and
\* stop at the latest at a last one (time.c 89-114).  C counts what lies before.
TakeOff(g, I, last, len) ==
  [p \in I \X Nat |-> IF p[1] \in last \/ p[2] < len[p[1]] THEN p
                     ELSE g[<<p[1] + 1, p[2] - len[p[1]]>>]]

\* What begins behind i, if it is not a last one, begins at i and its length; and
\* something lies behind whatever there is, or is a last one.
Counted(I, last, len, C) ==
  /\ I \subseteq Nat /\ last \subseteq I
  /\ \A i \in I : C[i] \in Int
  /\ \A i \in I \ last : i + 1 \in I /\ len[i] \in Nat /\ C[i + 1] = C[i] + len[i]
  /\ \A i \in I : \A t \in Int : \E k \in I : k >= i /\ (k \in last \/ t < C[k + 1])

\* t lies within b, and what begins at a leads there.
Within(a, b, t, I, last, len, C) ==
  /\ a \in I /\ b \in I /\ a <= b /\ I \subseteq Nat /\ t \in Int
  /\ \A i \in a .. b : i \in I /\ C[i] \in Int /\ C[i] <= t
  /\ \A i \in a .. b - 1 : i \notin last /\ len[i] \in Nat /\ C[i + 1] = C[i] + len[i]
  /\ b \in last \/ (len[b] \in Nat /\ t < C[b] + len[b])

\* Taking off from what is left is adding to what lies before.
LEMMA Moved ==
  ASSUME NEW c \in Int, NEW left \in Nat, NEW l \in Nat
  PROVE  /\ (c + left) - c = left
         /\ left < l => c + left < c + l
         /\ ~ left < l => left - l \in Nat /\ (c + l) + (left - l) = c + left /\ ~ (c + left < c + l)
  BY SMT

LEMMA AtOrBehind ==
  ASSUME NEW i \in Nat, NEW k \in Nat
  PROVE  k >= i <=> k = i \/ k >= i + 1
  BY SMT

\* There is such a function: it leads to the first i that is the last or behind
\* which more lies than there is.
LEMMA TakingOff ==
  ASSUME NEW I, NEW last, NEW len, NEW C, Counted(I, last, len, C)
  PROVE  \E g : g = TakeOff(g, I, last, len)
<1> DEFINE Stops(i, t) == {k \in I : k >= i /\ (k \in last \/ t < C[k + 1])}
           First(S)    == CHOOSE k \in S : \A j \in S : k <= j
           End(i, t)   == <<First(Stops(i, t)), t - C[First(Stops(i, t))]>>
           closed      == [p \in I \X Nat |-> End(p[1], C[p[1]] + p[2])]
<1> USE DEF Counted
<1>1. \A i \in I : \A left \in Nat : i \in last \/ left < len[i] => End(i, C[i] + left) = <<i, left>>
  <2> TAKE i \in I
  <2> TAKE left \in Nat
  <2> HAVE i \in last \/ left < len[i]
  <2> DEFINE S == Stops(i, C[i] + left)
  <2>1. i \in S
    <3>1. CASE i \in last
      BY <3>1
    <3>2. CASE i \notin last
      <4>1. C[i] \in Int /\ len[i] \in Nat /\ C[i + 1] = C[i] + len[i] /\ left < len[i]
        BY <3>2
      <4>2. C[i] + left < C[i] + len[i]
        BY <4>1, Moved, Zenon
      <4>3. C[i] + left < C[i + 1]
        BY <4>1, <4>2, Zenon
      <4>4. QED
        BY <4>3
    <3>3. QED
      BY <3>1, <3>2
  <2>2. \A k \in S : i <= k /\ k \in Nat
    OBVIOUS
  <2> HIDE DEF S
  <2>3. First(S) \in S /\ \A j \in S : First(S) <= j
    BY <2>1, <2>2
  <2>4. First(S) = i
    <3> DEFINE f == First(S)
    <3> HIDE DEF f
    <3>1. f \in Nat /\ i <= f /\ f <= i /\ i \in Nat
      BY <2>1, <2>2, <2>3 DEF f
    <3>2. f = i
      BY <3>1
    <3>3. QED
      BY <3>2 DEF f
  <2>5. (C[i] + left) - C[i] = left
    <3>1. C[i] \in Int
      OBVIOUS
    <3>2. QED
      BY <3>1, Moved
  <2>6. QED
    BY <2>4, <2>5 DEF S
<1>2. \A i \in I : \A left \in Nat : ~ (i \in last \/ left < len[i]) =>
        /\ i + 1 \in I /\ left - len[i] \in Nat
        /\ End(i, C[i] + left) = End(i + 1, C[i + 1] + (left - len[i]))
  <2> TAKE i \in I
  <2> TAKE left \in Nat
  <2> HAVE ~ (i \in last \/ left < len[i])
  <2>1. i + 1 \in I /\ C[i] \in Int /\ len[i] \in Nat /\ C[i + 1] = C[i] + len[i]
    OBVIOUS
  <2>2. left - len[i] \in Nat /\ C[i + 1] + (left - len[i]) = C[i] + left /\ ~ (C[i] + left < C[i + 1])
    <3>1. ~ left < len[i]
      OBVIOUS
    <3>2. left - len[i] \in Nat /\ (C[i] + len[i]) + (left - len[i]) = C[i] + left
          /\ ~ (C[i] + left < C[i] + len[i])
      BY <2>1, <3>1, Moved, Zenon
    <3>3. QED
      BY <2>1, <3>2, Zenon
  <2>3. Stops(i, C[i] + left) = Stops(i + 1, C[i] + left)
    <3>1. \A k \in I : k >= i <=> k = i \/ k >= i + 1
      <4>1. i \in Nat /\ \A k \in I : k \in Nat
        OBVIOUS
      <4>2. QED
        BY <4>1, AtOrBehind, Zenon
    <3>2. QED
      BY <2>2, <3>1
  <2> HIDE DEF Stops, First
  <2>4. QED
    BY <2>1, <2>2, <2>3
<1> HIDE DEF End
<1>3. closed = TakeOff(closed, I, last, len)
  <2> DEFINE H == TakeOff(closed, I, last, len)
  <2>1. \A p \in I \X Nat : closed[p] = H[p]
    <3> TAKE p \in I \X Nat
    <3> DEFINE i    == p[1]
               left == p[2]
    <3>1. i \in I /\ left \in Nat /\ p = <<i, left>>
      OBVIOUS
    <3>2. p[1] = i /\ p[2] = left
      OBVIOUS
    <3> HIDE DEF i, left
    <3>3. closed[p] = End(i, C[i] + left)
      BY <3>2
    <3>4. CASE i \in last \/ left < len[i]
      <4>1. H[p] = p
        BY <3>2, <3>4 DEF TakeOff
      <4>2. QED
        BY <1>1, <3>1, <3>3, <3>4, <4>1
    <3>5. CASE ~ (i \in last \/ left < len[i])
      <4> DEFINE q == <<i + 1, left - len[i]>>
      <4>1. i + 1 \in I /\ left - len[i] \in Nat
        BY <1>2, <3>1, <3>5
      <4>2. q \in I \X Nat /\ q[1] = i + 1 /\ q[2] = left - len[i]
        BY <4>1
      <4>3. H[p] = closed[q]
        BY <3>2, <3>5 DEF TakeOff
      <4>4. closed[q] = End(i + 1, C[i + 1] + (left - len[i]))
        BY <4>2
      <4>5. QED
        BY <1>2, <3>1, <3>3, <3>5, <4>3, <4>4
    <3>6. QED
      BY <3>4, <3>5
  <2>2. H = [p \in I \X Nat |-> H[p]] /\ closed = [p \in I \X Nat |-> closed[p]]
    BY DEF TakeOff
  <2> HIDE DEF H, closed
  <2>3. closed = H
    BY <2>1, <2>2
  <2>4. QED
    BY <2>3 DEF H
<1> HIDE DEF closed
<1>4. QED
  BY <1>3

\* What such a function finds: the i within which t lies, and how far into it.
LEMMA TakenOff ==
  ASSUME NEW a, NEW b, NEW t, NEW I, NEW last, NEW len, NEW C, Within(a, b, t, I, last, len, C),
         NEW g, g = TakeOff(g, I, last, len)
  PROVE  g[<<a, t - C[a]>>] = <<b, t - C[b]>>
<1> USE DEF Within
<1>10. ASSUME NEW i \in I, NEW left \in Nat
      PROVE  g[<<i, left>>] = IF i \in last \/ left < len[i] THEN <<i, left>> ELSE g[<<i + 1, left - len[i]>>]
  <2> DEFINE H == TakeOff(g, I, last, len)
             p == <<i, left>>
  <2>1. p \in I \X Nat /\ p[1] = i /\ p[2] = left
    OBVIOUS
  <2>2. H[p] = IF p[1] \in last \/ p[2] < len[p[1]] THEN p ELSE g[<<p[1] + 1, p[2] - len[p[1]]>>]
    BY <2>1 DEF TakeOff
  <2>3. g = H
    OBVIOUS
  <2> HIDE DEF H, p
  <2>4. g[p] = IF i \in last \/ left < len[i] THEN p ELSE g[<<i + 1, left - len[i]>>]
    BY <2>1, <2>2, <2>3, Zenon
  <2>5. QED
    BY <2>4 DEF p
<1> DEFINE S == {k \in 0 .. b - a : g[<<a + k, t - C[a + k]>>] = g[<<a, t - C[a]>>]}
<1>1. 0 \in S
  <2>1. a + 0 = a /\ 0 \in 0 .. b - a
    OBVIOUS
  <2>2. QED
    BY <2>1
<1>2. \A k \in 0 .. b - a - 1 : k \in S => k + 1 \in S
  <2> TAKE k \in 0 .. b - a - 1
  <2> HAVE k \in S
  <2> DEFINE i == a + k
  <2>1. i \in a .. b - 1 /\ i \in a .. b /\ i + 1 \in a .. b /\ i + 1 = a + (k + 1) /\ k + 1 \in 0 .. b - a
    OBVIOUS
  <2> HIDE DEF i
  <2>2. /\ i \in I /\ i \notin last /\ len[i] \in Nat /\ C[i + 1] = C[i] + len[i]
        /\ C[i] \in Int /\ C[i] <= t /\ C[i + 1] <= t
    BY <2>1
  <2>3. t - C[i] \in Nat /\ ~ (t - C[i] < len[i]) /\ (t - C[i]) - len[i] = t - C[i + 1]
    BY <2>2
  <2>4. g[<<i, t - C[i]>>] = g[<<i + 1, (t - C[i]) - len[i]>>]
    BY <1>10, <2>2, <2>3
  <2>5. g[<<i, t - C[i]>>] = g[<<a, t - C[a]>>]
    BY DEF i
  <2>6. g[<<i + 1, t - C[i + 1]>>] = g[<<a, t - C[a]>>]
    BY <2>3, <2>4, <2>5
  <2>7. QED
    BY <2>1, <2>6
<1> HIDE DEF S
<1>3. b - a \in S
  <2>1. b - a \in Nat
    OBVIOUS
  <2>2. 0 .. b - a \subseteq S
    BY <1>1, <1>2, <2>1, UpTo
  <2>3. QED
    BY <2>1, <2>2
<1>4. a + (b - a) = b /\ b \in a .. b
  OBVIOUS
<1>5. g[<<b, t - C[b]>>] = g[<<a, t - C[a]>>]
  BY <1>3, <1>4 DEF S
<1>6. C[b] \in Int /\ C[b] <= t
  BY <1>4
<1>7. t - C[b] \in Nat /\ (b \in last \/ t - C[b] < len[b])
  BY <1>6
<1>8. g[<<b, t - C[b]>>] = <<b, t - C[b]>>
  BY <1>4, <1>7, <1>10
<1>9. QED
  BY <1>5, <1>8

\* The two loops of timestamp_to_time_t, as functions of their own.
YearStep(g) == [p \in Nat \X Nat |->
                  IF p[2] < YearDays(p[1]) THEN p ELSE g[<<p[1] + 1, p[2] - YearDays(p[1])>>]]

MonthStep(y, g) == [p \in (1 .. 13) \X Nat |->
                      IF p[1] = 13 \/ p[2] < MonthDays(y, p[1]) THEN p
                      ELSE g[<<p[1] + 1, p[2] - MonthDays(y, p[1])>>]]

YearLoop     == CHOOSE g : g = YearStep(g)
MonthLoop(y) == CHOOSE g : g = MonthStep(y, g)

LEMMA Loops ==
  ASSUME NEW t
  PROVE  timestamp_to_time_t(t) =
           LET y == YearLoop[<<1970, t>>]
               m == MonthLoop(y[1])[<<1, y[2]>>]
           IN [year |-> y[1], month |-> m[1], day |-> m[2] + 1]
  BY DEF timestamp_to_time_t, YearLoop, MonthLoop, YearStep, MonthStep

\* The loop over the years is such a function.
LEMMA YearLoopTakesOff ==
  /\ YearLoop = TakeOff(YearLoop, Nat, {}, [i \in Nat |-> YearDays(i)])
  /\ Counted(Nat, {}, [i \in Nat |-> YearDays(i)], [i \in Nat |-> DaysToYear(i)])
<1> DEFINE len  == [i \in Nat |-> YearDays(i)]
           C    == [i \in Nat |-> DaysToYear(i)]
<1>1. \A i \in Nat : /\ i + 1 \in Nat /\ len[i] = YearDays(i) /\ C[i] = DaysToYear(i)
                     /\ len[i] \in Nat /\ C[i] \in Int /\ C[i + 1] = C[i] + len[i]
  <2> TAKE i \in Nat
  <2>1. i + 1 \in Nat /\ YearDays(i) \in Nat /\ DaysToYear(i) \in Int
        /\ DaysToYear(i + 1) = DaysToYear(i) + YearDays(i)
    BY YearLength
  <2>2. QED
    BY <2>1
<1>2. \A i \in Nat : \A u \in Int : \E k \in Nat : k >= i /\ (k \in {} \/ u < C[k + 1])
  <2> TAKE i \in Nat
  <2> TAKE u \in Int
  <2>1. PICK k \in Nat : u < DaysToYear(i) + k
    <3>1. DaysToYear(i) \in Int
      BY YearLength
    <3>2. CASE u < DaysToYear(i)
      <4>1. u < DaysToYear(i) + 0
        BY <3>1, <3>2
      <4>2. QED
        BY <4>1
    <3>3. CASE ~ u < DaysToYear(i)
      <4>1. (u - DaysToYear(i)) + 1 \in Nat /\ u < DaysToYear(i) + ((u - DaysToYear(i)) + 1)
        BY <3>1, <3>3
      <4>2. QED
        BY <4>1
    <3>4. QED
      BY <3>2, <3>3
  <2>2. DaysToYear(i + (k + 1)) >= DaysToYear(i) + (k + 1)
    BY YearsGrow
  <2>3. DaysToYear(i) \in Int /\ i + k \in Nat /\ i + k >= i /\ (i + k) + 1 = i + (k + 1) /\ i + (k + 1) \in Nat
    BY YearLength
  <2>4. DaysToYear(i + (k + 1)) \in Int
    BY <2>3, YearLength
  <2>5. u < DaysToYear((i + k) + 1)
    BY <2>1, <2>2, <2>3, <2>4
  <2>6. u < C[(i + k) + 1]
    BY <1>1, <2>3, <2>5
  <2>7. QED
    BY <2>3, <2>6
<1>3. \A g : YearStep(g) = TakeOff(g, Nat, {}, len)
  <2> TAKE g
  <2> DEFINE A == YearStep(g)
             B == TakeOff(g, Nat, {}, len)
  <2>1. \A p \in Nat \X Nat : A[p] = B[p]
    <3> TAKE p \in Nat \X Nat
    <3>1. p[1] \in Nat
      OBVIOUS
    <3>2. len[p[1]] = YearDays(p[1])
      BY <1>1, <3>1
    <3> HIDE DEF len
    <3>3. QED
      BY <3>2 DEF YearStep, TakeOff
  <2>2. A = [p \in Nat \X Nat |-> A[p]] /\ B = [p \in Nat \X Nat |-> B[p]]
    BY DEF YearStep, TakeOff
  <2> HIDE DEF A, B
  <2>3. A = B
    BY <2>1, <2>2
  <2>4. QED
    BY <2>3 DEF A, B
<1> HIDE DEF len, C
<1>4. Counted(Nat, {}, len, C)
  <2> DEFINE none == {}
  <2>1. Nat \subseteq Nat /\ none \subseteq Nat
    OBVIOUS
  <2>2. \A i \in Nat : C[i] \in Int
    BY <1>1
  <2>3. \A i \in Nat \ none : i + 1 \in Nat /\ len[i] \in Nat /\ C[i + 1] = C[i] + len[i]
    BY <1>1
  <2>4. \A i \in Nat : \A u \in Int : \E k \in Nat : k >= i /\ (k \in none \/ u < C[k + 1])
    BY <1>2
  <2> HIDE DEF none
  <2>5. Counted(Nat, none, len, C)
    BY <2>1, <2>2, <2>3, <2>4, Zenon DEF Counted
  <2>6. QED
    BY <2>5 DEF none
<1>5. \E g : g = YearStep(g)
  <2>1. PICK g : g = TakeOff(g, Nat, {}, len)
    BY <1>4, TakingOff
  <2>2. g = YearStep(g)
    BY <1>3, <2>1
  <2>3. QED
    BY <2>2
<1>6. YearLoop = TakeOff(YearLoop, Nat, {}, len)
  <2>1. YearLoop = YearStep(YearLoop)
    BY <1>5 DEF YearLoop
  <2>2. QED
    BY <1>3, <2>1
<1>7. QED
  BY <1>4, <1>6 DEF len, C

\* The first loop finds the year (time.c 89-97).
LEMMA YearFound ==
  ASSUME NEW y \in Nat, y >= 1970, NEW t \in Int, DaysToYear(y) <= t, t < DaysToYear(y) + YearDays(y)
  PROVE  YearLoop[<<1970, t>>] = <<y, t - DaysToYear(y)>>
<1> DEFINE len  == [i \in Nat |-> YearDays(i)]
           C    == [i \in Nat |-> DaysToYear(i)]
<1>1. \A i \in Nat : len[i] = YearDays(i) /\ C[i] = DaysToYear(i)
  OBVIOUS
<1>2. YearLoop = TakeOff(YearLoop, Nat, {}, len) /\ Counted(Nat, {}, len, C)
  BY YearLoopTakesOff
<1> HIDE DEF len, C
<1>3. \A i \in Nat : len[i] \in Nat /\ C[i] \in Int /\ C[i + 1] = C[i] + len[i]
  BY <1>2 DEF Counted
<1>4. \A i \in 1970 .. y : i \in Nat /\ C[i] \in Int /\ C[i] <= t
  <2> TAKE i \in 1970 .. y
  <2>1. i \in Nat /\ y - i \in Nat /\ i + (y - i) = y
    OBVIOUS
  <2>2. DaysToYear(y) >= DaysToYear(i) + (y - i)
    BY <2>1, YearsGrow
  <2>3. DaysToYear(i) \in Int /\ DaysToYear(y) \in Int
    BY <2>1, YearLength
  <2>4. DaysToYear(i) <= t
    BY <2>1, <2>2, <2>3
  <2>5. QED
    BY <1>1, <1>3, <2>1, <2>4
<1>5. \A i \in 1970 .. y - 1 : i \notin {} /\ len[i] \in Nat /\ C[i + 1] = C[i] + len[i]
  BY <1>1, <1>3
<1>6. C[1970] = 0
  <2>1. DaysToYear(1970) = 0
    BY SMT DEF DaysToYear
  <2>2. QED
    BY <1>1, <2>1
<1>7. Within(1970, y, t, Nat, {}, len, C)
  <2>1. y \in {} \/ (len[y] \in Nat /\ t < C[y] + len[y])
    BY <1>1, <1>3
  <2>2. QED
    BY <1>4, <1>5, <2>1 DEF Within
<1>8. YearLoop[<<1970, t - C[1970]>>] = <<y, t - C[y]>>
  BY <1>2, <1>7, TakenOff
<1>9. t - C[1970] = t
  BY <1>6
<1>10. QED
  BY <1>1, <1>8, <1>9

\* The second loop finds the month (time.c 100-114).
LEMMA MonthFound ==
  ASSUME NEW y \in Nat, NEW m \in 1 .. 12, NEW t \in Nat,
         DaysInto(y, m) <= t, t < DaysInto(y, m) + MonthDays(y, m)
  PROVE  MonthLoop(y)[<<1, t>>] = <<m, t - DaysInto(y, m)>>
<1> DEFINE I    == 1 .. 13
           len  == [i \in I |-> MonthDays(y, i)]
           C    == [i \in I |-> DaysInto(y, i)]
<1>1. \A i \in 1 .. 12 : i \in I /\ i + 1 \in I /\ len[i] = MonthDays(y, i) /\ len[i] \in Nat
                         /\ C[i + 1] = C[i] + len[i]
  <2> TAKE i \in 1 .. 12
  <2>1. i \in I /\ i + 1 \in I
    OBVIOUS
  <2>2. MonthDays(y, i) \in Nat /\ DaysInto(y, i + 1) = DaysInto(y, i) + MonthDays(y, i)
    <3>1. MonthDays(y, i) \in 28 .. 31
      BY MonthLength
    <3>2. DaysInto(y, i + 1) = DaysInto(y, i) + MonthDays(y, i)
      BY MonthsInYear
    <3>3. QED
      BY <3>1, <3>2
  <2>3. QED
    BY <2>1, <2>2
<1>2. \A i \in I : C[i] = DaysInto(y, i) /\ C[i] \in Nat
  BY MonthsInYear
<1>3. I \subseteq Nat /\ {13} \subseteq I /\ (\A i \in I : i \in Nat /\ i <= 13 /\ (i \notin {13} => i \in 1 .. 12))
  OBVIOUS
<1>4. \A g : MonthStep(y, g) = TakeOff(g, I, {13}, len)
  <2> TAKE g
  <2> DEFINE A == MonthStep(y, g)
             B == TakeOff(g, I, {13}, len)
  <2>1. \A p \in I \X Nat : A[p] = B[p]
    <3> TAKE p \in I \X Nat
    <3>1. p[1] \in I
      OBVIOUS
    <3>2. len[p[1]] = MonthDays(y, p[1])
      BY <3>1
    <3>3. p[1] \in {13} <=> p[1] = 13
      OBVIOUS
    <3> HIDE DEF len
    <3>4. QED
      BY <3>2, <3>3 DEF MonthStep, TakeOff
  <2>2. A = [p \in I \X Nat |-> A[p]] /\ B = [p \in I \X Nat |-> B[p]]
    BY DEF MonthStep, TakeOff
  <2> HIDE DEF A, B
  <2>3. A = B
    BY <2>1, <2>2
  <2>4. QED
    BY <2>3 DEF A, B
<1> HIDE DEF len, C, I
<1>5. Counted(I, {13}, len, C)
  <2>1. \A i \in I \ {13} : i + 1 \in I /\ len[i] \in Nat /\ C[i + 1] = C[i] + len[i]
    BY <1>1, <1>3
  <2>2. \A i \in I : \A u \in Int : \E k \in I : k >= i /\ (k \in {13} \/ u < C[k + 1])
    <3> TAKE i \in I
    <3> TAKE u \in Int
    <3>1. 13 \in I /\ 13 >= i
      BY <1>3
    <3>2. QED
      BY <3>1
  <2>3. \A i \in I : C[i] \in Int
    BY <1>2
  <2>4. QED
    BY <1>3, <2>1, <2>2, <2>3 DEF Counted
<1>6. \E g : g = MonthStep(y, g)
  <2>1. PICK g : g = TakeOff(g, I, {13}, len)
    BY <1>5, TakingOff
  <2>2. g = MonthStep(y, g)
    BY <1>4, <2>1
  <2>3. QED
    BY <2>2
<1>7. MonthLoop(y) = TakeOff(MonthLoop(y), I, {13}, len)
  <2>1. MonthLoop(y) = MonthStep(y, MonthLoop(y))
    BY <1>6 DEF MonthLoop
  <2>2. QED
    BY <1>4, <2>1
<1>8. \A i \in 1 .. m : C[i] <= t
  <2> DEFINE S == {k \in 0 .. m - 1 : C[m - k] <= t}
  <2>1. 0 \in S
    <3>1. m - 0 = m /\ C[m] <= t /\ 0 \in 0 .. m - 1
      BY <1>1, <1>2
    <3>2. QED
      BY <3>1
  <2>2. \A k \in 0 .. m - 1 - 1 : k \in S => k + 1 \in S
    <3> TAKE k \in 0 .. m - 1 - 1
    <3> HAVE k \in S
    <3> DEFINE i == m - (k + 1)
    <3>1. i \in 1 .. 12 /\ i + 1 = m - k /\ k + 1 \in 0 .. m - 1
      OBVIOUS
    <3>2. C[m - k] <= t
      OBVIOUS
    <3> HIDE DEF i
    <3>3. C[i + 1] <= t
      BY <3>1, <3>2
    <3>4. C[i + 1] = C[i] + len[i] /\ len[i] \in Nat /\ C[i] \in Nat
      BY <1>1, <1>2, <3>1
    <3>5. C[i] <= t
      BY <3>3, <3>4
    <3>6. QED
      BY <3>1, <3>5 DEF i
  <2> HIDE DEF S
  <2>3. 0 .. m - 1 \subseteq S
    <3>1. m - 1 \in Nat
      OBVIOUS
    <3>2. QED
      BY <2>1, <2>2, <3>1, UpTo
  <2> TAKE i \in 1 .. m
  <2>4. m - i \in 0 .. m - 1 /\ m - (m - i) = i
    OBVIOUS
  <2>5. m - i \in S
    BY <2>3, <2>4
  <2>6. QED
    BY <2>4, <2>5 DEF S
<1>9. Within(1, m, t, I, {13}, len, C)
  <2>1. \A i \in 1 .. m : i \in 1 .. 12
    OBVIOUS
  <2>2. \A i \in 1 .. m - 1 : i \in 1 .. 12 /\ i \notin {13}
    OBVIOUS
  <2>3. 1 \in 1 .. 12 /\ 1 <= m /\ t \in Int
    OBVIOUS
  <2>4. len[m] \in Nat /\ t < C[m] + len[m]
    BY <1>1, <1>2
  <2>5. \A i \in 1 .. m : i \in I /\ C[i] \in Int /\ C[i] <= t
    <3> TAKE i \in 1 .. m
    <3>1. i \in I /\ C[i] \in Nat
      BY <1>1, <1>2, <2>1
    <3>2. C[i] <= t
      BY <1>8
    <3>3. QED
      BY <3>1, <3>2
  <2>6. \A i \in 1 .. m - 1 : i \notin {13} /\ len[i] \in Nat /\ C[i + 1] = C[i] + len[i]
    BY <1>1, <2>2
  <2>7. 1 \in I /\ m \in I
    BY <1>1, <2>3
  <2>8. QED
    BY <1>3, <2>3, <2>4, <2>5, <2>6, <2>7 DEF Within
<1>10. MonthLoop(y)[<<1, t - C[1]>>] = <<m, t - C[m]>>
  BY <1>7, <1>9, TakenOff
<1>11. C[1] = 0 /\ C[m] = DaysInto(y, m)
  <2>1. 1 \in 1 .. 12
    OBVIOUS
  <2>2. QED
    BY <1>1, <1>2, <2>1, MonthsInYear
<1>12. t - C[1] = t
  BY <1>11
<1>13. QED
  BY <1>10, <1>11, <1>12

-----------------------------------------------------------------------------
(* The calendar's days *)

\* k days lie before this date.
Dated(y, m, d, k) ==
  /\ y >= 1970 /\ d <= Length(y, m)
  /\ k = DaysToYear(y) + DaysInto(y, m) + d - 1

DateOK == \E y \in Nat, m \in 1 .. 12, d \in Nat \ {0} :
            date = [year |-> y, month |-> m, day |-> d] /\ Dated(y, m, d, n)

\* One day more, in the middle of a month, at its end, and at the end of a year.
LEMMA NextDate ==
  ASSUME DateOK, NextDay
  PROVE  DateOK'
<1>1. PICK y \in Nat, m \in 1 .. 12, d \in Nat \ {0} :
        date = [year |-> y, month |-> m, day |-> d] /\ Dated(y, m, d, n)
  BY DEF DateOK
<1>2. y \in Nat /\ y >= 1970 /\ m \in 1 .. 12 /\ d \in Nat \ {0} /\ d <= Length(y, m)
  BY <1>1 DEF Dated
<1>3. n = DaysToYear(y) + DaysInto(y, m) + d - 1
  BY <1>1 DEF Dated
<1>4. date' = Tomorrow(date) /\ n' = n + 1
  BY DEF NextDay
<1>5. Length(y, m) = MonthDays(y, m) /\ MonthDays(y, m) \in 28 .. 31
  BY <1>2, MonthLength
<1>6. DaysToYear(y) \in Int /\ DaysInto(y, m) \in Nat /\ YearDays(y) \in {365, 366}
  <2>1. DaysToYear(y) \in Int /\ YearDays(y) \in {365, 366}
    BY YearLength
  <2>2. m \in Nat /\ 1 <= m /\ m <= 12
    OBVIOUS
  <2>3. DaysInto(y, m) \in Nat
    BY <2>2, MonthStarts, Zenon
  <2>4. QED
    BY <2>1, <2>3
<1>7. date.year = y /\ date.month = m /\ date.day = d
  BY <1>1
<1>8. CASE d < Length(y, m)
  <2>1. Tomorrow(date) = [year |-> y, month |-> m, day |-> d + 1]
    BY <1>1, <1>7, <1>8 DEF Tomorrow
  <2>2. date' = [year |-> y, month |-> m, day |-> d + 1]
    BY <1>4, <2>1
  <2>3. d + 1 \in Nat \ {0} /\ d + 1 <= Length(y, m)
    BY <1>2, <1>5, <1>8
  <2>4. n + 1 = DaysToYear(y) + DaysInto(y, m) + (d + 1) - 1
    BY <1>2, <1>3, <1>6
  <2>5. QED
    <3>1. Dated(y, m, d + 1, n')
      BY <1>2, <1>4, <2>3, <2>4 DEF Dated
    <3>2. QED
      BY <2>2, <2>3, <3>1, Zenon DEF DateOK
<1>9. ASSUME d >= Length(y, m)
      PROVE  d = MonthDays(y, m) /\ n + 1 = DaysToYear(y) + (DaysInto(y, m) + MonthDays(y, m))
  BY <1>2, <1>3, <1>5, <1>6, <1>9
<1>10. CASE ~ d < Length(y, m) /\ m < 12
  <2>1. d >= Length(y, m) /\ m + 1 \in 1 .. 12
    BY <1>2, <1>5, <1>10
  <2>2. Tomorrow(date) = [year |-> y, month |-> m + 1, day |-> 1]
    BY <1>1, <1>7, <1>10 DEF Tomorrow
  <2>3. date' = [year |-> y, month |-> m + 1, day |-> 1]
    BY <1>4, <2>2
  <2>4. DaysInto(y, m + 1) = DaysInto(y, m) + MonthDays(y, m) /\ DaysInto(y, m + 1) \in Nat
    BY <1>2, MonthStarts
  <2>5. n + 1 = DaysToYear(y) + DaysInto(y, m + 1) + 1 - 1
    BY <1>6, <1>9, <2>1, <2>4
  <2>6. 1 \in Nat \ {0} /\ 1 <= Length(y, m + 1)
    <3>1. Length(y, m + 1) \in 28 .. 31
      BY <1>2, <2>1, MonthLength
    <3>2. QED
      BY <3>1
  <2>7. QED
    <3>1. Dated(y, m + 1, 1, n')
      BY <1>2, <1>4, <2>1, <2>5, <2>6 DEF Dated
    <3>2. QED
      BY <2>1, <2>3, <2>6, <3>1, Zenon DEF DateOK
<1>11. CASE ~ d < Length(y, m) /\ ~ m < 12
  <2>1. d >= Length(y, m) /\ m = 12
    BY <1>2, <1>5, <1>11
  <2>2. Tomorrow(date) = [year |-> y + 1, month |-> 1, day |-> 1]
    BY <1>1, <1>7, <1>11 DEF Tomorrow
  <2>3. date' = [year |-> y + 1, month |-> 1, day |-> 1]
    BY <1>4, <2>2
  <2>4. y + 1 \in Nat /\ y + 1 >= 1970
    BY <1>2
  <2>5. DaysInto(y, 12) + MonthDays(y, 12) = YearDays(y) /\ DaysInto(y + 1, 1) = 0
    <3>1. 12 \in 1 .. 12 /\ 12 + 1 = 13
      OBVIOUS
    <3>2. DaysInto(y, 12 + 1) = DaysInto(y, 12) + MonthDays(y, 12)
      BY <1>2, <3>1, MonthStarts
    <3>3. DaysInto(y, 13) = YearDays(y) /\ DaysInto(y + 1, 1) = 0
      BY <1>2, <2>4, YearEnds
    <3>4. QED
      BY <3>1, <3>2, <3>3
  <2>6. DaysToYear(y + 1) = DaysToYear(y) + YearDays(y)
    BY <1>2, YearLength
  <2>7. n + 1 = DaysToYear(y + 1) + DaysInto(y + 1, 1) + 1 - 1
    BY <1>6, <1>9, <2>1, <2>5, <2>6
  <2>8. 1 \in Nat \ {0} /\ 1 <= Length(y + 1, 1) /\ 1 \in 1 .. 12
    <3>1. 1 \in 1 .. 12
      OBVIOUS
    <3>2. Length(y + 1, 1) \in 28 .. 31
      BY <2>4, <3>1, MonthLength
    <3>3. QED
      BY <3>1, <3>2
  <2>9. QED
    <3>1. Dated(y + 1, 1, 1, n')
      BY <1>4, <2>4, <2>7, <2>8 DEF Dated
    <3>2. QED
      BY <2>3, <2>4, <3>1 DEF DateOK
<1>12. QED
  BY <1>8, <1>10, <1>11

\* The conversions agree with it.
LEMMA Converted ==
  ASSUME DateOK
  PROVE  DatesAgree
<1>1. PICK y \in Nat, m \in 1 .. 12, d \in Nat \ {0} :
        date = [year |-> y, month |-> m, day |-> d] /\ Dated(y, m, d, n)
  BY DEF DateOK
<1> DEFINE t == DaysInto(y, m) + d - 1
<1>2. y \in Nat /\ y >= 1970 /\ m \in 1 .. 12 /\ d \in Nat \ {0} /\ d <= Length(y, m)
  BY <1>1 DEF Dated
<1>3. n = DaysToYear(y) + DaysInto(y, m) + d - 1
  BY <1>1 DEF Dated
<1>4. date.year = y /\ date.month = m /\ date.day = d
  BY <1>1
<1>5. Length(y, m) = MonthDays(y, m) /\ MonthDays(y, m) \in 28 .. 31
  BY <1>2, MonthLength
<1>6. DaysToYear(y) \in Int /\ DaysInto(y, m) \in Nat /\ YearDays(y) \in {365, 366}
  <2>1. DaysToYear(y) \in Int /\ YearDays(y) \in {365, 366}
    BY YearLength
  <2>2. m \in Nat /\ 1 <= m /\ m <= 12
    OBVIOUS
  <2>3. DaysInto(y, m) \in Nat
    BY <2>2, MonthStarts, Zenon
  <2>4. QED
    BY <2>1, <2>3
<1>7. t \in Nat /\ DaysInto(y, m) <= t /\ t < DaysInto(y, m) + MonthDays(y, m)
      /\ t - DaysInto(y, m) = d - 1 /\ n = DaysToYear(y) + t /\ n - DaysToYear(y) = t
  BY <1>2, <1>3, <1>5, <1>6
<1>8. t < YearDays(y)
  <2> DEFINE S == {k \in 0 .. 12 - m : DaysInto(y, m) + MonthDays(y, m) <= DaysInto(y, m + 1 + k)}
  <2>1. DaysInto(y, m + 1) = DaysInto(y, m) + MonthDays(y, m)
    BY <1>2, MonthStarts
  <2>2. 0 \in S
    <3>1. (m + 1) + 0 = m + 1 /\ 0 \in 0 .. 12 - m
      BY <1>2
    <3>2. DaysInto(y, m + 1) <= DaysInto(y, m + 1)
      BY <1>5, <1>6, <2>1
    <3>3. QED
      BY <2>1, <3>1, <3>2
  <2>3. \A k \in 0 .. 12 - m - 1 : k \in S => k + 1 \in S
    <3> TAKE k \in 0 .. 12 - m - 1
    <3> HAVE k \in S
    <3> DEFINE i == m + 1 + k
    <3>1. i \in Nat /\ 1 <= i /\ i <= 12 /\ i \in 1 .. 12 /\ i + 1 = m + 1 + (k + 1) /\ k + 1 \in 0 .. 12 - m /\ i \in 1 .. 13
      BY <1>2
    <3>2. DaysInto(y, m) + MonthDays(y, m) <= DaysInto(y, i)
      OBVIOUS
    <3> HIDE DEF i
    <3>3. DaysInto(y, i + 1) = DaysInto(y, i) + MonthDays(y, i) /\ DaysInto(y, i) \in Nat
      BY <3>1, MonthStarts, Zenon
    <3>4. MonthDays(y, i) \in 28 .. 31
      BY <1>2, <3>1, MonthLength
    <3>5. DaysInto(y, m) + MonthDays(y, m) <= DaysInto(y, i + 1)
      BY <1>5, <1>6, <3>2, <3>3, <3>4
    <3>6. QED
      BY <3>1, <3>5
  <2> HIDE DEF S
  <2>4. 12 - m \in S
    <3>1. 12 - m \in Nat
      BY <1>2
    <3>2. 0 .. 12 - m \subseteq S
      BY <2>2, <2>3, <3>1, UpTo
    <3>3. QED
      BY <3>1, <3>2
  <2>5. m + 1 + (12 - m) = 13
    BY <1>2
  <2>6. DaysInto(y, m) + MonthDays(y, m) <= DaysInto(y, 13)
    BY <2>4, <2>5 DEF S
  <2>7. DaysInto(y, 13) = YearDays(y)
    BY <1>2, YearEnds
  <2>8. QED
    BY <1>5, <1>6, <1>7, <2>6, <2>7
<1> HIDE DEF t
<1>9. DateOfDays
  <2>1. n \in Int /\ DaysToYear(y) <= n /\ n < DaysToYear(y) + YearDays(y)
    BY <1>6, <1>7, <1>8
  <2>2. YearLoop[<<1970, n>>] = <<y, t>>
    BY <1>2, <1>7, <2>1, YearFound
  <2>3. MonthLoop(y)[<<1, t>>] = <<m, d - 1>>
    <3>1. MonthLoop(y)[<<1, t>>] = <<m, t - DaysInto(y, m)>>
      BY <1>7, MonthFound, Zenon
    <3>2. QED
      BY <1>7, <3>1, Zenon
  <2>4. timestamp_to_time_t(n) = [year |-> y, month |-> m, day |-> (d - 1) + 1]
    BY <2>2, <2>3, Loops
  <2>5. (d - 1) + 1 = d
    BY <1>2
  <2>6. QED
    BY <1>1, <2>4, <2>5 DEF DateOfDays
<1>10. DaysOfDate
  <2> SUFFICES ASSUME ~ InLeapFebruary
               PROVE  time_t_to_timestamp(date) = n
    BY DEF DaysOfDate
  <2>1. ~ (m = 2 /\ leap_year(y))
    BY <1>4 DEF InLeapFebruary
  <2>2. YearsBefore(y) = DaysToYear(y) /\ MonthsBefore(m) = DaysToMonth[m]
    BY <1>2, YearsSummed, MonthsSummed
  <2>3. DaysToMonth[m] + LeapDay(date) = DaysInto(y, m) /\ DaysToMonth[m] \in Nat /\ LeapDay(date) \in {0, 1}
    <3>1. \A i \in 1 .. 12 : DaysToMonth[i] \in Nat
      BY SMT DEF DaysToMonth
    <3>2. m >= 2 <=> m = 2 \/ m >= 3
      BY <1>2
    <3>3. LeapDay(date) = IF m >= 3 /\ leap_year(y) THEN 1 ELSE 0
      BY <1>4, <2>1, <3>2, Zenon DEF LeapDay
    <3>4. QED
      BY <1>2, <3>1, <3>3 DEF DaysInto
  <2>4. time_t_to_timestamp(date) = DaysToYear(y) + DaysToMonth[m] + LeapDay(date) + d - 1
    BY <1>4, <2>2 DEF time_t_to_timestamp
  <2>5. QED
    BY <1>2, <1>3, <1>6, <2>3, <2>4
<1>11. QED
  BY <1>9, <1>10 DEF DatesAgree

\* The code's date of every day is the calendar's, and the day of every date but
\* for February of leap years, in whatever year the walk ends (time.c 37-119).
THEOREM DatesConvert == ArithmeticSpec => []DatesAgree
<1>1. ArithmeticInit => DateOK
  <2> SUFFICES ASSUME ArithmeticInit
               PROVE  DateOK
    OBVIOUS
  <2>1. date = [year |-> 1970, month |-> 1, day |-> 1] /\ n = 0
    BY DEF ArithmeticInit, Init, Epoch
  <2>2. 1970 \in Nat /\ 1970 >= 1970 /\ 1 \in 1 .. 12 /\ 1 \in Nat \ {0}
    OBVIOUS
  <2>3. 1 <= Length(1970, 1)
    <3>1. Length(1970, 1) \in 28 .. 31
      BY <2>2, MonthLength
    <3>2. QED
      BY <3>1
  <2>4. DaysToYear(1970) = 0 /\ DaysInto(1970, 1) = 0
    <3>1. DaysToYear(1970) = 0
      BY SMT DEF DaysToYear
    <3>2. QED
      BY <2>2, <3>1, YearEnds
  <2>5. n = DaysToYear(1970) + DaysInto(1970, 1) + 1 - 1
    BY <2>1, <2>4
  <2>6. QED
    <3>1. Dated(1970, 1, 1, n)
      BY <2>2, <2>3, <2>5 DEF Dated
    <3>2. QED
      BY <2>1, <3>1 DEF DateOK
<1>2. DateOK /\ [ArithmeticNext]_<<vars, count, volume>> => DateOK'
  <2> SUFFICES ASSUME DateOK, [ArithmeticNext]_<<vars, count, volume>>
               PROVE  DateOK'
    OBVIOUS
  <2>1. CASE NextDay
    BY <2>1, NextDate
  <2>2. CASE UNCHANGED vars
    BY <2>2 DEF vars, DateOK
  <2>3. QED
    BY <2>1, <2>2 DEF ArithmeticNext, Day, Format, Mount
<1>3. DateOK => DatesAgree
  BY Converted
<1>4. QED
  BY <1>1, <1>2, <1>3, PTL DEF ArithmeticSpec
=============================================================================
