-------------------------- MODULE PartitionsProofs --------------------------
(***************************************************************************)
(* Partitions for any drives, sectors and sizes: what the disk tools leave *)
(* in the partition tables.                                                *)
(***************************************************************************)
EXTENDS Partitions, TLAPS

\* The inductive invariant: the tables are well formed and signed, as they read
\* and on the media.
PInv == /\ mbr \in [Drives -> Table] /\ medium \in [Drives -> Table]
        /\ TableBehindSignature

USE PartitionsAssumption

-----------------------------------------------------------------------------
\* What users type for first sectors and sizes are numbers.
LEMMA NumbersTyped == /\ \A x \in Starts \cup {0} : x \in Nat
                      /\ \A x \in Counts \cup {0} : x \in Nat
  OBVIOUS

\* A table in which every slot is empty is a table.
LEMMA NoTableIsTable == NoTable \in [0 .. 3 -> Entry]
  BY DEF NoTable, Empty, Entry

\* Replacing one drive's record by a well-formed, signed one keeps the rest.
LEMMA OneRecordStep ==
  ASSUME PInv, NEW d \in Drives, NEW e \in Table, e.signature,
         mbr' = [mbr EXCEPT ![d] = e], UNCHANGED medium
  PROVE  PInv'
<1>1. mbr' \in [Drives -> Table] /\ medium' \in [Drives -> Table]
  BY DEF PInv
<1>2. TableBehindSignature'
  BY DEF PInv, TableBehindSignature
<1>3. QED
  BY <1>1, <1>2 DEF PInv

\* fdisk init signs the drive and empties its table.
LEMMA InitMbrStep ==
  ASSUME PInv, NEW d \in Drives, InitMbr(d)
  PROVE  PInv'
<1> DEFINE e == [signature |-> TRUE, slots |-> NoTable]
<1>1. e \in Table /\ e.signature
  BY NoTableIsTable DEF Table
<1>2. mbr' = [mbr EXCEPT ![d] = e] /\ UNCHANGED medium
  BY DEF InitMbr
<1> HIDE DEF e
<1>3. QED
  BY <1>1, <1>2, OneRecordStep

\* fdisk create changes one entry, and only where there is a signature.
LEMMA CreateStep ==
  ASSUME PInv, NEW d \in Drives, NEW slot \in Slots, NEW start \in Starts,
         NEW count \in Counts, Create(d, slot, start, count)
  PROVE  PInv'
<1> DEFINE n == [type |-> 6, start |-> start, count |-> count]
           e == [mbr[d] EXCEPT !.slots[slot] = n]
<1>1. mbr[d] \in Table /\ mbr[d].signature /\ slot \in 0 .. 3
  <2>1. mbr[d] \in Table
    BY DEF PInv
  <2>2. slot <= 3 /\ mbr[d].signature
    BY DEF Create, Detected
  <2>3. slot \in 0 .. 255
    OBVIOUS
  <2>4. QED
    BY <2>1, <2>2, <2>3
<1>2. n \in Entry
  BY DEF Entry
<1>3. e \in Table /\ e.signature
  BY <1>1, <1>2 DEF Table
<1>4. mbr' = [mbr EXCEPT ![d] = e] /\ UNCHANGED medium
  BY DEF Create
<1> HIDE DEF n, e
<1>5. QED
  BY <1>3, <1>4, OneRecordStep

\* A format either leaves the tables alone or, at sector 0, empties one.
LEMMA WriteSectorStep ==
  ASSUME PInv, WriteSector
  PROVE  PInv'
<1> DEFINE e == [signature |-> TRUE, slots |-> NoTable]
           d == job.name.drive
<1>1. e \in Table /\ e.signature
  BY NoTableIsTable DEF Table
<1>2. (mbr' = [mbr EXCEPT ![d] = e] \/ UNCHANGED mbr) /\ UNCHANGED medium
  BY DEF WriteSector
<1> HIDE DEF e, d
<1>3. CASE UNCHANGED mbr
  BY <1>2, <1>3 DEF PInv, TableBehindSignature
<1>4. CASE mbr' = [mbr EXCEPT ![d] = e] /\ d \in Drives
  BY <1>1, <1>2, <1>4, OneRecordStep
<1>5. CASE mbr' = [mbr EXCEPT ![d] = e] /\ d \notin Drives
  <2>1. mbr' = mbr
    BY <1>5 DEF PInv
  <2>2. QED
    BY <1>2, <2>1 DEF PInv, TableBehindSignature
<1>6. QED
  BY <1>2, <1>3, <1>4, <1>5

\* What a drive puts on its medium is a table, and signed if it has entries.
LEMMA WriteBackStep ==
  ASSUME PInv, NEW d \in Drives, WriteBack(d)
  PROVE  PInv'
<1>1. medium' = [medium EXCEPT ![d] = mbr[d]] /\ UNCHANGED mbr
  BY DEF WriteBack
<1>2. medium' \in [Drives -> Table]
  BY <1>1 DEF PInv
<1>3. \A c \in Drives : medium'[c].slots # NoTable => medium'[c].signature
  BY <1>1 DEF PInv, TableBehindSignature
<1>4. QED
  BY <1>1, <1>2, <1>3 DEF PInv, TableBehindSignature

\* Every command, and a power failure, preserves the invariant.
LEMMA NextPInv == PInv /\ [Next]_vars => PInv'
<1> SUFFICES ASSUME PInv, [Next]_vars PROVE PInv'
  OBVIOUS
<1>1. ASSUME NEW fs \in Filesystems, NEW name \in Names, Mkfs(fs, name) PROVE PInv'
  BY <1>1 DEF Mkfs, PInv, TableBehindSignature
<1>2. CASE PowerFails
  BY <1>2 DEF PowerFails, PInv, TableBehindSignature
<1>3. CASE UNCHANGED vars
  BY <1>3 DEF vars, PInv, TableBehindSignature
<1>4. QED
  BY <1>1, <1>2, <1>3, InitMbrStep, CreateStep, WriteSectorStep, WriteBackStep DEF Next

\* No table is signed before fdisk init, and none has entries.
LEMMA InitPInv == Init => PInv
  BY NoTableIsTable DEF Init, PInv, TableBehindSignature, Table

-----------------------------------------------------------------------------
\* Whatever is typed, whenever the drives empty their caches and wherever the
\* power fails, a drive without the signature of a master boot record has no
\* partitions, as it reads and on its medium.
THEOREM SignedTables == Spec => []TableBehindSignature
<1>1. PInv => TableBehindSignature
  BY DEF PInv
<1>2. QED
  BY <1>1, InitPInv, NextPInv, PTL DEF Spec

-----------------------------------------------------------------------------
(* The sectors of a format *)

Labels == {"boot", "superblock", "group", "block bitmap", "inode bitmap", "inodes", "root"}
Writing == Nat \X Labels

\* A span of sectors is a sequence of writings.
LEMMA SpanType ==
  ASSUME NEW first \in Nat, NEW n \in Nat, NEW what \in Labels
  PROVE  Span(first, n, what) \in Seq(Writing)
<1>1. \A k \in 1 .. n : <<first + k - 1, what>> \in Writing
  BY DEF Writing
<1>2. Span(first, n, what) \in [1 .. n -> Writing]
  BY <1>1 DEF Span
<1>3. QED
  BY <1>2

\* Two sequences of writings make one.
LEMMA ConcatType ==
  ASSUME NEW s \in Seq(Writing), NEW t \in Seq(Writing)
  PROVE  s \o t \in Seq(Writing)
  OBVIOUS

\* The sectors of an ext2 format are numbered from the partition's start.
LEMMA Ext2WritesType ==
  ASSUME NEW count \in Nat
  PROVE  Ext2Writes(count) \in Seq(Writing)
<1> DEFINE inodes    == 8 * (((count * 512) \div 8192 + 7) \div 8)
           table     == ((IF inodes < 8192 THEN inodes ELSE 8192) * 128 + 1023) \div 1024
           metadata  == 5 + table
           tableSize == 2 * (IF table > 1 THEN table ELSE 1)
<1>1. inodes \in Nat
  OBVIOUS
<1>2. table \in Nat
  BY <1>1
<1>3. 2 * metadata \in Nat /\ tableSize \in Nat
  BY <1>2
<1> DEFINE a == Span(4, 2, "group")
           b == Span(6, 2, "block bitmap")
           c == Span(8, 2, "inode bitmap")
           d == Span(2 * metadata, tableSize, "inodes")
           e == Span(2 * metadata, 2, "root")
           f == Span(2, 2, "superblock")
<1>4. Ext2Writes(count) = a \o b \o c \o d \o e \o f
  BY DEF Ext2Writes
<1> HIDE DEF metadata, tableSize
<1>5. a \in Seq(Writing) /\ b \in Seq(Writing) /\ c \in Seq(Writing)
  BY SpanType DEF Labels
<1>6. d \in Seq(Writing) /\ e \in Seq(Writing) /\ f \in Seq(Writing)
  BY <1>3, SpanType DEF Labels
<1> HIDE DEF a, b, c, d, e, f
<1>7. a \o b \o c \in Seq(Writing)
  BY <1>5, ConcatType
<1>8. a \o b \o c \o d \o e \in Seq(Writing)
  BY <1>6, <1>7, ConcatType
<1>9. QED
  BY <1>4, <1>6, <1>8, ConcatType

\* One or two writings make a sequence.
LEMMA ShortType ==
  ASSUME NEW x \in Writing, NEW y \in Writing
  PROVE  <<x>> \in Seq(Writing) /\ <<x, y>> \in Seq(Writing)
  OBVIOUS

\* So are those of any format.
LEMMA WritesType ==
  ASSUME NEW fs \in Filesystems, NEW count \in Nat
  PROVE  Writes(fs, count) \in Seq(Writing)
<1>1. Fat16Writes \in Seq(Writing)
  <2> DEFINE x == <<0, "boot">>
  <2>1. x \in Writing
    BY DEF Writing, Labels
  <2>2. Fat16Writes = <<x>>
    BY DEF Fat16Writes
  <2> HIDE DEF x
  <2>3. QED
    BY <2>1, <2>2, ShortType
<1>2. EosfsWrites \in Seq(Writing)
  <2> DEFINE x == <<1, "superblock">>
             y == <<2, "group">>
  <2>1. x \in Writing /\ y \in Writing
    BY DEF Writing, Labels
  <2>2. EosfsWrites = <<x, y>>
    BY DEF EosfsWrites
  <2> HIDE DEF x, y
  <2>3. QED
    BY <2>1, <2>2, ShortType
<1>3. QED
  BY <1>1, <1>2, Ext2WritesType DEF Writes

-----------------------------------------------------------------------------
(* A format and the table it was started from *)

Blanked == [signature |-> TRUE, slots |-> NoTable]

\* While a format has sectors to write, its partition is of a drive that is
\* there.  If it begins at sector 0, it is still in the table, or the format
\* has blanked the table already.
JobInv ==
  /\ todo \in Seq(Writing)
  /\ wrote \subseteq Writing
  /\ job.fs \in Filesystems \cup {"none"}
  /\ todo # <<>> =>
       /\ job.name.drive \in Drives
       /\ job.entry \in Entry
       /\ job.entry.start = 0 => \/ /\ mbr[job.name.drive].slots[0] = job.entry
                                    /\ job.entry.type # 0
                                 \/ mbr[job.name.drive] = Blanked

FInv == PInv /\ JobInv

\* mkfs begins with a partition from the table.
LEMMA MkfsStep ==
  ASSUME FInv, NEW fs \in Filesystems, NEW name \in Names, Mkfs(fs, name)
  PROVE  JobInv'
<1> DEFINE e == mbr[name.drive].slots[0]
<1>1. name.drive \in Drives
  BY DEF Names
<1>2. e \in Entry /\ e.count \in Nat
  <2>1. mbr[name.drive].slots \in [0 .. 3 -> Entry]
    BY <1>1 DEF FInv, PInv, Table
  <2>2. e \in Entry
    BY <2>1
  <2> HIDE DEF e
  <2>3. e.count \in Counts \cup {0}
    BY <2>2 DEF Entry
  <2>4. QED
    BY <2>2, <2>3, NumbersTyped
<1>3. todo' = Writes(fs, e.count) /\ UNCHANGED mbr /\ wrote' = {} /\ e.type # 0
  BY DEF Mkfs, str_partid
<1>4. job'.fs = fs /\ job'.name = name /\ job'.entry = e
  BY DEF Mkfs, str_partid
<1>5. todo' \in Seq(Writing)
  BY <1>2, <1>3, WritesType
<1> HIDE DEF e
<1>6. job'.entry.start = 0 => mbr'[job'.name.drive].slots[0] = job'.entry /\ job'.entry.type # 0
  BY <1>3, <1>4 DEF e
<1>7. QED
  BY <1>1, <1>2, <1>3, <1>4, <1>5, <1>6 DEF JobInv

\* The first sector still to be written has a number.
LEMMA HeadFacts ==
  ASSUME NEW s \in Seq(Writing), s # <<>>
  PROVE  Head(s) \in Writing /\ Head(s)[1] \in Nat /\ Tail(s) \in Seq(Writing)
<1>1. Head(s) \in Writing /\ Tail(s) \in Seq(Writing)
  OBVIOUS
<1>2. QED
  BY <1>1 DEF Writing

\* Writing one of its sectors keeps a format tied to the table.
LEMMA WriteSectorJob ==
  ASSUME FInv, WriteSector
  PROVE  JobInv'
<1> DEFINE d == job.name.drive
<1>1. todo # <<>> /\ todo' = Tail(todo) /\ wrote' = wrote \cup {Head(todo)} /\ UNCHANGED job
  BY DEF WriteSector
<1>2. d \in Drives /\ job.entry \in Entry
  BY <1>1 DEF FInv, JobInv
<1>3. todo' \in Seq(Writing) /\ wrote' \subseteq Writing
  BY <1>1, HeadFacts DEF FInv, JobInv
<1>4. mbr' = [mbr EXCEPT ![d] = Blanked] \/ UNCHANGED mbr
  BY DEF WriteSector, Blanked
<1>5. job.entry.start = 0 => \/ mbr'[d].slots[0] = job.entry /\ job.entry.type # 0
                             \/ mbr'[d] = Blanked
  BY <1>1, <1>2, <1>4 DEF FInv, JobInv, PInv
<1>6. QED
  BY <1>1, <1>2, <1>3, <1>5 DEF FInv, JobInv

\* No step loses the tie between a format and its table.
LEMMA NextFInv == FInv /\ [Next]_vars => FInv'
<1> SUFFICES ASSUME FInv, [Next]_vars PROVE FInv'
  OBVIOUS
<1>1. PInv'
  BY NextPInv DEF FInv
<1>2. ASSUME NEW d \in Drives, InitMbr(d) PROVE JobInv'
  BY <1>2 DEF InitMbr, FInv, JobInv
<1>3. ASSUME NEW d \in Drives, NEW slot \in Slots, NEW start \in Starts, NEW count \in Counts,
             Create(d, slot, start, count)
      PROVE  JobInv'
  BY <1>3 DEF Create, FInv, JobInv
<1>4. ASSUME PowerFails PROVE JobInv'
  <2>1. todo' = <<>> /\ UNCHANGED <<job, wrote>>
    BY <1>4 DEF PowerFails
  <2>2. QED
    BY <2>1 DEF FInv, JobInv
<1>5. ASSUME NEW d \in Drives, WriteBack(d) PROVE JobInv'
  BY <1>5 DEF WriteBack, FInv, JobInv
<1>6. ASSUME UNCHANGED vars PROVE JobInv'
  BY <1>6 DEF vars, FInv, JobInv
<1>7. JobInv'
  <2>1. CASE Next
    BY <1>2, <1>3, <1>4, <1>5, <2>1, MkfsStep, WriteSectorJob DEF Next
  <2>2. QED
    BY <1>6, <2>1
<1>8. QED
  BY <1>1, <1>7 DEF FInv

\* There is no format at first.
LEMMA InitFInv == Init => FInv
  BY InitPInv DEF Init, FInv, JobInv, NoJob

\* In every state a format in progress is tied to its table.
THEOREM PartitionsInvariance == Spec => []FInv
  BY InitFInv, NextFInv, PTL DEF Spec

-----------------------------------------------------------------------------
\* The variables of the disk tools keep their types, for all inputs.
THEOREM PartitionsTypeCorrect == Spec => []TypeOK
<1>1. FInv => TypeOK
  <2> SUFFICES ASSUME FInv PROVE TypeOK
    OBVIOUS
  <2>1. \A k \in 1 .. Len(todo) : todo[k][1] \in Nat
    BY DEF FInv, JobInv, Writing
  <2>2. \A w \in wrote : w[1] \in Nat
    BY DEF FInv, JobInv, Writing
  <2>3. QED
    BY <2>1, <2>2 DEF FInv, PInv, JobInv, TypeOK, Table
<1>2. QED
  BY <1>1, PartitionsInvariance, PTL

\* A step that leaves the tables alone changes one entry at most.
LEMMA NoChange ==
  ASSUME PInv, NEW d \in Drives, UNCHANGED mbr
  PROVE  ChangesOneEntry
<1>1. mbr' = [mbr EXCEPT ![d].slots[0] = mbr'[d].slots[0]]
  BY DEF PInv, Table
<1>2. QED
  BY <1>1 DEF ChangesOneEntry

\* A format that writes sector 0 begins there, so either the table says so or
\* it is blank already.
LEMMA WriteSectorKeeps ==
  ASSUME FInv, WriteSector, NoneAtZero
  PROVE  ChangesOneEntry
<1> DEFINE d == job.name.drive
<1>1. todo # <<>>
  BY DEF WriteSector
<1>2. d \in Drives /\ job.entry \in Entry
  BY <1>1 DEF FInv, JobInv
<1>3. Head(todo)[1] \in Nat
  BY <1>1, HeadFacts DEF FInv, JobInv
<1>4. job.entry.start \in Nat
  <2>1. job.entry.start \in Starts \cup {0}
    BY <1>2 DEF Entry
  <2>2. QED
    BY <2>1, NumbersTyped
<1>5. CASE job.entry.start + Head(todo)[1] = 0
  <2>1. job.entry.start = 0
    BY <1>3, <1>4, <1>5
  <2>2. mbr[d] = Blanked
    <3>1. mbr[d].slots[0].type # 0 => mbr[d].slots[0].start # 0
      <4>1. 0 \in 0 .. 3
        OBVIOUS
      <4>2. QED
        BY <1>2, <4>1 DEF NoneAtZero
    <3>2. mbr[d].slots[0] # job.entry \/ job.entry.type = 0
      BY <2>1, <3>1
    <3>3. QED
      BY <1>1, <2>1, <3>2 DEF FInv, JobInv
  <2>3. mbr' = [mbr EXCEPT ![d] = Blanked]
    BY <1>5 DEF WriteSector, Blanked
  <2>4. UNCHANGED mbr
    BY <2>2, <2>3 DEF FInv, PInv
  <2>5. QED
    BY <1>2, <2>4, NoChange DEF FInv
<1>6. CASE job.entry.start + Head(todo)[1] # 0
  <2>1. UNCHANGED mbr
    BY <1>6 DEF WriteSector
  <2>2. QED
    BY <1>2, <2>1, NoChange DEF FInv
<1>7. QED
  BY <1>5, <1>6

\* fdisk create changes the entry it was asked for.
LEMMA CreateKeeps ==
  ASSUME FInv, NEW d \in Drives, NEW slot \in Slots, NEW start \in Starts,
         NEW count \in Counts, Create(d, slot, start, count)
  PROVE  ChangesOneEntry
<1> DEFINE n == [type |-> 6, start |-> start, count |-> count]
<1>1. slot \in 0 .. 3
  <2>1. slot <= 3 /\ slot \in 0 .. 255
    BY DEF Create
  <2>2. QED
    BY <2>1
<1>2. mbr' = [mbr EXCEPT ![d].slots[slot] = n]
  BY DEF Create
<1>3. mbr'[d].slots[slot] = n
  BY <1>1, <1>2 DEF FInv, PInv, Table
<1> HIDE DEF n
<1>4. QED
  BY <1>1, <1>2, <1>3 DEF ChangesOneEntry

\* Apart from fdisk init, no command changes more than one entry of one table, as
\* long as no partition begins at sector 0; a power failure leaves the tables that
\* the media have.
THEOREM OtherPartitionsKept == Spec => KeepsOtherPartitions
<1>1. ASSUME FInv, [Next]_vars
      PROVE  [NoneAtZero => EmptiesTable \/ ChangesOneEntry \/ FallsBack]_vars
  <2> SUFFICES ASSUME Next, NoneAtZero PROVE EmptiesTable \/ ChangesOneEntry \/ FallsBack
    BY <1>1
  <2>1. ASSUME NEW d \in Drives, InitMbr(d) PROVE EmptiesTable
    <3>1. mbr' = [mbr EXCEPT ![d] = Blanked] /\ todo = <<>>
      BY <2>1 DEF InitMbr, Blanked
    <3>2. mbr'[d] = Blanked /\ Blanked.slots = NoTable
      BY <1>1, <3>1 DEF FInv, PInv, Blanked
    <3>3. QED
      BY <3>1, <3>2 DEF EmptiesTable
  <2>2. ASSUME NEW fs \in Filesystems, NEW name \in Names, Mkfs(fs, name) PROVE ChangesOneEntry
    <3>1. name.drive \in Drives /\ UNCHANGED mbr
      BY <2>2 DEF Mkfs, Names
    <3>2. QED
      BY <1>1, <3>1, NoChange DEF FInv
  <2>3. CASE PowerFails
    BY <2>3 DEF PowerFails, FallsBack
  <2>4. ASSUME NEW d \in Drives, WriteBack(d) PROVE ChangesOneEntry
    BY <1>1, <2>4, NoChange DEF WriteBack, FInv
  <2>5. QED
    BY <1>1, <2>1, <2>2, <2>3, <2>4, CreateKeeps, WriteSectorKeeps DEF Next
<1>2. QED
  BY <1>1, PartitionsInvariance, PTL DEF Spec, KeepsOtherPartitions

-----------------------------------------------------------------------------
(* What a format writes *)

Elements(s) == {s[k] : k \in DOMAIN s}

\* A concatenation has the elements of both parts.
LEMMA ConcatElements ==
  ASSUME NEW s \in Seq(Writing), NEW t \in Seq(Writing)
  PROVE  Elements(s \o t) = Elements(s) \cup Elements(t)
<1> DEFINE u == s \o t
<1>1. /\ u \in Seq(Writing) /\ Len(u) = Len(s) + Len(t)
      /\ \A k \in 1 .. Len(s) : u[k] = s[k]
      /\ \A k \in 1 .. Len(t) : u[Len(s) + k] = t[k]
      /\ \A k \in 1 .. Len(u) : k \in 1 .. Len(s) \/ k - Len(s) \in 1 .. Len(t)
  OBVIOUS
<1>2. /\ DOMAIN u = 1 .. Len(u) /\ DOMAIN s = 1 .. Len(s) /\ DOMAIN t = 1 .. Len(t)
      /\ Len(s) \in Nat /\ Len(t) \in Nat
  BY <1>1
<1> HIDE DEF u
<1>3. ASSUME NEW k \in DOMAIN u PROVE u[k] \in Elements(s) \cup Elements(t)
  <2>1. CASE k \in 1 .. Len(s)
    BY <1>1, <1>2, <2>1 DEF Elements
  <2>2. CASE k - Len(s) \in 1 .. Len(t)
    <3>1. u[k] = t[k - Len(s)]
      <4>1. Len(s) + (k - Len(s)) = k
        BY <1>2
      <4>2. QED
        BY <1>1, <2>2, <4>1
    <3>2. QED
      BY <1>2, <2>2, <3>1 DEF Elements
  <2>3. QED
    BY <1>1, <1>2, <1>3, <2>1, <2>2
<1>4. ASSUME NEW k \in DOMAIN s PROVE s[k] \in Elements(u)
  <2>1. k \in 1 .. Len(u)
    BY <1>1, <1>2
  <2>2. QED
    BY <1>1, <1>2, <2>1 DEF Elements
<1>5. ASSUME NEW k \in DOMAIN t PROVE t[k] \in Elements(u)
  <2>1. Len(s) + k \in 1 .. Len(u)
    BY <1>1, <1>2
  <2>2. QED
    BY <1>1, <1>2, <2>1 DEF Elements
<1>6. QED
  BY <1>3, <1>4, <1>5 DEF Elements, u

\* The sectors of a span lie between its ends.
LEMMA SpanElements ==
  ASSUME NEW first \in Nat, NEW n \in Nat, NEW what
  PROVE  \A w \in Elements(Span(first, n, what)) :
           w[1] \in Nat /\ w[1] >= first /\ w[1] < first + n /\ w[2] = what
  BY DEF Elements, Span

\* The parts of an ext2 format.
Metadata(count) ==
  LET inodes == 8 * (((count * 512) \div 8192 + 7) \div 8)
  IN 5 + ((IF inodes < 8192 THEN inodes ELSE 8192) * 128 + 1023) \div 1024

TableSectors(count) ==
  LET table == Metadata(count) - 5 IN 2 * (IF table > 1 THEN table ELSE 1)

BeforeSuperblock(count) ==
  Span(4, 2, "group") \o Span(6, 2, "block bitmap") \o Span(8, 2, "inode bitmap")
    \o Span(2 * Metadata(count), TableSectors(count), "inodes")
    \o Span(2 * Metadata(count), 2, "root")

\* The inode table is written where the root directory goes, and both end inside
\* a partition of twelve sectors or more.
LEMMA Ext2Room ==
  ASSUME NEW count \in Nat
  PROVE  /\ Metadata(count) \in Nat /\ Metadata(count) >= 5 /\ TableSectors(count) \in Nat
         /\ TableSectors(count) >= 2
         /\ count >= 12 => 2 * Metadata(count) + TableSectors(count) <= count
<1> DEFINE inodes == 8 * (((count * 512) \div 8192 + 7) \div 8)
           table  == ((IF inodes < 8192 THEN inodes ELSE 8192) * 128 + 1023) \div 1024
<1>1. (count * 512) \div 8192 = count \div 16
  BY SMT
<1>2. PICK k \in Nat : inodes = 8 * k /\ k = (count \div 16 + 7) \div 8
  BY <1>1, SMT
<1>3. table \in 0 .. k /\ (k >= 1 => table >= 1)
  BY <1>2, SMT
<1>4. Metadata(count) = 5 + table
  BY DEF Metadata
<1> HIDE DEF inodes, table
<1>5. TableSectors(count) = 2 * (IF table > 1 THEN table ELSE 1)
  BY <1>3, <1>4, SMT DEF TableSectors
<1>6. count >= 12 => 2 * (5 + table) + TableSectors(count) <= count
  BY <1>2, <1>3, <1>5, SMT
<1>7. QED
  BY <1>3, <1>4, <1>5, <1>6, SMT

\* An ext2 format is what comes before the superblock, and the superblock.
LEMMA Ext2Parts ==
  ASSUME NEW count \in Nat
  PROVE  /\ Ext2Writes(count) = BeforeSuperblock(count) \o Span(2, 2, "superblock")
         /\ BeforeSuperblock(count) \in Seq(Writing)
         /\ \A w \in Elements(BeforeSuperblock(count)) :
              w[1] < 10 \/ w[1] < 2 * Metadata(count) + TableSectors(count)
<1> DEFINE m == Metadata(count)
           t == TableSectors(count)
           a == Span(4, 2, "group")
           b == Span(6, 2, "block bitmap")
           c == Span(8, 2, "inode bitmap")
           d == Span(2 * m, t, "inodes")
           e == Span(2 * m, 2, "root")
<1>1. m \in Nat /\ t \in Nat /\ t >= 2 /\ 2 * m \in Nat
  BY Ext2Room, SMT
<1>2. Ext2Writes(count) = BeforeSuperblock(count) \o Span(2, 2, "superblock")
  <2> DEFINE inodes == 8 * (((count * 512) \div 8192 + 7) \div 8)
             table  == ((IF inodes < 8192 THEN inodes ELSE 8192) * 128 + 1023) \div 1024
  <2>1. Metadata(count) = 5 + table /\ TableSectors(count) = 2 * (IF table > 1 THEN table ELSE 1)
    <3>1. Metadata(count) = 5 + table
      BY DEF Metadata
    <3>2. inodes \in Nat
      BY SMT
    <3>3. table \in Nat
      BY <3>2, SMT
    <3>4. (5 + table) - 5 = table
      BY <3>3, SMT
    <3> HIDE DEF table
    <3>5. Metadata(count) - 5 = table
      BY <3>1, <3>4
    <3>6. QED
      BY <3>1, <3>5 DEF TableSectors
  <2>2. QED
    BY <2>1 DEF Ext2Writes, BeforeSuperblock
<1>3. BeforeSuperblock(count) = a \o b \o c \o d \o e
  BY DEF BeforeSuperblock
<1> HIDE DEF m, t
<1>4. a \in Seq(Writing) /\ b \in Seq(Writing) /\ c \in Seq(Writing)
  BY SpanType DEF Labels
<1>5. d \in Seq(Writing) /\ e \in Seq(Writing)
  BY <1>1, SpanType DEF Labels
<1>6. \A w \in Elements(a) \cup Elements(b) \cup Elements(c) : w[1] < 10
  <2>1. ASSUME NEW first \in {4, 6, 8}, NEW what
        PROVE  \A w \in Elements(Span(first, 2, what)) : w[1] < 10
    <3>1. first \in Nat /\ 2 \in Nat /\ first + 2 <= 10
      OBVIOUS
    <3>2. \A w \in Elements(Span(first, 2, what)) :
            w[1] \in Nat /\ w[1] >= first /\ w[1] < first + 2 /\ w[2] = what
      BY <3>1, SpanElements
    <3>3. QED
      BY <3>1, <3>2
  <2>2. 4 \in {4, 6, 8} /\ 6 \in {4, 6, 8} /\ 8 \in {4, 6, 8}
    OBVIOUS
  <2>3. /\ \A w \in Elements(a) : w[1] < 10
        /\ \A w \in Elements(b) : w[1] < 10
        /\ \A w \in Elements(c) : w[1] < 10
    BY <2>1, <2>2, Zenon
  <2> HIDE DEF a, b, c
  <2>4. QED
    BY <2>3, ZenonT(30)
<1>7. \A w \in Elements(d) \cup Elements(e) : w[1] < 2 * m + t
  <2>0. 2 \in Nat
    OBVIOUS
  <2>1. \A w \in Elements(d) : w[1] \in Nat /\ w[1] >= 2 * m /\ w[1] < 2 * m + t /\ w[2] = "inodes"
    BY <1>1, SpanElements
  <2>2. \A w \in Elements(e) : w[1] \in Nat /\ w[1] >= 2 * m /\ w[1] < 2 * m + 2 /\ w[2] = "root"
    BY <1>1, <2>0, SpanElements
  <2> HIDE DEF d, e
  <2>3. QED
    BY <1>1, <2>1, <2>2
<1> HIDE DEF a, b, c, d, e
<1>8. /\ a \o b \in Seq(Writing) /\ Elements(a \o b) = Elements(a) \cup Elements(b)
  BY <1>4, ConcatType, ConcatElements
<1>9. /\ a \o b \o c \in Seq(Writing)
      /\ Elements(a \o b \o c) = Elements(a) \cup Elements(b) \cup Elements(c)
  BY <1>4, <1>8, ConcatType, ConcatElements
<1>10. /\ a \o b \o c \o d \in Seq(Writing)
       /\ Elements(a \o b \o c \o d) = Elements(a) \cup Elements(b) \cup Elements(c) \cup Elements(d)
  BY <1>5, <1>9, ConcatType, ConcatElements
<1>11. /\ a \o b \o c \o d \o e \in Seq(Writing)
       /\ Elements(a \o b \o c \o d \o e)
            = Elements(a) \cup Elements(b) \cup Elements(c) \cup Elements(d) \cup Elements(e)
  BY <1>5, <1>10, ConcatType, ConcatElements
<1>12. QED
  BY <1>2, <1>3, <1>6, <1>7, <1>11 DEF m, t

\* A format has handed over and has still to write sectors of its plan, and while
\* it is under way all of the plan is one or the other.
PlanInv ==
  /\ todo # <<>> => job.fs # "none"
  /\ job.fs # "none" =>
       /\ job.entry.count \in Nat
       /\ wrote \cup Elements(todo) \subseteq Elements(Writes(job.fs, job.entry.count))
       /\ todo # <<>> => wrote \cup Elements(todo) = Elements(Writes(job.fs, job.entry.count))

\* Every sector of a format lies inside a partition that has room for one.
LEMMA WritesInside ==
  ASSUME NEW fs \in Filesystems, NEW count \in Nat, count >= Room(fs)
  PROVE  \A w \in Elements(Writes(fs, count)) : w[1] < count
<1>1. CASE fs = "fat16"
  <2>1. Writes(fs, count) = << <<0, "boot">> >> /\ count >= 1
    BY <1>1 DEF Writes, Fat16Writes, Room
  <2>2. \A w \in Elements(<< <<0, "boot">> >>) : w[1] = 0
    BY DEF Elements
  <2>3. QED
    BY <2>1, <2>2
<1>2. CASE fs = "eosfs"
  <2>1. Writes(fs, count) = EosfsWrites /\ count >= 3
    BY <1>2 DEF Writes, Room
  <2>2. \A w \in Elements(EosfsWrites) : w[1] \in {1, 2}
    BY DEF Elements, EosfsWrites
  <2>3. QED
    BY <2>1, <2>2
<1>3. CASE fs = "ext2"
  <2> DEFINE s == BeforeSuperblock(count)
             t == Span(2, 2, "superblock")
             m == 2 * Metadata(count) + TableSectors(count)
  <2>1. Writes(fs, count) = Ext2Writes(count) /\ count >= 12
    BY <1>3 DEF Writes, Room
  <2>2. Ext2Writes(count) = s \o t /\ s \in Seq(Writing)
    BY Ext2Parts
  <2>3. t \in Seq(Writing)
    BY SpanType DEF Labels
  <2>4. \A w \in Elements(t) : w[1] \in Nat /\ w[1] < 4
    BY SpanElements
  <2>5. \A w \in Elements(s) : w[1] < 10 \/ w[1] < m
    BY Ext2Parts
  <2>6. m <= count /\ m \in Nat
    BY <2>1, Ext2Room
  <2>7. \A w \in Elements(s) : w \in Writing
    BY <2>2 DEF Elements
  <2>8. Elements(s \o t) = Elements(s) \cup Elements(t)
    BY <2>2, <2>3, ConcatElements
  <2> HIDE DEF s, t, m
  <2>9. \A w \in Elements(s) : w[1] < count
    BY <2>1, <2>5, <2>6, <2>7 DEF Writing
  <2>10. QED
    BY <2>1, <2>2, <2>4, <2>8, <2>9
<1>4. QED
  BY <1>1, <1>2, <1>3 DEF Filesystems

\* The head of a sequence is its first element, and the tail the others.
LEMMA TailElements ==
  ASSUME NEW s \in Seq(Writing), s # <<>>
  PROVE  Elements(s) = {Head(s)} \cup Elements(Tail(s))
<1>1. /\ Len(s) \in Nat /\ Len(s) >= 1 /\ DOMAIN s = 1 .. Len(s) /\ Head(s) = s[1]
      /\ DOMAIN Tail(s) = 1 .. (Len(s) - 1)
      /\ \A k \in 1 .. (Len(s) - 1) : Tail(s)[k] = s[k + 1]
  OBVIOUS
<1>2. ASSUME NEW k \in DOMAIN s PROVE s[k] \in {Head(s)} \cup Elements(Tail(s))
  <2>1. k = 1 \/ (k - 1 \in DOMAIN Tail(s) /\ Tail(s)[k - 1] = s[k])
    BY <1>1
  <2>2. QED
    BY <1>1, <2>1 DEF Elements
<1>3. ASSUME NEW k \in DOMAIN Tail(s) PROVE Tail(s)[k] \in Elements(s)
  <2>1. k + 1 \in DOMAIN s /\ Tail(s)[k] = s[k + 1]
    BY <1>1
  <2>2. QED
    BY <2>1 DEF Elements
<1>4. Head(s) \in Elements(s)
  BY <1>1 DEF Elements
<1>5. QED
  BY <1>2, <1>3, <1>4 DEF Elements

\* mkfs makes the plan and has it all before it.
LEMMA MkfsPlan ==
  ASSUME FInv, NEW fs \in Filesystems, NEW name \in Names, Mkfs(fs, name)
  PROVE  PlanInv'
<1> DEFINE e == mbr[name.drive].slots[0]
<1>1. /\ todo' = Writes(fs, e.count) /\ wrote' = {}
      /\ job' = [fs |-> fs, name |-> name, entry |-> e]
  BY DEF Mkfs, str_partid
<1>2. e \in Entry
  <2>1. name.drive \in Drives
    BY DEF Names
  <2>2. mbr[name.drive].slots \in [0 .. 3 -> Entry]
    BY <2>1 DEF FInv, PInv, Table
  <2>3. QED
    BY <2>2
<1> HIDE DEF e
<1>3. e.count \in Nat
  <2>1. e.count \in Counts \cup {0}
    BY <1>2 DEF Entry
  <2>2. QED
    BY <2>1, NumbersTyped
<1>4. job'.fs = fs /\ fs # "none" /\ job'.entry.count = e.count
  BY <1>1 DEF Filesystems
<1>5. QED
  BY <1>1, <1>3, <1>4 DEF PlanInv

\* A sector handed over goes from what is to come to what is done.
LEMMA WriteSectorPlan ==
  ASSUME FInv, PlanInv, WriteSector
  PROVE  PlanInv'
<1> DEFINE h == Head(todo)
           r == Tail(todo)
<1>1. /\ todo # <<>> /\ todo \in Seq(Writing) /\ todo' = r /\ wrote' = wrote \cup {h}
      /\ job' = job
  BY DEF WriteSector, FInv, JobInv
<1>2. Elements(todo) = {h} \cup Elements(r)
  BY <1>1, TailElements
<1> HIDE DEF h, r
<1>3. wrote' \cup Elements(todo') = wrote \cup Elements(todo)
  BY <1>1, <1>2
<1>4. QED
  BY <1>1, <1>3 DEF PlanInv

\* fdisk, a drive and a power failure change neither the plan nor what is done.
LEMMA NextPlanInv == FInv /\ PlanInv /\ [Next]_vars => PlanInv'
<1> SUFFICES ASSUME FInv, PlanInv, [Next]_vars PROVE PlanInv'
  OBVIOUS
<1>1. ASSUME todo' = <<>>, UNCHANGED <<job, wrote>> PROVE PlanInv'
  <2>1. Elements(todo') = {}
    BY <1>1 DEF Elements
  <2>2. QED
    BY <1>1, <2>1 DEF PlanInv
<1>2. ASSUME UNCHANGED <<todo, job, wrote>> PROVE PlanInv'
  BY <1>2 DEF PlanInv
<1>3. ASSUME NEW d \in Drives, InitMbr(d) PROVE PlanInv'
  BY <1>2, <1>3 DEF InitMbr
<1>4. ASSUME NEW d \in Drives, NEW slot \in Slots, NEW start \in Starts, NEW count \in Counts,
             Create(d, slot, start, count)
      PROVE  PlanInv'
  BY <1>2, <1>4 DEF Create
<1>5. ASSUME NEW d \in Drives, WriteBack(d) PROVE PlanInv'
  BY <1>2, <1>5 DEF WriteBack
<1>6. ASSUME PowerFails PROVE PlanInv'
  BY <1>1, <1>6 DEF PowerFails
<1>7. CASE UNCHANGED vars
  BY <1>2, <1>7 DEF vars
<1>8. CASE Next
  BY <1>3, <1>4, <1>5, <1>6, <1>8, MkfsPlan, WriteSectorPlan DEF Next
<1>9. QED
  BY <1>7, <1>8

LEMMA InitPlanInv == Init => PlanInv
  BY DEF Init, PlanInv, NoJob

\* A format hands over what it was planned to, and nothing else.
THEOREM FormatsKeepToPlan == Spec => []PlanInv
<1>1. Init => FInv /\ PlanInv
  BY InitFInv, InitPlanInv
<1>2. FInv /\ PlanInv /\ [Next]_vars => (FInv /\ PlanInv)'
  BY NextFInv, NextPlanInv
<1>3. QED
  BY <1>1, <1>2, PTL DEF Spec

\* Whatever is typed, mkfs writes no sector behind the end of its partition, for
\* every size that holds the smallest file system of the kind.
THEOREM FormatsStayInside == Spec => []FormatStaysInside
<1>1. FInv /\ PlanInv => FormatStaysInside
  <2> SUFFICES ASSUME FInv, PlanInv, job.fs # "none", job.entry.count >= Room(job.fs),
                      NEW w \in wrote
               PROVE  w[1] < job.entry.count
    BY DEF FormatStaysInside
  <2>1. job.fs \in Filesystems
    BY DEF FInv, JobInv
  <2>2. /\ job.entry.count \in Nat
        /\ w \in Elements(Writes(job.fs, job.entry.count))
    BY DEF PlanInv
  <2>3. QED
    BY <2>1, <2>2, WritesInside
<1>2. QED
  BY <1>1, PartitionsInvariance, FormatsKeepToPlan, PTL
=============================================================================
