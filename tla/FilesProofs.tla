----------------------------- MODULE FilesProofs -----------------------------
(***************************************************************************)
(* What ls and cat leave in fbuffer, and what cat finds there, for every   *)
(* directory that comes to an end, every line and every size of fbuffer,   *)
(* of a name, of argv and of the part that cat clears.                     *)
(***************************************************************************)
EXTENDS Files, SequenceTheorems, FiniteSetTheorems, WellFoundedInduction, TLAPS

FileCell == [filename : [1 .. NameSize -> 0 .. 255], isdir : BOOLEAN, starting_lba : Sectors,
             offset : PerSector, partition : Drives]

DisksOK ==
  /\ disk \in [Drives -> [Sectors -> Sector]]
  /\ \A x \in Drives :
       /\ \A s \in Sectors, i \in PerSector : Len(disk[x][s].entry[i].name) < NameSize
       /\ ComesToEnd(disk[x], listing[x])
       /\ Len(listing[x]) \in 0 .. FileCells

ShellOK ==
  /\ fbuffer \in [Cells -> FileCell]
  /\ pc \in {"prompt", "mkfs", "ls", "cat", "list", "find", "print", "compare", "seek", "read",
             "fetch", "answer"}
  /\ start \in Nat /\ lba \in Int
  /\ f \in 0 .. FileCells
  /\ found \in 0 .. FileCells
  /\ pc # "prompt" => Drive \in Drives
  /\ pc \in {"seek", "read"} => found \in Cells
  /\ pc = "read" => lba \in Sectors

Listing == {"list", "find", "print", "compare"}
Limit   == IF pc \in {"list", "print"} THEN FileCells ELSE Cleared

\* Cell k is the entry it points to, which is the next file of the listing.
\* Behind the name is what was there before.
Holds(k) ==
  LET cell  == fbuffer[k]
      entry == disk[Drive][cell.starting_lba].entry[cell.offset]
  IN /\ cell.partition = Drive
     /\ entry.name # <<>>
     /\ [name |-> entry.name, isdir |-> cell.isdir] = listing[Drive][k + 1]
     /\ \A i \in 1 .. Len(entry.name) : cell.filename[i] = entry.name[i]
     /\ Clean => \A i \in Len(entry.name) + 1 .. NameSize : cell.filename[i] = NUL

\* The walk is somewhere on its way to the end.
OnTheWay ==
  \E reached \in SUBSET (Root .. Count - 1) : \E before \in [reached -> 0 .. Len(listing[Drive])] :
    /\ Walked(disk[Drive], listing[Drive], reached, before)
    /\ start \in reached /\ f = before[start]

WalkOK ==
  /\ pc \in {"list", "find"} => OnTheWay
  /\ pc \in {"print", "compare"} => f = Len(listing[Drive])
  /\ pc \in Listing =>
       /\ \A k \in 0 .. f - 1 : Holds(k)
       /\ \A k \in Cells : k >= f /\ k < Limit => fbuffer[k] = NoFile

\* The inductive invariant.
LInv == DisksOK /\ ShellOK /\ WalkOK

-----------------------------------------------------------------------------
(* Numbers and strings *)

LEMMA Sizes ==
  /\ FileCells \in Nat \ {0} /\ Cleared \in Nat /\ Cleared <= FileCells /\ NameSize \in Nat \ {0}
  /\ Count \in Nat /\ Count > 3 /\ Root = 3 /\ Root .. Count - 1 \subseteq Sectors
  /\ 0 \in Sectors /\ 1 \in Sectors /\ 2 \in Sectors /\ Root \in Sectors
  BY FilesAssumption DEF Sectors, Root

\* A set of numbers has a least one.
LEMMA LeastOf ==
  ASSUME NEW S \in SUBSET Nat, S # {}
  PROVE  \E m \in S : \A k \in S : m <= k
<1> DEFINE Less == {p \in Nat \X Nat : p[1] < p[2]}
<1>1. IsWellFoundedOn(Less, Nat)
  <2>1. OpToRel(<, Nat) = Less
    BY DEF OpToRel
  <2>2. QED
    BY <2>1, NatLessThanWellFounded
<1> HIDE DEF Less
<1>2. \E x \in S : \A y \in S : ~ (<<y, x>> \in Less)
  BY <1>1, WFMin, Zenon
<1>3. \A x, y \in Nat : <<y, x>> \in Less <=> y < x
  BY DEF Less
<1>4. PICK x \in S : \A y \in S : ~ (<<y, x>> \in Less)
  BY <1>2
<1>5. \A y \in S : x <= y
  <2> TAKE y \in S
  <2>1. x \in Nat /\ y \in Nat /\ ~ (<<y, x>> \in Less)
    BY <1>4
  <2>2. ~ y < x
    BY <1>3, <2>1
  <2>3. QED
    BY <2>1, <2>2
<1>6. QED
  BY <1>5

LEMMA LeastIsMin ==
  ASSUME NEW S \in SUBSET Nat, S # {}
  PROVE  Min(S) \in S /\ \A k \in S : Min(S) <= k
<1>1. \E m \in S : \A k \in S : m =< k
  BY LeastOf
<1>2. QED
  BY <1>1 DEF Min

\* The string in an array ends before its first terminator.
LEMMA StringInArray ==
  ASSUME NEW n \in Nat, NEW a \in [1 .. n -> 0 .. 255]
  PROVE  \E p \in 0 .. n : /\ CString(a) = SubSeq(a, 1, p)
                           /\ \A i \in 1 .. p : a[i] # NUL
                           /\ p < n => a[p + 1] = NUL
<1>1. a \in Seq(0 .. 255) /\ Len(a) = n
  OBVIOUS
<1> DEFINE I == {i \in 1 .. Len(a) : a[i] = NUL}
<1>2. CASE I = {}
  <2>1. ~ Contains(a, NUL)
    BY <1>2 DEF Contains
  <2>2. CString(a) = a
    BY <2>1 DEF CString
  <2>3. SubSeq(a, 1, n) = a
    BY <1>1
  <2>4. n \in 0 .. n /\ \A i \in 1 .. n : a[i] # NUL
    BY <1>1, <1>2
  <2>5. QED
    BY <2>2, <2>3, <2>4
<1>3. CASE I # {}
  <2>1. Contains(a, NUL)
    BY <1>3 DEF Contains
  <2>2. SelectInSeq(a, LAMBDA c : c = NUL) = Min(I)
    BY <1>3 DEF SelectInSeq
  <2>3. I \in SUBSET Nat
    BY <1>1
  <2>4. Min(I) \in I /\ \A k \in I : Min(I) <= k
    BY <1>3, <2>3, LeastIsMin
  <2> DEFINE m == Min(I)
  <2>5. m \in 1 .. n /\ a[m] = NUL /\ \A k \in I : m <= k
    BY <1>1, <2>4
  <2>6. CString(a) = SubSeq(a, 1, m - 1)
    BY <2>1, <2>2 DEF CString
  <2> HIDE DEF m
  <2>7. \A i \in 1 .. m - 1 : a[i] # NUL
    BY <1>1, <2>5
  <2>8. m - 1 \in 0 .. n /\ (m - 1) + 1 = m
    BY <2>5
  <2>9. QED
    BY <2>5, <2>6, <2>7, <2>8
<1>4. QED
  BY <1>2, <1>3

\* A string copied into an array of more characters stands at its beginning.
LEMMA Copying ==
  ASSUME NEW n \in Nat, NEW a \in [1 .. n -> 0 .. 255], NEW s \in Seq(1 .. 255), Len(s) < n
  PROVE  /\ strcpy(a, s) \in [1 .. n -> 0 .. 255]
         /\ \A i \in 1 .. Len(s) : strcpy(a, s)[i] = s[i]
         /\ \A i \in Len(s) + 1 .. n : strcpy(a, s)[i] = a[i]
<1> DEFINE l == Len(s)
           t == SubSeq(a, l + 1, n)
<1>1. a \in Seq(0 .. 255) /\ Len(a) = n /\ l \in Nat /\ l < n
  OBVIOUS
<1>2. /\ t \in Seq(0 .. 255) /\ Len(t) = n - l
      /\ \A j \in 1 .. n - l : t[j] = a[l + j]
  <2> HIDE DEF l
  <2>1. QED
    BY <1>1
<1>3. strcpy(a, s) = s \o t
  BY <1>1 DEF strcpy
<1>4. s \in Seq(0 .. 255)
  OBVIOUS
<1> HIDE DEF t
<1>5. /\ s \o t \in Seq(0 .. 255) /\ Len(s \o t) = n
      /\ \A i \in 1 .. l : (s \o t)[i] = s[i]
      /\ \A i \in l + 1 .. n : (s \o t)[i] = t[i - l]
  BY <1>1, <1>2, <1>4
<1>6. \A i \in l + 1 .. n : t[i - l] = a[i]
  <2> TAKE i \in l + 1 .. n
  <2>1. i - l \in 1 .. n - l /\ l + (i - l) = i
    BY <1>1
  <2>2. QED
    BY <1>2, <2>1
<1>7. s \o t \in [1 .. n -> 0 .. 255]
  <2>1. s \o t \in [1 .. Len(s \o t) -> 0 .. 255]
    BY <1>5, LenProperties
  <2>2. QED
    BY <1>5, <2>1
<1>8. QED
  BY <1>3, <1>5, <1>6, <1>7

-----------------------------------------------------------------------------
(* Sectors and walks *)

\* A sector shows its first entries.
LEMMA ShownFirst ==
  ASSUME NEW sector \in Sector
  PROVE  \E c \in 0 .. 3 : Shown(sector) = 0 .. c - 1 /\ Cardinality(Shown(sector)) = c
<1>1. \E c \in 0 .. 3 : Shown(sector) = 0 .. c - 1
  <2> DEFINE S == Shown(sector)
  <2>1. S \subseteq {0, 1, 2}
    BY DEF Shown, PerSector
  <2>2. 1 \in S => 0 \in S
    BY DEF Shown, PerSector
  <2>3. 2 \in S => 1 \in S
    BY DEF Shown, PerSector
  <2>4. /\ 0 .. 0 - 1 = {} /\ 0 .. 1 - 1 = {0} /\ 0 .. 2 - 1 = {0, 1} /\ 0 .. 3 - 1 = {0, 1, 2}
        /\ 0 \in 0 .. 3 /\ 1 \in 0 .. 3 /\ 2 \in 0 .. 3 /\ 3 \in 0 .. 3
    OBVIOUS
  <2> HIDE DEF S
  <2>5. S = {} \/ S = {0} \/ S = {0, 1} \/ S = {0, 1, 2}
    BY <2>1, <2>2, <2>3
  <2>6. QED
    BY <2>4, <2>5 DEF S
<1>2. PICK c \in 0 .. 3 : Shown(sector) = 0 .. c - 1
  BY <1>1
<1>3. Cardinality(0 .. c - 1) = c
  <2>1. Cardinality(0 .. c - 1) = IF 0 > c - 1 THEN 0 ELSE c - 1 - 0 + 1
    BY FS_Interval
  <2>2. QED
    BY <2>1
<1>4. QED
  BY <1>2, <1>3

\* The walk is the same on sectors that are.
LEMMA SameWalk ==
  ASSUME NEW a, NEW b, NEW files, \A s \in Root .. Count - 1 : a[s] = b[s], ComesToEnd(a, files)
  PROVE  ComesToEnd(b, files)
<1>1. PICK reached \in SUBSET (Root .. Count - 1) : \E before \in [reached -> 0 .. Len(files)] :
             Walked(a, files, reached, before)
  BY DEF ComesToEnd
<1>2. PICK before \in [reached -> 0 .. Len(files)] : Walked(a, files, reached, before)
  BY <1>1
<1>3. \A s \in reached : a[s] = b[s]
  OBVIOUS
<1>4. Walked(b, files, reached, before)
  BY <1>2, <1>3 DEF Walked
<1>5. QED
  BY <1>4 DEF ComesToEnd

LEMMA BlankType == NoEntry \in Entry /\ Len(NoEntry.name) = 0 /\ BlankSector \in Sector
<1>1. NoEntry \in Entry /\ Len(NoEntry.name) = 0
  BY DEF NoEntry, Nowhere, Entry
<1>2. [i \in PerSector |-> NoEntry] \in [PerSector -> Entry]
  BY <1>1
<1>3. BlankSector \in Sector
  <2> HIDE DEF Entry
  <2>1. QED
    BY <1>2 DEF BlankSector, Sector
<1>4. QED
  BY <1>1, <1>3

\* A format leaves the sectors from the root directory on as they are.
LEMMA FormattedSectors ==
  ASSUME NEW sectors \in [Sectors -> Sector],
         \A s \in Sectors, i \in PerSector : Len(sectors[s].entry[i].name) < NameSize
  PROVE  /\ Formatted(sectors, Count) \in [Sectors -> Sector]
         /\ \A s \in Root .. Count - 1 : Formatted(sectors, Count)[s] = sectors[s]
         /\ \A s \in Sectors, i \in PerSector :
              Len(Formatted(sectors, Count)[s].entry[i].name) < NameSize
<1> DEFINE g == GroupDescriptor(GroupBlocks(Count))
<1>1. GroupBlocks(Count) \in 0 .. 255
  BY Sizes DEF GroupBlocks
<1>2. g \in Sector /\ \A i \in PerSector : Len(g.entry[i].name) = 0
  <2> DEFINE b == GroupBlocks(Count)
             e == [i \in PerSector |-> IF i = 0 THEN [NoEntry EXCEPT !.flags = b] ELSE NoEntry]
  <2>1. g = [entry |-> e, content_block |-> FALSE, group_descriptor |-> TRUE]
    <3> DEFINE B == BlankSector
               E(v) == [v EXCEPT ![0].flags = b]
    <3>1. g = [B EXCEPT !.entry = E(B.entry), !.group_descriptor = TRUE]
      BY Zenon DEF GroupDescriptor
    <3>2. E(B.entry) = e
      BY DEF BlankSector, PerSector
    <3> HIDE DEF E, e, g
    <3>3. QED
      BY <3>1, <3>2 DEF BlankSector
  <2>2. [NoEntry EXCEPT !.flags = b] \in Entry /\ Len([NoEntry EXCEPT !.flags = b].name) = 0
    <3>1. [NoEntry EXCEPT !.flags = b] = [name |-> <<>>, flags |-> b,
                                          first_content_block |-> Nowhere, next_entry |-> Nowhere]
      BY DEF NoEntry
    <3>2. Nowhere \in [gid : Nat, bid : Nat] /\ <<>> \in Seq(1 .. 255) /\ Len(<<>>) = 0
      BY DEF Nowhere
    <3>3. b \in 0 .. 255
      BY <1>1
    <3> HIDE DEF b
    <3>4. QED
      BY <3>1, <3>2, <3>3 DEF Entry
  <2>3. e \in [PerSector -> Entry] /\ \A i \in PerSector : Len(e[i].name) = 0
    BY <2>2, BlankType
  <2> HIDE DEF e, g
  <2>4. QED
    BY <2>1, <2>3 DEF Sector
<1>3. BlankSector \in Sector /\ \A i \in PerSector : Len(BlankSector.entry[i].name) = 0
  BY BlankType DEF BlankSector
<1> HIDE DEF g
<1>4. Formatted(sectors, Count) = [sectors EXCEPT ![1] = BlankSector, ![2] = g]
  BY DEF Formatted, g
<1>5. \A s \in Sectors : Formatted(sectors, Count)[s] = IF s = 2 THEN g ELSE IF s = 1 THEN BlankSector
                                                       ELSE sectors[s]
  BY <1>4
<1>6. Formatted(sectors, Count) \in [Sectors -> Sector]
  BY <1>2, <1>3, <1>4
<1>7. \A s \in Root .. Count - 1 : s \in Sectors /\ s # 1 /\ s # 2
  BY Sizes
<1>8. QED
  BY <1>2, <1>3, <1>5, <1>6, <1>7, Sizes

-----------------------------------------------------------------------------
(* The steps *)

LEMMA NoFileIsCell == NoFile \in FileCell
<1>1. [k \in 1 .. NameSize |-> NUL] \in [1 .. NameSize -> 0 .. 255] /\ 0 \in PerSector
      /\ 0 \in Drives
  BY DEF NUL, PerSector, Drives
<1>2. QED
  BY <1>1, Sizes DEF NoFile, FileCell

LEMMA InitLInv == Init => LInv
<1> SUFFICES ASSUME Init PROVE LInv
  OBVIOUS
<1>1. PICK d \in [Drives -> Disks] :
        /\ disk = [x \in Drives |-> d[x].sectors]
        /\ listing = [x \in Drives |-> d[x].listing]
        /\ fbuffer = [k \in Cells |-> NoFile]
        /\ pc = "prompt" /\ start = 0 /\ f = 0 /\ lba = 0 /\ found = FileCells
  BY DEF Init
<1>2. DisksOK
  <2>1. \A x \in Drives : disk[x] = d[x].sectors /\ listing[x] = d[x].listing /\ d[x] \in Disks
    BY <1>1
  <2>2. disk = [x \in Drives |-> disk[x]]
    BY <1>1
  <2>3. \A x \in Drives : disk[x] \in [Sectors -> Sector]
    BY <2>1, DisksAssumption
  <2>4. disk \in [Drives -> [Sectors -> Sector]]
    BY <2>2, <2>3
  <2>5. QED
    BY <2>1, <2>4, DisksAssumption DEF DisksOK
<1>3. ShellOK
  <2>1. fbuffer \in [Cells -> FileCell]
    BY <1>1, NoFileIsCell
  <2>2. QED
    BY <1>1, <2>1, Sizes DEF ShellOK
<1>4. WalkOK
  BY <1>1 DEF WalkOK, Listing
<1>5. QED
  BY <1>2, <1>3, <1>4 DEF LInv

\* A command that is not listing keeps the drives as they are.
LEMMA EnterStep ==
  ASSUME LInv, NEW ws \in Typed, Enter(ws)
  PROVE  LInv'
<1> DEFINE args == Argv(Line(ws), Rows, Columns)
<1>1. /\ argv' = args /\ pc' = Asked(args)
      /\ pc' = "mkfs" => part' = str_partid(argv'[3])
      /\ pc' \in {"ls", "cat"} => part' = str_partid(argv'[2])
      /\ UNCHANGED <<disk, listing, fbuffer, start, f, lba, found>>
  BY DEF Enter, disks, walk, lookup
<1>2. pc' \in {"mkfs", "ls", "cat", "prompt"}
  BY <1>1 DEF Asked
<1>3. pc' # "prompt" => Drive' \in Drives
  <2>1. /\ Asked(args) = "mkfs" => str_partid(args[3]).drive_id \in Drives
        /\ Asked(args) \in {"ls", "cat"} => str_partid(args[2]).drive_id \in Drives
    BY TypedAssumption
  <2> HIDE DEF args
  <2>2. QED
    BY <1>1, <1>2, <2>1 DEF Drive
<1>4. DisksOK'
  BY <1>1 DEF LInv, DisksOK
<1>5. ShellOK'
  BY <1>1, <1>2, <1>3 DEF LInv, ShellOK
<1>6. WalkOK'
  BY <1>2 DEF WalkOK, Listing
<1>7. QED
  BY <1>4, <1>5, <1>6 DEF LInv

LEMMA MkfsStep ==
  ASSUME LInv, Mkfs
  PROVE  LInv'
<1>1. /\ pc = "mkfs" /\ pc' = "prompt" /\ disk' = [disk EXCEPT ![Drive] = Formatted(@, Count)]
      /\ UNCHANGED <<listing, fbuffer, part, start, f, lba, found>>
  BY DEF Mkfs, line, walk, lookup
<1>2. Drive \in Drives /\ disk \in [Drives -> [Sectors -> Sector]]
  BY <1>1 DEF LInv, ShellOK, DisksOK
<1> DEFINE s == disk[Drive]
           g == Formatted(s, Count)
<1>3. s \in [Sectors -> Sector] /\ \A n \in Sectors, i \in PerSector : Len(s[n].entry[i].name) < NameSize
  BY <1>2 DEF LInv, DisksOK
<1>4. /\ g \in [Sectors -> Sector]
      /\ \A n \in Root .. Count - 1 : g[n] = s[n]
      /\ \A n \in Sectors, i \in PerSector : Len(g[n].entry[i].name) < NameSize
  BY <1>3, FormattedSectors
<1> HIDE DEF g
<1>5. /\ disk' \in [Drives -> [Sectors -> Sector]]
      /\ \A x \in Drives : disk'[x] = IF x = Drive THEN g ELSE disk[x]
  BY <1>1, <1>2, <1>4 DEF g
<1>6. ComesToEnd(g, listing[Drive])
  BY <1>2, <1>4, SameWalk DEF LInv, DisksOK
<1>7. DisksOK'
  BY <1>1, <1>4, <1>5, <1>6 DEF LInv, DisksOK
<1>8. ShellOK' /\ WalkOK'
  BY <1>1 DEF LInv, ShellOK, WalkOK, Listing
<1>9. QED
  BY <1>7, <1>8 DEF LInv

\* The first n cells are empty when n have been cleared.
LEMMA BeginStep ==
  ASSUME LInv, Begin
  PROVE  LInv'
<1> DEFINE n == IF pc = "ls" THEN FileCells ELSE Cleared
<1>1. /\ pc \in {"ls", "cat"} /\ fbuffer' = Blanked(n) /\ start' = Root /\ f' = 0
      /\ pc' = (IF pc = "ls" THEN "list" ELSE "find")
      /\ UNCHANGED <<disk, listing, part, lba, found>>
  BY DEF Begin, disks, line, lookup
<1>2. Drive \in Drives /\ Drive' = Drive /\ fbuffer \in [Cells -> FileCell]
  BY <1>1 DEF LInv, ShellOK, Drive
<1>3. n \in Nat /\ n = Limit'
  BY <1>1, Sizes DEF Limit
<1>4. /\ fbuffer' \in [Cells -> FileCell]
      /\ \A k \in Cells : k < n => fbuffer'[k] = NoFile
  BY <1>1, <1>2, NoFileIsCell DEF Blanked
<1>5. DisksOK'
  BY <1>1 DEF LInv, DisksOK
<1>6. ShellOK'
  BY <1>1, <1>2, <1>4, Sizes DEF LInv, ShellOK
<1>7. OnTheWay'
  <2>1. ComesToEnd(disk[Drive], listing[Drive])
    BY <1>2 DEF LInv, DisksOK
  <2>2. PICK reached \in SUBSET (Root .. Count - 1) :
               \E before \in [reached -> 0 .. Len(listing[Drive])] :
                 Walked(disk[Drive], listing[Drive], reached, before)
    BY <2>1 DEF ComesToEnd
  <2>3. PICK before \in [reached -> 0 .. Len(listing[Drive])] :
               Walked(disk[Drive], listing[Drive], reached, before)
    BY <2>2
  <2>4. start' \in reached /\ f' = before[start']
    BY <1>1, <2>3 DEF Walked
  <2>5. QED
    BY <1>1, <1>2, <2>3, <2>4 DEF OnTheWay
<1>8. WalkOK'
  <2>1. \A k \in 0 .. f' - 1 : FALSE
    BY <1>1
  <2>2. QED
    BY <1>1, <1>3, <1>4, <1>7, <2>1 DEF WalkOK, Listing
<1>9. QED
  BY <1>5, <1>6, <1>8 DEF LInv

\* An entry that is handed out becomes a cell: its name, then the old contents.
LEMMA FilingAnEntry ==
  ASSUME NEW cell \in FileCell, NEW entry \in Entry, Len(entry.name) < NameSize, NEW i \in PerSector,
         start \in Sectors, Drive \in Drives
  PROVE  /\ Filed(cell, entry, i) \in FileCell
         /\ Filed(cell, entry, i).partition = Drive
         /\ Filed(cell, entry, i).starting_lba = start
         /\ Filed(cell, entry, i).offset = i
         /\ Filed(cell, entry, i).isdir = (entry.flags % 2 = 1)
         /\ \A j \in 1 .. Len(entry.name) : Filed(cell, entry, i).filename[j] = entry.name[j]
         /\ \A j \in Len(entry.name) + 1 .. NameSize :
              Filed(cell, entry, i).filename[j] = cell.filename[j]
<1> DEFINE name == strcpy(cell.filename, entry.name)
<1>1. entry.name \in Seq(1 .. 255) /\ cell.filename \in [1 .. NameSize -> 0 .. 255]
  BY DEF Entry, FileCell
<1>2. /\ name \in [1 .. NameSize -> 0 .. 255]
      /\ \A j \in 1 .. Len(entry.name) : name[j] = entry.name[j]
      /\ \A j \in Len(entry.name) + 1 .. NameSize : name[j] = cell.filename[j]
  <2> DEFINE a == cell.filename
             t == entry.name
  <2>1. /\ NameSize \in Nat /\ a \in [1 .. NameSize -> 0 .. 255] /\ t \in Seq(1 .. 255)
        /\ Len(t) < NameSize
    BY <1>1, Sizes
  <2> HIDE DEF a, t
  <2>2. /\ strcpy(a, t) \in [1 .. NameSize -> 0 .. 255]
        /\ \A j \in 1 .. Len(t) : strcpy(a, t)[j] = t[j]
        /\ \A j \in Len(t) + 1 .. NameSize : strcpy(a, t)[j] = a[j]
    BY <2>1, Copying
  <2>3. QED
    BY <2>2 DEF a, t
<1> HIDE DEF name
<1>3. Filed(cell, entry, i) = [filename |-> name, isdir |-> (entry.flags % 2 = 1),
                               starting_lba |-> start, offset |-> i, partition |-> Drive]
  BY DEF Filed, name
<1>4. (entry.flags % 2 = 1) \in BOOLEAN
  OBVIOUS
<1>5. Filed(cell, entry, i) \in FileCell
  BY <1>2, <1>3, <1>4 DEF FileCell
<1>6. QED
  BY <1>2, <1>3, <1>5

\* Each entry of the sector becomes the next cell, and the walk goes on or is
\* at its end.
LEMMA ListSectorStep ==
  ASSUME LInv, ListSector
  PROVE  LInv'
<1> DEFINE d      == Drive
           sector == disk[d][start]
           list   == listing[d]
<1>1. /\ pc \in {"list", "find"} /\ start \in Sectors
      /\ fbuffer' = [k \in Cells |-> IF k - f \in Shown(sector)
                                     THEN Filed(fbuffer[k], sector.entry[k - f], k - f)
                                     ELSE fbuffer[k]]
      /\ f' = f + Cardinality(Shown(sector))
      /\ IF IsLast(sector) THEN pc' = (IF pc = "list" THEN "print" ELSE "compare") /\ start' = start
         ELSE start' = NextSector(sector, start) /\ pc' = pc
      /\ UNCHANGED <<disk, listing, part, lba, found>>
  BY DEF ListSector, disks, line, lookup
<1>2. /\ d \in Drives /\ d' = d /\ list' = list /\ disk[d] \in [Sectors -> Sector]
      /\ sector \in Sector /\ Len(list) \in 0 .. FileCells
      /\ \A i \in PerSector : Len(sector.entry[i].name) < NameSize
      /\ fbuffer \in [Cells -> FileCell] /\ f \in Nat
  BY <1>1 DEF LInv, ShellOK, DisksOK, Drive
<1>3. OnTheWay
  BY <1>1 DEF LInv, WalkOK
<1>4. PICK reached \in SUBSET (Root .. Count - 1) :
             \E before \in [reached -> 0 .. Len(list)] :
               Walked(disk[d], list, reached, before) /\ start \in reached /\ f = before[start]
  BY <1>3 DEF OnTheWay
<1>5. PICK before \in [reached -> 0 .. Len(list)] :
             Walked(disk[d], list, reached, before) /\ start \in reached /\ f = before[start]
  BY <1>4
<1>6. PICK c \in 0 .. 3 : Shown(sector) = 0 .. c - 1 /\ Cardinality(Shown(sector)) = c
  BY <1>2, ShownFirst
<1>7. /\ f' = f + c /\ f' \in 0 .. Len(list)
      /\ \A i \in 0 .. c - 1 : Said(sector.entry[i]) = list[f + i + 1]
      /\ IF IsLast(sector) THEN f' = Len(list)
         ELSE NextSector(sector, start) \in reached /\ before[NextSector(sector, start)] = f'
  <2> DEFINE behind == before[start] + Cardinality(Shown(sector))
  <2>1. /\ behind <= Len(list)
        /\ \A i \in Shown(sector) : Said(sector.entry[i]) = list[before[start] + i + 1]
        /\ IF IsLast(sector) THEN behind = Len(list)
           ELSE NextSector(sector, start) \in reached /\ before[NextSector(sector, start)] = behind
    BY <1>5 DEF Walked
  <2>2. f = before[start] /\ behind = f + c /\ f' = f + c
    BY <1>1, <1>5, <1>6
  <2>3. f + c \in 0 .. Len(list)
    BY <1>2, <2>1, <2>2
  <2> HIDE DEF behind, d, sector, list
  <2>4. QED
    BY <1>6, <2>1, <2>2, <2>3
<1>8. /\ \A k \in Cells : k - f \in 0 .. c - 1 =>
           /\ k - f \in PerSector
           /\ fbuffer'[k] = Filed(fbuffer[k], sector.entry[k - f], k - f)
      /\ \A k \in Cells : k - f \notin 0 .. c - 1 => fbuffer'[k] = fbuffer[k]
  BY <1>1, <1>6 DEF PerSector
<1>9. \A i \in PerSector : sector.entry[i] \in Entry
  BY <1>2 DEF Sector
<1>10. fbuffer' \in [Cells -> FileCell]
  <2>1. \A k \in Cells : fbuffer'[k] \in FileCell
    <3> TAKE k \in Cells
    <3>1. fbuffer[k] \in FileCell
      BY <1>2
    <3>2. CASE k - f \in 0 .. c - 1
      <4>1. k - f \in PerSector /\ fbuffer'[k] = Filed(fbuffer[k], sector.entry[k - f], k - f)
        BY <1>8, <3>2
      <4>2. QED
        BY <1>1, <1>2, <1>9, <3>1, <4>1, FilingAnEntry
    <3>3. CASE k - f \notin 0 .. c - 1
      BY <1>8, <3>1, <3>3
    <3>4. QED
      BY <3>2, <3>3
  <2>2. fbuffer' = [k \in Cells |-> fbuffer'[k]]
    BY <1>1
  <2>3. QED
    BY <2>1, <2>2
<1>11. DisksOK'
  BY <1>1 DEF LInv, DisksOK
<1>12. ShellOK'
  <2>1. start' \in Nat
    <3>1. CASE IsLast(sector)
      BY <1>1, <3>1 DEF LInv, ShellOK
    <3>2. CASE ~IsLast(sector)
      <4>1. start' \in Root .. Count - 1
        BY <1>1, <1>7, <3>2
      <4>2. QED
        BY <4>1, Sizes
    <3>3. QED
      BY <3>1, <3>2
  <2>2. f' \in 0 .. FileCells
    <3> DEFINE n == Len(list)
    <3>1. n \in 0 .. FileCells /\ f' \in 0 .. n /\ FileCells \in Nat
      BY <1>2, <1>7, Sizes
    <3> HIDE DEF n
    <3>2. QED
      BY <3>1
  <2>3. pc' \in {"list", "find", "print", "compare"}
    BY <1>1
  <2>4. QED
    BY <1>1, <1>2, <1>10, <2>1, <2>2, <2>3 DEF LInv, ShellOK
<1>13. Clean' = Clean /\ Limit' = Limit /\ pc' \in Listing
  BY <1>1, <1>2 DEF Clean, Limit, Listing
<1>14. \A k \in Cells : k >= f /\ k < Limit => fbuffer[k] = NoFile
  BY <1>1 DEF LInv, WalkOK, Listing
<1>15. Clean => \A k \in Cells : k < Len(list) => k < Limit
  BY <1>1, <1>2, Sizes DEF Clean, Limit, Cells
<1>16. \A k \in 0 .. f' - 1 : Holds(k)'
  <2> SUFFICES ASSUME NEW k, k \in 0 .. f' - 1
               PROVE  Holds(k)'
    OBVIOUS
  <2>1. k \in Cells /\ k \in Nat /\ k < Len(list)
    <3> DEFINE n == Len(list)
               m == f'
    <3>1. n \in 0 .. FileCells /\ m \in 0 .. n /\ FileCells \in Nat
      BY <1>2, <1>7, Sizes
    <3>2. k \in 0 .. m - 1
      OBVIOUS
    <3> HIDE DEF n, m
    <3>3. k \in Int /\ 0 <= k /\ k <= m - 1 /\ m <= n /\ n <= FileCells
      BY <3>1, <3>2
    <3>4. k \in 0 .. FileCells - 1 /\ k \in Nat /\ k < n
      BY <3>1, <3>2, <3>3
    <3>5. QED
      BY <3>4 DEF n, Cells
  <2>2. CASE k < f
    <3>1. fbuffer'[k] = fbuffer[k]
      BY <1>2, <1>8, <2>1, <2>2
    <3>2. Holds(k)
      <4>1. k \in 0 .. f - 1
        BY <1>2, <2>1, <2>2
      <4>2. QED
        BY <1>1, <4>1 DEF LInv, WalkOK, Listing
    <3>3. UNCHANGED <<disk, listing, Drive, Clean>>
      BY <1>1, <1>2, <1>13
    <3>4. QED
      BY <3>1, <3>2, <3>3 DEF Holds
  <2>3. CASE ~ k < f
    <3> DEFINE i     == k - f
               cell  == fbuffer[k]
               entry == sector.entry[i]
    <3>1. i \in 0 .. c - 1 /\ f + i + 1 = k + 1
      BY <1>2, <1>7, <2>1, <2>3
    <3>2. i \in PerSector /\ fbuffer'[k] = Filed(cell, entry, i)
      BY <1>8, <2>1, <3>1
    <3>3. cell \in FileCell /\ entry \in Entry /\ Len(entry.name) < NameSize
      BY <1>2, <1>9, <2>1, <3>2
    <3>4. /\ fbuffer'[k].partition = d /\ fbuffer'[k].starting_lba = start /\ fbuffer'[k].offset = i
          /\ fbuffer'[k].isdir = (entry.flags % 2 = 1)
          /\ \A j \in 1 .. Len(entry.name) : fbuffer'[k].filename[j] = entry.name[j]
          /\ \A j \in Len(entry.name) + 1 .. NameSize : fbuffer'[k].filename[j] = cell.filename[j]
      <4> HIDE DEF cell, entry, i, sector
      <4>1. start \in Sectors /\ Drive \in Drives
        BY <1>1, <1>2
      <4>2. /\ Filed(cell, entry, i).partition = Drive /\ Filed(cell, entry, i).starting_lba = start
            /\ Filed(cell, entry, i).offset = i
            /\ Filed(cell, entry, i).isdir = (entry.flags % 2 = 1)
            /\ \A j \in 1 .. Len(entry.name) : Filed(cell, entry, i).filename[j] = entry.name[j]
            /\ \A j \in Len(entry.name) + 1 .. NameSize :
                 Filed(cell, entry, i).filename[j] = cell.filename[j]
        BY <3>2, <3>3, <4>1, FilingAnEntry
      <4>3. QED
        BY <3>2, <4>2
    <3>5. disk'[Drive'][fbuffer'[k].starting_lba].entry[fbuffer'[k].offset] = entry
      BY <1>1, <1>2, <3>4
    <3>6. entry.name # <<>>
      <4>1. i \in Shown(sector)
        BY <1>6, <3>1
      <4>2. i \in 0 .. i
        BY <3>1
      <4>3. QED
        BY <4>1, <4>2 DEF Shown
    <3>7. [name |-> entry.name, isdir |-> fbuffer'[k].isdir] = list[k + 1]
      BY <1>7, <3>1, <3>4 DEF Said
    <3>8. Clean => \A j \in Len(entry.name) + 1 .. NameSize : fbuffer'[k].filename[j] = NUL
      <4>1. ASSUME Clean PROVE \A j \in Len(entry.name) + 1 .. NameSize : fbuffer'[k].filename[j] = NUL
        <5>1. cell = NoFile
          BY <1>2, <1>14, <1>15, <2>1, <2>3, <4>1
        <5>2. \A j \in 1 .. NameSize : cell.filename[j] = NUL
          BY <5>1 DEF NoFile
        <5> DEFINE n == Len(entry.name)
        <5>3. n \in Nat /\ NameSize \in Nat
          <6>1. entry.name \in Seq(1 .. 255)
            BY <3>3 DEF Entry
          <6> HIDE DEF entry
          <6>2. QED
            BY <6>1, Sizes
        <5>4. \A j \in n + 1 .. NameSize : j \in 1 .. NameSize
          <6> HIDE DEF n
          <6>1. QED
            BY <5>3
        <5> HIDE DEF cell, entry
        <5>5. QED
          BY <3>4, <5>2, <5>4
      <4>2. QED
        BY <4>1
    <3> HIDE DEF cell, entry, i, sector
    <3>9. QED
      BY <1>2, <1>13, <3>4, <3>5, <3>6, <3>7, <3>8, Zenon DEF Holds
  <2>4. QED
    BY <2>2, <2>3
<1>17. \A k \in Cells : k >= f' /\ k < Limit' => fbuffer'[k] = NoFile
  <2> TAKE k \in Cells
  <2> HAVE k >= f' /\ k < Limit'
  <2>1. k >= f /\ k < Limit /\ k - f \notin 0 .. c - 1
    <3>1. k \in Nat
      BY DEF Cells
    <3>2. QED
      BY <1>2, <1>7, <1>13, <3>1
  <2>2. QED
    BY <1>8, <1>14, <2>1
<1>18. pc' \in {"list", "find"} => OnTheWay'
  <2>1. ASSUME pc' \in {"list", "find"} PROVE OnTheWay'
    <3>1. ~IsLast(sector) /\ start' = NextSector(sector, start)
      BY <1>1, <2>1
    <3>2. start' \in reached /\ before[start'] = f'
      BY <1>7, <3>1
    <3>3. UNCHANGED <<disk, listing, Drive>>
      BY <1>1, <1>2
    <3>4. QED
      BY <1>5, <3>2, <3>3 DEF OnTheWay
  <2>2. QED
    BY <2>1
<1>19. pc' \in {"print", "compare"} => f' = Len(list)
  BY <1>1, <1>7
<1>20. WalkOK'
  BY <1>2, <1>16, <1>17, <1>18, <1>19 DEF WalkOK
<1>21. QED
  BY <1>11, <1>12, <1>20 DEF LInv

LEMMA ShowStep ==
  ASSUME LInv, Show
  PROVE  LInv'
<1>1. pc' = "prompt" /\ UNCHANGED <<disk, listing, fbuffer, part, start, f, lba, found>>
  BY DEF Show, disks, line, walk, lookup
<1>2. DisksOK'
  BY <1>1 DEF LInv, DisksOK
<1>3. ShellOK' /\ WalkOK'
  BY <1>1 DEF LInv, ShellOK, WalkOK, Listing
<1>4. QED
  BY <1>2, <1>3 DEF LInv

\* The file that is found is a cell.
LEMMA CompareStep ==
  ASSUME LInv, Compare
  PROVE  LInv'
<1> DEFINE same == {k \in Visible : strcasecmp(Name(k), Arg(2)) = 0}
<1>1. /\ pc = "compare"
      /\ found' = IF same = {} THEN FileCells ELSE Min(same)
      /\ lba' = IF same = {} THEN lba ELSE fbuffer[found'].starting_lba
      /\ pc' = IF same = {} THEN "answer" ELSE "seek"
      /\ UNCHANGED <<disk, listing, fbuffer, part, start, f>>
  BY Zenon DEF Compare, disks, line, walk
<1>2. same \subseteq Cells /\ same \subseteq Nat
  BY DEF Visible, Cells
<1>3. same # {} => Min(same) \in Cells
  <2> HIDE DEF same
  <2>1. QED
    BY <1>2, LeastIsMin
<1> HIDE DEF same
<1>4. found' \in 0 .. FileCells /\ (pc' = "seek" => found' \in Cells)
  BY <1>1, <1>3, Sizes DEF Cells
<1>5. lba' \in Int
  <2>1. lba \in Int /\ fbuffer \in [Cells -> FileCell]
    BY DEF LInv, ShellOK
  <2>2. \A k \in Cells : fbuffer[k].starting_lba \in Int
    BY <2>1 DEF FileCell, Sectors
  <2>3. QED
    BY <1>1, <1>3, <2>1, <2>2
<1>6. pc' \in {"answer", "seek"} /\ Drive' \in Drives
  BY <1>1 DEF LInv, ShellOK, Drive
<1>7. DisksOK'
  BY <1>1 DEF LInv, DisksOK
<1>8. ShellOK'
  BY <1>1, <1>4, <1>5, <1>6 DEF LInv, ShellOK
<1>9. WalkOK'
  BY <1>6 DEF WalkOK, Listing
<1>10. QED
  BY <1>7, <1>8, <1>9 DEF LInv

LEMMA SeekStep ==
  ASSUME LInv, Seek
  PROVE  LInv'
<1>1. /\ pc = "seek" /\ lba \in Sectors
      /\ \/ pc' = "read" /\ lba' = lba
         \/ pc' = "seek" /\ lba' = lba - 1
      /\ UNCHANGED <<disk, listing, fbuffer, part, start, f, found>>
  BY Zenon DEF Seek, disks, line, walk
<1>2. lba' \in Int /\ (pc' = "read" => lba' \in Sectors)
  BY <1>1 DEF Sectors
<1>3. Drive' \in Drives /\ found' \in Cells
  BY <1>1 DEF LInv, ShellOK, Drive
<1>4. DisksOK'
  BY <1>1 DEF LInv, DisksOK
<1>5. ShellOK'
  BY <1>1, <1>2, <1>3 DEF LInv, ShellOK
<1>6. WalkOK'
  BY <1>1 DEF WalkOK, Listing
<1>7. QED
  BY <1>4, <1>5, <1>6 DEF LInv

LEMMA ReadStep ==
  ASSUME LInv, Read
  PROVE  LInv'
<1> DEFINE first  == SectorRead.entry[fbuffer[found].offset].first_content_block
           gid    == first.gid
           bid    == first.bid
           blocks == Blocks(SectorRead)
<1>1. /\ pc = "read" /\ pc' = "fetch"
      /\ lba' \in Anywhere \/ lba' = lba + gid * blocks + bid
      /\ UNCHANGED <<disk, listing, fbuffer, part, start, f, found>>
  BY DEF Read, disks, line, walk
<1>2. gid \in Nat /\ bid \in Nat /\ blocks \in Nat
  <2> DEFINE x == fbuffer[found].partition
             i == fbuffer[found].offset
  <2>1. x \in Drives /\ i \in PerSector
    BY <1>1 DEF LInv, ShellOK, FileCell
  <2>2. disk \in [Drives -> [Sectors -> Sector]] /\ lba \in Sectors
    BY <1>1 DEF LInv, ShellOK, DisksOK
  <2> HIDE DEF x, i
  <2>3. disk[x][lba] \in Sector
    BY <2>1, <2>2
  <2>4. disk[x][lba].entry[i] \in Entry
    BY <2>1, <2>3 DEF Sector
  <2>5. /\ disk[x][lba].entry[i].first_content_block.gid \in Nat
        /\ disk[x][lba].entry[i].first_content_block.bid \in Nat
    BY <2>4 DEF Entry
  <2>6. disk[x][lba].entry[0].flags \in Nat
    <3>1. 0 \in PerSector
      BY DEF PerSector
    <3>2. disk[x][lba].entry[0] \in Entry
      BY <2>3, <3>1 DEF Sector
    <3>3. disk[x][lba].entry[0].flags \in 0 .. 255
      BY <3>2 DEF Entry
    <3>4. \A n \in 0 .. 255 : n \in Nat
      OBVIOUS
    <3>5. QED
      BY <3>3, <3>4, Zenon
  <2>7. QED
    BY <2>5, <2>6 DEF SectorRead, Blocks, x, i
<1> HIDE DEF gid, bid, blocks
<1>3. lba' \in Int
  <2>1. lba \in Int
    BY DEF LInv, ShellOK
  <2>2. CASE lba' \in Anywhere
    BY <2>2, FilesAssumption DEF Anywhere, Sectors
  <2>3. CASE lba' = lba + gid * blocks + bid
    <3>1. gid * blocks \in Nat
      BY <1>2, SMT
    <3>2. QED
      BY <1>2, <2>1, <2>3, <3>1
  <2>4. QED
    BY <1>1, <2>2, <2>3
<1>4. Drive' \in Drives
  BY <1>1 DEF LInv, ShellOK, Drive
<1>5. DisksOK'
  BY <1>1 DEF LInv, DisksOK
<1>6. ShellOK'
  BY <1>1, <1>3, <1>4 DEF LInv, ShellOK
<1>7. WalkOK'
  BY <1>1 DEF WalkOK, Listing
<1>8. QED
  BY <1>5, <1>6, <1>7 DEF LInv

LEMMA FetchStep ==
  ASSUME LInv, Fetch
  PROVE  LInv'
<1>1. /\ pc = "fetch" /\ pc' = "answer"
      /\ UNCHANGED <<disk, listing, fbuffer, part, start, f, lba, found>>
  BY DEF Fetch, disks, line, walk, lookup
<1>2. DisksOK' /\ Drive' \in Drives
  BY <1>1 DEF LInv, DisksOK, ShellOK, Drive
<1>3. ShellOK' /\ WalkOK'
  BY <1>1, <1>2 DEF LInv, ShellOK, WalkOK, Listing
<1>4. QED
  BY <1>2, <1>3 DEF LInv

LEMMA AnswerStep ==
  ASSUME LInv, Answer
  PROVE  LInv'
<1>1. pc' = "prompt" /\ UNCHANGED <<disk, listing, fbuffer, part, start, f, lba, found>>
  BY DEF Answer, disks, line, walk, lookup
<1>2. DisksOK'
  BY <1>1 DEF LInv, DisksOK
<1>3. ShellOK' /\ WalkOK'
  BY <1>1 DEF LInv, ShellOK, WalkOK, Listing
<1>4. QED
  BY <1>2, <1>3 DEF LInv

LEMMA StutterStep ==
  ASSUME LInv, UNCHANGED vars
  PROVE  LInv'
<1>1. UNCHANGED <<disk, listing, fbuffer, pc, part, start, f, lba, found>>
  BY DEF vars, disks, line, walk, lookup
<1>2. UNCHANGED <<Drive, Clean, Limit>>
  BY <1>1 DEF Drive, Clean, Limit
<1>3. DisksOK' /\ ShellOK'
  BY <1>1, <1>2 DEF LInv, DisksOK, ShellOK
<1>4. OnTheWay => OnTheWay'
  BY <1>1, <1>2 DEF OnTheWay
<1>5. \A k : Holds(k) => Holds(k)'
  BY <1>1, <1>2 DEF Holds
<1>6. WalkOK'
  BY <1>1, <1>2, <1>4, <1>5 DEF LInv, WalkOK
<1>7. QED
  BY <1>3, <1>6 DEF LInv

LEMMA NextLInv == LInv /\ [Next]_vars => LInv'
<1> SUFFICES ASSUME LInv, [Next]_vars PROVE LInv'
  OBVIOUS
<1>1. ASSUME NEW ws \in Typed, Enter(ws) PROVE LInv'
  BY <1>1, EnterStep
<1>2. CASE Mkfs
  BY <1>2, MkfsStep
<1>3. CASE Begin
  BY <1>3, BeginStep
<1>4. CASE ListSector
  BY <1>4, ListSectorStep
<1>5. CASE Show
  BY <1>5, ShowStep
<1>6. CASE Compare
  BY <1>6, CompareStep
<1>7. CASE Seek
  BY <1>7, SeekStep
<1>8. CASE Read
  BY <1>8, ReadStep
<1>9. CASE Fetch
  BY <1>9, FetchStep
<1>10. CASE Answer
  BY <1>10, AnswerStep
<1>11. CASE UNCHANGED vars
  BY <1>11, StutterStep
<1>12. QED
  BY <1>1, <1>2, <1>3, <1>4, <1>5, <1>6, <1>7, <1>8, <1>9, <1>10, <1>11 DEF Next, Command

-----------------------------------------------------------------------------
(* What the shell sees *)

\* A cell that holds an entry: the entry's name stands at its beginning, and
\* after a full clear there is nothing behind it.
LEMMA NameOfCell ==
  ASSUME LInv, pc \in Listing, NEW k \in 0 .. f - 1
  PROVE  /\ k \in Cells
         /\ Head(fbuffer[k].filename) # NUL
         /\ LET entry == disk[Drive][fbuffer[k].starting_lba].entry[fbuffer[k].offset]
            IN /\ IsPrefix(entry.name, Name(k))
               /\ Clean => Name(k) = entry.name
<1> DEFINE cell  == fbuffer[k]
           a     == cell.filename
           entry == disk[Drive][cell.starting_lba].entry[cell.offset]
           s     == entry.name
           l     == Len(s)
<1>1. k \in Cells /\ pc # "prompt"
  <2>1. f \in 0 .. FileCells /\ FileCells \in Nat
    BY Sizes DEF LInv, ShellOK
  <2>2. QED
    BY <2>1 DEF Cells, Listing
<1>2. cell \in FileCell /\ Drive \in Drives
  BY <1>1 DEF LInv, ShellOK
<1>3. a \in [1 .. NameSize -> 0 .. 255] /\ NameSize \in Nat
  BY <1>2, Sizes DEF FileCell
<1>4. entry \in Entry /\ Len(entry.name) < NameSize
  <2> DEFINE b == cell.starting_lba
             i == cell.offset
  <2>1. b \in Sectors /\ i \in PerSector
    BY <1>2 DEF FileCell
  <2> HIDE DEF b, i
  <2>2. disk[Drive][b] \in Sector /\ Len(disk[Drive][b].entry[i].name) < NameSize
    BY <1>2, <2>1 DEF LInv, DisksOK
  <2>3. disk[Drive][b].entry[i] \in Entry
    BY <2>1, <2>2 DEF Sector
  <2>4. QED
    BY <2>2, <2>3 DEF b, i
<1>5. Holds(k)
  BY DEF LInv, WalkOK
<1>6. /\ s # <<>>
      /\ \A i \in 1 .. l : a[i] = s[i]
      /\ Clean => \A i \in l + 1 .. NameSize : a[i] = NUL
  BY <1>5 DEF Holds
<1>7. s \in Seq(1 .. 255)
  BY <1>4 DEF Entry
<1> HIDE DEF a, s
<1>8. l \in Nat /\ 0 < l /\ l < NameSize /\ \A i \in 1 .. l : s[i] \in 1 .. 255
  <2>1. l < NameSize
    BY <1>4 DEF s
  <2>2. l \in Nat /\ 0 < l
    BY <1>6, <1>7
  <2>3. \A i \in 1 .. l : s[i] \in 1 .. 255
    BY <1>7, ElementOfSeq
  <2>4. QED
    BY <2>1, <2>2, <2>3
<1> HIDE DEF l
<1>9. \A i \in 1 .. l : a[i] # NUL
  <2> SUFFICES ASSUME NEW i \in 1 .. l PROVE a[i] # NUL
    OBVIOUS
  <2>1. a[i] = s[i] /\ s[i] \in 1 .. 255
    BY <1>6, <1>8
  <2>2. QED
    BY <2>1 DEF NUL
<1>10. PICK p \in 0 .. NameSize : /\ CString(a) = SubSeq(a, 1, p)
                                  /\ \A i \in 1 .. p : a[i] # NUL
                                  /\ p < NameSize => a[p + 1] = NUL
  BY <1>3, StringInArray
<1>11. l <= p
  <2>1. CASE p < l
    <3>1. p + 1 \in 1 .. l /\ p < NameSize
      BY <1>3, <1>8, <2>1
    <3>2. a[p + 1] = NUL
      BY <1>10, <3>1
    <3>3. QED
      BY <1>9, <3>1, <3>2
  <2>2. QED
    BY <1>3, <1>8, <2>1
<1>12. a \in Seq(0 .. 255) /\ Len(a) = NameSize
  BY <1>3
<1>13. /\ CString(a) \in Seq(0 .. 255) /\ Len(CString(a)) = p
       /\ \A i \in 1 .. p : CString(a)[i] = a[i]
  BY <1>10, <1>12
<1>14. IsPrefix(s, CString(a))
  <2>1. s \in Seq(0 .. 255) /\ Len(s) <= Len(CString(a))
    BY <1>7, <1>11, <1>13 DEF l
  <2>2. \A i \in 1 .. l : s[i] = CString(a)[i]
    BY <1>6, <1>8, <1>11, <1>13
  <2>3. SubSeq(CString(a), 1, Len(s)) = s
    BY <1>13, <2>1, <2>2 DEF l
  <2>4. QED
    BY <2>1, <2>3 DEF IsPrefix
<1>15. Clean => CString(a) = s
  <2>1. ASSUME Clean PROVE CString(a) = s
    <3>1. l + 1 \in l + 1 .. NameSize
      BY <1>3, <1>8
    <3>2. a[l + 1] = NUL
      BY <1>6, <2>1, <3>1
    <3>3. ~ l + 1 \in 1 .. p
      BY <1>10, <3>2
    <3>4. p = l
      BY <1>3, <1>8, <1>11, <3>3
    <3>5. s \in Seq(0 .. 255) /\ Len(s) = Len(CString(a))
      BY <1>7, <1>13, <3>4 DEF l
    <3>6. \A i \in 1 .. Len(s) : s[i] = CString(a)[i]
      BY <1>6, <1>13, <3>4 DEF l
    <3>7. QED
      BY <1>13, <3>5, <3>6
  <2>2. QED
    BY <2>1
<1>16. Head(a) # NUL
  <2>1. Head(a) = a[1] /\ 1 \in 1 .. l
    BY <1>8, <1>12
  <2>2. QED
    BY <1>9, <2>1
<1>17. QED
  BY <1>1, <1>14, <1>15, <1>16 DEF Name, a, s

\* What the shell's loops see is what the listing has filled.
LEMMA SeenCells ==
  ASSUME LInv, pc \in {"print", "compare"}, Clean
  PROVE  Visible = 0 .. Len(listing[Drive]) - 1
<1> DEFINE n == Len(listing[Drive])
<1>1. n = f /\ n \in 0 .. FileCells /\ pc \in Listing /\ FileCells \in Nat
  BY Sizes DEF LInv, WalkOK, ShellOK, Listing
<1>2. \A k \in 0 .. n - 1 : k \in Cells /\ Head(fbuffer[k].filename) # NUL
  BY <1>1, NameOfCell
<1>3. n < FileCells => Head(fbuffer[n].filename) = NUL
  <2>1. ASSUME n < FileCells PROVE Head(fbuffer[n].filename) = NUL
    <3>1. n \in Cells /\ n < Limit
      BY <1>1, <2>1 DEF Cells, Clean, Limit
    <3>2. fbuffer[n] = NoFile
      BY <1>1, <3>1 DEF LInv, WalkOK
    <3>3. NoFile.filename \in Seq({NUL}) /\ Len(NoFile.filename) = NameSize /\ NameSize > 0
      BY Sizes DEF NoFile
    <3>4. Head(NoFile.filename) = NUL
      BY <3>3
    <3>5. QED
      BY <3>2, <3>4
  <2>2. QED
    BY <2>1
<1> HIDE DEF n
<1>4. ASSUME NEW k \in Visible PROVE k \in 0 .. n - 1
  <2>1. k \in Cells /\ \A m \in 0 .. k : Head(fbuffer[m].filename) # NUL
    BY DEF Visible
  <2>2. CASE ~ k < n
    <3>1. n < FileCells /\ n \in 0 .. k
      BY <1>1, <2>1, <2>2 DEF Cells
    <3>2. QED
      BY <1>3, <2>1, <3>1
  <2>3. QED
    BY <1>1, <2>1, <2>2 DEF Cells
<1>5. ASSUME NEW k \in 0 .. n - 1 PROVE k \in Visible
  <2>1. \A m \in 0 .. k : m \in 0 .. n - 1
    BY <1>1
  <2>2. QED
    BY <1>2, <2>1 DEF Visible
<1>6. Visible = 0 .. n - 1
  BY <1>4, <1>5
<1>7. QED
  BY <1>6 DEF n

-----------------------------------------------------------------------------
(* A line and its words *)

\* Induction on the numbers up to top.
LEMMA UpTo ==
  ASSUME NEW top \in Nat, NEW S, 1 \in S, \A k \in 1 .. top - 1 : k \in S => k + 1 \in S
  PROVE  1 .. top \subseteq S
<1> DEFINE Out == {k \in 1 .. top : k \notin S}
<1>1. SUFFICES ASSUME Out # {} PROVE FALSE
  OBVIOUS
<1>2. Out \in SUBSET Nat
  OBVIOUS
<1>3. PICK m \in Out : \A k \in Out : m <= k
  BY <1>1, <1>2, LeastOf
<1>4. m \in 1 .. top /\ m \notin S /\ m # 1
  BY <1>3
<1>5. m - 1 \in 1 .. top - 1 /\ m - 1 \notin Out
  BY <1>3, <1>4
<1>6. (m - 1) + 1 \in S
  BY <1>4, <1>5
<1>7. QED
  BY <1>4, <1>6

\* at says behind which place each of ss begins, when they stand one after the other.
Chain(S, ss, at) ==
  /\ at \in [1 .. Len(ss) -> Nat]
  /\ at[1] = 0 /\ \A i \in 1 .. Len(ss) - 1 : at[i + 1] = at[i] + Len(ss[i])
  /\ FlattenSeq(ss) \in Seq(S)
  /\ Len(FlattenSeq(ss)) = at[Len(ss)] + Len(ss[Len(ss)])
  /\ \A i \in 1 .. Len(ss) : \A p \in 1 .. Len(ss[i]) : FlattenSeq(ss)[at[i] + p] = ss[i][p]

LEMMA Flattening ==
  ASSUME NEW S, NEW ss \in Seq(Seq(S)), ss # <<>>
  PROVE  \E at : Chain(S, ss, at)
<1> DEFINE n == Len(ss)
           All(g) == g = [i \in 1 .. n |-> IF i = 1 THEN ss[i] ELSE g[i - 1] \o ss[i]]
           UpToM(g, m) == /\ g \in [1 .. m -> Seq(S)]
                          /\ \A i \in 1 .. m : g[i] = IF i = 1 THEN ss[i] ELSE g[i - 1] \o ss[i]
           Good == {m \in 1 .. n : \E g \in [1 .. m -> Seq(S)] : UpToM(g, m)}
<1>1. n \in Nat \ {0} /\ \A i \in 1 .. n : ss[i] \in Seq(S)
  BY ElementOfSeq
<1> HIDE DEF n
<1>2. 1 \in Good
  <2> DEFINE g == [i \in 1 .. 1 |-> ss[1]]
  <2>1. g \in [1 .. 1 -> Seq(S)]
    BY <1>1
  <2>2. \A i \in 1 .. 1 : g[i] = IF i = 1 THEN ss[i] ELSE g[i - 1] \o ss[i]
    <3>1. g[1] = ss[1] /\ \A i \in 1 .. 1 : i = 1
      OBVIOUS
    <3> HIDE DEF g
    <3>2. QED
      BY <3>1
  <2> HIDE DEF g
  <2>3. UpToM(g, 1)
    BY <2>1, <2>2
  <2> HIDE DEF UpToM
  <2>4. 1 \in 1 .. n
    BY <1>1
  <2>5. QED
    BY <2>1, <2>3, <2>4
<1>3. ASSUME NEW m \in 1 .. n - 1, m \in Good PROVE m + 1 \in Good
  <2>1. PICK g \in [1 .. m -> Seq(S)] : UpToM(g, m)
    BY <1>3
  <2> DEFINE h == [i \in 1 .. m + 1 |-> IF i = m + 1 THEN g[m] \o ss[i] ELSE g[i]]
  <2>2. g[m] \o ss[m + 1] \in Seq(S)
    <3>1. g[m] \in Seq(S) /\ ss[m + 1] \in Seq(S)
      BY <1>1, <2>1
    <3>2. QED
      BY <3>1
  <2>3. h \in [1 .. m + 1 -> Seq(S)]
    BY <1>1, <2>1, <2>2
  <2>4. \A i \in 1 .. m + 1 : h[i] = IF i = 1 THEN ss[i] ELSE h[i - 1] \o ss[i]
    <3> TAKE i \in 1 .. m + 1
    <3>1. CASE i = m + 1
      <4>1. i # 1 /\ i - 1 = m /\ m \in 1 .. m + 1 /\ m # m + 1
        BY <1>1, <3>1
      <4>2. h[m] = g[m]
        BY <4>1
      <4>3. h[i] = g[m] \o ss[i]
        BY <3>1
      <4> HIDE DEF h
      <4>4. QED
        BY <4>1, <4>2, <4>3
    <3>2. CASE i # m + 1
      <4>1. i \in 1 .. m /\ h[i] = g[i]
        BY <1>1, <3>2
      <4>2. i # 1 => i - 1 \in 1 .. m + 1 /\ i - 1 # m + 1
        BY <1>1, <4>1
      <4>3. i # 1 => h[i - 1] = g[i - 1]
        BY <4>2
      <4> HIDE DEF h
      <4>4. g[i] = IF i = 1 THEN ss[i] ELSE g[i - 1] \o ss[i]
        BY <2>1, <4>1
      <4>5. QED
        BY <4>1, <4>3, <4>4
    <3>3. QED
      BY <3>1, <3>2
  <2> HIDE DEF h
  <2>5. UpToM(h, m + 1)
    BY <2>3, <2>4
  <2> HIDE DEF UpToM
  <2>6. m + 1 \in 1 .. n
    BY <1>1
  <2>7. QED
    BY <2>3, <2>5, <2>6
<1>4. n \in Good
  <2> HIDE DEF Good
  <2>1. 1 .. n \subseteq Good
    BY <1>1, <1>2, <1>3, UpTo
  <2>2. QED
    BY <1>1, <2>1
<1>5. PICK g \in [1 .. n -> Seq(S)] : UpToM(g, n)
  BY <1>4
<1>6. All(g)
  BY <1>5
<1> DEFINE G == CHOOSE x : All(x)
<1>7. All(G)
  BY <1>6
<1>8. FlattenSeq(ss) = G[n]
  BY <1>1 DEF FlattenSeq, n
<1> HIDE DEF G, UpToM, Good
<1>9. /\ G[1] = ss[1]
      /\ \A i \in 1 .. n - 1 : G[i + 1] = G[i] \o ss[i + 1]
  <2>1. \A i \in 1 .. n : G[i] = IF i = 1 THEN ss[i] ELSE G[i - 1] \o ss[i]
    BY <1>7, Zenon
  <2> HIDE DEF All
  <2>2. G[1] = ss[1]
    BY <1>1, <2>1
  <2>3. ASSUME NEW i \in 1 .. n - 1 PROVE G[i + 1] = G[i] \o ss[i + 1]
    <3>1. i + 1 \in 1 .. n /\ i + 1 # 1 /\ (i + 1) - 1 = i
      BY <1>1
    <3>2. QED
      BY <2>1, <3>1
  <2>4. QED
    BY <2>2, <2>3
<1> HIDE DEF All
<1> DEFINE at  == [i \in 1 .. n |-> IF i = 1 THEN 0 ELSE Len(G[i - 1])]
           To(i) == /\ G[i] \in Seq(S)
                    /\ Len(G[i]) = at[i] + Len(ss[i])
                    /\ \A j \in 1 .. i : /\ at[j] \in Nat /\ at[j] + Len(ss[j]) <= Len(G[i])
                                         /\ \A p \in 1 .. Len(ss[j]) : G[i][at[j] + p] = ss[j][p]
<1>10. at[1] = 0 /\ \A i \in 1 .. n - 1 : at[i + 1] = Len(G[i])
  <2>1. at[1] = 0
    BY <1>1
  <2>2. ASSUME NEW i \in 1 .. n - 1 PROVE at[i + 1] = Len(G[i])
    <3>1. i + 1 \in 1 .. n /\ i + 1 # 1 /\ (i + 1) - 1 = i
      BY <1>1
    <3>2. QED
      BY <3>1
  <2>3. QED
    BY <2>1, <2>2
<1>11. at = [i \in 1 .. n |-> at[i]]
  OBVIOUS
<1> HIDE DEF at
<1>12. To(1)
  <2>1. ss[1] \in Seq(S) /\ Len(ss[1]) \in Nat
    BY <1>1
  <2>2. QED
    BY <1>9, <1>10, <2>1
<1>13. ASSUME NEW i \in 1 .. n - 1, To(i) PROVE To(i + 1)
  <2> DEFINE s == ss[i + 1]
             u == G[i]
  <2>1. /\ s \in Seq(S) /\ u \in Seq(S) /\ G[i + 1] = u \o s /\ at[i + 1] = Len(u)
    <3>1. i \in 1 .. n /\ i + 1 \in 1 .. n
      BY <1>1
    <3>2. ss[i + 1] \in Seq(S)
      BY <1>1, <3>1
    <3>3. G[i + 1] = G[i] \o ss[i + 1] /\ at[i + 1] = Len(G[i])
      BY <1>9, <1>10
    <3>4. G[i] \in Seq(S)
      BY <1>13
    <3> HIDE DEF To
    <3>5. QED
      BY <3>2, <3>3, <3>4
  <2>2. \A j \in 1 .. i : /\ at[j] \in Nat /\ at[j] + Len(ss[j]) <= Len(u)
                          /\ \A p \in 1 .. Len(ss[j]) : u[at[j] + p] = ss[j][p]
    BY <1>13
  <2>3. \A j \in 1 .. i : Len(ss[j]) \in Nat
    BY <1>1
  <2> HIDE DEF s, u
  <2>4. /\ u \o s \in Seq(S) /\ Len(u \o s) = Len(u) + Len(s) /\ Len(u) \in Nat /\ Len(s) \in Nat
        /\ \A q \in 1 .. Len(u) : (u \o s)[q] = u[q]
        /\ \A p \in 1 .. Len(s) : (u \o s)[Len(u) + p] = s[p]
    BY <2>1
  <2>5. ASSUME NEW j \in 1 .. i
        PROVE  /\ at[j] \in Nat /\ at[j] + Len(ss[j]) <= Len(u \o s)
               /\ \A p \in 1 .. Len(ss[j]) : (u \o s)[at[j] + p] = ss[j][p]
    <3>1. at[j] + Len(ss[j]) <= Len(u) /\ at[j] \in Nat /\ Len(ss[j]) \in Nat
      BY <2>2, <2>3
    <3>2. ASSUME NEW p \in 1 .. Len(ss[j]) PROVE (u \o s)[at[j] + p] = ss[j][p]
      <4>1. at[j] + p \in 1 .. Len(u)
        BY <2>4, <3>1
      <4>2. QED
        BY <2>2, <2>4, <4>1
    <3>3. QED
      BY <2>4, <3>1, <3>2, SMTT(30)
  <2>6. \A j \in 1 .. i + 1 : j \in 1 .. i \/ j = i + 1
    BY <1>1
  <2>7. /\ at[i + 1] \in Nat /\ at[i + 1] + Len(ss[i + 1]) <= Len(u \o s)
        /\ \A p \in 1 .. Len(ss[i + 1]) : (u \o s)[at[i + 1] + p] = ss[i + 1][p]
    BY <2>1, <2>4 DEF s
  <2>8. Len(u \o s) = at[i + 1] + Len(ss[i + 1])
    BY <2>1, <2>4 DEF s
  <2>9. \A j \in 1 .. i + 1 : /\ at[j] \in Nat /\ at[j] + Len(ss[j]) <= Len(u \o s)
                              /\ \A p \in 1 .. Len(ss[j]) : (u \o s)[at[j] + p] = ss[j][p]
    BY <2>5, <2>6, <2>7
  <2>10. QED
    BY <2>1, <2>4, <2>8, <2>9
<1>14. \A i \in 1 .. n : To(i)
  <2> DEFINE Done == {i \in 1 .. n : To(i)}
  <2>1. 1 \in Done
    BY <1>1, <1>12
  <2>2. \A i \in 1 .. n - 1 : i \in Done => i + 1 \in Done
    <3> TAKE i \in 1 .. n - 1
    <3> HAVE i \in Done
    <3>1. To(i) /\ i + 1 \in 1 .. n
      BY <1>1
    <3> HIDE DEF To
    <3>2. QED
      BY <1>13, <3>1
  <2>3. 1 .. n \subseteq Done
    <3> HIDE DEF Done
    <3>1. QED
      BY <1>1, <2>1, <2>2, UpTo
  <2>4. QED
    BY <2>3
<1>15. n \in 1 .. n /\ \A i \in 1 .. n : i \in 1 .. i
  BY <1>1
<1>16. \A i \in 1 .. n : at[i] \in Nat
  BY <1>14, <1>15
<1>17. at \in [1 .. n -> Nat]
  BY <1>11, <1>16
<1>18. \A i \in 1 .. n - 1 : at[i + 1] = at[i] + Len(ss[i])
  <2> TAKE i \in 1 .. n - 1
  <2>1. i \in 1 .. n
    BY <1>1
  <2>2. Len(G[i]) = at[i] + Len(ss[i])
    BY <1>14, <2>1
  <2>3. QED
    BY <1>10, <2>2
<1>19. /\ G[n] \in Seq(S) /\ Len(G[n]) = at[n] + Len(ss[n])
       /\ \A i \in 1 .. n : \A p \in 1 .. Len(ss[i]) : G[n][at[i] + p] = ss[i][p]
  BY <1>14, <1>15
<1>20. Chain(S, ss, at)
  <2> HIDE DEF To
  <2>1. QED
    BY <1>8, <1>10, <1>17, <1>18, <1>19 DEF n, Chain
<1>21. QED
  BY <1>20, Zenon

\* Places that are each behind the one before and what begins there.
Consecutive(n, at, l) == \A i \in 1 .. n - 1 : at[i + 1] = at[i] + l[i] + 1

LEMMA Rising ==
  ASSUME NEW n \in Nat \ {0}, NEW at \in [1 .. n -> Nat], NEW l \in [1 .. n -> Nat],
         Consecutive(n, at, l)
  PROVE  \A k \in 1 .. n : \A i \in 1 .. k : /\ at[i] + l[i] <= at[k] + l[k]
                                             /\ i # k => at[i] + l[i] < at[k]
<1> DEFINE Ok == {k \in 1 .. n : \A i \in 1 .. k : /\ at[i] + l[i] <= at[k] + l[k]
                                                   /\ i # k => at[i] + l[i] < at[k]}
<1>1. 1 \in Ok
  <2>1. \A i \in 1 .. 1 : i = 1
    OBVIOUS
  <2>2. QED
    BY <2>1
<1>2. \A k \in 1 .. n - 1 : k \in Ok => k + 1 \in Ok
  <2> TAKE k \in 1 .. n - 1
  <2> HAVE k \in Ok
  <2>1. /\ k \in 1 .. n /\ k + 1 \in 1 .. n /\ k \in 1 .. k
        /\ \A i \in 1 .. k + 1 : i \in 1 .. k \/ i = k + 1
    OBVIOUS
  <2>2. /\ at[k + 1] = at[k] + l[k] + 1 /\ at[k] \in Nat /\ l[k] \in Nat
        /\ at[k + 1] \in Nat /\ l[k + 1] \in Nat
    BY <2>1 DEF Consecutive
  <2>0. \A i \in 1 .. k : at[i] + l[i] <= at[k] + l[k]
    OBVIOUS
  <2> HIDE DEF Ok
  <2>3. ASSUME NEW i \in 1 .. k + 1
        PROVE  /\ at[i] + l[i] <= at[k + 1] + l[k + 1]
               /\ i # k + 1 => at[i] + l[i] < at[k + 1]
    <3>1. CASE i = k + 1
      BY <2>1, <3>1
    <3>2. CASE i \in 1 .. k
      <4>1. at[i] + l[i] <= at[k] + l[k]
        BY <2>0, <3>2
      <4>2. at[i] \in Nat /\ l[i] \in Nat
        BY <3>2
      <4> DEFINE to  == at[i] + l[i]
                 tok == at[k] + l[k]
      <4>3. to \in Nat /\ tok \in Nat /\ to <= tok /\ at[k + 1] = tok + 1
        <5>1. to \in Nat
          BY <4>2
        <5>2. tok \in Nat /\ at[k + 1] = tok + 1
          BY <2>2
        <5>3. to <= tok
          BY <4>1
        <5>4. QED
          BY <5>1, <5>2, <5>3
      <4> HIDE DEF to, tok
      <4>4. to <= at[k + 1] + l[k + 1] /\ to < at[k + 1]
        BY <2>2, <4>3
      <4>5. QED
        BY <4>4 DEF to
    <3>3. QED
      BY <2>1, <3>1, <3>2
  <2>4. QED
    BY <2>1, <2>3 DEF Ok
<1>3. 1 .. n \subseteq Ok
  <2> HIDE DEF Ok
  <2>1. QED
    BY <1>1, <1>2, UpTo
<1>4. QED
  BY <1>3

\* What a word is made of.
Chars == (1 .. 255) \ {Blank}

\* Words of l[i] characters stand in a line: word i begins behind place at[i], where
\* there is a blank but for the first.
Spread(text, ws, n, l, at) ==
  /\ n \in Nat \ {0} /\ l \in [1 .. n -> Nat] /\ at \in [1 .. n -> Nat]
  /\ at[1] = 0 /\ Consecutive(n, at, l)
  /\ text \in Seq(1 .. 255) /\ Len(text) = at[n] + l[n]
  /\ \A i \in 1 .. n : \A p \in 1 .. l[i] : text[at[i] + p] = ws[i][p] /\ ws[i][p] \in Chars
  /\ \A i \in 2 .. n : text[at[i]] = Blank

Lengths(ws) == [i \in 1 .. Len(ws) |-> Len(ws[i])]

LEMMA LineOfWords ==
  ASSUME NEW ws \in Seq(Seq(Chars)), ws # <<>>
  PROVE  \E at : Spread(Line(ws), ws, Len(ws), Lengths(ws), at)
<1> DEFINE n  == Len(ws)
           ss == [k \in DOMAIN ws |-> <<Blank>> \o ws[k]]
           T  == FlattenSeq(ss)
<1>1. n \in Nat \ {0} /\ DOMAIN ws = 1 .. n /\ \A i \in 1 .. n : ws[i] \in Seq(1 .. 255)
  <2>1. \A i \in 1 .. n : ws[i] \in Seq(Chars)
    BY ElementOfSeq
  <2>2. \A s \in Seq(Chars) : s \in Seq(1 .. 255)
    BY DEF Chars
  <2>3. QED
    BY <2>1, <2>2
<1> HIDE DEF n
<1>2. ASSUME NEW i \in 1 .. n
      PROVE  /\ ss[i] \in Seq(1 .. 255) /\ Len(ss[i]) = Len(ws[i]) + 1 /\ Len(ws[i]) \in Nat
             /\ ss[i][1] = Blank /\ \A p \in 1 .. Len(ws[i]) : ss[i][p + 1] = ws[i][p]
  <2> DEFINE w == ws[i]
  <2>1. w \in Seq(1 .. 255) /\ ss[i] = <<Blank>> \o w
    BY <1>1
  <2> HIDE DEF w, ss
  <2>2. <<Blank>> \in Seq(1 .. 255) /\ Len(<<Blank>>) = 1 /\ <<Blank>>[1] = Blank
    BY DEF Blank
  <2>3. QED
    BY <2>1, <2>2 DEF w
<1>3. ss \in Seq(Seq(1 .. 255)) /\ Len(ss) = n
  <2>1. ss = [k \in 1 .. n |-> ss[k]]
    BY <1>1
  <2> HIDE DEF ss
  <2>2. ss \in [1 .. n -> Seq(1 .. 255)]
    BY <1>2, <2>1, Zenon
  <2>3. QED
    BY <1>1, <2>2
<1> HIDE DEF ss
<1>4. ss # <<>>
  BY <1>1, <1>3
<1>5. PICK at :
           /\ at \in [1 .. n -> Nat]
           /\ at[1] = 0
           /\ \A i \in 1 .. n - 1 : at[i + 1] = at[i] + Len(ss[i])
           /\ T \in Seq(1 .. 255)
           /\ Len(T) = at[n] + Len(ss[n])
           /\ \A i \in 1 .. n : \A p \in 1 .. Len(ss[i]) : T[at[i] + p] = ss[i][p]
  <2>1. PICK at : Chain(1 .. 255, ss, at)
    BY <1>3, <1>4, Flattening
  <2> HIDE DEF T
  <2>2. QED
    BY <1>3, <2>1, Zenon DEF Chain, T
<1> HIDE DEF T
<1>6. n \in 1 .. n /\ at[n] \in Nat
  BY <1>1, <1>5
<1>7. Len(T) = at[n] + Len(ws[n]) + 1 /\ Len(ws[n]) \in Nat
  BY <1>2, <1>5, <1>6
<1>8. Line(ws) = Tail(T)
  BY DEF Line, T, ss
<1>9. /\ Line(ws) \in Seq(1 .. 255) /\ Len(Line(ws)) = at[n] + Len(ws[n])
      /\ \A x \in 1 .. at[n] + Len(ws[n]) : Line(ws)[x] = T[x + 1]
  <2>1. T # <<>>
    BY <1>5, <1>6, <1>7
  <2>2. Tail(T) \in Seq(1 .. 255) /\ Len(Tail(T)) = Len(T) - 1
        /\ \A x \in 1 .. Len(T) - 1 : Tail(T)[x] = T[x + 1]
    BY <1>5, <2>1
  <2>3. Len(T) - 1 = at[n] + Len(ws[n])
    BY <1>6, <1>7
  <2>4. QED
    BY <1>8, <2>2, <2>3
<1>10. \A i \in 1 .. n - 1 : at[i + 1] = at[i] + Len(ws[i]) + 1
  <2> TAKE i \in 1 .. n - 1
  <2>0. i \in 1 .. n
    BY <1>1
  <2>1. i \in 1 .. n /\ at[i] \in Nat
    BY <1>5, <2>0
  <2>2. at[i + 1] = at[i] + (Len(ws[i]) + 1) /\ Len(ws[i]) \in Nat
    BY <1>2, <1>5, <2>1
  <2>3. QED
    BY <2>1, <2>2
<1> DEFINE l == [i \in 1 .. n |-> Len(ws[i])]
<1>11. /\ l \in [1 .. n -> Nat] /\ \A i \in 1 .. n : Len(ws[i]) = l[i]
       /\ at \in [1 .. n -> Nat]
       /\ \A i \in 1 .. n : at[i] + l[i] <= at[n] + l[n]
  <2>1. l \in [1 .. n -> Nat] /\ \A i \in 1 .. n : Len(ws[i]) = l[i]
    BY <1>2
  <2> HIDE DEF l
  <2>2. \A i \in 1 .. n - 1 : i \in 1 .. n
    BY <1>1
  <2>3. \A i \in 1 .. n - 1 : at[i + 1] = at[i] + l[i] + 1
    BY <1>10, <2>1, <2>2
  <2>4. \A k \in 1 .. n : \A i \in 1 .. k : at[i] + l[i] <= at[k] + l[k]
    <3>1. at \in [1 .. n -> Nat]
      BY <1>5
    <3>2. QED
      BY <1>1, <2>1, <2>3, <3>1, Rising, Zenon DEF Consecutive
  <2>5. QED
    BY <1>5, <1>6, <2>1, <2>4
<1> HIDE DEF l
<1>12. \A i \in 1 .. n : \A p \in 1 .. Len(ws[i]) : Line(ws)[at[i] + p] = ws[i][p]
  <2> TAKE i \in 1 .. n
  <2> TAKE p \in 1 .. Len(ws[i])
  <2>1. p \in 1 .. l[i] /\ Len(ws[n]) = l[n] /\ Len(ss[i]) = l[i] + 1
    BY <1>2, <1>6, <1>11
  <2>0. /\ at[i] \in Nat /\ l[i] \in Nat /\ at[n] \in Nat /\ l[n] \in Nat
        /\ at[i] + l[i] <= at[n] + l[n]
    BY <1>6, <1>11
  <2>2. at[i] + p \in 1 .. at[n] + l[n]
    <3> DEFINE b == at[i]
               c == l[i]
               t == at[n] + l[n]
    <3>1. b \in Nat /\ c \in Nat /\ t \in Nat /\ b + c <= t /\ p \in 1 .. c
      BY <2>0, <2>1
    <3> HIDE DEF b, c, t
    <3>2. b + p \in 1 .. t
      BY <3>1
    <3>3. QED
      BY <3>2 DEF b, t
  <2>3. p + 1 \in 1 .. Len(ss[i]) /\ (at[i] + p) + 1 = at[i] + (p + 1)
    <3> DEFINE b == at[i]
               c == l[i]
    <3>1. b \in Nat /\ c \in Nat /\ p \in 1 .. c /\ Len(ss[i]) = c + 1
      BY <2>0, <2>1
    <3> HIDE DEF b, c
    <3>2. p + 1 \in 1 .. c + 1 /\ (b + p) + 1 = b + (p + 1)
      BY <3>1
    <3>3. QED
      BY <3>1, <3>2 DEF b
  <2>4. Line(ws)[at[i] + p] = T[at[i] + (p + 1)]
    BY <1>9, <2>1, <2>2, <2>3
  <2>5. QED
    BY <1>2, <1>5, <2>3, <2>4
<1>13. \A i \in 2 .. n : Line(ws)[at[i]] = Blank
  <2> TAKE i \in 2 .. n
  <2>1. i - 1 \in 1 .. n - 1 /\ (i - 1) + 1 = i /\ i - 1 \in 1 .. n /\ i \in 1 .. n
    BY <1>1
  <2>2. /\ at[i] = at[i - 1] + l[i - 1] + 1 /\ Len(ws[n]) = l[n] /\ Len(ss[i]) = l[i] + 1
    BY <1>2, <1>6, <1>10, <1>11, <2>1
  <2>0. /\ at[i] \in Nat /\ l[i] \in Nat /\ at[n] \in Nat /\ l[n] \in Nat
        /\ at[i] + l[i] <= at[n] + l[n] /\ at[i - 1] \in Nat /\ l[i - 1] \in Nat
    BY <1>6, <1>11, <2>1
  <2>3. at[i] \in 1 .. at[n] + l[n]
    <3> DEFINE b == at[i]
               t == at[n] + l[n]
    <3> DEFINE c == at[i - 1]
               e == l[i - 1]
    <3>0. b = c + e + 1 /\ c \in Nat /\ e \in Nat
      BY <2>0, <2>2
    <3> HIDE DEF c, e
    <3>1. b \in Nat /\ t \in Nat /\ b <= t /\ b # 0
      BY <2>0, <3>0
    <3> HIDE DEF b, t
    <3>2. b \in 1 .. t
      BY <3>1
    <3>3. QED
      BY <3>2 DEF b, t
  <2>4. Line(ws)[at[i]] = T[at[i] + 1]
    BY <1>9, <2>2, <2>3
  <2>5. 1 \in 1 .. Len(ss[i])
    BY <2>0, <2>2
  <2>6. QED
    BY <1>2, <1>5, <2>1, <2>4, <2>5
<1>14. ASSUME NEW i \in 1 .. n, NEW p \in 1 .. l[i]
       PROVE  Line(ws)[at[i] + p] = ws[i][p] /\ ws[i][p] \in Chars
  <2>1. ws[i] \in Seq(Chars) /\ p \in 1 .. Len(ws[i])
    <3>1. ws[i] \in Seq(Chars)
      BY ElementOfSeq DEF n
    <3>2. QED
      BY <1>11, <3>1
  <2>2. ws[i][p] \in Chars
    BY <2>1, ElementOfSeq
  <2>3. QED
    BY <1>12, <2>1, <2>2
<1>15. Len(Line(ws)) = at[n] + l[n]
  BY <1>6, <1>9, <1>11
<1>16. \A i \in 1 .. n - 1 : at[i + 1] = at[i] + l[i] + 1
  <2>1. \A i \in 1 .. n - 1 : i \in 1 .. n
    BY <1>1
  <2>2. QED
    BY <1>10, <1>11, <2>1
<1>17. Spread(Line(ws), ws, n, l, at)
  BY <1>1, <1>5, <1>9, <1>11, <1>13, <1>14, <1>15, <1>16, Zenon DEF Spread, Consecutive
<1>18. l = Lengths(ws)
  BY DEF l, n, Lengths
<1>19. QED
  BY <1>17, <1>18 DEF n

\* Each place of the line is a blank between words or belongs to a word.
LEMMA PlaceInLine ==
  ASSUME NEW text, NEW ws, NEW n, NEW l, NEW at, Spread(text, ws, n, l, at),
         NEW x \in 1 .. Len(text)
  PROVE  \/ \E i \in 2 .. n : x = at[i]
         \/ \E k \in 1 .. n : \E p \in 1 .. l[k] : x = at[k] + p
<1>1. /\ n \in Nat \ {0} /\ l \in [1 .. n -> Nat] /\ at \in [1 .. n -> Nat]
      /\ at[1] = 0 /\ x \in Nat /\ 1 <= x /\ x <= at[n] + l[n]
  BY DEF Spread
<1> DEFINE Behind == {j \in 1 .. n : x <= at[j] + l[j]}
<1>2. n \in Behind /\ Behind \in SUBSET Nat
  BY <1>1
<1>3. PICK k \in Behind : \A j \in Behind : k <= j
  BY <1>2, LeastOf
<1>4. k \in 1 .. n /\ x <= at[k] + l[k] /\ at[k] \in Nat /\ l[k] \in Nat
  BY <1>1, <1>3
<1>5. CASE x <= at[k]
  <2>1. k # 1
    BY <1>1, <1>4, <1>5
  <2>2. k - 1 \in 1 .. n /\ ~ k <= k - 1 /\ k - 1 \in 1 .. n - 1 /\ (k - 1) + 1 = k
    BY <1>1, <1>4, <2>1
  <2>3. k - 1 \notin Behind
    BY <1>3, <2>2
  <2>4. ~ x <= at[k - 1] + l[k - 1]
    BY <2>2, <2>3
  <2>5. at[k] = at[k - 1] + l[k - 1] + 1 /\ at[k - 1] \in Nat /\ l[k - 1] \in Nat
    BY <1>1, <2>2 DEF Spread, Consecutive
  <2> DEFINE e == at[k - 1] + l[k - 1]
  <2>6. e \in Nat /\ at[k] = e + 1 /\ ~ x <= e
    BY <2>4, <2>5
  <2> HIDE DEF e
  <2>7. x = at[k]
    BY <1>1, <1>5, <2>6
  <2>8. k \in 2 .. n
    BY <1>4, <2>1
  <2>9. QED
    BY <2>7, <2>8
<1>6. CASE ~ x <= at[k]
  <2> DEFINE b == at[k]
             c == l[k]
  <2>1. b \in Nat /\ c \in Nat /\ x <= b + c /\ ~ x <= b
    BY <1>4, <1>6
  <2> HIDE DEF b, c
  <2>2. x - b \in 1 .. c /\ x = b + (x - b)
    BY <1>1, <2>1
  <2>3. QED
    BY <1>4, <2>2 DEF b, c
<1>7. QED
  BY <1>5, <1>6

\* Before the characters of word k there are the blanks that separate the words up
\* to it, and the last one is where it begins.
LEMMA BlanksOfLine ==
  ASSUME NEW text, NEW ws, NEW n, NEW l, NEW at, Spread(text, ws, n, l, at),
         NEW k \in 1 .. n, NEW p \in 1 .. l[k]
  PROVE  /\ Cardinality(BlanksBefore(text, at[k] + p)) = k - 1
         /\ IF BlanksBefore(text, at[k] + p) = {} THEN at[k] = 0
            ELSE Max(BlanksBefore(text, at[k] + p)) = at[k]
<1> DEFINE B == BlanksBefore(text, at[k] + p)
           h == [i \in 2 .. k |-> at[i]]
<1>1. /\ n \in Nat \ {0} /\ l \in [1 .. n -> Nat] /\ at \in [1 .. n -> Nat]
      /\ at[1] = 0 /\ Len(text) = at[n] + l[n]
      /\ at[k] \in Nat /\ l[k] \in Nat /\ at[n] \in Nat /\ l[n] \in Nat
  BY DEF Spread
<1>2. \A j \in 1 .. n : \A i \in 1 .. j : /\ at[i] + l[i] <= at[j] + l[j]
                                          /\ i # j => at[i] + l[i] < at[j]
  BY Rising, Zenon DEF Spread
<1>3. \A j \in 1 .. n : \A i \in 1 .. j : i # j => at[i] < at[j]
  <2> TAKE j \in 1 .. n
  <2> TAKE i \in 1 .. j
  <2> HAVE i # j
  <2>1. at[i] \in Nat /\ l[i] \in Nat /\ at[j] \in Nat
    BY <1>1
  <2>2. at[i] + l[i] < at[j]
    BY <1>2
  <2>3. QED
    BY <2>1, <2>2
<1>4. at[k] + p <= at[n] + l[n]
  <2>1. at[k] + l[k] <= at[n] + l[n]
    BY <1>1, <1>2
  <2>2. QED
    BY <1>1, <2>1
<1>5. ASSUME NEW m \in B PROVE m \in {at[i] : i \in 2 .. k}
  <2>1. m \in 1 .. (at[k] + p) - 1 /\ text[m] = Blank
    BY DEF BlanksBefore
  <2>2. m \in 1 .. Len(text)
    BY <1>1, <1>4, <2>1
  <2>3. CASE \E i \in 2 .. n : m = at[i]
    <3>1. PICK i \in 2 .. n : m = at[i]
      BY <2>3
    <3>2. CASE i <= k
      BY <1>1, <3>1, <3>2
    <3>3. CASE ~ i <= k
      <4>1. i \in 1 .. n /\ k \in 1 .. i /\ k # i
        BY <1>1, <3>3
      <4>2. at[k] + l[k] < m
        BY <1>2, <3>1, <4>1
      <4>3. QED
        BY <1>1, <2>1, <4>2
    <3>4. QED
      BY <3>2, <3>3
  <2>4. CASE \E j \in 1 .. n : \E q \in 1 .. l[j] : m = at[j] + q
    <3>0. PICK j \in 1 .. n : \E q \in 1 .. l[j] : m = at[j] + q
      BY <2>4
    <3>1. PICK q \in 1 .. l[j] : m = at[j] + q
      BY <3>0
    <3>2. text[m] \in Chars
      BY <3>1 DEF Spread
    <3>3. QED
      BY <2>1, <3>2 DEF Chars
  <2>5. QED
    BY <2>2, <2>3, <2>4, PlaceInLine
<1>6. ASSUME NEW i \in 2 .. k
      PROVE  at[i] \in B /\ at[i] <= at[k]
  <2>1. i \in 1 .. n /\ i \in 2 .. n /\ 1 \in 1 .. i /\ i \in 1 .. k /\ 1 # i
    BY <1>1
  <2>2. at[i] \in Nat /\ 0 < at[i]
    BY <1>1, <1>3, <2>1
  <2>3. at[i] <= at[k]
    <3>1. CASE i = k
      BY <1>1, <3>1
    <3>2. CASE i # k
      BY <1>1, <1>3, <2>1, <2>2, <3>2
    <3>3. QED
      BY <3>1, <3>2
  <2>4. text[at[i]] = Blank
    BY <2>1 DEF Spread
  <2>5. at[i] \in 1 .. (at[k] + p) - 1
    BY <1>1, <2>2, <2>3
  <2>6. QED
    BY <2>3, <2>4, <2>5 DEF BlanksBefore
<1>7. B = {at[i] : i \in 2 .. k}
  <2> HIDE DEF B
  <2>1. QED
    BY <1>5, <1>6
<1>8. Cardinality(B) = k - 1
  <2>1. h \in Bijection(2 .. k, B)
    <3>1. h \in [2 .. k -> B]
      BY <1>6
    <3>2. ASSUME NEW i \in 2 .. k, NEW j \in 2 .. k, h[i] = h[j] PROVE i = j
      <4>1. at[i] = at[j] /\ i \in 1 .. n /\ j \in 1 .. n /\ at[i] \in Nat
        BY <1>1, <3>2
      <4>2. CASE i < j
        BY <1>3, <4>1, <4>2
      <4>3. CASE j < i
        BY <1>3, <4>1, <4>3
      <4>4. QED
        BY <1>1, <4>2, <4>3
    <3>3. \A b \in B : \E i \in 2 .. k : h[i] = b
      BY <1>7
    <3> HIDE DEF h, B
    <3>4. QED
      BY <3>1, <3>2, <3>3, Zenon DEF Bijection, Injection, Surjection, IsInjective
  <2>2. ExistsBijection(2 .. k, B)
    BY <2>1, Zenon DEF ExistsBijection
  <2>3. IsFiniteSet(2 .. k) /\ Cardinality(2 .. k) = IF 2 > k THEN 0 ELSE k - 2 + 1
    BY <1>1, FS_Interval
  <2>4. Cardinality(B) = Cardinality(2 .. k)
    BY <2>2, <2>3, FS_Bijection, Zenon
  <2>5. QED
    BY <1>1, <2>3, <2>4
<1>9. CASE k = 1
  <2>1. B = {}
    BY <1>7, <1>9
  <2>2. QED
    BY <1>1, <1>8, <1>9, <2>1
<1>10. CASE k # 1
  <2>1. k \in 2 .. k
    BY <1>1, <1>10
  <2>2. at[k] \in B /\ B # {}
    BY <1>6, <2>1
  <2>3. \A b \in B : b \in Nat /\ at[k] >= b
    <3> TAKE b \in B
    <3>1. PICK i \in 2 .. k : b = at[i]
      BY <1>7
    <3>2. b <= at[k] /\ i \in 1 .. n
      BY <1>1, <1>6, <3>1
    <3>3. b \in Nat
      BY <1>1, <3>1, <3>2
    <3>4. QED
      BY <1>1, <3>2, <3>3
  <2> HIDE DEF B
  <2>4. Max(B) \in B /\ \A b \in B : Max(B) >= b
    BY <2>2, <2>3 DEF Max
  <2>5. Max(B) = at[k]
    BY <1>1, <2>2, <2>3, <2>4
  <2>6. QED
    BY <1>8, <2>2, <2>5 DEF B
<1>11. QED
  BY <1>9, <1>10

\* argv[k - 1][p - 1], for character p of word k.
LEMMA AddressOfPlace ==
  ASSUME NEW text, NEW ws, NEW n, NEW l, NEW at, Spread(text, ws, n, l, at),
         NEW k \in 1 .. n, NEW p \in 1 .. l[k], NEW columns \in Nat
  PROVE  Address(text, at[k] + p, columns) = (k - 1) * columns + p - 1
<1>1. at[k] \in Nat /\ l[k] \in Nat /\ k - 1 \in Nat
  BY DEF Spread
<1>2. Address(text, at[k] + p, columns) = (k - 1) * columns + (at[k] + p) - 1 - at[k]
  <2> DEFINE B == BlanksBefore(text, at[k] + p)
  <2>1. Address(text, at[k] + p, columns) =
          Cardinality(B) * columns + (at[k] + p) - 1 - (IF B = {} THEN 0 ELSE Max(B))
    BY DEF Address
  <2>2. Cardinality(B) = k - 1 /\ (IF B = {} THEN at[k] = 0 ELSE Max(B) = at[k])
    BY BlanksOfLine
  <2> HIDE DEF B
  <2>3. (IF B = {} THEN 0 ELSE Max(B)) = at[k]
    BY <2>2
  <2>4. QED
    BY <2>1, <2>2, <2>3
<1>3. (k - 1) * columns \in Nat
  BY <1>1
<1>4. QED
  BY <1>1, <1>2, <1>3

\* Two addresses in argv are the same for the same row and place only.
LEMMA RowAndColumn ==
  ASSUME NEW columns \in Nat, NEW i \in Nat, NEW j \in Nat,
         NEW p \in 1 .. columns, NEW q \in 1 .. columns,
         i * columns + p - 1 = j * columns + q - 1
  PROVE  i = j /\ p = q
<1>1. \A a \in Nat, b \in Nat : a < b => a * columns + columns <= b * columns
  <2> TAKE a \in Nat, b \in Nat
  <2> HAVE a < b
  <2>1. b - (a + 1) \in Nat
    OBVIOUS
  <2>2. (b - (a + 1)) * columns \in Nat
    BY <2>1
  <2>3. b * columns = (b - (a + 1)) * columns + a * columns + columns
    OBVIOUS
  <2>4. QED
    BY <2>2, <2>3
<1> DEFINE x == i * columns
           y == j * columns
<1>2. x \in Nat /\ y \in Nat
  OBVIOUS
<1>3. i < j => x + columns <= y
  BY <1>1
<1>4. j < i => y + columns <= x
  BY <1>1
<1>5. x + p = y + q
  BY <1>2
<1>6. i = j => x = y
  OBVIOUS
<1> HIDE DEF x, y
<1>7. QED
  BY <1>2, <1>3, <1>4, <1>5, <1>6

\* A line of words shorter than a row gives argv one word in each row, as long as
\* there are words and rows.
InRow(ws, n, l, r, p) == IF r <= n /\ p <= l[r] THEN ws[r][p] ELSE NUL

Laid(array, ws, n, l, columns, r) ==
  \A p \in 1 .. columns : array[(r - 1) * columns + p] = InRow(ws, n, l, r, p)

LEMMA RowOfArray ==
  ASSUME NEW text, NEW ws, NEW n, NEW l, NEW at, Spread(text, ws, n, l, at),
         NEW rows \in Nat, NEW columns \in Nat, \A k \in 1 .. n : l[k] < columns,
         NEW r \in 1 .. rows
  PROVE  Laid(argv_array(text, rows, columns), ws, n, l, columns, r)
<1>0. SUFFICES ASSUME NEW p \in 1 .. columns
               PROVE  argv_array(text, rows, columns)[(r - 1) * columns + p] = InRow(ws, n, l, r, p)
  BY DEF Laid
<1> DEFINE c    == (r - 1) * columns + p
           here == {x \in Copied(text, rows) : Address(text, x, columns) = c - 1}
<1>1. /\ n \in Nat \ {0} /\ l \in [1 .. n -> Nat] /\ at \in [1 .. n -> Nat]
      /\ Len(text) = at[n] + l[n] /\ at[n] \in Nat /\ l[n] \in Nat
  BY DEF Spread
<1>2. c \in 1 .. rows * columns
  <2> DEFINE x == (r - 1) * columns
             y == (rows - r) * columns
  <2>1. x \in Nat /\ y \in Nat
    <3>1. r - 1 \in Nat /\ rows - r \in Nat
      OBVIOUS
    <3>2. QED
      BY <3>1
  <2>2. rows * columns = x + columns + y
    OBVIOUS
  <2> HIDE DEF x, y
  <2>3. x + p \in 1 .. rows * columns
    BY <2>1, <2>2
  <2>4. QED
    BY <2>3 DEF x
<1>3. argv_array(text, rows, columns)[c] = IF here = {} THEN NUL ELSE text[Max(here)]
  BY <1>2 DEF argv_array
<1>4. \A k \in 1 .. n : \A q \in 1 .. l[k] : q \in 1 .. columns
  <2> TAKE k \in 1 .. n
  <2> TAKE q \in 1 .. l[k]
  <2>1. l[k] < columns /\ l[k] \in Nat
    BY <1>1
  <2>2. QED
    BY <2>1
<1>5. ASSUME NEW x \in here
      PROVE  r <= n /\ p <= l[r] /\ x = at[r] + p
  <2>1. /\ x \in 1 .. Len(text) /\ text[x] # Blank
        /\ Address(text, x, columns) = c - 1
    BY DEF Copied
  <2>2. ASSUME NEW i \in 2 .. n, x = at[i] PROVE FALSE
    BY <2>1, <2>2 DEF Spread
  <2>3. PICK k \in 1 .. n : \E q \in 1 .. l[k] : x = at[k] + q
    BY <2>1, <2>2, PlaceInLine
  <2>4. PICK q \in 1 .. l[k] : x = at[k] + q
    BY <2>3
  <2>5. Address(text, x, columns) = (k - 1) * columns + q - 1
    BY <2>4, AddressOfPlace
  <2>6. (k - 1) * columns + q - 1 = (r - 1) * columns + p - 1
    BY <2>1, <2>5
  <2>7. q \in 1 .. columns /\ k - 1 \in Nat /\ r - 1 \in Nat
    BY <1>1, <1>4
  <2>8. k - 1 = r - 1 /\ q = p
    BY <2>6, <2>7, RowAndColumn
  <2>9. k = r
    BY <1>1, <2>8
  <2>10. l[r] \in Nat
    BY <1>1, <2>9
  <2>11. QED
    BY <1>1, <2>4, <2>8, <2>9, <2>10
<1>6. ASSUME r <= n, p <= l[r]
      PROVE  at[r] + p \in here /\ text[at[r] + p] = ws[r][p]
  <2>1. r \in 1 .. n /\ p \in 1 .. l[r] /\ l[r] \in Nat /\ at[r] \in Nat
    BY <1>1, <1>6
  <2>2. text[at[r] + p] = ws[r][p] /\ ws[r][p] # Blank
    BY <2>1 DEF Spread, Chars
  <2>3. Cardinality(BlanksBefore(text, at[r] + p)) = r - 1
    BY <2>1, BlanksOfLine
  <2>4. at[r] + p \in 1 .. Len(text)
    <3>1. at[r] + l[r] <= at[n] + l[n]
      <4>1. \A j \in 1 .. n : \A i \in 1 .. j : at[i] + l[i] <= at[j] + l[j]
        BY Rising, Zenon DEF Spread
      <4>2. n \in 1 .. n /\ r \in 1 .. n
        BY <1>1, <2>1
      <4>3. QED
        BY <4>1, <4>2
    <3>2. QED
      BY <1>1, <2>1, <3>1
  <2>5. at[r] + p \in Copied(text, rows)
    BY <2>2, <2>3, <2>4 DEF Copied
  <2>6. Address(text, at[r] + p, columns) = c - 1
    <3>1. Address(text, at[r] + p, columns) = (r - 1) * columns + p - 1
      BY <2>1, AddressOfPlace
    <3>2. QED
      BY <3>1
  <2>7. QED
    BY <2>2, <2>5, <2>6
<1>7. CASE r <= n /\ p <= l[r]
  <2>1. here = {at[r] + p}
    <3>1. at[r] + p \in here
      BY <1>6, <1>7
    <3> HIDE DEF here
    <3>2. QED
      BY <1>5, <3>1
  <2> HIDE DEF here
  <2>2. at[r] + p \in Nat
    BY <1>1, <1>7
  <2>3. Max(here) = at[r] + p
    BY <2>1, <2>2 DEF Max
  <2>4. text[at[r] + p] = ws[r][p]
    BY <1>6, <1>7
  <2>5. QED
    BY <1>2, <1>3, <1>7, <2>1, <2>3, <2>4 DEF InRow
<1>8. CASE ~ (r <= n /\ p <= l[r])
  <2>1. here = {}
    <3> HIDE DEF here
    <3>1. QED
      BY <1>5, <1>8
  <2>2. QED
    BY <1>2, <1>3, <1>8, <2>1 DEF InRow
<1>9. QED
  BY <1>7, <1>8

\* An array that begins with a string and a terminator.
LEMMA TerminatedString ==
  ASSUME NEW S, NEW t \in Seq(S), NEW w \in Seq(1 .. 255), Len(w) < Len(t),
         \A i \in 1 .. Len(w) : t[i] = w[i], t[Len(w) + 1] = NUL
  PROVE  CString(t) = w
<1> DEFINE d == Len(w)
           I == {i \in 1 .. Len(t) : t[i] = NUL}
<1>1. d \in Nat /\ d + 1 \in 1 .. Len(t) /\ Len(t) \in Nat
  OBVIOUS
<1>2. \A i \in 1 .. d : w[i] \in 1 .. 255
  BY ElementOfSeq
<1> HIDE DEF d
<1>3. d + 1 \in I /\ I \in SUBSET Nat
  BY <1>1 DEF d
<1>4. \A i \in I : d + 1 <= i
  <2> TAKE i \in I
  <2>1. i \in Nat /\ 1 <= i /\ t[i] = NUL
    OBVIOUS
  <2>2. ~ i <= d
    <3> SUFFICES ASSUME i <= d PROVE FALSE
      OBVIOUS
    <3>1. i \in 1 .. d /\ t[i] = w[i]
      BY <1>1, <2>1 DEF d
    <3>2. \A c \in 1 .. 255 : c # NUL
      BY DEF NUL
    <3>3. w[i] # NUL
      BY <1>2, <3>1, <3>2
    <3>4. QED
      BY <2>1, <3>1, <3>3, Zenon
  <2> HIDE DEF I
  <2>3. QED
    BY <1>1, <2>1, <2>2
<1>5. Min(I) = d + 1
  <2> DEFINE m == Min(I)
  <2> HIDE DEF I
  <2>1. m \in I /\ \A k \in I : m <= k
    BY <1>3, LeastIsMin
  <2> HIDE DEF m
  <2>2. m <= d + 1 /\ d + 1 <= m /\ m \in Nat
    BY <1>3, <1>4, <2>1
  <2>3. m = d + 1
    BY <1>1, <2>2
  <2>4. QED
    BY <2>3 DEF m
<1>6. Contains(t, NUL)
  BY <1>3 DEF Contains
<1>7. SelectInSeq(t, LAMBDA c : c = NUL) = Min(I)
  BY <1>3 DEF SelectInSeq
<1>8. CString(t) = SubSeq(t, 1, (d + 1) - 1)
  BY <1>5, <1>6, <1>7 DEF CString
<1>9. (d + 1) - 1 = d
  BY <1>1
<1>10. /\ SubSeq(t, 1, d) \in Seq(S) /\ Len(SubSeq(t, 1, d)) = d
       /\ \A i \in 1 .. d : SubSeq(t, 1, d)[i] = t[i]
  BY <1>1
<1>11. SubSeq(t, 1, d) = w
  BY <1>10 DEF d
<1>12. QED
  BY <1>8, <1>9, <1>11

\* Word r, if there is one.
IsWord(ws, n, l, r, w) == IF r <= n THEN w = ws[r] /\ Len(w) = l[r] ELSE w = <<>>

\* argv has the words of the line, and empty strings behind them.
LEMMA ArgvOfText ==
  ASSUME NEW text, NEW ws, NEW n, NEW l, NEW at, Spread(text, ws, n, l, at),
         NEW rows \in Nat, NEW columns \in Nat, \A k \in 1 .. n : l[k] < columns,
         NEW r \in 1 .. rows, NEW w \in Seq(1 .. 255), Len(w) < columns,
         IsWord(ws, n, l, r, w)
  PROVE  Argv(text, rows, columns)[r] = w
<1> DEFINE d     == Len(w)
           array == argv_array(text, rows, columns)
           size  == rows * columns
           low   == (r - 1) * columns
           t     == SubSeq(array, low + 1, size)
           S     == {array[c] : c \in 1 .. size}
<1>1. /\ d \in Nat /\ d < columns
      /\ r <= n => w = ws[r] /\ d = l[r]
      /\ ~ r <= n => d = 0
  BY DEF IsWord
<1>2. size \in Nat /\ low \in Nat /\ low + columns <= size
  <2>1. rows - r \in Nat /\ r - 1 \in Nat
    OBVIOUS
  <2>2. (rows - r) * columns \in Nat /\ (r - 1) * columns \in Nat /\ rows * columns \in Nat
    BY <2>1
  <2>3. rows * columns = (r - 1) * columns + columns + (rows - r) * columns
    OBVIOUS
  <2>4. QED
    BY <2>2, <2>3
<1>3. array \in [1 .. size -> S]
  BY DEF argv_array
<1>4. \A p \in 1 .. columns : array[low + p] = InRow(ws, n, l, r, p)
  <2>1. Laid(array, ws, n, l, columns, r)
    BY RowOfArray
  <2>2. QED
    BY <2>1, Zenon DEF Laid
<1>5. Argv(text, rows, columns)[r] = CString(t)
  <2>1. columns * (r - 1) = low
    OBVIOUS
  <2>2. QED
    BY <2>1 DEF Argv
<1> HIDE DEF d, size, low, array, S
<1>6. array \in Seq(S) /\ Len(array) = size
  BY <1>2, <1>3
<1>7. /\ t \in Seq(S) /\ Len(t) = size - low
      /\ \A i \in 1 .. size - low : t[i] = array[low + i]
  <2>1. /\ low + 1 \in Int /\ size - (low + 1) + 1 = size - low
        /\ \A i \in 1 .. size - low : low + i \in 1 .. size /\ (low + 1) + i - 1 = low + i
    BY <1>2
  <2>2. t \in Seq(S) /\ Len(t) = size - low
    BY <1>2, <1>6
  <2>3. \A i \in 1 .. size - low : t[i] = array[low + i]
    BY <1>2, <1>6, <2>1
  <2>4. QED
    BY <2>2, <2>3
<1> HIDE DEF t
<1>8. \A i \in 1 .. columns : i \in 1 .. size - low
  BY <1>2
<1>9. \A i \in 1 .. d : t[i] = w[i]
  <2> TAKE i \in 1 .. d
  <2>1. i \in 1 .. columns /\ i <= d
    BY <1>1
  <2>2. t[i] = InRow(ws, n, l, r, i)
    BY <1>4, <1>7, <1>8, <2>1
  <2>3. r <= n
    BY <1>1, <2>1
  <2>4. QED
    BY <1>1, <2>1, <2>2, <2>3 DEF InRow
<1>10. t[d + 1] = NUL
  <2>1. d + 1 \in 1 .. columns /\ ~ d + 1 <= d
    BY <1>1
  <2>2. t[d + 1] = InRow(ws, n, l, r, d + 1)
    BY <1>4, <1>7, <1>8, <2>1
  <2>3. QED
    BY <1>1, <2>1, <2>2 DEF InRow, d
<1>11. Len(w) < Len(t)
  BY <1>1, <1>2, <1>7 DEF d
<1>12. CString(t) = w
  BY <1>7, <1>9, <1>10, <1>11, TerminatedString DEF d
<1>13. QED
  BY <1>5, <1>12

LEMMA ArgvOfWords ==
  ASSUME NEW ws \in Seq(Seq(Chars)), ws # <<>>, NEW rows \in Nat, NEW columns \in Nat,
         \A k \in 1 .. Len(ws) : Len(ws[k]) < columns, NEW r \in 1 .. rows
  PROVE  Argv(Line(ws), rows, columns)[r] = IF r <= Len(ws) THEN ws[r] ELSE <<>>
<1> DEFINE n == Len(ws)
           l == Lengths(ws)
           w == IF r <= n THEN ws[r] ELSE <<>>
<1>1. PICK at : Spread(Line(ws), ws, n, l, at)
  BY LineOfWords
<1>2. n \in Nat \ {0} /\ \A k \in 1 .. n : ws[k] \in Seq(Chars)
  BY ElementOfSeq
<1>3. \A s \in Seq(Chars) : s \in Seq(1 .. 255)
  BY DEF Chars
<1>4. \A k \in 1 .. n : l[k] = Len(ws[k]) /\ l[k] < columns
  BY DEF Lengths
<1>5. CASE r <= n
  <2>1. r \in 1 .. n /\ w = ws[r]
    BY <1>2, <1>5
  <2>2. w \in Seq(1 .. 255) /\ Len(w) < columns /\ l[r] = Len(w)
    BY <1>2, <1>3, <1>4, <2>1
  <2> HIDE DEF n, l, w
  <2>4. \A k \in 1 .. n : l[k] < columns
    BY <1>4
  <2>5. Argv(Line(ws), rows, columns)[r] = w
    <3>1. IsWord(ws, n, l, r, w)
      BY <1>5, <2>1, <2>2 DEF IsWord
    <3>2. QED
      BY <1>1, <2>2, <2>4, <3>1, ArgvOfText
  <2>6. QED
    BY <1>5, <2>5 DEF w, n
<1>6. CASE ~ r <= n
  <2>1. w = <<>> /\ 1 \in 1 .. n
    BY <1>2, <1>6
  <2>2. w \in Seq(1 .. 255) /\ Len(w) < columns
    <3>1. Len(ws[1]) < columns /\ Len(ws[1]) \in Nat
      BY <1>2, <2>1
    <3>2. QED
      BY <2>1, <3>1
  <2> HIDE DEF n, l, w
  <2>4. \A k \in 1 .. n : l[k] < columns
    BY <1>4
  <2>5. Argv(Line(ws), rows, columns)[r] = w
    <3>1. IsWord(ws, n, l, r, w)
      BY <1>6, <2>1 DEF IsWord
    <3>2. QED
      BY <1>1, <2>2, <2>4, <3>1, ArgvOfText
  <2>6. QED
    BY <1>6, <2>5 DEF w, n
<1>7. QED
  BY <1>5, <1>6

\* A string but for case.
Folded(s) == [k \in DOMAIN s |-> Lower(s[k])]

\* strcasecmp says 0 of strings that are the same but for case, and of no others.
LEMMA SameButForCase ==
  ASSUME NEW s \in Seq(1 .. 255), NEW t \in Seq(1 .. 255)
  PROVE  strcasecmp(s, t) = 0 <=> Folded(s) = Folded(t)
<1> DEFINE At(u, k) == IF k <= Len(u) THEN u[k] ELSE NUL
           shorter  == IF Len(s) <= Len(t) THEN Len(s) ELSE Len(t)
           differ   == {k \in 1 .. shorter : Lower(s[k]) # Lower(t[k])}
<1>0. Len(s) \in Nat /\ Len(t) \in Nat
  OBVIOUS
<1>1. /\ DOMAIN s = 1 .. Len(s) /\ DOMAIN t = 1 .. Len(t)
      /\ Len(s) \in Nat /\ Len(t) \in Nat
      /\ \A k \in 1 .. Len(s) : s[k] \in 1 .. 255
      /\ \A k \in 1 .. Len(t) : t[k] \in 1 .. 255
  BY ElementOfSeq
<1>2. strcasecmp(s, t) = IF differ # {} THEN Lower(s[Min(differ)]) - Lower(t[Min(differ)])
                         ELSE At(s, shorter + 1) - At(t, shorter + 1)
  BY DEF strcasecmp
<1>3. CASE differ # {}
  <2>1. differ \in SUBSET Nat
    BY <1>1
  <2> DEFINE m == Min(differ)
  <2>2. m \in differ
    BY <1>3, <2>1, LeastIsMin
  <2>3. m \in 1 .. Len(s) /\ m \in 1 .. Len(t) /\ Lower(s[m]) # Lower(t[m])
    <3> HIDE DEF m
    <3>1. QED
      BY <1>1, <2>2
  <2>4. strcasecmp(s, t) = Lower(s[m]) - Lower(t[m])
    BY <1>2, <1>3
  <2> HIDE DEF m, differ
  <2>5. s[m] \in 1 .. 255 /\ t[m] \in 1 .. 255
    BY <1>1, <2>3
  <2>6. Lower(s[m]) \in Int /\ Lower(t[m]) \in Int
    <3>1. \A c \in 1 .. 255 : Lower(c) \in Int
      BY DEF Lower
    <3>2. QED
      BY <2>5, <3>1
  <2>7. strcasecmp(s, t) # 0
    BY <2>3, <2>4, <2>6
  <2>8. Folded(s)[m] = Lower(s[m]) /\ Folded(t)[m] = Lower(t[m])
    BY <1>1, <2>3 DEF Folded
  <2>9. QED
    BY <2>3, <2>7, <2>8
<1>4. CASE differ = {}
  <2>1. strcasecmp(s, t) = At(s, shorter + 1) - At(t, shorter + 1)
    BY <1>2, <1>4
  <2>2. CASE Len(s) = Len(t)
    <3>1. At(s, shorter + 1) = 0 /\ At(t, shorter + 1) = 0
      BY <1>1, <2>2 DEF NUL
    <3>2. \A k \in 1 .. Len(s) : Lower(s[k]) = Lower(t[k])
      BY <1>1, <1>4, <2>2
    <3>3. DOMAIN s = DOMAIN t /\ \A k \in DOMAIN s : Lower(s[k]) = Lower(t[k])
      BY <1>1, <2>2, <3>2
    <3>4. Folded(s) = Folded(t)
      BY <3>3, Zenon DEF Folded
    <3>5. QED
      BY <2>1, <3>1, <3>4
  <2>3. CASE Len(s) # Len(t)
    <3>1. DOMAIN Folded(s) # DOMAIN Folded(t)
      <4>1. DOMAIN Folded(s) = 1 .. Len(s) /\ DOMAIN Folded(t) = 1 .. Len(t)
        BY <1>1 DEF Folded
      <4>2. 1 .. Len(s) # 1 .. Len(t)
        <5>1. \A a \in Nat, b \in Nat : a < b => 1 .. a # 1 .. b
          <6> TAKE a \in Nat, b \in Nat
          <6> HAVE a < b
          <6>1. b \in 1 .. b /\ b \notin 1 .. a
            OBVIOUS
          <6>2. QED
            BY <6>1
        <5>2. Len(s) < Len(t) \/ Len(t) < Len(s)
          BY <1>0, <2>3
        <5>3. QED
          BY <1>1, <5>1, <5>2
      <4>3. QED
        BY <4>1, <4>2
    <3>2. At(s, shorter + 1) - At(t, shorter + 1) # 0
      <4>1. CASE Len(s) < Len(t)
        <5>1. shorter + 1 \in 1 .. Len(t) /\ ~ shorter + 1 <= Len(s)
          BY <1>1, <4>1
        <5>2. At(s, shorter + 1) = 0 /\ At(t, shorter + 1) \in 1 .. 255
          BY <1>1, <5>1 DEF NUL
        <5>3. \A c \in 1 .. 255 : 0 - c # 0 /\ c - 0 # 0
          OBVIOUS
        <5> HIDE DEF At, shorter
        <5>4. QED
          BY <5>2, <5>3, Zenon
      <4>2. CASE Len(t) < Len(s)
        <5>1. shorter + 1 \in 1 .. Len(s) /\ ~ shorter + 1 <= Len(t)
          BY <1>1, <4>2
        <5>2. At(t, shorter + 1) = 0 /\ At(s, shorter + 1) \in 1 .. 255
          BY <1>1, <5>1 DEF NUL
        <5>3. \A c \in 1 .. 255 : 0 - c # 0 /\ c - 0 # 0
          OBVIOUS
        <5> HIDE DEF At, shorter
        <5>4. QED
          BY <5>2, <5>3, Zenon
      <4>3. Len(s) < Len(t) \/ Len(t) < Len(s)
        BY <1>0, <2>3
      <4>4. QED
        BY <4>1, <4>2, <4>3, Zenon
    <3>3. QED
      BY <2>1, <3>1, <3>2
  <2>4. QED
    BY <2>2, <2>3
<1>5. QED
  BY <1>3, <1>4

-----------------------------------------------------------------------------
(* What cat finds *)

\* From the prompt to the answer, argv is what was typed.
LineKept == pc # "prompt" => words \in Typed /\ argv = Argv(Line(words), Rows, Columns)

\* The names that the shell sees are those of the listing.
LEMMA SeenNames ==
  ASSUME LInv, pc \in {"print", "compare"}, Clean, NEW k \in 0 .. Len(listing[Drive]) - 1
  PROVE  /\ [name |-> Name(k), isdir |-> fbuffer[k].isdir] = listing[Drive][k + 1]
         /\ Name(k) = listing[Drive][k + 1].name /\ Name(k) \in Seq(1 .. 255)
<1> DEFINE b == fbuffer[k].starting_lba
           i == fbuffer[k].offset
           entry == disk[Drive][b].entry[i]
<1>1. pc \in Listing /\ k \in 0 .. f - 1 /\ pc # "prompt"
  BY DEF LInv, WalkOK, Listing
<1>2. Holds(k)
  BY <1>1 DEF LInv, WalkOK
<1>3. Name(k) = entry.name /\ k \in Cells
  BY <1>1, NameOfCell
<1>4. [name |-> entry.name, isdir |-> fbuffer[k].isdir] = listing[Drive][k + 1]
  BY <1>2 DEF Holds
<1>5. entry \in Entry
  <2>1. b \in Sectors /\ i \in PerSector /\ Drive \in Drives
    BY <1>1, <1>3 DEF LInv, ShellOK, FileCell
  <2> HIDE DEF b, i
  <2>2. disk[Drive][b] \in Sector
    BY <2>1 DEF LInv, DisksOK
  <2>3. QED
    BY <2>1, <2>2 DEF Sector
<1>6. entry.name \in Seq(1 .. 255)
  BY <1>5 DEF Entry
<1> HIDE DEF entry
<1>7. listing[Drive][k + 1].name = entry.name
  <2>1. [name |-> entry.name, isdir |-> fbuffer[k].isdir].name = entry.name
    OBVIOUS
  <2>2. QED
    BY <1>4, <2>1
<1>8. QED
  BY <1>3, <1>4, <1>6, <1>7

\* The name that was typed is in the third row of argv.
LEMMA NameTyped ==
  ASSUME LineKept, pc # "prompt", ShortWords
  PROVE  /\ Arg(2) = IF Len(words) < 3 THEN <<>> ELSE words[3]
         /\ Arg(2) \in Seq(1 .. 255)
<1>1. /\ words \in Seq(Seq(Chars)) /\ words # <<>>
      /\ argv = Argv(Line(words), Rows, Columns)
  BY TypedAssumption DEF LineKept, Chars
<1>2. Rows \in Nat /\ Columns \in Nat /\ 3 \in 1 .. Rows
  BY FilesAssumption
<1>3. \A k \in 1 .. Len(words) : Len(words[k]) < Columns
  BY DEF ShortWords
<1>4. argv[3] = IF 3 <= Len(words) THEN words[3] ELSE <<>>
  BY <1>1, <1>2, <1>3, ArgvOfWords
<1>5. Len(words) \in Nat
  BY <1>1
<1>6. Arg(2) = argv[3]
  BY DEF Arg
<1>7. argv[3] \in Seq(1 .. 255)
  <2>1. \A s \in Seq(Chars) : s \in Seq(1 .. 255)
    BY DEF Chars
  <2>2. 3 <= Len(words) => words[3] \in Seq(Chars)
    BY <1>1, <1>5, ElementOfSeq
  <2>3. QED
    BY <1>4, <2>1, <2>2
<1>8. 3 <= Len(words) <=> ~ Len(words) < 3
  BY <1>5
<1>9. argv[3] = IF Len(words) < 3 THEN <<>> ELSE words[3]
  BY <1>4, <1>8, Zenon
<1>10. QED
  BY <1>6, <1>7, <1>9, Zenon

\* Numbers that are one more have a least one that is one more.
LEMMA LeastOfNext ==
  ASSUME NEW S \in SUBSET Nat, NEW T \in SUBSET Nat, \A k \in Nat : k \in S <=> k + 1 \in T,
         0 \notin T
  PROVE  /\ S = {} <=> T = {}
         /\ S # {} => Min(S) = Min(T) - 1
<1>1. \A k \in T : k - 1 \in Nat /\ k - 1 \in S
  <2> TAKE k \in T
  <2>1. k \in Nat /\ k # 0
    OBVIOUS
  <2>2. k - 1 \in Nat /\ (k - 1) + 1 = k
    BY <2>1
  <2>3. QED
    BY <2>2
<1>2. S = {} <=> T = {}
  BY <1>1
<1>3. ASSUME S # {} PROVE Min(S) = Min(T) - 1
  <2> DEFINE a == Min(S)
             b == Min(T)
  <2>1. a \in S /\ \A k \in S : a <= k
    BY <1>3, LeastIsMin
  <2>2. b \in T /\ \A k \in T : b <= k
    BY <1>2, <1>3, LeastIsMin
  <2> HIDE DEF a, b
  <2>3. b - 1 \in S /\ a + 1 \in T /\ a \in Nat /\ b \in Nat
    BY <1>1, <2>1, <2>2
  <2>4. a <= b - 1 /\ b <= a + 1
    BY <2>1, <2>2, <2>3
  <2>5. a = b - 1
    BY <2>3, <2>4
  <2>6. QED
    BY <2>5 DEF a, b
<1>4. QED
  BY <1>2, <1>3

\* Place k of the files is the first with the name in ws.
FirstFile(k, files, ws) ==
  LET wanted == IF Len(ws) < 3 THEN <<>> ELSE ws[3]
      same   == {m \in 1 .. Len(files) : Folded(files[m].name) = Folded(wanted)}
  IN k = IF same = {} THEN FileCells ELSE Min(same) - 1

LEMMA FindsFirstFile ==
  /\ CatFinds <=> (pc \in {"seek", "read", "fetch", "answer"} /\ Len(listing[Drive]) < Cleared /\ ShortWords
                     => FirstFile(found, listing[Drive], words))
  /\ CatFinds' <=> (pc' \in {"seek", "read", "fetch", "answer"} /\ Len(listing'[Drive']) < Cleared
                      /\ ShortWords' => FirstFile(found', listing'[Drive'], words'))
<1>1. CatFinds <=> (pc \in {"seek", "read", "fetch", "answer"} /\ Len(listing[Drive]) < Cleared /\ ShortWords
                     => FirstFile(found, listing[Drive], words))
  BY DEF CatFinds, FirstFile, Folded
<1>2. CatFinds' <=> (pc' \in {"seek", "read", "fetch", "answer"} /\ Len(listing'[Drive']) < Cleared
                      /\ ShortWords' => FirstFile(found', listing'[Drive'], words'))
  BY DEF CatFinds, FirstFile, Folded
<1>3. QED
  BY <1>1, <1>2

\* The comparison finds the first file of the listing that has the name.
LEMMA CompareFinds ==
  ASSUME LInv, LineKept, Compare
  PROVE  CatFinds'
<1> DEFINE files  == listing[Drive]
           n      == Len(files)
           wanted == IF Len(words) < 3 THEN <<>> ELSE words[3]
           same   == {k \in 1 .. n : Folded(files[k].name) = Folded(wanted)}
           seen   == {k \in Visible : strcasecmp(Name(k), Arg(2)) = 0}
<1>1. /\ pc = "compare" /\ pc # "prompt"
      /\ found' = IF seen = {} THEN FileCells ELSE Min(seen)
      /\ listing' = listing /\ part' = part /\ words' = words
  BY DEF Compare, disks, line
<1>2. SUFFICES ASSUME n < Cleared, ShortWords
               PROVE  found' = IF same = {} THEN FileCells ELSE Min(same) - 1
  <2>1. Drive' = Drive /\ (ShortWords' <=> ShortWords)
    BY <1>1 DEF Drive, ShortWords
  <2>2. n < Cleared /\ ShortWords => FirstFile(found', files, words)
    BY DEF FirstFile
  <2>3. QED
    BY <1>1, <2>1, <2>2, FindsFirstFile, Zenon
<1>3. Clean /\ n \in Nat
  BY <1>1, <1>2 DEF Clean, LInv, WalkOK, ShellOK, Listing
<1>4. Visible = 0 .. n - 1
  BY <1>1, <1>3, SeenCells
<1>5. Arg(2) = wanted /\ wanted \in Seq(1 .. 255)
  BY <1>1, <1>2, NameTyped
<1>6. \A k \in 0 .. n - 1 : Name(k) = files[k + 1].name /\ Name(k) \in Seq(1 .. 255)
  BY <1>1, <1>3, SeenNames
<1> HIDE DEF files, n, wanted
<1>7. ASSUME NEW k \in Nat PROVE k \in seen <=> k + 1 \in same
  <2>1. k \in 0 .. n - 1 <=> k + 1 \in 1 .. n
    BY <1>3
  <2>2. CASE k \in 0 .. n - 1
    <3>1. /\ Name(k) = files[k + 1].name /\ Name(k) \in Seq(1 .. 255)
      BY <1>6, <2>2
    <3>2. strcasecmp(Name(k), wanted) = 0 <=> Folded(Name(k)) = Folded(wanted)
      BY <1>5, <3>1, SameButForCase
    <3>3. k \in seen <=> strcasecmp(Name(k), wanted) = 0
      BY <1>4, <1>5, <2>2
    <3>4. k + 1 \in same <=> Folded(files[k + 1].name) = Folded(wanted)
      BY <2>1, <2>2
    <3>5. QED
      BY <3>1, <3>2, <3>3, <3>4
  <2>3. CASE k \notin 0 .. n - 1
    BY <1>4, <2>1, <2>3
  <2>4. QED
    BY <2>2, <2>3
<1>8. seen \in SUBSET Nat /\ same \in SUBSET Nat /\ 0 \notin same
  BY <1>3, <1>4
<1> HIDE DEF seen, same
<1>9. /\ seen = {} <=> same = {}
      /\ seen # {} => Min(seen) = Min(same) - 1
  BY <1>7, <1>8, LeastOfNext
<1>10. QED
  BY <1>1, <1>9

\* No step but Enter changes what was typed, and none but Compare what was found.
LEMMA NextFinds == LInv /\ LineKept /\ CatFinds /\ [Next]_vars => LineKept' /\ CatFinds'
<1> SUFFICES ASSUME LInv, LineKept, CatFinds, [Next]_vars PROVE LineKept' /\ CatFinds'
  OBVIOUS
<1>1. ASSUME UNCHANGED line, pc' # "prompt" => pc # "prompt" PROVE LineKept'
  BY <1>1 DEF line, LineKept
<1>2. ASSUME pc' \notin {"seek", "read", "fetch", "answer"} PROVE CatFinds'
  BY <1>2, Zenon DEF CatFinds
<1>3. ASSUME UNCHANGED <<line, listing, found>>, pc \in {"seek", "read", "fetch", "answer"} PROVE CatFinds'
  <2>1. listing' = listing /\ words' = words /\ found' = found /\ part' = part
    BY <1>3 DEF line
  <2>2. Drive' = Drive /\ (ShortWords' <=> ShortWords)
    BY <2>1 DEF Drive, ShortWords
  <2>3. QED
    BY <1>3, <2>1, <2>2, FindsFirstFile, Zenon
<1>4. ASSUME NEW ws \in Typed, Enter(ws) PROVE LineKept' /\ CatFinds'
  <2>1. /\ words' = ws /\ argv' = Argv(Line(ws), Rows, Columns) /\ pc' = Asked(argv')
    BY <1>4 DEF Enter
  <2>2. pc' \in {"mkfs", "ls", "cat", "prompt"}
    BY <2>1 DEF Asked
  <2>3. LineKept'
    BY <2>1 DEF LineKept
  <2>4. QED
    BY <1>2, <2>2, <2>3
<1>5. ASSUME Mkfs PROVE LineKept' /\ CatFinds'
  BY <1>1, <1>2, <1>5 DEF Mkfs
<1>6. ASSUME Begin PROVE LineKept' /\ CatFinds'
  BY <1>1, <1>2, <1>6 DEF Begin
<1>7. ASSUME ListSector PROVE LineKept' /\ CatFinds'
  <2>1. pc' \in {"list", "find", "print", "compare"} /\ pc # "prompt" /\ UNCHANGED line
    BY <1>7 DEF ListSector
  <2>2. QED
    BY <1>1, <1>2, <2>1
<1>8. ASSUME Show PROVE LineKept' /\ CatFinds'
  BY <1>1, <1>2, <1>8 DEF Show
<1>9. ASSUME Compare PROVE LineKept' /\ CatFinds'
  <2>1. UNCHANGED line /\ pc # "prompt"
    BY <1>9 DEF Compare
  <2>2. QED
    BY <1>1, <1>9, <2>1, CompareFinds
<1>10. ASSUME Seek PROVE LineKept' /\ CatFinds'
  <2>1. UNCHANGED <<line, listing, found>> /\ pc = "seek"
    BY <1>10 DEF Seek, disks
  <2>2. QED
    BY <1>1, <1>3, <2>1
<1>11. ASSUME Read PROVE LineKept' /\ CatFinds'
  <2>1. UNCHANGED <<line, listing, found>> /\ pc = "read"
    BY <1>11 DEF Read, disks
  <2>2. QED
    BY <1>1, <1>3, <2>1
<1>12. ASSUME Fetch PROVE LineKept' /\ CatFinds'
  <2>1. UNCHANGED <<line, listing, found>> /\ pc = "fetch"
    BY <1>12 DEF Fetch, disks, lookup
  <2>2. QED
    BY <1>1, <1>3, <2>1
<1>13. ASSUME Answer PROVE LineKept' /\ CatFinds'
  BY <1>1, <1>2, <1>13 DEF Answer
<1>14. ASSUME UNCHANGED vars PROVE LineKept' /\ CatFinds'
  <2>1. UNCHANGED <<line, listing, found, pc>>
    BY <1>14 DEF vars, disks, lookup
  <2>2. QED
    BY <1>1, <1>2, <1>3, <2>1
<1>15. QED
  BY <1>4, <1>5, <1>6, <1>7, <1>8, <1>9, <1>10, <1>11, <1>12, <1>13, <1>14 DEF Next, Command

-----------------------------------------------------------------------------
(* Theorems *)

\* The inductive invariant holds all along.
THEOREM FilesInvariance == Spec => []LInv
<1>1. QED
  BY InitLInv, NextLInv, PTL DEF Spec

\* The listing stays inside fbuffer, and each cell says a sector and an entry
\* that are there (eosfs.c 34-91).
THEOREM FilesTypeCorrect == Spec => []TypeOK
<1>1. LInv => TypeOK
  BY DEF LInv, ShellOK, TypeOK, FileCell
<1>2. QED
  BY FilesInvariance, <1>1, PTL

\* Each cell that a listing has filled points to the entry whose name it has
\* (eosfs.c 66-70).
THEOREM EntriesWhereSaid == Spec => []EntryWhereSaid
<1>1. LInv => EntryWhereSaid
  <2> SUFFICES ASSUME LInv, pc \in {"list", "find", "print", "compare"}, NEW k \in 0 .. f - 1
               PROVE  LET cell  == fbuffer[k]
                          entry == disk[Drive][cell.starting_lba].entry[cell.offset]
                      IN /\ cell.partition = Drive
                         /\ entry.name # <<>>
                         /\ IF Clean THEN Name(k) = entry.name ELSE IsPrefix(entry.name, Name(k))
    BY Zenon DEF EntryWhereSaid
  <2>1. pc \in Listing
    BY DEF Listing
  <2>2. Holds(k)
    BY <2>1 DEF LInv, WalkOK
  <2>3. QED
    BY <2>1, <2>2, NameOfCell, Zenon DEF Holds
<1>2. QED
  BY FilesInvariance, <1>1, PTL

\* What the shell sees after a listing are the files of the drive's directory,
\* in their order, and nothing else, whatever was listed before: for directories
\* whose walk ends and that have room in fbuffer (DisksAssumption), and after cat,
\* which clears a part of fbuffer only, for those shorter than that part
\* (shell.h 192-203, 210-227; eosfs.c 34-91).
THEOREM ListingsFaithful == Spec => []ListingFaithful
<1>1. LInv => ListingFaithful
  <2> SUFFICES ASSUME LInv, pc \in {"print", "compare"}, Clean
               PROVE  LET n == Len(listing[Drive])
                      IN /\ Visible = 0 .. n - 1
                         /\ \A k \in Visible :
                              [name |-> Name(k), isdir |-> fbuffer[k].isdir] = listing[Drive][k + 1]
    BY Zenon DEF ListingFaithful
  <2>1. Visible = 0 .. Len(listing[Drive]) - 1
    BY SeenCells
  <2>2. pc \in Listing /\ f = Len(listing[Drive])
    BY DEF LInv, WalkOK, Listing
  <2>3. \A k \in Visible : [name |-> Name(k), isdir |-> fbuffer[k].isdir] = listing[Drive][k + 1]
    <3> TAKE k \in Visible
    <3>1. k \in 0 .. f - 1
      BY <2>1, <2>2
    <3>2. Holds(k)
      BY <2>2, <3>1 DEF LInv, WalkOK
    <3>3. Name(k) = disk[Drive][fbuffer[k].starting_lba].entry[fbuffer[k].offset].name
      BY <2>2, <3>1, NameOfCell
    <3>4. QED
      BY <3>2, <3>3 DEF Holds
  <2>4. QED
    BY <2>1, <2>3
<1>2. QED
  BY FilesInvariance, <1>1, PTL

\* cat finds the first file of the directory that has the name which was typed, but
\* for case, and none exactly if there is no such file: from the line to argv, and
\* from the sectors to fbuffer (shell.h 57-73, 208-227).
THEOREM CatFindsFiles == Spec => []CatFinds
<1>1. Init => LineKept /\ CatFinds
  <2> SUFFICES ASSUME Init PROVE LineKept /\ CatFinds
    OBVIOUS
  <2>1. pc = "prompt"
    BY DEF Init
  <2>2. LineKept
    BY <2>1 DEF LineKept
  <2>3. CatFinds
    BY <2>1, Zenon DEF CatFinds
  <2>4. QED
    BY <2>2, <2>3
<1>2. QED
  BY FilesInvariance, NextFinds, <1>1, PTL DEF Spec
=============================================================================
