------------------------------- MODULE Files --------------------------------
(***************************************************************************)
(* The shell's file commands, ls and cat, and mkfs eosfs, on two drives    *)
(* whose partition in slot 0 is an eosfs one: a line is split into argv,   *)
(* the first word decides, and the root directory is walked sector by      *)
(* sector into fbuffer, an array that stays from one command to the next.  *)
(* ls clears it first, cat clears a part of it only.  cat then looks for   *)
(* the name and reads the file.                                            *)
(*                                                                         *)
(* Only the main line is involved; a step ends where a sector is read.     *)
(* Directories come with the drives: the kernel does not write any.  Other *)
(* file systems, and drives that are absent, are not asked for here.  A    *)
(* drive ends with its partition.                                          *)
(***************************************************************************)
EXTENDS Strings, Eosfs

CONSTANTS
  Disks,     \* what a drive may come with: [sectors, listing]
  Count,     \* sectors of a partition, by the partition table
  Typed,     \* lines users type, as sequences of words
  ls, cat, mkfs, eosfs,  \* the words that the shell knows
  FileCells, \* cells of fbuffer, 128
  Cleared,   \* cells that cat clears: its 4160 bytes are 52
  NameSize,  \* size of a file name in fbuffer, 64
  Rows, Columns  \* size of argv, 10 by 32

Drives == {0, 1}
Sectors == 0 .. Count - 1

Entry  == [name : Seq(1 .. 255), flags : 0 .. 255,
           first_content_block : [gid : Nat, bid : Nat], next_entry : [gid : Nat, bid : Nat]]
Sector == [entry : [PerSector -> Entry], content_block : BOOLEAN, group_descriptor : BOOLEAN]

\* What the shell can see of a directory entry.
Said(entry) == [name |-> entry.name, isdir |-> entry.flags % 2 = 1]

\* The walk over a directory that comes to an end: the sectors it reaches, none of
\* them before the root directory, and how many files of the listing come before
\* those of each sector.
Walked(sectors, files, reached, before) ==
  /\ Root \in reached /\ before[Root] = 0
  /\ \A s \in reached :
       LET sector == sectors[s]
           behind == before[s] + Cardinality(Shown(sector))
       IN /\ behind <= Len(files)
          /\ \A i \in Shown(sector) : Said(sector.entry[i]) = files[before[s] + i + 1]
          /\ IF IsLast(sector) THEN behind = Len(files)
             ELSE LET next == NextSector(sector, s)
                  IN next \in reached /\ before[next] = behind

ComesToEnd(sectors, files) ==
  \E reached \in SUBSET (Root .. Count - 1) : \E before \in [reached -> 0 .. Len(files)] :
    Walked(sectors, files, reached, before)

ASSUME FilesAssumption ==
  /\ FileCells \in Nat \ {0} /\ Cleared \in 0 .. FileCells
  /\ NameSize \in Nat \ {0} /\ Rows \in Nat \ (0 .. 2) /\ Columns \in Nat \ {0}
  /\ Count \in Nat \ (0 .. 3)

\* Names have a terminator in their 64 bytes, and the files fit into fbuffer.
ASSUME DisksAssumption ==
  \A d \in Disks : /\ d.sectors \in [Sectors -> Sector]
                   /\ \A s \in Sectors, i \in PerSector : Len(d.sectors[s].entry[i].name) < NameSize
                   /\ ComesToEnd(d.sectors, d.listing)
                   /\ Len(d.listing) \in 0 .. FileCells

VARIABLES
  disk,     \* per drive: the sectors of its partition
  listing,  \* history: per drive, the files of its directory
  fbuffer,  \* the files listed last, and what is left of earlier lists
  pc,       \* where the shell is
  argv,     \* the strings in the rows of argv
  part,     \* the partition that the command is about
  start,    \* the listing: the sector it reads next
  f,        \* the listing: entries handed out
  lba,      \* cat: the sector it reads
  found,    \* cat: the cell of the file, FileCells if there is none
  words     \* history: the line as typed

disks  == <<disk, listing>>
walk   == <<start, f>>
lookup == <<lba, found>>
line   == <<argv, part, words>>
vars   == <<disks, fbuffer, pc, line, walk, lookup>>

Cells == 0 .. FileCells - 1
NoFile == [filename |-> [k \in 1 .. NameSize |-> NUL], isdir |-> FALSE,
           starting_lba |-> 0, offset |-> 0, partition |-> 0]

Arg(k) == argv[k + 1]

Drive == part.drive_id

Name(k) == CString(fbuffer[k].filename)

\* The shell's own loops over fbuffer stop at the first empty name.
Visible == {k \in Cells : \A m \in 0 .. k : Head(fbuffer[m].filename) # NUL}

-----------------------------------------------------------------------------
(* process_command *)

\* The words with a blank between them.
Line(ws) == Tail(FlattenSeq([k \in DOMAIN ws |-> <<Blank>> \o ws[k]]))

\* What a line asks for.  Commands that touch no files return at once.
Asked(args) == IF ~strcmp(args[1], mkfs) /\ ~strcmp(args[2], eosfs) THEN "mkfs"
               ELSE IF ~strcmp(args[1], ls) THEN "ls"
               ELSE IF ~strcmp(args[1], cat) THEN "cat"
               ELSE "prompt"

\* Words have no blanks and no terminators in them; the drives that are asked for
\* are there.
ASSUME TypedAssumption ==
  \A ws \in Typed : LET args == Argv(Line(ws), Rows, Columns)
                    IN /\ ws # <<>> /\ ws \in Seq(Seq((1 .. 255) \ {Blank}))
                       /\ Asked(args) = "mkfs" => str_partid(args[3]).drive_id \in Drives
                       /\ Asked(args) \in {"ls", "cat"} => str_partid(args[2]).drive_id \in Drives

Enter(ws) == /\ pc = "prompt"
             /\ words' = ws
             /\ argv' = Argv(Line(ws), Rows, Columns)
             /\ pc' = Asked(argv')
             /\ part' = CASE pc' = "mkfs"        -> str_partid(argv'[3])
                         [] pc' \in {"ls", "cat"} -> str_partid(argv'[2])
                         [] OTHER                 -> part
             /\ UNCHANGED <<disks, fbuffer, walk, lookup>>

\* The whole of it; what happens between its writes is in Partitions.
Mkfs == /\ pc = "mkfs"
        /\ disk' = [disk EXCEPT ![Drive] = Formatted(@, Count)]
        /\ pc' = "prompt"
        /\ UNCHANGED <<listing, fbuffer, line, walk, lookup>>

-----------------------------------------------------------------------------
(* Listing *)

\* memset(fbuffer, 0, ...): the first n cells.
Blanked(n) == [k \in Cells |-> IF k < n THEN NoFile ELSE fbuffer[k]]

\* Fault: ls clears no more than cat does.
Begin_ClearsLess == /\ pc \in {"ls", "cat"}
                    /\ fbuffer' = Blanked(Cleared)
                    /\ start' = Root /\ f' = 0
                    /\ pc' = IF pc = "ls" THEN "list" ELSE "find"
                    /\ UNCHANGED <<disks, line, lookup>>

\* Fault: entries are counted on from the listing before.
Begin_KeepsCount == /\ pc \in {"ls", "cat"}
                    /\ fbuffer' = Blanked(IF pc = "ls" THEN FileCells ELSE Cleared)
                    /\ start' = Root
                    /\ pc' = IF pc = "ls" THEN "list" ELSE "find"
                    /\ UNCHANGED <<disks, f, line, lookup>>

Begin == /\ pc \in {"ls", "cat"}
         /\ fbuffer' = Blanked(IF pc = "ls" THEN FileCells ELSE Cleared)
         /\ start' = Root /\ f' = 0
         /\ pc' = IF pc = "ls" THEN "list" ELSE "find"
         /\ UNCHANGED <<disks, line, lookup>>

\* Fault: the sector is noted after the walk has moved on.
Filed_NextSector(cell, entry, i) == [filename     |-> strcpy(cell.filename, entry.name),
                                     isdir        |-> entry.flags % 2 = 1,
                                     starting_lba |-> NextSector(disk[Drive][start], start),
                                     offset       |-> i,
                                     partition    |-> Drive]

\* The file that entry i of the sector at `start` becomes in a cell of fbuffer.
Filed(cell, entry, i) == [filename     |-> strcpy(cell.filename, entry.name),
                          isdir        |-> entry.flags % 2 = 1,
                          starting_lba |-> start,
                          offset       |-> i,
                          partition    |-> Drive]

\* list_root_dir_eosfs, one sector of it.  Nothing keeps it inside fbuffer; what
\* it stores behind the last cell is not kept.  A sector that does not exist is
\* waited for.
ListSector ==
  /\ pc \in {"list", "find"}
  /\ start \in Sectors
  /\ LET sector == disk[Drive][start] IN
       /\ fbuffer' = [k \in Cells |-> IF k - f \in Shown(sector)
                                      THEN Filed(fbuffer[k], sector.entry[k - f], k - f)
                                      ELSE fbuffer[k]]
       /\ f' = f + Cardinality(Shown(sector))
       /\ IF IsLast(sector)
          THEN /\ pc' = IF pc = "list" THEN "print" ELSE "compare"
               /\ UNCHANGED start
          ELSE /\ start' = NextSector(sector, start)
               /\ UNCHANGED pc
  /\ UNCHANGED <<disks, line, lookup>>

Show == /\ pc = "print"
        /\ pc' = "prompt"
        /\ UNCHANGED <<disks, fbuffer, line, walk, lookup>>

-----------------------------------------------------------------------------
(* cat *)

\* The drive is that of the file, not that of the line.
SectorRead == disk[fbuffer[found].partition][lba]

\* The first file with the name that was typed, but for case.
Compare == /\ pc = "compare"
           /\ LET same == {k \in Visible : strcasecmp(Name(k), Arg(2)) = 0}
              IN /\ found' = IF same = {} THEN FileCells ELSE Min(same)
                 /\ lba' = IF same = {} THEN lba ELSE fbuffer[found'].starting_lba
                 /\ pc' = IF same = {} THEN "answer" ELSE "seek"
           /\ UNCHANGED <<disks, fbuffer, line, walk>>

\* Fault: the search reads the same sector again.
Seek_Stays == /\ pc = "seek"
              /\ lba \in Sectors
              /\ pc' = IF SectorRead.group_descriptor THEN "read" ELSE "seek"
              /\ UNCHANGED <<disks, fbuffer, line, walk, lookup>>

\* read_file_eosfs goes back, sector by sector, to the group descriptor.
Seek == /\ pc = "seek"
        /\ lba \in Sectors
        /\ IF SectorRead.group_descriptor
           THEN pc' = "read" /\ UNCHANGED lba
           ELSE lba' = lba - 1 /\ UNCHANGED pc
        /\ UNCHANGED <<disks, fbuffer, line, walk, found>>

\* The sectors that a number on the disk can name.  Count stands for all that do
\* not exist: they are waited for alike.  Those before the partition are there,
\* and answer like those in it.
Anywhere == Sectors \cup {Count}

\* By now the entry's place in the buffer holds what lies there in the group
\* descriptor: zeroes, which stand for the descriptor itself.  The loop over the
\* groups reads the same sector each time.  If the search stopped at a content
\* block, group and block are bytes of a file.
Read == /\ pc = "read"
        /\ IF SectorRead.content_block
           THEN lba' \in Anywhere
           ELSE LET first == SectorRead.entry[fbuffer[found].offset].first_content_block
                IN lba' = lba + first.gid * Blocks(SectorRead) + first.bid
        /\ pc' = "fetch"
        /\ UNCHANGED <<disks, fbuffer, line, walk, found>>

Fetch == /\ pc = "fetch"
         /\ lba \in Sectors
         /\ pc' = "answer"
         /\ UNCHANGED <<disks, fbuffer, line, walk, lookup>>

\* "FILE ... NOT FOUND", "[T]" or "[F]".
Answer == /\ pc = "answer"
          /\ pc' = "prompt"
          /\ UNCHANGED <<disks, fbuffer, line, walk, lookup>>

-----------------------------------------------------------------------------
Init == \E d \in [Drives -> Disks] :
          /\ disk = [x \in Drives |-> d[x].sectors]
          /\ listing = [x \in Drives |-> d[x].listing]
          /\ fbuffer = [k \in Cells |-> NoFile]
          /\ pc = "prompt"
          /\ words = <<>> /\ argv = Argv(<<>>, Rows, Columns) /\ part = str_partid(<<>>)
          /\ start = 0 /\ f = 0
          /\ lba = 0 /\ found = FileCells

Command == Mkfs \/ Begin \/ ListSector \/ Show \/ Compare \/ Seek \/ Read \/ Fetch \/ Answer

Next == (\E ws \in Typed : Enter(ws)) \/ Command

\* The main line runs on by itself; nobody has to type.
Fairness == WF_vars(Command)

Spec == Init /\ [][Next]_vars /\ Fairness

-----------------------------------------------------------------------------
(* Properties *)

\* Every variable has its type; the listing stays inside fbuffer.
TypeOK ==
  /\ \A k \in Cells : /\ fbuffer[k].filename \in [1 .. NameSize -> 0 .. 255]
                      /\ fbuffer[k].starting_lba \in Sectors
                      /\ fbuffer[k].offset \in PerSector
                      /\ fbuffer[k].partition \in Drives
  /\ pc \in {"prompt", "mkfs", "ls", "cat", "list", "find", "print", "compare",
             "seek", "read", "fetch", "answer"}
  /\ start \in Nat /\ lba \in Int
  /\ f \in 0 .. FileCells
  /\ found \in 0 .. FileCells

\* The command cleared enough cells for this listing.
Clean == pc \in {"list", "print"} \/ Len(listing[Drive]) < Cleared

\* When a drive has been listed, what the shell sees in fbuffer are the files of
\* its directory, in their order, and nothing of an earlier listing, of either
\* drive: for ls always, for cat as long as they fit into the cells it clears
\* (shell.h 192-203, 210-227; eosfs.c 34-91).
ListingFaithful ==
  pc \in {"print", "compare"} /\ Clean =>
    LET n == Len(listing[Drive])
    IN /\ Visible = 0 .. n - 1
       /\ \A k \in Visible : [name |-> Name(k), isdir |-> fbuffer[k].isdir] = listing[Drive][k + 1]

\* Each cell that a listing has filled so far says in which sector, and where in
\* it, the entry with its name is; behind the name there may be the rest of an
\* older one (eosfs.c 66-70).
EntryWhereSaid ==
  pc \in {"list", "find", "print", "compare"} =>
    \A k \in 0 .. f - 1 :
      LET cell  == fbuffer[k]
          entry == disk[Drive][cell.starting_lba].entry[cell.offset]
      IN /\ cell.partition = Drive
         /\ entry.name # <<>>
         /\ IF Clean THEN Name(k) = entry.name ELSE IsPrefix(entry.name, Name(k))

ShortWords == \A k \in 1 .. Len(words) : Len(words[k]) < Columns

\* cat finds a file exactly if the directory of the drive has one with the name
\* that was typed, but for case, and then the first of them: from the splitting
\* of the line to the comparison (shell.h 57-73, 208-227).
CatFinds ==
  pc \in {"seek", "read", "fetch", "answer"} /\ Len(listing[Drive]) < Cleared /\ ShortWords =>
    LET Folded(s) == [k \in DOMAIN s |-> Lower(s[k])]
        wanted    == IF Len(words) < 3 THEN <<>> ELSE words[3]
        same      == {k \in 1 .. Len(listing[Drive]) : Folded(listing[Drive][k].name) = Folded(wanted)}
    IN found = IF same = {} THEN FileCells ELSE Min(same) - 1

\* cat waits for a sector that does not exist, because going back from the file it
\* met a content block whose first byte makes it look like a group descriptor.
LostInContent ==
  /\ pc = "fetch" /\ lba \notin Sectors
  /\ \E s \in Root .. fbuffer[found].starting_lba - 1 :
       LET sector(t) == disk[fbuffer[found].partition][t]
       IN /\ sector(s).content_block /\ sector(s).group_descriptor
          /\ \A t \in s + 1 .. fbuffer[found].starting_lba : ~sector(t).group_descriptor

\* A command on drives whose directories come to an end gives the prompt back,
\* whatever mkfs has done to them in between, and hangs nowhere but in the last
\* read of such a cat: of a file behind a content block, whose bytes are then
\* taken for the place of another one (eosfs.c 97-118, atapio.c 28).
CommandReturns == pc # "prompt" ~> pc = "prompt" \/ LostInContent
=============================================================================
