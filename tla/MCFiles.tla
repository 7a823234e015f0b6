------------------------------ MODULE MCFiles -------------------------------
(***************************************************************************)
(* Files on partitions of six sectors, with an fbuffer of five cells of    *)
(* which cat clears three.  The directories: none; one file; two files; a  *)
(* full sector and one more; two sectors with a content block between them *)
(* that the first one's link leads over.                                   *)
(***************************************************************************)
EXTENDS Files

MCls    == <<108, 115>>
MCcat   == <<99, 97, 116>>
MCmkfs  == <<109, 107, 102, 115>>
MCeosfs == <<101, 111, 115, 102, 115>>

d0s1 == <<100, 48, 115, 49>>
d1s1 == <<100, 49, 115, 49>>

a  == <<97>>
A  == <<65>>
b  == <<98>>
ab == <<97, 98>>
aB == <<97, 66>>

MCTyped == {<<MCls, d0s1>>, <<MCls, d1s1>>,
            <<MCcat, d0s1, a>>, <<MCcat, d0s1, aB>>, <<MCcat, d1s1, A>>, <<MCcat, d1s1, b>>,
            <<MCcat, d0s1>>, <<MCcat, d0s1, <<>>, a>>,
            <<MCcat, d1s1, <<97, 97, 97, 97, 97, 97, 97, 97>>, b>>,
            <<MCmkfs, MCeosfs, d1s1>>, << <<>> >>, <<MCeosfs>>}

File(name)           == [NoEntry EXCEPT !.name = name]
Folder(name)         == [NoEntry EXCEPT !.name = name, !.flags = 1]
Linked(name, blocks) == [NoEntry EXCEPT !.name = name, !.next_entry = [gid |-> 1, bid |-> blocks]]

Entries(s) == [i \in PerSector |-> IF i < Len(s) THEN s[i + 1] ELSE NoEntry]

\* A formatted partition whose sectors from the root directory on are s.
Image(s, entries) ==
  [sectors |-> [n \in 0 .. 5 |-> IF n = 2 THEN GroupDescriptor(3)
                                 ELSE IF n - 2 \in DOMAIN s THEN s[n - 2] ELSE BlankSector],
   listing |-> [k \in DOMAIN entries |-> Said(entries[k])]]

OneSector(entries) == Image(<<Directory(Entries(entries))>>, entries)

MCDisks ==
  LET full == <<File(a), Folder(ab), File(b)>>
      link == <<Linked(b, 2)>>
      rest == <<File(ab), File(A)>>
  IN {[sectors |-> [n \in 0 .. 5 |-> BlankSector], listing |-> <<>>],
      OneSector(<<File(A)>>),
      OneSector(<<Folder(ab), File(a)>>),
      Image(<<Directory(Entries(full)), Directory(Entries(<<File(A)>>))>>, full \o <<File(A)>>),
      Image(<<Directory(Entries(link)), ContentBlock(7), Directory(Entries(rest))>>, link \o rest)}
=============================================================================
