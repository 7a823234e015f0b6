------------------------------ MODULE Strings -------------------------------
(***************************************************************************)
(* The string functions of strings.c, the splitting of a command line into *)
(* argv (shell.h 59-73) and str_partid (vfs.c), as operators.  A character *)
(* is its ASCII code; an array of characters is the sequence of all of     *)
(* them, the first at 1; a C string is the part before its terminator.     *)
(***************************************************************************)
EXTENDS Integers, SequencesExt

NUL == 0
Blank == 32

\* The string that an array holds; without a terminator, the whole of it.
CString(array) ==
  IF Contains(array, NUL) THEN SubSeq(array, 1, SelectInSeq(array, LAMBDA c : c = NUL) - 1)
  ELSE array

\* TRUE when they differ: the function returns bool.
strcmp(s1, s2) == s1 # s2

\* The characters are copied, the terminator is not.
strcpy(array, s) == s \o SubSeq(array, Len(s) + 1, Len(array))

Lower(c) == IF c \in 65 .. 90 THEN c + 32 ELSE c

\* Fault: only the case of the first string is ignored.
strcasecmp_OneSided(s1, s2) ==
  IF Len(s1) = Len(s2) /\ \A k \in 1 .. Len(s1) : Lower(s1[k]) = s2[k] THEN 0 ELSE 1

\* The difference at the first place where the strings differ but for case.
\* Where one of them ends, the other's character counts as it is.
strcasecmp(s1, s2) ==
  LET At(s, k)   == IF k <= Len(s) THEN s[k] ELSE NUL
      shorter    == IF Len(s1) <= Len(s2) THEN Len(s1) ELSE Len(s2)
      differ     == {k \in 1 .. shorter : Lower(s1[k]) # Lower(s2[k])}
  IN IF differ # {} THEN Lower(s1[Min(differ)]) - Lower(s2[Min(differ)])
     ELSE At(s1, shorter + 1) - At(s2, shorter + 1)

Digit(c) == c \in 48 .. 57

\* The leading digits of s, at most n of them.
Digits(s, n) ==
  LET k == Max({m \in 0 .. Len(s) : m <= n /\ \A l \in 1 .. m : Digit(s[l])})
  IN SubSeq(s, 1, k)

\* The value of the leading digits, modulo 2^32: here without the wrap, for
\* the numbers that are asked for are small.
atoi(s) == FoldLeft(LAMBDA value, c : 10 * value + c - 48, 0, Digits(s, Len(s)))

\* "d<number>s<number>".  The second loop starts again at the letter s, so the
\* slot is always that of no digits at all.
str_partid(s) ==
  LET number == Digits(SubSeq(s, 2, Len(s)), 9)
      i      == Len(number)
  IN IF s # <<>> /\ s[1] = 100 /\ Len(s) >= i + 2 /\ s[i + 2] = 115
     THEN [drive_id |-> atoi(number), partition |-> atoi(Digits(SubSeq(s, i + 2, Len(s)), 9))]
     ELSE [drive_id |-> 255, partition |-> 255]

-----------------------------------------------------------------------------
\* The blanks before place k of a line.
BlanksBefore(line, k) == {m \in 1 .. k - 1 : line[m] = Blank}

\* The places whose character is copied: the loop ends after `rows` blanks.
Copied(line, rows) ==
  {k \in 1 .. Len(line) : line[k] # Blank /\ Cardinality(BlanksBefore(line, k)) < rows}

\* argv[j][i-sub]: j counts the blanks, sub is the place after the last one.
Address(line, k, columns) ==
  LET before == BlanksBefore(line, k)
  IN Cardinality(before) * columns + k - 1 - (IF before = {} THEN 0 ELSE Max(before))

\* The array argv: a word longer than a row runs into the next one, and a later
\* word is written over it.  What lies behind the last row is not kept.
argv_array(line, rows, columns) ==
  [c \in 1 .. rows * columns |->
     LET here == {k \in Copied(line, rows) : Address(line, k, columns) = c - 1}
     IN IF here = {} THEN NUL ELSE line[Max(here)]]

\* The strings that begin with its rows.
Argv(line, rows, columns) ==
  LET array == argv_array(line, rows, columns)
  IN [r \in 1 .. rows |-> CString(SubSeq(array, columns * (r - 1) + 1, rows * columns))]
=============================================================================
