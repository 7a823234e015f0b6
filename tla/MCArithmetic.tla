---------------------------- MODULE MCArithmetic ----------------------------
(* Arithmetic on small partitions, and on some around the powers of two at  *)
(* which a field or a group is full; and on volumes with a root directory   *)
(* of two sectors, the first of them full, and a file at each end of it     *)
(* whose clusters lie in any order.                                         *)
EXTENDS Arithmetic

MCCounts == (1 .. 700) \cup (16380 .. 16390) \cup (65500 .. 65600) \cup (131060 .. 131090)

Clusters == 2 .. 6

Chains == UNION {{c \in [1 .. k -> Clusters] : \A i, j \in 1 .. k : i # j => c[i] # c[j]} : k \in 1 .. 3}

\* A chain with what ends it.
Ended(chain) == Append(chain, EndOfChain + 7)

\* What follows each cluster: 0 for free ones.
Table(chains) ==
  [c \in Clusters |->
     LET after == {Ended(s)[i + 1] : <<s, i>> \in {p \in chains \X (1 .. 3) : p[2] \in DOMAIN p[1] /\ p[1][p[2]] = c}}
     IN IF after = {} THEN 0 ELSE CHOOSE next \in after : TRUE]

\* Entry 0 has the first file, entry 16 the second, and all between are alike.
Volume(spc, one, other, between) ==
  [bpb   |-> [sectors_per_cluster |-> spc, reserved_sectors |-> 1, num_fats |-> 2,
              sectors_per_fat |-> 1, root_dir_entries |-> 32],
   dir   |-> [e \in 0 .. 31 |-> IF e \in {0, 16} THEN "file" ELSE IF e < 16 THEN between ELSE "free"],
   first |-> [e \in 0 .. 31 |-> IF e = 16 THEN other[1] ELSE one[1]],
   fat   |-> Table({one, other}),
   chain |-> [e \in 0 .. 31 |-> IF e = 16 THEN other ELSE one]]

Disjoint(p) == \A i \in DOMAIN p[1], j \in DOMAIN p[2] : p[1][i] # p[2][j]

MCVolumes == {Volume(spc, p[1], p[2], between) :
                spc \in {1, 2, 4},
                p \in {p \in Chains \X {<<2>>, <<4, 3>>} : Disjoint(p)},
                between \in {"file", "deleted", "lfn", "free"}}

MCSkips == {0, 255, 256, 700, 768, 1024, 2048, 3072}
MCReads == {0, 255, 256, 512, 768, 1100, 4096}
=============================================================================
