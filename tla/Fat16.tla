------------------------------- MODULE Fat16 --------------------------------
(***************************************************************************)
(* list_dir_fat16, read_file_fat16 and get_next_cluster_fat, on a volume:  *)
(* its boot record, the file allocation table by cluster, and the entries  *)
(* of its root directory from 0 on.  Sectors are numbered from the start   *)
(* of the partition, and are told apart by their number only; names and    *)
(* the size of a file, which the code reads but does not use, are left     *)
(* out.  An entry is "free", "deleted", "lfn" (attributes 7) or "file".     *)
(***************************************************************************)
EXTENDS Integers, Sequences

\* Clusters from here on end a chain (0xFFF8).
EndOfChain == 256 * 256 - 8

\* Sixteen entries of 32 bytes a sector.
PerDirSector == 16

root_dir_sectors(bpb) == (bpb.root_dir_entries * 32) \div 512

root_dir_lba(bpb) == bpb.reserved_sectors + bpb.num_fats * bpb.sectors_per_fat

drs_lba(bpb) == root_dir_lba(bpb) + root_dir_sectors(bpb)

-----------------------------------------------------------------------------
\* The entries that are handed out: up to the first free one, for that ends the
\* loop over the sectors as well, without those deleted and those of long names.
Listed(volume) ==
  {e \in 0 .. PerDirSector * root_dir_sectors(volume.bpb) - 1 :
     /\ volume.dir[e] \notin {"free", "deleted", "lfn"}
     /\ \A earlier \in 0 .. e : volume.dir[earlier] # "free"}

\* The file that entry e becomes: its sector, and its offset in one byte.
File(volume, e) == [starting_lba |-> root_dir_lba(volume.bpb) + e \div PerDirSector,
                    offset       |-> (32 * (e % PerDirSector)) % 256]

\* The entry that read_file_fat16 looks at: the offset counts 16-bit words there.
EntryRead(volume, f) ==
  PerDirSector * (f.starting_lba - root_dir_lba(volume.bpb)) + (2 * f.offset) \div 32

-----------------------------------------------------------------------------
get_next_cluster_fat(volume, cluster) == volume.fat[cluster]

\* The cluster after i more; the function returns where the chain ends.
Skipped(volume, cluster, i) ==
  LET at[k \in 0 .. i] ==
        IF k = 0 THEN cluster
        ELSE LET before == at[k - 1]
             IN IF before >= EndOfChain THEN before ELSE get_next_cluster_fat(volume, before)
  IN at[i]

SectorOf(volume, cluster, toread) ==
  drs_lba(volume.bpb) + (cluster - 2) * volume.bpb.sectors_per_cluster + toread

\* The word of the caller's buffer at which a sector is stored, after some others:
\* for each of these both the index and the pointer have moved on (227, 232).
StoredAt(before) == 256 * before + 256 * before

\* Fault: the place in the cluster is not set back for the next one.
OneSector_KeepsPlace(volume, w) ==
  LET got == Append(w.got, SectorOf(volume, w.cluster, w.toread))
      put == Append(w.put, StoredAt(Len(w.got)))
  IN IF w.toread + 1 < volume.bpb.sectors_per_cluster
     THEN [got |-> got, put |-> put, toread |-> w.toread + 1, cluster |-> w.cluster]
     ELSE [got |-> got, put |-> put, toread |-> w.toread, cluster |-> get_next_cluster_fat(volume, w.cluster)]

\* The loop body: a sector is read and stored, and behind the last of a cluster
\* the next one is looked up, needed or not.  The check of counted never ends it:
\* the loop runs for whole sectors only.
OneSector(volume, w) ==
  LET got == Append(w.got, SectorOf(volume, w.cluster, w.toread))
      put == Append(w.put, StoredAt(Len(w.got)))
  IN IF w.toread + 1 < volume.bpb.sectors_per_cluster
     THEN [got |-> got, put |-> put, toread |-> w.toread + 1, cluster |-> w.cluster]
     ELSE [got |-> got, put |-> put, toread |-> 0, cluster |-> get_next_cluster_fat(volume, w.cluster)]

\* count and skip are in words; only whole sectors are skipped and read.  got:
\* the sectors read, in the order of the loop; put: the words of the buffer at
\* which they are stored; ended: what is returned.
read_file_fat16(volume, f, count, skip) ==
  LET spc     == volume.bpb.sectors_per_cluster
      cskip   == (skip \div 256) \div spc
      askip   == skip \div 256 - cskip * spc
      walk[i \in 0 .. count \div 256] ==
        IF i = 0
        THEN [got |-> <<>>, put |-> <<>>, toread |-> askip,
              cluster |-> Skipped(volume, volume.first[EntryRead(volume, f)], cskip)]
        ELSE LET w == walk[i - 1]
             IN IF w.cluster >= EndOfChain THEN w ELSE OneSector(volume, w)
      last == walk[count \div 256]
  IN [got |-> last.got, put |-> last.put, ended |-> last.cluster >= EndOfChain]
=============================================================================
