-------------------------------- MODULE Fat ---------------------------------
(* The file system reader (fat.c) on one volume: the two sector caches, the      *)
(* position of an open file in its cluster chain, and directory iterators. Every *)
(* public call is one critical section of the FAT mutex; any block read of the   *)
(* card may fail.                                                                *)
EXTENDS Integers, Sequences

CONSTANTS
    Handles,            \* open files, all of the same file
    Iterators,          \* directory iterators
    ReadSizes, SeekPositions

\* The volume: the bytes or directory entries of a sector, the sectors of a cluster, the
\* links a FAT sector holds, the clusters and their links, and where a file and a
\* directory lie in them.
CONSTANTS SEC, ENTS, SPC, FATS, CLUSTERS, FAT, Chain, Size, DirChain, Dir

CB == SEC * SPC
EOC == CLUSTERS + 2
valid_cluster(c) == c \in 2 .. CLUSTERS + 1

\* The clusters of a file or a directory, each linked to the next and the last to none.
IsChain(ch) ==
    /\ ch \in Seq(2 .. CLUSTERS + 1) /\ ch # <<>>
    /\ \A i, j \in 1 .. Len(ch) : ch[i] = ch[j] => i = j
    /\ \A i \in 1 .. Len(ch) : FAT[ch[i]] = IF i < Len(ch) THEN ch[i + 1] ELSE EOC

\* A directory entry: the last fragment of a long name, which comes first, another
\* fragment, the file itself, a deleted one, a label, the end. sum ties the fragments
\* and the file together.
Ent(kind, ord, sum) == [kind |-> kind, ord |-> ord, sum |-> sum]
Kinds == {"last", "lfn", "short", "deleted", "label", "end"}

ASSUME FatAssumption ==
    /\ ReadSizes \subseteq Nat \ {0} /\ SeekPositions \subseteq Nat
    /\ SEC \in Nat \ {0} /\ ENTS \in Nat \ {0} /\ SPC \in Nat \ {0} /\ FATS \in Nat \ {0} /\ CLUSTERS \in Nat
    /\ FAT \in [2 .. CLUSTERS + 1 -> Nat] /\ IsChain(Chain) /\ IsChain(DirChain)
    /\ Size \in 1 .. Len(Chain) * CB
    /\ Dir \in Seq([kind : Kinds, ord : Nat, sum : Nat]) /\ Len(Dir) = Len(DirChain) * (SPC * ENTS)

VARIABLES
    g_mounted,
    g_sec_lba, f_sec,       \* the data sector cached, and what the buffer really holds
    g_fatsec_lba, f_fatsec, \* the same for the FAT sector
    f_file,                 \* handle -> [open, cluster, pos]
    f_call,                 \* the read under way: <<>> or <<handle, bytes left>>
    f_walk,                 \* the seek under way: <<>> or <<handle, to, cluster, hops left>>
    f_wrong, f_failed,      \* history: a handle was given a wrong byte; a read of it failed
    f_dir,                  \* iterator -> [open, cluster, sector, entry, done, lfn]
    f_names, f_cut          \* history: what it returned; a FAT read failed under it

cacheVars == <<g_sec_lba, f_sec, g_fatsec_lba, f_fatsec>>
fileVars  == <<f_file, f_call, f_walk, f_wrong, f_failed>>
dirVars   == <<f_dir, f_names, f_cut>>
fatVars   == <<g_mounted, cacheVars, fileVars, dirVars>>

Unlocked  == f_call = <<>> /\ f_walk = <<>>     \* nobody is inside the FAT mutex

NOLBA == <<0, 0>>
GARBAGE == <<-1, -1>>

-----------------------------------------------------------------------------
(* Blocks and caches *)

\* Mutant: a sector whose read failed still counts as cached.
load_sec_kept(lba, ok) ==
    IF g_sec_lba = lba \/ ok
    THEN g_sec_lba' = lba /\ f_sec' = (IF g_sec_lba = lba THEN f_sec ELSE lba)
    ELSE g_sec_lba' = g_sec_lba /\ f_sec' = GARBAGE

\* A hit costs nothing and cannot fail; a failed read leaves nothing cached.
load_sec(lba, ok) ==
    IF g_sec_lba = lba THEN UNCHANGED <<g_sec_lba, f_sec>>
    ELSE IF ok THEN g_sec_lba' = lba /\ f_sec' = lba
    ELSE g_sec_lba' = NOLBA /\ f_sec' = GARBAGE
LoadOk(lba, ok) == g_sec_lba = lba \/ ok

fat_lba(c) == <<1, c \div FATS>>
fat_next(c, ok) ==
    IF g_fatsec_lba = fat_lba(c) THEN UNCHANGED <<g_fatsec_lba, f_fatsec>>
    ELSE IF ok THEN g_fatsec_lba' = fat_lba(c) /\ f_fatsec' = fat_lba(c)
    ELSE g_fatsec_lba' = NOLBA /\ f_fatsec' = GARBAGE

\* The link of c, as the buffer has it: some cluster if it holds another sector. A failed
\* read returns 0, which breaks a chain like a free cluster.
NextLink(c, ok) ==
    IF g_fatsec_lba # fat_lba(c) /\ ~ok THEN 0
    ELSE IF g_fatsec_lba = fat_lba(c) /\ f_fatsec # fat_lba(c) THEN 2
    ELSE FAT[c]

clus_lba(c, s) == <<c, s>>

FatInit ==
    /\ g_mounted = FALSE
    /\ g_sec_lba = NOLBA /\ f_sec = GARBAGE /\ g_fatsec_lba = NOLBA /\ f_fatsec = GARBAGE
    /\ f_file = [h \in Handles |-> [open |-> FALSE, cluster |-> 0, pos |-> 0]]
    /\ f_call = <<>> /\ f_walk = <<>> /\ f_wrong = [h \in Handles |-> FALSE] /\ f_failed = [h \in Handles |-> FALSE]
    /\ f_dir = [d \in Iterators |-> [open |-> FALSE, cluster |-> 0, sector |-> 0, entry |-> 0,
                                     done |-> FALSE, lfn |-> <<>>]]
    /\ f_names = [d \in Iterators |-> <<>>] /\ f_cut = [d \in Iterators |-> FALSE]

\* The caches are voided first; the boot sectors are read and the geometry accepted,
\* or not.
mount_impl ==
    /\ Unlocked
    /\ g_sec_lba' = NOLBA /\ g_fatsec_lba' = NOLBA /\ f_sec' = GARBAGE /\ f_fatsec' = GARBAGE
    /\ g_mounted' \in BOOLEAN
    /\ UNCHANGED <<fileVars, dirVars>>

\* "fat mount" clears the flag before it takes the lock.
fat_shell == /\ g_mounted /\ g_mounted' = FALSE
             /\ UNCHANGED <<cacheVars, fileVars, dirVars>>

-----------------------------------------------------------------------------
(* Files *)

open_impl(h) ==
    /\ Unlocked /\ g_mounted
    /\ f_file' = [f_file EXCEPT ![h] = [open |-> TRUE, cluster |-> Chain[1], pos |-> 0]]
    /\ f_wrong' = [f_wrong EXCEPT ![h] = FALSE] /\ f_failed' = [f_failed EXCEPT ![h] = FALSE]
    /\ UNCHANGED <<g_mounted, cacheVars, f_call, f_walk, dirVars>>

Hops(pos) == IF pos = 0 THEN 0 ELSE (pos - 1) \div CB

\* Forward from the cluster the file is at when the target is not behind it.
seek_impl(h, to) ==
    LET f    == f_file[h]
        pos  == IF to > Size THEN Size ELSE to
        fwd  == f.cluster >= 2 /\ Hops(pos) >= Hops(f.pos)
        hops == IF fwd THEN Hops(pos) - Hops(f.pos) ELSE Hops(pos)
        c    == IF fwd THEN f.cluster ELSE Chain[1]
    IN
    /\ Unlocked /\ f.open
    /\ IF hops = 0 THEN /\ f_file' = [f_file EXCEPT ![h] = [@ EXCEPT !.cluster = c, !.pos = pos]]
                        /\ UNCHANGED f_walk
       ELSE f_walk' = <<h, pos, c, hops>> /\ UNCHANGED f_file
    /\ UNCHANGED <<g_mounted, cacheVars, f_call, f_wrong, f_failed, dirVars>>

\* One hop of the walk; a chain that breaks ends it with nothing changed but the cache.
seek_hops ==
    LET h == f_walk[1] IN
    /\ f_walk # <<>>
    /\ \E ok \in BOOLEAN :
         LET c == NextLink(f_walk[3], ok) IN
         /\ fat_next(f_walk[3], ok)
         /\ \/ ~valid_cluster(c) /\ f_walk' = <<>> /\ UNCHANGED f_file
            \/ /\ valid_cluster(c) /\ f_walk[4] = 1 /\ f_walk' = <<>>
               /\ f_file' = [f_file EXCEPT ![h] = [@ EXCEPT !.cluster = c, !.pos = f_walk[2]]]
            \/ /\ valid_cluster(c) /\ f_walk[4] > 1 /\ UNCHANGED f_file
               /\ f_walk' = <<h, f_walk[2], c, f_walk[4] - 1>>
    /\ UNCHANGED <<g_mounted, g_sec_lba, f_sec, f_call, f_wrong, f_failed, dirVars>>

Clipped(h, n) == IF n > Size - f_file[h].pos THEN Size - f_file[h].pos ELSE n

fat_read(h, n) ==
    /\ Unlocked /\ f_file[h].open /\ g_mounted /\ Clipped(h, n) > 0
    /\ f_call' = <<h, Clipped(h, n)>>
    /\ UNCHANGED <<g_mounted, cacheVars, f_file, f_walk, f_wrong, f_failed, dirVars>>

\* The byte that belongs at a position, as cluster and offset.
Wanted(pos) == <<Chain[pos \div CB + 1], pos % CB>>

ReadFails(h, c) == /\ f_call' = <<>> /\ f_failed' = [f_failed EXCEPT ![h] = TRUE]
                   /\ f_file' = [f_file EXCEPT ![h].cluster = c]
                   /\ UNCHANGED <<f_wrong, f_walk>>

\* k bytes were copied out, and the buffer held `held` where `from` was wanted.
Advance(h, c, k, held, from) ==
    /\ f_file' = [f_file EXCEPT ![h] = [@ EXCEPT !.cluster = c, !.pos = f_file[h].pos + k]]
    /\ f_call' = IF f_call[2] > k THEN <<h, f_call[2] - k>> ELSE <<>>
    /\ f_wrong' = [f_wrong EXCEPT ![h] = @ \/ held # from
                     \/ \E i \in 0 .. k - 1 : Wanted(f_file[h].pos + i)
                                              # <<c, (f_file[h].pos % CB) + i>>]
    /\ UNCHANGED <<f_failed, f_walk>>

\* One turn of the loop: at a cluster boundary the chain is followed, then a run of
\* whole sectors goes straight to the caller, or part of one through the cache.
read_impl ==
    LET h    == f_call[1]
        f    == f_file[h]
        left == f_call[2]
        hop  == f.pos # 0 /\ f.pos % CB = 0 /\ f.cluster # 0
    IN
    /\ f_call # <<>>
    /\ \E okF \in BOOLEAN, okS \in BOOLEAN :
         LET c   == IF hop THEN NextLink(f.cluster, okF) ELSE f.cluster
             in  == f.pos % CB
             off == in % SEC
             lba == clus_lba(c, in \div SEC)
             k   == IF left < SEC - off THEN left ELSE SEC - off
             run == IF left \div SEC > (CB - in) \div SEC THEN (CB - in) \div SEC
                                                          ELSE left \div SEC
         IN
         /\ IF hop THEN fat_next(f.cluster, okF)
            ELSE okF /\ UNCHANGED <<g_fatsec_lba, f_fatsec>>
         /\ \/ /\ ~valid_cluster(c) /\ okS
               /\ ReadFails(h, f.cluster) /\ UNCHANGED <<g_sec_lba, f_sec>>
            \/ /\ valid_cluster(c) /\ off = 0 /\ k = SEC /\ UNCHANGED <<g_sec_lba, f_sec>>
               /\ IF okS THEN Advance(h, c, run * SEC, lba, lba) ELSE ReadFails(h, c)
            \/ /\ valid_cluster(c) /\ ~(off = 0 /\ k = SEC) /\ load_sec(lba, okS)
               /\ IF LoadOk(lba, okS) THEN Advance(h, c, k, f_sec', lba) ELSE ReadFails(h, c)
    /\ UNCHANGED <<g_mounted, dirVars>>

-----------------------------------------------------------------------------
(* Directories *)

dir_open_impl(d) ==
    /\ Unlocked /\ g_mounted
    /\ f_dir' = [f_dir EXCEPT ![d] = [open |-> TRUE, cluster |-> DirChain[1], sector |-> 0,
                                      entry |-> 0, done |-> FALSE, lfn |-> <<>>]]
    /\ f_names' = [f_names EXCEPT ![d] = <<>>] /\ f_cut' = [f_cut EXCEPT ![d] = FALSE]
    /\ UNCHANGED <<g_mounted, cacheVars, fileVars>>

\* lfn: <<>>, or the checksum the fragments so far agree on.
Fragment(e, lfn) == IF e.ord = 0 THEN <<>>
                    ELSE IF e.kind = "last" THEN <<e.sum>>
                    ELSE IF lfn = <<e.sum>> THEN lfn ELSE <<>>

\* Where the k-th entry of sector s of a directory cluster is in the directory, from 1.
ClusterAt(c) == CHOOSE i \in 1 .. Len(DirChain) : DirChain[i] = c
EntryAt(c, s, k) == (ClusterAt(c) - 1) * (SPC * ENTS) + s * ENTS + k + 1

\* The k-th entry of what the buffer holds: some file, if it is no directory sector.
EntryIn(held, k) == IF \E i \in 1 .. Len(DirChain) : DirChain[i] = held[1]
                    THEN Dir[EntryAt(held[1], held[2], k)] ELSE Ent("short", 0, 0)

\* One entry. The iterator moves past it once its sector is there.
Entry1(d, c, s) ==
    LET it == f_dir[d]
        e  == EntryIn(f_sec', it.entry)
        lastInSec == it.entry + 1 = ENTS
    IN
    /\ f_dir' = [f_dir EXCEPT ![d] = [@ EXCEPT !.cluster = c,
                    !.lfn = IF e.kind \in {"last", "lfn"} THEN Fragment(e, it.lfn) ELSE <<>>,
                    !.entry = IF lastInSec THEN 0 ELSE it.entry + 1,
                    !.sector = IF lastInSec THEN s + 1 ELSE s,
                    !.done = (e.kind = "end")]]
    /\ f_names' = IF e.kind = "short"
                  THEN [f_names EXCEPT ![d] =
                          Append(@, <<e.sum, IF it.lfn = <<e.sum>> THEN "long" ELSE "short">>)]
                  ELSE f_names

\* A sector that cannot be read is still the next one to read.
Unread(d, c, s) == [f_dir EXCEPT ![d] = [@ EXCEPT !.cluster = c, !.sector = s]]

dir_next_impl(d) ==
    LET it == f_dir[d] IN
    /\ Unlocked /\ g_mounted /\ it.open /\ ~it.done
    /\ \E okF \in BOOLEAN, okS \in BOOLEAN :
         LET over == it.sector >= SPC
             n    == IF over THEN NextLink(it.cluster, okF) ELSE it.cluster
             s    == IF over THEN 0 ELSE it.sector
             lba  == clus_lba(n, s)
         IN
         /\ IF over THEN fat_next(it.cluster, okF) ELSE okF /\ UNCHANGED <<g_fatsec_lba, f_fatsec>>
         /\ IF ~valid_cluster(n)
            THEN /\ okS /\ f_dir' = [f_dir EXCEPT ![d].done = TRUE]
                 /\ f_cut' = [f_cut EXCEPT ![d] = (n = 0)]
                 /\ UNCHANGED <<g_sec_lba, f_sec, f_names>>
            ELSE /\ load_sec(lba, okS) /\ UNCHANGED f_cut
                 /\ IF LoadOk(lba, okS) THEN Entry1(d, n, s)
                    ELSE f_dir' = Unread(d, n, s) /\ UNCHANGED f_names
    /\ UNCHANGED <<g_mounted, fileVars>>

FatNext == \/ mount_impl \/ fat_shell \/ seek_hops \/ read_impl
           \/ \E h \in Handles : \/ open_impl(h)
                                 \/ \E n \in ReadSizes : fat_read(h, n)
                                 \/ \E p \in SeekPositions : seek_impl(h, p)
           \/ \E d \in Iterators : dir_open_impl(d) \/ dir_next_impl(d)

FatSpec == FatInit /\ [][FatNext]_fatVars

-----------------------------------------------------------------------------
(* Properties *)

\* Every byte fat_read hands out is the byte at that position of the file, through any
\* mix of seeks and reads of the handles and directory scans that share the sector
\* caches, until a read of that handle has failed: a block that cannot be read at the
\* start of a cluster leaves the cursor one cluster ahead of its position.
ReadsInOrder == \A h \in Handles : f_wrong[h] => f_failed[h]

\* The files of the directory, and the name of one: its long name, if the fragments
\* right before it agree with it and begin with the last.
Listed == {i \in 1 .. Len(Dir) : Dir[i].kind = "short" /\ \A j \in 1 .. i : Dir[j].kind # "end"}
Belongs(j, sum) == Dir[j].ord # 0 /\ Dir[j].sum = sum
HasLongName(i) ==
    \E j \in 1 .. i - 1 : /\ Dir[j].kind = "last" /\ Belongs(j, Dir[i].sum)
                          /\ \A m \in j + 1 .. i - 1 : Dir[m].kind = "lfn" /\ Belongs(m, Dir[i].sum)
NameOf(i) == <<Dir[i].sum, IF HasLongName(i) THEN "long" ELSE "short">>

\* These names are those of the files of F, in order.
Lists(names, F) ==
    \E at \in [1 .. Len(names) -> F] :
        /\ \A i, j \in 1 .. Len(names) : i < j => at[i] < at[j]
        /\ \A x \in F : \E i \in 1 .. Len(names) : at[i] = x
        /\ \A i \in 1 .. Len(names) : names[i] = NameOf(at[i])

\* An iterator returns the files of the directory in order, each once and under the
\* name that is its own, whatever fails or runs in between; it stops early only when
\* the FAT sector it needs cannot be read, which it does not report.
ListingIsExact ==
    \A d \in Iterators :
        /\ \E p \in 0 .. Len(Dir) : Lists(f_names[d], {i \in Listed : i <= p})
        /\ f_dir[d].done /\ ~f_cut[d] => Lists(f_names[d], Listed)

\* A file reads back as its clusters hold it and a directory lists what it holds,
\* neither more nor less, across the shared sector buffer (fat.c).
FilesAreExact == ReadsInOrder /\ ListingIsExact
=============================================================================
