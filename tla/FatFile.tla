------------------------------ MODULE FatFile ------------------------------
(***************************************************************************)
(* Reading a file of a FAT volume (fs/fat.c): opening it, seeking, and     *)
(* reading through a cursor that remembers the current cluster, where that *)
(* cluster begins in the file, and the clusters visited so far.  The       *)
(* volume may be damaged in any way: a link may lead anywhere, a chain may *)
(* be too short, too long or a loop.  Every block read may fail.           *)
(*                                                                         *)
(* A byte of the disk stands for its place: <<cluster, offset>>.           *)
(***************************************************************************)
EXTENDS Integers, Sequences

CONSTANTS
    ClusterCount,       \* fs->cluster_count: clusters are 2 .. count + 1
    BytesPerSector,     \* fs->bytes_per_sector
    SectorsPerCluster,  \* fs->sectors_per_cluster
    MaxVisited,         \* TERMOB_FAT_FILE_MAX_VISITED_CLUSTERS: 256
    Word,               \* sizes and offsets are uint32_t: 2^32
    MarkFrom,           \* the first marker: 0xFF0, 0xFFF0 or 0x0FFFFFF0
    Used,               \* the clusters whose entries vary; the others are free
    Values,             \* the values considered for them
    FileSizes,          \* the sizes considered
    Firsts,             \* the first clusters considered
    Offsets, Lengths    \* bounds: where callers seek, how much they read

Valid == 2 .. (ClusterCount + 1)

ASSUME FatFileAssumption ==
    /\ {ClusterCount, BytesPerSector, SectorsPerCluster, MaxVisited, Word}
          \subseteq Nat \ {0}
    /\ (MaxVisited + 1) * (BytesPerSector * SectorsPerCluster) <= Word
    /\ MarkFrom \in Nat
    /\ Used \subseteq Valid /\ Values \subseteq Nat
    /\ FileSizes \subseteq Nat
    /\ Firsts \subseteq Nat
    /\ Offsets \subseteq Nat /\ Lengths \subseteq Nat

VARIABLES
    table,   \* the FAT: the numbers in the entries of Used
    size,    \* dirent.size_bytes
    first,   \* dirent.first_cluster
    cursor,  \* the file: position, cluster, base (current_cluster_file_offset),
             \* seen (clusters_seen) and visited
    pc,      \* the call under way
    left,    \* seek: clusters_to_advance still to go; read: bytes to copy
    goal,    \* seek: offset
    out,     \* read: the bytes copied
    from,    \* read: the position it began at
    status,  \* what the last call returned; "none" while one is under way
    failed   \* a block read failed since the file was opened

disk == <<table, size, first>>
vars == <<disk, cursor, pc, left, goal, out, from, status, failed>>

ClusterSize == BytesPerSector * SectorsPerCluster

\* fat_cluster_is_valid
IsValid(c) == c >= 2 /\ c < ClusterCount + 2

\* What fat_read_fat_entry gives for a cluster (see FatShell!EntriesDecoded)
Entry(c) == IF c \in Used THEN table[c] ELSE 0

\* fat_entry_is_end, fat_entry_is_bad and fat_entry_is_reserved.  A volume of the
\* most clusters its type can have has clusters with the numbers of markers.
IsEnd(v)      == v >= MarkFrom + 8
IsBad(v)      == v = MarkFrom + 7
IsReserved(v) == v >= MarkFrom /\ v <= MarkFrom + 6

\* fat_file_max_clusters: the sum wraps.
MaxClusters == ((size + ClusterSize - 1) % Word) \div ClusterSize

\* fat_file_reset_state
Rewound ==
    [position |-> 0,
     cluster  |-> IF size = 0 THEN 0 ELSE first,
     base     |-> 0,
     seen     |-> IF size = 0 THEN 0 ELSE 1,
     visited  |-> IF size = 0 THEN <<>> ELSE <<first>>]

Init ==
    /\ table \in [Used -> Values]
    /\ size \in FileSizes
    /\ first \in Firsts
    /\ cursor = Rewound
    /\ pc = "closed"
    /\ left = 0 /\ goal = 0
    /\ out = <<>> /\ from = 0
    /\ status = "none"
    /\ failed = FALSE

\* fat_open_file, once the path is found
Open ==
    /\ pc = "closed"
    /\ cursor' = Rewound
    /\ IF size # 0 /\ ~IsValid(first)
       THEN pc' = "closed" /\ status' = "corrupt"
       ELSE pc' = "open" /\ status' = "ok"
    /\ UNCHANGED <<disk, left, goal, out, from, failed>>

-----------------------------------------------------------------------------
(* fat_file_advance_cluster, with the block read working or not *)

Visited(c, cluster) == \E i \in 1 .. Len(c.visited) : c.visited[i] = cluster

\* An entry that no chain may hold
Unusable(next) ==
    next = 0 \/ IsBad(next) \/ IsReserved(next) \/ ~IsValid(next)

AdvanceStatus(c, readable) ==
    IF c.cluster = 0 \/ ~IsValid(c.cluster) THEN "corrupt"
    ELSE IF c.seen >= MaxClusters THEN "corrupt"
    ELSE IF ~readable THEN "io"
    ELSE LET next == Entry(c.cluster)
         IN  IF \/ IsEnd(next)
                \/ Unusable(next)
                \/ Visited(c, next)
                \/ Len(c.visited) >= MaxVisited
             THEN "corrupt" ELSE "ok"

\* Mutant: the start of the cluster in the file is not moved.
MutAdvanceKeepsBase(c) ==
    [c EXCEPT !.cluster = Entry(c.cluster),
              !.seen = @ + 1,
              !.visited = Append(@, Entry(c.cluster))]

\* The cursor, when it is "ok"
Advance(c) ==
    [c EXCEPT !.cluster = Entry(c.cluster),
              !.base = @ + ClusterSize,
              !.seen = @ + 1,
              !.visited = Append(@, Entry(c.cluster))]

\* The FAT is read only if the first two tests pass.
ReadsFat(c) == IsValid(c.cluster) /\ c.seen < MaxClusters

-----------------------------------------------------------------------------
(* fat_seek_file *)

Seek(o) ==
    /\ pc = "open"
    /\ IF o > size
       THEN /\ status' = "invalid"
            /\ UNCHANGED <<cursor, pc, left, goal>>
       ELSE /\ cursor' = Rewound
            /\ IF o = 0 \/ size = 0
               THEN status' = "ok" /\ goal' = 0 /\ UNCHANGED <<pc, left>>
               ELSE /\ pc' = "seek"
                    /\ left' = o \div ClusterSize
                    /\ goal' = o
                    /\ status' = "none"
    /\ out' = <<>>
    /\ from' = 0
    /\ UNCHANGED <<disk, failed>>

SeekAdvance(readable) ==
    LET s == AdvanceStatus(cursor, readable)
    IN  /\ pc = "seek"
        /\ left > 0
        /\ ~readable => ReadsFat(cursor)
        /\ IF s = "ok"
           THEN /\ cursor' = Advance(cursor)
                /\ left' = left - 1
                /\ UNCHANGED <<pc, status>>
           ELSE /\ status' = s
                /\ pc' = "open"
                /\ UNCHANGED <<cursor, left>>
        /\ failed' = (failed \/ ~readable)
        /\ UNCHANGED <<disk, goal, out, from>>

SeekDone ==
    /\ pc = "seek"
    /\ left = 0
    /\ cursor' = [cursor EXCEPT !.position = goal,
                                !.base = (goal \div ClusterSize) * ClusterSize]
    /\ status' = "ok"
    /\ pc' = "open"
    /\ UNCHANGED <<disk, left, goal, out, from, failed>>

-----------------------------------------------------------------------------
(* fat_read_file *)

Smaller(a, b) == IF a < b THEN a ELSE b

Read(n) ==
    /\ pc = "open"
    /\ out' = <<>>
    /\ from' = cursor.position
    /\ IF n = 0 \/ cursor.position >= size
       THEN status' = "ok" /\ UNCHANGED <<pc, left>>
       ELSE /\ pc' = "read"
            /\ left' = Smaller(n, size - cursor.position)
            /\ status' = "none"
    /\ UNCHANGED <<disk, cursor, goal, failed>>

\* Mutant: the cluster is checked, but not that the position is in it.
MutInClusterValid == IsValid(cursor.cluster)

\* position - current_cluster_file_offset, unsigned: a position before the
\* cluster gives a huge offset.
InCluster ==
    /\ IsValid(cursor.cluster)
    /\ cursor.position >= cursor.base
    /\ cursor.position - cursor.base < ClusterSize

\* The cursor is not in its cluster.
ReadLost ==
    /\ pc = "read"
    /\ ~InCluster
    /\ status' = "corrupt"
    /\ pc' = "open"
    /\ UNCHANGED <<disk, cursor, left, goal, out, from, failed>>

\* The data sector cannot be read.
ReadDataFails ==
    /\ pc = "read"
    /\ InCluster
    /\ status' = "io"
    /\ pc' = "open"
    /\ failed' = TRUE
    /\ UNCHANGED <<disk, cursor, left, goal, out, from>>

Offset == cursor.position - cursor.base

\* Mutant: the rest of the sector is copied, wanted or not.
MutThisRoundWhole == BytesPerSector - (Offset % BytesPerSector)

\* bytes_this_round
ThisRound == Smaller(BytesPerSector - (Offset % BytesPerSector), left)

\* The bytes copied out of the sector read
Copied ==
    [i \in 1 .. ThisRound |->
        <<cursor.cluster,
          (Offset \div BytesPerSector) * BytesPerSector
              + (Offset % BytesPerSector) + i - 1>>]

\* One round of the loop: a sector is read and copied, and at the end of a
\* cluster the next one is looked up, even if no more is wanted of it now.
ReadRound(readable) ==
    LET moved  == [cursor EXCEPT !.position = @ + ThisRound]
        onward == /\ moved.position < size
                  /\ moved.position - moved.base >= ClusterSize
        s      == IF onward THEN AdvanceStatus(moved, readable) ELSE "ok"
        done   == left = ThisRound \/ moved.position >= size
    IN  /\ pc = "read"
        /\ InCluster
        /\ ~readable => onward /\ ReadsFat(moved)
        /\ out' = out \o Copied
        /\ left' = left - ThisRound
        /\ cursor' = IF onward /\ s = "ok" THEN Advance(moved) ELSE moved
        /\ IF done \/ s # "ok"
           THEN pc' = "open" /\ status' = s
           ELSE UNCHANGED <<pc, status>>
        /\ failed' = (failed \/ ~readable)
        /\ UNCHANGED <<disk, goal, from>>

-----------------------------------------------------------------------------
Calls ==
    \/ Open
    \/ \E o \in Offsets : Seek(o)
    \/ \E n \in Lengths : Read(n)

Steps ==
    \/ \E readable \in BOOLEAN : SeekAdvance(readable)
    \/ SeekDone
    \/ ReadLost
    \/ ReadDataFails
    \/ \E readable \in BOOLEAN : ReadRound(readable)

Next == Calls \/ Steps

Spec == Init /\ [][Next]_vars

\* A call that has begun goes on, and no failure is needed for it to.
Working ==
    \/ SeekAdvance(TRUE)
    \/ SeekDone
    \/ ReadLost
    \/ ReadRound(TRUE)

-----------------------------------------------------------------------------
\* The clusters that the size asks for
Needed == (size + ClusterSize - 1) \div ClusterSize

\* The types, a part of BytesAreFile; the list of visited clusters is never
\* longer than its array.
TypeOK ==
    /\ cursor.position \in 0 .. size
    /\ cursor.cluster \in Nat
    /\ cursor.base \in 0 .. (ClusterSize * ClusterCount)
    /\ cursor.seen \in 0 .. Needed
    /\ Len(cursor.visited) <= MaxVisited
    /\ pc \in {"closed", "open", "seek", "read"}
    /\ left \in Int
    /\ status \in {"none", "ok", "corrupt", "io", "invalid"}
    /\ failed \in BOOLEAN

\* The clusters of the file by the table alone: 0 after the end of the chain.
Chain[k \in Nat] ==
    IF k = 0 THEN (IF IsValid(first) THEN first ELSE 0)
    ELSE LET c == Chain[k - 1]
         IN  IF c = 0 \/ Entry(c) \notin Valid THEN 0 ELSE Entry(c)

FileByte(p) == <<Chain[p \div ClusterSize], p % ClusterSize>>

\* Every byte that a read hands out is the file's byte at that position, on any
\* volume, after any calls and failures: a cursor left wrong by a failed seek or
\* read is never used.
BytesAreFile ==
    /\ TypeOK
    /\ \A i \in 1 .. Len(out) : out[i] = FileByte(from + i - 1)

\* The chain has all the clusters the size asks for, each once, and no more of
\* them than the loop guard can hold.
Healthy ==
    /\ Needed <= MaxVisited
    /\ \A k \in 0 .. (Needed - 1) : Chain[k] # 0
    /\ \A j, k \in 0 .. (Needed - 1) : j # k => Chain[j] # Chain[k]

\* A seek to the very end of a file that fills its last cluster: it asks for
\* one cluster more than there is.
SeeksPastLast == goal = size /\ size % ClusterSize = 0 /\ size # 0

\* The chain leads to a cluster whose number is that of a marker.
TakenForMark == \E k \in 1 .. (Needed - 1) : Chain[k] >= MarkFrom

\* "Corrupt" is said of damaged files only: of a healthy one it is said only after
\* a block read that failed, or at a seek to the end of a file of whole clusters,
\* or where a cluster's number passes for a marker.
CorruptIsReal ==
    status = "corrupt" => ~Healthy \/ failed \/ SeeksPastLast \/ TakenForMark

\* A read that returns success has copied all that was asked for, up to the end
\* of the file.
OkIsComplete ==
    [][pc = "read" /\ pc' = "open" /\ status' = "ok" => left' = 0]_vars
=============================================================================
