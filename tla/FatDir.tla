------------------------------- MODULE FatDir -------------------------------
(***************************************************************************)
(* A FAT volume and its directories (fs/fat.c): mounting it, resolving a   *)
(* path component by component, and listing a directory.  The last two     *)
(* walk the sectors of a directory, fixed or in a cluster chain, and put   *)
(* long names together from the entries that precede a short one; the      *)
(* state of that assembly is carried from entry to entry, over sectors and *)
(* clusters.  Every block read may fail, and the volume may be damaged.    *)
(*                                                                         *)
(* A name is a sequence of texts.  A text of FullTexts has 13 characters,  *)
(* as much as a long-name entry holds; the others have at most 12 and are  *)
(* followed by the terminator.  Texts that differ in case are one text.    *)
(***************************************************************************)
EXTENDS Integers, Sequences, SequencesExt

CONSTANTS
    Volumes,     \* the volumes considered
    DeviceSector, \* sector_size_bytes of the device: 512
    Word,        \* sector numbers are uint32_t: 2^32
    Fat12Limit,  \* volumes with fewer clusters are FAT12: 4085
    Fat16Limit,  \* and with fewer than this FAT16: 65525
    MaxVisited,  \* FAT_MAX_VISITED_CLUSTERS: 256
    MaxSlots,    \* the largest order of a long-name entry: 20
    FullTexts,   \* texts that fill a long-name entry
    Paths        \* bound: the paths asked for, as sequences of names

EndMark == -1
BadMark == -2
Nothing == "nothing"
NoEntry == [kind |-> Nothing]

\* A volume: the sector it starts at, the fields of its boot sector, the sectors of
\* a fixed root directory (FAT12, FAT16), and for each cluster its sectors and its
\* FAT entry.
VARIABLES
    vol,
    fs,        \* termob_fat_fs_t
    op,        \* "lookup", "open" or "list"
    path,      \* the path asked for
    rest,      \* the components not resolved yet
    here,      \* out_result->dirent; Root while is_root is set
    pc,
    cluster,   \* the cluster walked; 0 in a fixed root
    sector,    \* the next sector of it, from 1
    visited,
    lfn,       \* fat_lfn_state_t
    count,     \* entries walked over in this directory
    found,     \* the entry found, or NoEntry
    reported,  \* list: the live entries given to the callback
    status,
    failed     \* a block read failed during this call

walk == <<cluster, sector, visited, lfn, count, found>>
vars == <<vol, fs, op, path, rest, here, pc, walk, reported, status, failed>>

Root == [name |-> <<>>, long |-> <<>>, kind |-> "directory", first |-> 0,
         suspicious |-> FALSE, at |-> 0]

-----------------------------------------------------------------------------
(* fat_mount *)

\* boot_lba, which the caller gives
BootLba == vol.lba

NoFs == [fat_type |-> 0, cluster_count |-> 0, sectors_per_cluster |-> 0,
         root_dir_sectors |-> 0, root_cluster |-> 0, first_fat_lba |-> 0,
         first_root_dir_lba |-> 0, first_data_lba |-> 0]

TotalSectors(b)   == IF b.total16 = 0 THEN b.total32 ELSE b.total16
SectorsPerFat(b)  == IF b.perFat16 = 0 THEN b.perFat32 ELSE b.perFat16
RootDirSectors(b) == (b.entries * 32 + b.bytes - 1) \div b.bytes

\* Mutant: the sectors of the root directory are left out of the count.
MutMetadataNoRoot(b) == (b.reserved + b.fats * SectorsPerFat(b)) % Word

\* metadata_sectors: the product and the sum wrap.
MetadataSectors(b) ==
    (b.reserved + b.fats * SectorsPerFat(b) + RootDirSectors(b)) % Word

ClusterCount(b) == (TotalSectors(b) - MetadataSectors(b)) \div b.perCluster

FatType(n) ==
    IF n < Fat12Limit THEN 12 ELSE IF n < Fat16Limit THEN 16 ELSE 32

\* The checks on the fields of the boot sector
FieldsOk(b) ==
    /\ b.bytes \in {512, 1024, 2048, 4096}
    /\ b.bytes = DeviceSector
    /\ b.perCluster \in {2^k : k \in 0 .. 7}
    /\ 0 \notin {b.reserved, b.fats, SectorsPerFat(b), TotalSectors(b)}
    /\ b.signed

\* The checks on the layout they describe
LayoutOk(b) ==
    /\ TotalSectors(b) > MetadataSectors(b)
    /\ ClusterCount(b) # 0

\* root_cluster, which is 0 on a volume with a 16-bit FAT size
RootCluster(b) == IF b.perFat16 = 0 THEN b.root ELSE 0

Layout(b) ==
    LET type == FatType(ClusterCount(b))
        fat  == (BootLba + b.reserved) % Word
        root == (fat + b.fats * SectorsPerFat(b)) % Word
    IN  [fat_type |-> type, cluster_count |-> ClusterCount(b),
         sectors_per_cluster |-> b.perCluster,
         root_dir_sectors |-> RootDirSectors(b),
         root_cluster |-> RootCluster(b), first_fat_lba |-> fat,
         first_root_dir_lba |-> IF type = 32 THEN 0 ELSE root,
         first_data_lba |-> (root + RootDirSectors(b)) % Word]

RootOk(b) ==
    FatType(ClusterCount(b)) = 32 => RootCluster(b) \in 2 .. ClusterCount(b) + 1

Accepted(b) == FieldsOk(b) /\ LayoutOk(b) /\ RootOk(b)

\* The device is there, its boot sector is read, and nothing is wrong with it.
\* The shell mounts at each command; it always finds the same.
Mount ==
    /\ pc = "unmounted"
    /\ Accepted(vol.boot)
    /\ fs' = Layout(vol.boot)
    /\ pc' = "idle"
    /\ UNCHANGED <<vol, op, path, rest, here, walk, reported, status, failed>>

\* The boot sector cannot be read or is refused: the caller does not use fs.
MountFails(readable) ==
    /\ pc = "unmounted"
    /\ readable => ~Accepted(vol.boot)
    /\ status' = "not_mounted"
    /\ UNCHANGED <<vol, fs, op, path, rest, here, pc, walk, reported, failed>>

\* fat_cluster_is_valid
IsValid(c) == c >= 2 /\ c < fs.cluster_count + 2

\* The root directory is not a chain.
FixedRoot == fs.fat_type # 32

-----------------------------------------------------------------------------
(* Long names *)

NoSlots == [k \in 1 .. MaxSlots |-> Nothing]

\* fat_lfn_reset.  seen_mask decides only a result that nobody uses.
NoLfn == [active |-> FALSE, total |-> 0, sum |-> 0, slots |-> NoSlots]

\* fat_lfn_collect, with fat_lfn_store_name_part for the characters
Collect(s, raw) ==
    IF ~raw.good \/ raw.order \notin 1 .. MaxSlots THEN NoLfn
    ELSE IF raw.last
    THEN [active |-> TRUE, total |-> raw.order, sum |-> raw.sum,
          slots |-> [NoSlots EXCEPT ![raw.order] = raw.text]]
    ELSE IF ~s.active \/ raw.order > s.total \/ raw.sum # s.sum THEN NoLfn
    ELSE [s EXCEPT !.slots[raw.order] = raw.text]

\* The string in state->name: it ends at a short text or at a missing slot.
Assembled(s) ==
    LET run[k \in 1 .. MaxSlots] ==
            IF s.slots[k] = Nothing THEN <<>>
            ELSE <<s.slots[k]>> \o
                 (IF s.slots[k] \in FullTexts /\ k < MaxSlots
                  THEN run[k + 1] ELSE <<>>)
    IN  run[1]

-----------------------------------------------------------------------------
(* fat_visit_sector_entries *)

\* fat_dirent_from_raw and what is added to it; n is the entry's place.
Dirent(s, raw, n) ==
    [name  |-> raw.name,
     long  |-> IF s.active /\ s.sum = raw.sum THEN Assembled(s) ELSE <<>>,
     kind  |-> raw.kind,
     first |-> raw.first,
     suspicious |->
        \/ raw.kind = "reserved"
        \/ /\ raw.kind \in {"file", "directory"}
           /\ raw.first # 0
           /\ ~IsValid(raw.first),
     at    |-> n]

\* fat_find_entry_callback and fat_dirent_name_matches: the callback is to stop.
Hit(d, name) ==
    /\ d.kind \in {"file", "directory"}
    /\ \/ d.long # <<>> /\ d.long = name
       \/ d.name = name

\* What a walk has gathered, and whether it is over
Gathered == [lfn |-> lfn, count |-> count, found |-> NoEntry, end |-> FALSE,
             live |-> <<>>]

\* Mutant: a deleted entry leaves the long name under way alone.
MutVisitEntryKeepsLfn(g, raw, name) ==
    LET n == g.count + 1
        d == Dirent(g.lfn, raw, n)
    IN  IF g.end \/ g.found # NoEntry THEN g
        ELSE CASE raw.tag = "end"     -> [g EXCEPT !.end = TRUE, !.lfn = NoLfn]
               [] raw.tag = "deleted" -> [g EXCEPT !.count = n]
               [] raw.tag = "lfn"     -> [g EXCEPT !.count = n,
                                                   !.lfn = Collect(@, raw)]
               [] raw.tag = "entry"   ->
                    [g EXCEPT !.count = n, !.lfn = NoLfn,
                              !.live = Append(@, d),
                              !.found = IF Hit(d, name) THEN d ELSE NoEntry]

\* One entry of a sector; a list looks for no name, and its callback never
\* stops.
VisitEntry(g, raw, name) ==
    LET n == g.count + 1
        d == Dirent(g.lfn, raw, n)
    IN  IF g.end \/ g.found # NoEntry THEN g
        ELSE CASE raw.tag = "end"     -> [g EXCEPT !.end = TRUE, !.lfn = NoLfn]
               [] raw.tag = "deleted" -> [g EXCEPT !.count = n, !.lfn = NoLfn]
               [] raw.tag = "lfn"     -> [g EXCEPT !.count = n,
                                                   !.lfn = Collect(@, raw)]
               [] raw.tag = "entry"   ->
                    [g EXCEPT !.count = n, !.lfn = NoLfn,
                              !.live = Append(@, d),
                              !.found = IF Hit(d, name) THEN d ELSE NoEntry]

VisitSector(entries, name) ==
    FoldLeft(LAMBDA g, raw : VisitEntry(g, raw, name), Gathered, entries)

-----------------------------------------------------------------------------
(* The calls *)

Init ==
    /\ vol \in Volumes
    /\ op = "none" /\ path = <<>> /\ rest = <<>>
    /\ here = Root
    /\ fs = NoFs
    /\ pc = "unmounted"
    /\ cluster = 0 /\ sector = 1 /\ visited = <<>>
    /\ lfn = NoLfn /\ count = 0 /\ found = NoEntry
    /\ reported = <<>>
    /\ status = "none"
    /\ failed = FALSE

\* fat_lookup_path, fat_open_file and fat_list_path on an absolute path
Begin ==
    /\ pc = "idle"
    /\ op' \in {"lookup", "open", "list"}
    /\ path' \in Paths
    /\ rest' = path'
    /\ here' = Root
    /\ pc' = "component"
    /\ cluster' = 0 /\ sector' = 1 /\ visited' = <<>>
    /\ lfn' = NoLfn /\ count' = 0 /\ found' = NoEntry
    /\ reported' = <<>>
    /\ status' = "none"
    /\ failed' = FALSE
    /\ UNCHANGED <<vol, fs>>

Return(s) ==
    /\ status' = s
    /\ pc' = "idle"

\* component[13]: a component of more than 12 characters is refused
TooLong(name) == Len(name) > 1 \/ name[1] \in FullTexts

\* A walk from the start of directory d.  The root of a FAT12 or FAT16 volume
\* is the only directory without a cluster.
StartWalk(d) ==
    /\ lfn' = NoLfn /\ count' = 0 /\ found' = NoEntry
    /\ visited' = <<>> /\ sector' = 1
    /\ IF d = Root /\ FixedRoot
       THEN cluster' = 0 /\ pc' = "sector" /\ UNCHANGED status
       ELSE /\ cluster' = IF d = Root THEN fs.root_cluster ELSE d.first
            /\ IF IsValid(cluster')
               THEN pc' = "cluster" /\ UNCHANGED status
               ELSE Return("corrupt")

\* The head of the loop in fat_lookup_path, down to the search
Component ==
    /\ pc = "component"
    /\ rest # <<>>
    /\ IF TooLong(Head(rest))
       THEN Return("invalid_path") /\ UNCHANGED walk
       ELSE StartWalk(here)
    /\ UNCHANGED <<vol, fs, op, path, rest, here, reported, failed>>

\* The path is resolved: fat_lookup_path and fat_open_file return,
\* fat_list_path starts to list.
Resolved ==
    /\ pc = "component"
    /\ rest = <<>>
    /\ CASE op = "lookup" -> Return("ok") /\ UNCHANGED walk
         [] op = "open"   -> /\ Return(IF here.kind = "file" THEN "ok"
                                       ELSE "not_file")
                             /\ UNCHANGED walk
         [] op = "list"   -> IF here.kind # "directory"
                             THEN Return("not_directory") /\ UNCHANGED walk
                             ELSE StartWalk(here)
    /\ UNCHANGED <<vol, fs, op, path, rest, here, reported, failed>>

Listing == rest = <<>>

\* Mutant: a list that breaks off is taken for a complete one.
MutWalkErrorPartial(s) == Return(IF Listing THEN "ok" ELSE s)

\* A list has one error for everything.
WalkError(s) == Return(IF Listing THEN "corrupt" ELSE s)

\* The search or the list has come to the end of the directory.
EndOfDirectory == Return(IF Listing THEN "ok" ELSE "not_found")

\* The checks at the head of a round of the walk over a chain
EnterCluster ==
    /\ pc = "cluster"
    /\ sector' = 1
    /\ IF \/ \E i \in DOMAIN visited : visited[i] = cluster
          \/ Len(visited) >= MaxVisited
       THEN WalkError("corrupt") /\ UNCHANGED visited
       ELSE /\ visited' = Append(visited, cluster)
            /\ pc' = "sector"
            /\ UNCHANGED status
    /\ UNCHANGED <<vol, fs, op, path, rest, here, cluster, lfn, count, found,
                   reported, failed>>

\* fat_cluster_first_lba
FirstLba(c) == (fs.first_data_lba + (c - 2) * fs.sectors_per_cluster) % Word

\* The bound of the loop over a fixed root wraps; the loop is left at once then.
RootSectorCount ==
    IF (fs.first_root_dir_lba + fs.root_dir_sectors) % Word > fs.first_root_dir_lba
    THEN fs.root_dir_sectors ELSE 0

\* The sectors of the round under way, and the one read next
SectorCount == IF cluster = 0 THEN RootSectorCount ELSE fs.sectors_per_cluster
Lba == ((IF cluster = 0 THEN fs.first_root_dir_lba ELSE FirstLba(cluster))
        + sector - 1) % Word
Content == (IF cluster = 0 THEN vol.root ELSE vol.sectors[cluster])[sector]

\* A sector of the directory cannot be read.
SectorFails ==
    /\ pc = "sector"
    /\ sector <= SectorCount
    /\ failed' = TRUE
    /\ WalkError("io_error")
    /\ UNCHANGED <<vol, fs, op, path, rest, here, walk, reported>>

\* A sector is read and its entries are visited.
ReadSector ==
    /\ pc = "sector"
    /\ sector <= SectorCount
    /\ LET g == VisitSector(Content,
                            IF Listing THEN <<>> ELSE Head(rest))
       IN  /\ lfn' = g.lfn
           /\ count' = g.count
           /\ found' = g.found
           /\ reported' = IF Listing THEN reported \o g.live ELSE reported
           /\ IF g.found # NoEntry THEN pc' = "found" /\ UNCHANGED status
              ELSE IF g.end THEN EndOfDirectory
              ELSE UNCHANGED <<pc, status>>
    /\ sector' = sector + 1
    /\ UNCHANGED <<vol, fs, op, path, rest, here, cluster, visited, failed>>

\* The last sector of a fixed root is done.
EndOfRoot ==
    /\ pc = "sector"
    /\ cluster = 0
    /\ sector > SectorCount
    /\ EndOfDirectory
    /\ UNCHANGED <<vol, fs, op, path, rest, here, walk, reported, failed>>

\* The FAT entry of a finished cluster cannot be read.
NextFails ==
    /\ pc = "sector"
    /\ cluster # 0
    /\ sector > SectorCount
    /\ failed' = TRUE
    /\ WalkError("io_error")
    /\ UNCHANGED <<vol, fs, op, path, rest, here, walk, reported>>

\* Mutant: the long name under way is lost at a cluster boundary.
MutNextClusterForgets ==
    /\ pc = "sector"
    /\ cluster # 0
    /\ sector > SectorCount
    /\ LET next == vol.table[cluster]
       IN  CASE next = EndMark -> EndOfDirectory /\ UNCHANGED <<cluster, lfn>>
             [] IsValid(next)  -> /\ cluster' = next /\ lfn' = NoLfn
                                  /\ pc' = "cluster"
                                  /\ UNCHANGED status
             [] OTHER          -> /\ WalkError("corrupt")
                                  /\ UNCHANGED <<cluster, lfn>>
    /\ UNCHANGED <<vol, fs, op, path, rest, here, sector, visited, count,
                   found, reported, failed>>

\* The chain is followed: 0, a bad, a reserved and an invalid entry are damage.
NextCluster ==
    /\ pc = "sector"
    /\ cluster # 0
    /\ sector > SectorCount
    /\ LET next == vol.table[cluster]
       IN  CASE next = EndMark -> EndOfDirectory /\ UNCHANGED cluster
             [] IsValid(next)  -> /\ cluster' = next
                                  /\ pc' = "cluster"
                                  /\ UNCHANGED status
             [] OTHER          -> WalkError("corrupt") /\ UNCHANGED cluster
    /\ UNCHANGED <<vol, fs, op, path, rest, here, sector, visited, lfn, count,
                   found, reported, failed>>

\* The component is found: the rest of the loop in fat_lookup_path
Found ==
    /\ pc = "found"
    /\ IF found.suspicious
       THEN Return("corrupt") /\ UNCHANGED <<here, rest>>
       ELSE /\ here' = found
            /\ rest' = Tail(rest)
            /\ IF rest' # <<>> /\ found.kind # "directory"
               THEN Return("not_directory")
               ELSE pc' = "component" /\ UNCHANGED status
    /\ UNCHANGED <<vol, fs, op, path, walk, reported, failed>>

Next ==
    \/ Mount
    \/ \E readable \in BOOLEAN : MountFails(readable)
    \/ Begin
    \/ Component \/ Resolved \/ EnterCluster
    \/ SectorFails \/ ReadSector
    \/ EndOfRoot \/ NextFails \/ NextCluster
    \/ Found

Spec == Init /\ [][Next]_vars

-----------------------------------------------------------------------------
(* What a directory holds, read off the volume *)

\* The clusters of d, up to a repetition, a broken link or the limit
Chain(d) ==
    LET follow[n \in 1 .. MaxVisited] ==
            IF n = 1 THEN <<IF d = Root THEN fs.root_cluster ELSE d.first>>
            ELSE LET sofar == follow[n - 1]
                     next  == vol.table[Last(sofar)]
                 IN  IF IsValid(next) /\ ~Contains(sofar, next)
                     THEN Append(sofar, next) ELSE sofar
    IN  follow[MaxVisited]

HasStart(d) == \/ d = Root /\ (FixedRoot \/ IsValid(fs.root_cluster))
               \/ d # Root /\ IsValid(d.first)

InRoot(d) == d = Root /\ FixedRoot

AllEntries(d) ==
    FlattenSeq(IF InRoot(d) THEN SubSeq(vol.root, 1, fs.root_dir_sectors)
               ELSE FlattenSeq([i \in DOMAIN Chain(d) |->
                                    SubSeq(vol.sectors[Chain(d)[i]], 1,
                                           fs.sectors_per_cluster)]))

IsEnd(raw) == raw.tag = "end"

Entries(d) ==
    LET all == AllEntries(d)
        n   == SelectInSeq(all, IsEnd)
    IN  IF n = 0 THEN all ELSE SubSeq(all, 1, n - 1)

\* A walk to the end of d meets no damage.
Healthy(d) ==
    \/ InRoot(d)
    \/ SelectInSeq(AllEntries(d), IsEnd) # 0
    \/ vol.table[Last(Chain(d))] = EndMark

\* Entries j .. i - 1 of es are a complete set of long-name entries of entry i.
IsSet(es, j, i) ==
    \A k \in j .. i - 1 :
        /\ es[k].tag = "lfn"
        /\ es[k].good /\ es[k].sum = es[i].sum /\ es[k].order = i - k
        /\ es[k].last <=> k = j
        /\ k > j => es[k].text \in FullTexts

LongName(es, i) ==
    IF \E j \in 1 .. i - 1 : IsSet(es, j, i)
    THEN LET j == CHOOSE j \in 1 .. i - 1 : IsSet(es, j, i)
         IN  [k \in 1 .. i - j |-> es[i - k].text]
    ELSE <<>>

\* Long-name entries in front of another entry are a complete set of it or do
\* not belong to it.
Tidy(es) ==
    \A i \in DOMAIN es :
        es[i].tag = "entry" /\ i > 1 =>
            \/ \E j \in 1 .. i - 1 : IsSet(es, j, i)
            \/ es[i - 1].tag # "lfn"
            \/ ~es[i - 1].good
            \/ es[i - 1].sum # es[i].sum

IsLive(d) == d # NoEntry

Dirents(es) ==
    SelectSeq([i \in DOMAIN es |->
                 IF es[i].tag = "entry"
                 THEN [Dirent(NoLfn, es[i], i) EXCEPT !.long = LongName(es, i)]
                 ELSE NoEntry],
              IsLive)

IsNamed(d, name) ==
    d.kind \in {"file", "directory"} /\ name \in {d.name, d.long}

\* Where path leads: the first entry of that name in each directory
Answer ==
    LET enter(d, name) ==
            LET ds   == Dirents(Entries(d))
                hits == {i \in DOMAIN ds : IsNamed(ds[i], name)}
                hit  == ds[CHOOSE i \in hits : \A h \in hits : i <= h]
            IN  IF ~HasStart(d) THEN [st |-> "corrupt", at |-> d]
                ELSE IF ~Tidy(Entries(d)) THEN [st |-> "unknown", at |-> d]
                ELSE IF hits = {}
                THEN [st |-> IF Healthy(d) THEN "not_found" ELSE "corrupt",
                      at |-> d]
                ELSE [st |-> IF hit.suspicious THEN "corrupt" ELSE "ok",
                      at |-> hit]
        go[k \in 0 .. Len(path)] ==
            IF k = 0 THEN [st |-> "ok", at |-> Root]
            ELSE LET d == go[k - 1].at
                 IN  IF go[k - 1].st # "ok" THEN go[k - 1]
                     ELSE IF d.kind # "directory"
                     THEN [st |-> "not_directory", at |-> d]
                     ELSE IF TooLong(path[k])
                     THEN [st |-> "invalid_path", at |-> d]
                     ELSE enter(d, path[k])
    IN  go[Len(path)]

-----------------------------------------------------------------------------
(* Properties *)

\* The sectors of the volume's parts by the boot sector's fields, which may be
\* any number of sectors: no arithmetic of the code is used here.
RootStart == BootLba + vol.boot.reserved + vol.boot.fats * SectorsPerFat(vol.boot)
DataStart == RootStart + RootDirSectors(vol.boot)
VolumeEnd == BootLba + TotalSectors(vol.boot)

\* The volume and its parts end within the sector numbers.  fat_mount does not
\* look at that.
Fits == VolumeEnd <= Word /\ DataStart <= Word

\* fat_lookup_path gives the entry a reader of the volume finds: component by
\* component the first file or directory of that short or long name, whatever
\* sectors and clusters its entries lie across; and it reports an error only
\* for what is there.  (Directories with damaged long names are left to
\* NamesAreOwn; and of a volume that does not end within the sector numbers the
\* code may take the root for empty.)  A directory entry without a cluster, such as
\* the ".." of a directory in the root, is an error by this reading of the code.
LookupIsFirstMatch ==
    pc = "idle" /\ op = "lookup" /\ ~failed /\ Fits /\ Answer.st # "unknown" =>
        /\ status = Answer.st
        /\ status = "ok" => here = Answer.at

\* fat_list_path reports every live entry of the directory once, in order and
\* under its own long name, if the volume ends within the sector numbers, and it
\* succeeds exactly when the chain is sound and every block was read.
ListingIsDirectory ==
    pc = "idle" /\ op = "list" /\ here.kind = "directory" /\ rest = <<>> =>
        /\ status = "ok" /\ Fits =>
              /\ Healthy(here)
              /\ Tidy(Entries(here)) => reported = Dirents(Entries(here))
        /\ HasStart(here) /\ Healthy(here) /\ ~failed => status = "ok"

\* Whatever the volume holds, each part of a long name comes from an entry of
\* the unbroken run of long-name entries right before its owner, with that part's
\* number and the owner's checksum: nothing is left over from another file.
NamesAreOwn ==
    \A d \in Range(reported) \cup (IF pc = "found" THEN {found} ELSE {}) :
        \A k \in DOMAIN d.long :
            LET es == Entries(here)
            IN  \E m \in 1 .. d.at - 1 :
                    /\ \A n \in m .. d.at - 1 : es[n].tag = "lfn"
                    /\ es[m].order = k /\ es[m].text = d.long[k]
                    /\ es[m].sum = es[d.at].sum

\* What fat_mount accepts can be walked: whatever the boot sector says, a sector
\* read for a cluster, counted from the boot sector on and from 0 again after the
\* last sector number, comes before the end of the volume.  If the volume and its
\* parts end within the sector numbers, which fat_mount takes for granted, it lies
\* in the data area, apart from the boot sector, the FATs and the root, whose
\* sectors in turn lie between the FATs and the data.
ReadsInItsArea ==
    pc = "sector" /\ sector <= SectorCount =>
        /\ cluster # 0 => (Lba - BootLba) % Word < TotalSectors(vol.boot)
        /\ Fits =>
              IF cluster = 0 THEN Lba \in RootStart .. DataStart - 1
              ELSE Lba \in DataStart .. VolumeEnd - 1
=============================================================================
