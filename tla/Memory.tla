------------------------------ MODULE Memory ------------------------------
(***************************************************************************)
(* From the boot loader's memory map to a paged machine: the ranges that   *)
(* core/bootinfo.c keeps, the frame bitmap that core/pmm.c builds from     *)
(* them and hands frames out of, and the identity mapping that             *)
(* core/paging.c makes with the first frames.  It all runs at boot, with   *)
(* interrupts off; a loop of the code is a step per iteration here.        *)
(*                                                                         *)
(* Addresses are uint32_t and the code's sums wrap: arithmetic is modulo   *)
(* Word.  The bitmap is the set of frames whose bit is 1.                  *)
(***************************************************************************)
EXTENDS Integers, Sequences, FiniteSets

CONSTANTS
    Word,          \* 2^32 in the code
    Frame,         \* PMM_FRAME_SIZE, PAGING_PAGE_SIZE: 4096
    MaxRanges,     \* TERMOB_BOOTINFO_MAX_MEMORY_RANGES: 64
    Entries,       \* the memory map entries a loader may report
    MaxEntries,    \* bound: entries in one memory map
    LoadAddress,   \* TERMOB_KERNEL_LOAD_ADDRESS
    KernelEnd,     \* &__kernel_end
    HeapStart, HeapEnd, \* heap_start_address(), heap_end_address()
    BitmapAt,      \* where kcalloc puts the bitmap: in the heap
    InfoAt, InfoSize, \* the multiboot information
    TableEntries,  \* PAGING_TABLE_ENTRIES: 1024
    DirEntries,    \* PAGING_DIRECTORY_ENTRIES: 1024
    MinIdentity    \* PAGING_MIN_IDENTITY_BYTES: 16 MiB

ASSUME MemoryAssumption ==
    /\ {Word, Frame, MaxRanges, MaxEntries, LoadAddress, TableEntries,
        DirEntries} \subseteq Nat \ {0}
    /\ {KernelEnd, HeapStart, HeapEnd, BitmapAt, InfoAt, InfoSize,
        MinIdentity} \subseteq Nat
    /\ Word % Frame = 0 /\ Frame > 1
    /\ LoadAddress < KernelEnd
    /\ KernelEnd <= HeapStart /\ HeapStart < BitmapAt /\ BitmapAt < HeapEnd
    /\ HeapEnd <= Word - Frame
    /\ BitmapAt + (Word \div Frame + 7) \div 8 <= HeapEnd
    /\ InfoAt + InfoSize <= Word - Frame
    /\ MinIdentity < Word
    /\ Entries \subseteq [addr : Nat, len : Nat, available : BOOLEAN]

\* An available range does not begin inside the last frame of the address
\* space: rounding its base up would wrap to 0.
ASSUME LoaderAssumption ==
    \A e \in Entries :
        e.available => e.addr <= Word - Frame \/ e.addr >= Word

VARIABLES
    pc,            \* how far kernel_main has come
    entries,       \* memory map entries read so far
    ranges,        \* bootinfo_memory_ranges
    highest,       \* bootinfo_highest_usable_address_value
    total,         \* pmm_total_frames_count
    used,          \* pmm_bitmap
    free,          \* pmm_free_frames_count
    search,        \* pmm_next_search_frame
    ready,         \* pmm_ready
    index,         \* range_index, then table_index
    directory,     \* paging_directory_physical; 0 if there is none
    tables,        \* the page directory: for each table its frame and entries
    identity,      \* paging_identity_bytes
    paging,        \* paging_ready
    held           \* frames handed out by pmm_alloc_frame and not freed since

boot == <<entries, ranges, highest>>
pmm  == <<total, used, free, search, ready>>
page == <<directory, tables, identity, paging>>
vars == <<pc, boot, pmm, index, page, held>>

-----------------------------------------------------------------------------
(* pmm_align_up_u32, pmm_align_down_u32, paging_align_up_u32 *)

AlignUp(n, a)   == (((n + (a - 1)) % Word) \div a) * a
AlignDown(n, a) == (n \div a) * a

\* The end of a region, held down to UINT32_MAX
RegionEnd(base, len) ==
    IF base > (Word - 1) - len THEN Word - 1 ELSE base + len

\* The frames pmm_release_region marks free: those wholly in the region.
ReleasedFrames(base, len) ==
    IF len = 0 THEN {}
    ELSE AlignUp(base, Frame) \div Frame
         .. AlignDown(RegionEnd(base, len), Frame) \div Frame - 1

\* Mutant: frames only partly in the region are left out.
MutReservedFrames(base, len) ==
    IF len = 0 THEN {}
    ELSE AlignUp(base, Frame) \div Frame
         .. AlignDown(RegionEnd(base, len), Frame) \div Frame - 1

\* The frames pmm_reserve_region marks used: those touched by the region.
ReservedFrames(base, len) ==
    IF len = 0 THEN {}
    ELSE base \div Frame .. AlignUp(RegionEnd(base, len), Frame) \div Frame - 1

Frames == 0 .. (total - 1)

\* pmm_mark_frame_free and pmm_mark_frame_used, for a run of frames: a bit that
\* is already right is passed over and not counted.
MarkFree(s) ==
    /\ used' = used \ (s \cap Frames)
    /\ free' = free + Cardinality(s \cap Frames \cap used)

MarkUsed(s) ==
    LET n == Cardinality((s \cap Frames) \ used)
    IN  /\ used' = used \cup (s \cap Frames)
        /\ free' = IF n <= free THEN free - n ELSE 0

-----------------------------------------------------------------------------
(* bootinfo_init *)

Init ==
    /\ pc = "bootinfo"
    /\ entries = 0 /\ ranges = <<>> /\ highest = 0
    /\ total = 0 /\ used = {} /\ free = 0 /\ search = 0 /\ ready = FALSE
    /\ index = 1
    /\ directory = 0 /\ tables = <<>> /\ identity = 0 /\ paging = FALSE
    /\ held = {}

\* bootinfo_store_memory_range for the next entry of the map.  The length is
\* cut to 32 bits, so a range over the whole address space counts as empty.
StoreMemoryRange(e) ==
    LET end    == IF e.addr + e.len > Word THEN Word ELSE e.addr + e.len
        length == (end - e.addr) % Word
        keep   == Len(ranges) < MaxRanges /\ e.len # 0 /\ e.addr < Word /\ length # 0
    IN  /\ pc = "bootinfo"
        /\ entries < MaxEntries
        /\ entries' = entries + 1
        /\ ranges' = IF keep
                     THEN Append(ranges, [base |-> e.addr, length |-> length,
                                          available |-> e.available])
                     ELSE ranges
        /\ highest' = IF keep /\ e.available /\ end - 1 > highest
                      THEN end - 1 ELSE highest
        /\ UNCHANGED <<pc, pmm, index, page, held>>

\* The map ends; without a range bootinfo is not valid and pmm_init gives up.
BootinfoDone ==
    /\ pc = "bootinfo"
    /\ pc' = IF ranges = <<>> THEN "run" ELSE "pmm"
    /\ UNCHANGED <<boot, pmm, index, page, held>>

-----------------------------------------------------------------------------
(* pmm_init *)

FrameCount ==
    IF highest = Word - 1 THEN (Word - 1) \div Frame + 1
    ELSE AlignUp(highest + 1, Frame) \div Frame

\* The bitmap is allocated, with every bit 1, or it cannot be.
PmmStart(allocated) ==
    /\ pc = "pmm"
    /\ IF highest >= Frame - 1 /\ FrameCount # 0 /\ allocated
       THEN /\ total' = FrameCount
            /\ used' = 0 .. (FrameCount - 1)
            /\ pc' = "release"
       ELSE /\ pc' = "run"
            /\ UNCHANGED <<total, used>>
    /\ UNCHANGED <<free, search, ready, boot, index, page, held>>

PmmRelease ==
    /\ pc = "release"
    /\ index <= Len(ranges)
    /\ IF ranges[index].available
       THEN MarkFree(ReleasedFrames(ranges[index].base, ranges[index].length))
       ELSE UNCHANGED <<used, free>>
    /\ index' = index + 1
    /\ UNCHANGED <<pc, total, search, ready, boot, page, held>>

BitmapBytes == (total + 7) \div 8

\* The five regions kept back, in order
Kept ==
    << <<0, LoadAddress>>,
       <<LoadAddress, AlignUp(KernelEnd, Frame) - LoadAddress>>,
       <<HeapStart, HeapEnd - HeapStart>>,
       <<InfoAt, InfoSize>>,
       <<BitmapAt, BitmapBytes>> >>

KeptFrames == UNION {ReservedFrames(Kept[i][1], Kept[i][2]) : i \in 1 .. 5}

PmmReserve ==
    /\ pc = "release"
    /\ index = Len(ranges) + 1
    /\ MarkUsed(KeptFrames)
    /\ ready' = TRUE
    /\ pc' = "paging"
    /\ UNCHANGED <<total, search, index, boot, page, held>>

-----------------------------------------------------------------------------
(* pmm_alloc_frame, pmm_free_frame *)

Lowest(s) == CHOOSE f \in s : \A g \in s : f <= g

\* The frame the two loops find: from the search point up, then from 0.
FoundFrame ==
    LET up == {f \in Frames \ used : f >= search}
    IN  IF up # {} THEN Lowest(up) ELSE Lowest(Frames \ used)

\* Mutant: the bit of the frame is not set.
MutAllocatedUnmarked(f) ==
    /\ ready
    /\ free # 0
    /\ Frames \ used # {}
    /\ f = FoundFrame
    /\ search' = f
    /\ UNCHANGED <<total, used, free, ready>>

\* pmm_alloc_frame succeeds with frame f.
Allocated(f) ==
    /\ ready
    /\ free # 0
    /\ Frames \ used # {}
    /\ f = FoundFrame
    /\ MarkUsed({f})
    /\ search' = f + 1
    /\ UNCHANGED <<total, ready>>

\* It returns 0.
NoFrame ==
    /\ ~ready \/ free = 0 \/ Frames \ used = {}
    /\ UNCHANGED pmm

\* A caller, once the kernel runs
AllocFrame ==
    /\ pc = "run"
    /\ \/ \E f \in Frames : Allocated(f) /\ held' = held \cup {f}
       \/ NoFrame /\ UNCHANGED held
    /\ UNCHANGED <<pc, boot, index, page>>

\* Mutant: the search point is not moved back.
MutFreeFrameKeepsSearch(a) ==
    /\ pc = "run"
    /\ ready
    /\ IF a % Frame # 0 \/ a \div Frame >= total
       THEN UNCHANGED <<used, free, search, held>>
       ELSE /\ MarkFree({a \div Frame})
            /\ search' = search
            /\ held' = held \ {a \div Frame}
    /\ UNCHANGED <<pc, total, ready, boot, index, page>>

\* An address that is no frame is ignored.
FreeFrame(a) ==
    /\ pc = "run"
    /\ ready
    /\ IF a % Frame # 0 \/ a \div Frame >= total
       THEN UNCHANGED <<used, free, search, held>>
       ELSE /\ MarkFree({a \div Frame})
            /\ search' = IF a \div Frame < search THEN a \div Frame ELSE search
            /\ held' = held \ {a \div Frame}
    /\ UNCHANGED <<pc, total, ready, boot, index, page>>

-----------------------------------------------------------------------------
(* paging_init *)

TableBytes == Frame * TableEntries

Largest(a, b) == IF a > b THEN a ELSE b

\* paging_identity_limit_bytes; bootinfo is valid when the frames are ready.
IdentityLimit ==
    AlignUp(Largest(Largest(HeapEnd, MinIdentity), InfoAt + InfoSize), TableBytes)

TableCount == identity \div TableBytes

\* The limits are checked and the directory's frame is taken.
PagingStart ==
    LET count == IdentityLimit \div TableBytes
    IN  /\ pc = "paging"
        /\ IF count = 0 \/ count > DirEntries
           THEN /\ pc' = "run"
                /\ UNCHANGED <<pmm, directory, identity, held>>
           ELSE \/ /\ \E f \in Frames :
                         /\ Allocated(f)
                         /\ directory' = f * Frame
                         /\ held' = held \cup {f}
                   /\ identity' = IdentityLimit
                   /\ pc' = "tables"
                \/ /\ NoFrame
                   /\ pc' = "run"
                   /\ UNCHANGED <<directory, identity, held>>
        /\ index' = 0
        /\ UNCHANGED <<boot, tables, paging>>

\* Mutant: every table starts again from address 0.
MutTableForRestarts(i) ==
    [k \in 0 .. (TableEntries - 1) |-> k * Frame]

\* The entries written into table i, which go on where the last table ended.
TableFor(i) ==
    [k \in 0 .. (TableEntries - 1) |-> i * TableBytes + k * Frame]

\* A table is filled in and entered in the directory; if there is no frame for
\* it, all is given up, but the frames taken so far are not given back.
PagingTable ==
    /\ pc = "tables"
    /\ index < TableCount
    /\ \/ /\ \E f \in Frames :
                /\ Allocated(f)
                /\ tables' = Append(tables, [at |-> f * Frame, map |-> TableFor(index)])
                /\ held' = held \cup {f}
          /\ index' = index + 1
          /\ UNCHANGED <<pc, directory, identity>>
       \/ /\ NoFrame
          /\ pc' = "run"
          /\ directory' = 0
          /\ identity' = 0
          /\ UNCHANGED <<index, tables, held>>
    /\ UNCHANGED <<boot, paging>>

PagingEnable ==
    /\ pc = "tables"
    /\ index = TableCount
    /\ paging' = TRUE
    /\ pc' = "run"
    /\ UNCHANGED <<boot, pmm, index, directory, tables, identity, held>>

-----------------------------------------------------------------------------
PagingFrames ==
    {f \in Frames : f * Frame = directory \/ \E i \in 1 .. Len(tables) : f * Frame = tables[i].at}

\* What callers may give back: a frame they were handed, or no frame at all.
Freeable ==
    {f * Frame : f \in held \ PagingFrames}
        \cup {Frame + 1, total * Frame}

Next ==
    \/ \E e \in Entries : StoreMemoryRange(e)
    \/ BootinfoDone
    \/ \E allocated \in BOOLEAN : PmmStart(allocated)
    \/ PmmRelease
    \/ PmmReserve
    \/ PagingStart
    \/ PagingTable
    \/ PagingEnable
    \/ AllocFrame
    \/ \E a \in Freeable : FreeFrame(a)

Spec == Init /\ [][Next]_vars

-----------------------------------------------------------------------------
\* Every variable has its type; the counts and the search point never pass the
\* number of frames.
TypeOK ==
    /\ pc \in {"bootinfo", "pmm", "release", "paging", "tables", "run"}
    /\ entries \in 0 .. MaxEntries
    /\ ranges \in Seq([base : 0 .. (Word - 1), length : 1 .. (Word - 1),
                       available : BOOLEAN])
    /\ Len(ranges) <= MaxRanges
    /\ highest \in 0 .. (Word - 1)
    /\ total \in 0 .. (Word \div Frame)
    /\ used \subseteq Frames
    /\ free \in 0 .. total
    /\ search \in 0 .. total
    /\ ready \in BOOLEAN
    /\ index \in Nat
    /\ directory \in 0 .. (Word - 1)
    /\ identity \in 0 .. (Word - 1)
    /\ paging \in BOOLEAN
    /\ held \subseteq Frames

\* An available range that the loader reported covers the frame.
Backed(f) ==
    \E i \in 1 .. Len(ranges) :
        /\ ranges[i].available
        /\ ranges[i].base <= f * Frame
        /\ (f + 1) * Frame <= ranges[i].base + ranges[i].length

Touches(f, from, to) == from < to /\ f * Frame < to /\ from < (f + 1) * Frame

\* A frame that can be handed out, or has been, is wholly inside memory that
\* the loader called available, and is not the kernel's, the heap's, the boot
\* information's, or below the kernel.  Frame 0, which could not be told from
\* failure, is among the latter.
OnlyGoodFrames ==
    ready =>
        \A f \in (Frames \ used) \cup held :
            /\ Backed(f)
            /\ ~Touches(f, 0, KernelEnd)
            /\ ~Touches(f, HeapStart, HeapEnd)
            /\ ~Touches(f, InfoAt, InfoAt + InfoSize)

\* pmm_alloc_frame gives the lowest free frame and fails only when there is none:
\* the free count, which is kept by hand and decides whether a search is made at
\* all, is the number of clear bits, and no bit below the search point is clear.
SearchIsExact ==
    /\ free = Cardinality(Frames \ used)
    /\ 0 .. (search - 1) \subseteq used

\* What the directory and its tables make of an address
Translate(a) ==
    LET t == tables[(a \div TableBytes) + 1].map
    IN  t[(a % TableBytes) \div Frame] + (a % Frame)

\* Once paging is on, every address of the kernel, the heap and the boot
\* information is mapped to itself through the directory.
IdentityMapped ==
    paging =>
        \A a \in 0 .. (Largest(HeapEnd, InfoAt + InfoSize) - 1) :
            /\ a \div TableBytes < Len(tables)
            /\ Translate(a) = a

\* A frame that was handed out is not free, so nobody gets it a second time;
\* the directory and the tables are in frames of their own.
FramesHaveOneOwner ==
    /\ held \subseteq used
    /\ paging =>
          /\ PagingFrames \subseteq held
          /\ Cardinality(PagingFrames) = Len(tables) + 1
=============================================================================
