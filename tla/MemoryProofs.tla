---------------------------- MODULE MemoryProofs ----------------------------
(***************************************************************************)
(* The frame allocator and the identity mapping, for every memory map that *)
(* satisfies the loader's assumption, every frame size and every place of  *)
(* the kernel, the heap and the boot information.                          *)
(***************************************************************************)
EXTENDS Memory, Arithmetic, FiniteSetTheorems, SequenceTheorems, TLAPS

-----------------------------------------------------------------------------
(* Rounding *)

\* The sizes of the machine
LEMMA Sizes ==
    /\ Frame \in Nat \ {0} /\ Frame > 1
    /\ Word \in Nat \ {0}
    /\ LoadAddress \in Nat /\ LoadAddress > 0
    /\ KernelEnd \in Nat /\ HeapStart \in Nat /\ HeapEnd \in Nat
    /\ InfoAt \in Nat /\ InfoSize \in Nat
    /\ LoadAddress < KernelEnd /\ KernelEnd <= HeapStart /\ HeapStart < HeapEnd
    /\ HeapEnd <= Word - Frame /\ InfoAt + InfoSize <= Word - Frame
    /\ MinIdentity \in Nat /\ MinIdentity < Word
BY MemoryAssumption

\* An address up to the last frame is rounded up to the next frame without a wrap.
LEMMA AlignUpIs ==
    ASSUME NEW a \in Nat, a <= Word - Frame
    PROVE  LET q == AlignUp(a, Frame) \div Frame
           IN  /\ q \in Nat
               /\ AlignUp(a, Frame) = Frame * q
               /\ a <= Frame * q
               /\ Frame * q < a + Frame
<1> DEFINE r == (a + (Frame - 1)) \div Frame
<1>1. (a + (Frame - 1)) % Word = a + (Frame - 1)
  <2>1. a + (Frame - 1) \in 0 .. (Word - 1)
    BY Sizes
  <2> QED BY <2>1, Sizes, ModSmall, Zenon
<1>2. AlignUp(a, Frame) = r * Frame
  BY <1>1, Zenon DEF AlignUp
<1>3. a + (Frame - 1) \in Nat
  BY Sizes
<1>4. /\ r \in Nat
      /\ Frame * r <= a + (Frame - 1)
      /\ a + (Frame - 1) < Frame * r + Frame
  BY <1>3, Sizes, DivIs, Zenon
<1> HIDE DEF r
<1>5. r * Frame = Frame * r /\ Frame * r \in Nat
  BY <1>4, Sizes
<1>6. a <= Frame * r /\ Frame * r < a + Frame
  BY <1>4, <1>5, Sizes
<1>7. AlignUp(a, Frame) \div Frame = r
  BY <1>2, <1>4, Sizes, DivMul, Zenon
<1> QED BY <1>2, <1>4, <1>5, <1>6, <1>7, Zenon

\* The end of a region that does not reach the end of the address space, and of
\* any other
LEMMA RegionEndIs ==
    ASSUME NEW base \in Nat, NEW len \in Nat, base <= Word - 1, len <= Word - 1
    PROVE  /\ RegionEnd(base, len) \in Nat
           /\ RegionEnd(base, len) <= base + len
           /\ base + len <= Word - 1 => RegionEnd(base, len) = base + len
BY Sizes DEF RegionEnd

\* A frame released for a region lies wholly in it.
LEMMA ReleasedInside ==
    ASSUME NEW base \in Nat, NEW len \in Nat, base <= Word - Frame,
           len <= Word - 1, NEW f \in ReleasedFrames(base, len)
    PROVE  f \in Nat /\ base <= f * Frame /\ (f + 1) * Frame <= base + len
<1> DEFINE q == AlignUp(base, Frame) \div Frame
           e == RegionEnd(base, len)
           d == e \div Frame
<1>1. q \in Nat /\ base <= Frame * q
  BY AlignUpIs, Zenon
<1>2. e \in Nat /\ e <= base + len
  BY Sizes, RegionEndIs
<1>3. d \in Nat /\ Frame * d <= e
  BY <1>2, Sizes, DivIs, Zenon
<1>4. AlignDown(e, Frame) \div Frame = d
  BY <1>3, Sizes, DivMul, Zenon DEF AlignDown
<1>5. f \in q .. (d - 1)
  BY <1>4, Zenon DEF ReleasedFrames
<1> HIDE DEF q, e, d
<1>6. f \in Nat /\ q <= f /\ f + 1 <= d
  BY <1>1, <1>3, <1>5
<1>7. Frame * q <= Frame * f /\ Frame * (f + 1) <= Frame * d
  BY <1>1, <1>3, <1>6, Sizes, MulLess
<1>8. Frame * f = f * Frame /\ Frame * (f + 1) = (f + 1) * Frame
  BY <1>6, Sizes
<1>9. /\ Frame * q \in Nat /\ Frame * d \in Nat
      /\ Frame * f \in Nat /\ Frame * (f + 1) \in Nat
  BY <1>1, <1>3, <1>6, Sizes
<1> QED BY <1>1, <1>2, <1>3, <1>6, <1>7, <1>8, <1>9

\* A frame that a region touches is reserved for it.
LEMMA ReservedCovers ==
    ASSUME NEW base \in Nat, NEW len \in Nat, base + len <= Word - Frame,
           NEW f \in Nat, Touches(f, base, base + len)
    PROVE  f \in ReservedFrames(base, len)
<1> DEFINE q == AlignUp(base + len, Frame) \div Frame
           d == base \div Frame
<1>1. len # 0 /\ f * Frame < base + len /\ base < (f + 1) * Frame
  BY DEF Touches
<1>2. RegionEnd(base, len) = base + len
  BY Sizes, RegionEndIs
<1>3. q \in Nat /\ base + len <= Frame * q
  BY AlignUpIs
<1>4. d \in Nat /\ Frame * d <= base
  BY Sizes, DivIs, Zenon
<1>5. ReservedFrames(base, len) = d .. (q - 1)
  BY <1>1, <1>2, Zenon DEF ReservedFrames
<1> HIDE DEF q, d
<1>6. /\ Frame * q \in Nat /\ Frame * d \in Nat
      /\ Frame * f \in Nat /\ Frame * (f + 1) \in Nat
      /\ Frame * f = f * Frame /\ Frame * (f + 1) = (f + 1) * Frame
  BY <1>3, <1>4, Sizes
<1>7. Frame * d < Frame * (f + 1) /\ Frame * f < Frame * q
  BY <1>1, <1>3, <1>4, <1>6
<1>8. d < f + 1 /\ f < q
  BY <1>3, <1>4, <1>7, Sizes, MulLess
<1> QED BY <1>3, <1>4, <1>5, <1>8

-----------------------------------------------------------------------------
(* Counting *)

\* The bitmap and the count belong together.
Exact == total \in Nat /\ used \subseteq Frames /\ free = Cardinality(Frames \ used)

\* The frames are a finite set.
LEMMA FramesFinite ==
    ASSUME total \in Nat
    PROVE  IsFiniteSet(Frames)
BY FS_Interval DEF Frames

\* pmm_mark_frame_free keeps the count exact.
LEMMA MarkFreeExact ==
    ASSUME Exact, NEW s, MarkFree(s), total' = total
    PROVE  Exact'
<1> DEFINE A == Frames \ used
           B == s \cap Frames \cap used
<1>1. IsFiniteSet(Frames) /\ Frames' = Frames
  BY FramesFinite, Zenon DEF Exact, Frames
<1>2. IsFiniteSet(A) /\ IsFiniteSet(B)
  <2>1. A \in SUBSET Frames /\ B \in SUBSET Frames
    BY Zenon
  <2> QED BY <1>1, <2>1, FS_Subset, Zenon
<1>3. A \cap B = {} /\ Frames \ (used \ (s \cap Frames)) = A \cup B
  BY Zenon
<1>4. Cardinality(A \cup B) = Cardinality(A) + Cardinality(B)
  <2>1. Cardinality(A) \in Nat /\ Cardinality(B) \in Nat
    BY <1>2, FS_CardinalityType, Zenon
  <2>2. Cardinality(A \cup B) = Cardinality(A) + Cardinality(B) - Cardinality(A \cap B)
    BY <1>2, FS_Union, Zenon
  <2>3. Cardinality(A \cap B) = 0
    BY <1>3, FS_EmptySet, Zenon
  <2> HIDE DEF A, B
  <2> QED BY <2>1, <2>2, <2>3
<1>5. used' \subseteq Frames'
  BY <1>1, Zenon DEF MarkFree, Exact
<1>6. Frames' \ used' = A \cup B
  BY <1>1, <1>3, Zenon DEF MarkFree
<1>7. free' = Cardinality(A) + Cardinality(B)
  BY Zenon DEF MarkFree, Exact
<1> QED BY <1>4, <1>5, <1>6, <1>7, Zenon DEF Exact

\* So does pmm_mark_frame_used: the count is never too small to be lowered.
LEMMA MarkUsedExact ==
    ASSUME Exact, NEW s, MarkUsed(s), total' = total
    PROVE  Exact'
<1> DEFINE A == Frames \ used
           B == (s \cap Frames) \ used
<1>1. IsFiniteSet(Frames) /\ Frames' = Frames
  BY FramesFinite, Zenon DEF Exact, Frames
<1>2. B \in SUBSET A
  BY Zenon
<1>3. IsFiniteSet(A)
  <2>1. A \in SUBSET Frames
    BY Zenon
  <2> QED BY <1>1, <2>1, FS_Subset, Zenon
<1>4. IsFiniteSet(B) /\ Cardinality(B) <= Cardinality(A)
  BY <1>2, <1>3, FS_Subset, Zenon
<1>5. Cardinality(A) \in Nat /\ Cardinality(B) \in Nat
  BY <1>3, <1>4, FS_CardinalityType, Zenon
<1>6. Cardinality(A \ B) = Cardinality(A) - Cardinality(B)
  <2>1. A \cap B = B
    BY <1>2, Zenon
  <2> HIDE DEF A, B
  <2>2. Cardinality(A \ B) = Cardinality(A) - Cardinality(A \cap B)
    BY <1>3, FS_Difference, Zenon
  <2> QED BY <2>1, <2>2, Zenon
<1>7. used' \subseteq Frames'
  BY <1>1, Zenon DEF MarkUsed, Exact
<1>8. Frames' \ used' = A \ B
  BY <1>1, Zenon DEF MarkUsed
<1>9. free = Cardinality(A)
  BY Zenon DEF Exact
<1>10. free' = free - Cardinality(B)
  <2>1. free' = IF Cardinality(B) <= free THEN free - Cardinality(B) ELSE 0
    BY Zenon DEF MarkUsed
  <2> HIDE DEF A, B
  <2> QED BY <1>4, <1>9, <2>1, Zenon
<1> QED BY <1>6, <1>7, <1>8, <1>9, <1>10, Zenon DEF Exact

-----------------------------------------------------------------------------
(* The inductive invariant *)

MemoryRange == [base : 0 .. (Word - 1), length : 1 .. (Word - 1), available : BOOLEAN]

\* What bootinfo.c keeps; no available range begins in the last frame.
RangesOk ==
    /\ ranges \in Seq(MemoryRange)
    /\ \A i \in 1 .. Len(ranges) : ranges[i].available => ranges[i].base <= Word - Frame
    /\ highest \in 0 .. (Word - 1)

\* The frame belongs to nothing that pmm_init keeps back.
Unclaimed(f) ==
    /\ ~Touches(f, 0, KernelEnd)
    /\ ~Touches(f, HeapStart, HeapEnd)
    /\ ~Touches(f, InfoAt, InfoAt + InfoSize)

\* How far the boot has come
Phase ==
    /\ pc \in {"bootinfo", "pmm", "release", "paging", "tables", "run"}
    /\ pc \in {"bootinfo", "pmm"} => total = 0 /\ used = {} /\ held = {} /\ index = 1
    /\ pc \in {"bootinfo", "pmm", "release"} =>
          search = 0 /\ ~ready /\ held = {} /\ index \in Nat \ {0}
    /\ pc \in {"bootinfo", "pmm", "release", "paging"} => tables = <<>>
    /\ paging => pc = "run"

\* The directory and the tables are in as many frames of the kernel's.
OwnFrames ==
    /\ tables \in Seq([at : Nat, map : [0 .. (TableEntries - 1) -> Nat]])
    /\ index \in Nat
    /\ pc = "tables" \/ paging =>
          /\ PagingFrames \subseteq held
          /\ Cardinality(PagingFrames) = Len(tables) + 1

\* The tables made so far map one piece of the identity each; they are to be as
\* many as paging_init counted, which are not none.
MapInv ==
    /\ pc = "tables" \/ paging => identity = IdentityLimit /\ TableCount # 0
    /\ pc = "tables" => index = Len(tables)
    /\ paging => Len(tables) = TableCount
    /\ \A i \in 1 .. Len(tables) : tables[i].map = TableFor(i - 1)

FrameInv ==
    /\ Exact
    /\ search \in Nat
    /\ 0 .. (search - 1) \subseteq used
    /\ held \subseteq used
    /\ \A f \in (Frames \ used) \cup held : Backed(f)
    /\ ready => \A f \in (Frames \ used) \cup held : Unclaimed(f)

IInv == RangesOk /\ Phase /\ OwnFrames /\ MapInv /\ FrameInv
-----------------------------------------------------------------------------
(* The steps *)

\* Where the invariant holds the search finds the lowest free frame.
LEMMA FoundIsLowest ==
    ASSUME FrameInv, Frames \ used # {}
    PROVE  /\ FoundFrame \in Frames \ used
           /\ \A g \in Frames \ used : FoundFrame <= g
<1> DEFINE free_frames == Frames \ used
           up == {f \in free_frames : f >= search}
<1>1. total \in Nat /\ search \in Nat /\ 0 .. (search - 1) \subseteq used
  BY Zenon DEF FrameInv, Exact
<1>2. free_frames \subseteq Nat
  BY <1>1 DEF Frames
<1>3. up = free_frames
  BY <1>1, <1>2
<1>4. up # {} /\ up \subseteq Nat
  BY <1>2, <1>3, Zenon
<1>5. \E x \in up : \A y \in up : x <= y
  BY <1>4, LeastNat, Zenon
<1>6. Lowest(up) \in up /\ \A g \in up : Lowest(up) <= g
  BY <1>5, Zenon DEF Lowest
<1>7. FoundFrame = Lowest(up)
  BY <1>4, Zenon DEF FoundFrame
<1> QED BY <1>3, <1>6, <1>7, Zenon

\* The invariant speaks of these variables and the ranges only.
LEMMA FrameInvSame ==
    ASSUME FrameInv, UNCHANGED <<total, used, free, search, ready, ranges, held>>
    PROVE  FrameInv'
BY Zenon DEF FrameInv, Exact, Frames, Backed, Unclaimed, Touches

\* pmm_alloc_frame, with the caller as the owner of the frame
LEMMA AllocatedStep ==
    ASSUME FrameInv, NEW f \in Frames, Allocated(f), held' = held \cup {f},
           ranges' = ranges
    PROVE  FrameInv' /\ f \notin used /\ held \subseteq used
<1>1. /\ MarkUsed({f}) /\ search' = f + 1 /\ total' = total /\ ready' = ready
      /\ f = FoundFrame /\ Frames \ used # {}
  BY Zenon DEF Allocated
<1>2. f \in Frames \ used /\ \A g \in Frames \ used : f <= g
  BY <1>1, FoundIsLowest, Zenon
<1>3. Exact /\ held \subseteq used
  BY Zenon DEF FrameInv
<1>4. Exact'
  BY <1>1, <1>3, MarkUsedExact, Zenon
<1>5. used' = used \cup {f} /\ Frames' = Frames
  BY <1>1, <1>2, Zenon DEF MarkUsed, Frames
<1>6. search' \in Nat /\ 0 .. (search' - 1) \subseteq used'
  <2>1. f \in Nat /\ f < total /\ total \in Nat
    BY <1>3 DEF Exact, Frames
  <2>2. ASSUME NEW h \in 0 .. (search' - 1) PROVE h \in used'
    <3>1. h \in Frames /\ h <= f
      BY <1>1, <2>1 DEF Frames
    <3>2. h \in used \/ h = f
      BY <1>2, <2>1, <3>1
    <3> QED BY <1>5, <3>2, Zenon
  <2> QED BY <1>1, <2>1, <2>2
<1>7. held' \subseteq used'
  BY <1>3, <1>5, Zenon
<1>8. (Frames' \ used') \cup held' \subseteq (Frames \ used) \cup held
  BY <1>2, <1>5, Zenon
<1>9. \A g \in (Frames' \ used') \cup held' : Backed(g)'
  BY <1>8, Zenon DEF FrameInv, Backed
<1>10. ready' => \A g \in (Frames' \ used') \cup held' : Unclaimed(g)'
  BY <1>1, <1>8, Zenon DEF FrameInv, Unclaimed, Touches
<1> QED BY <1>2, <1>3, <1>4, <1>6, <1>7, <1>9, <1>10, Zenon DEF FrameInv

\* pmm_free_frame
LEMMA FreedStep ==
    ASSUME FrameInv, NEW f \in held, MarkFree({f}),
           search' = IF f < search THEN f ELSE search,
           held' = held \ {f}, UNCHANGED <<total, ready, ranges>>
    PROVE  FrameInv'
<1>1. Exact /\ held \subseteq used /\ used \subseteq Frames
  BY Zenon DEF FrameInv, Exact
<1>2. Exact'
  BY <1>1, MarkFreeExact, Zenon
<1>3. used' = used \ {f} /\ Frames' = Frames
  BY <1>1, Zenon DEF MarkFree, Frames
<1>4. search' \in Nat /\ 0 .. (search' - 1) \subseteq used'
  <2>1. f \in Nat /\ search \in Nat /\ 0 .. (search - 1) \subseteq used
    BY <1>1 DEF FrameInv, Exact, Frames
  <2> QED BY <1>3, <2>1
<1>5. held' \subseteq used'
  BY <1>1, <1>3, Zenon
<1>6. (Frames' \ used') \cup held' \subseteq (Frames \ used) \cup held
  BY <1>1, <1>3, Zenon
<1>7. \A g \in (Frames' \ used') \cup held' : Backed(g)'
  BY <1>6, Zenon DEF FrameInv, Backed
<1>8. ready' => \A g \in (Frames' \ used') \cup held' : Unclaimed(g)'
  BY <1>6, Zenon DEF FrameInv, Unclaimed, Touches
<1> QED BY <1>2, <1>4, <1>5, <1>7, <1>8, Zenon DEF FrameInv

\* pmm_init frees the frames of an available range.
LEMMA ReleaseStep == IInv /\ PmmRelease => FrameInv'
<1> SUFFICES ASSUME IInv, PmmRelease PROVE FrameInv'
  BY Zenon
<1>1. /\ pc = "release" /\ search = 0 /\ held = {} /\ ~ready /\ index \in Nat \ {0}
      /\ index <= Len(ranges)
      /\ UNCHANGED <<total, search, ready, ranges, held>>
  BY Zenon DEF IInv, Phase, PmmRelease, boot
<1>2. CASE ~ranges[index].available
  <2>1. UNCHANGED <<total, used, free, search, ready, ranges, held>>
    BY <1>1, <1>2, Zenon DEF PmmRelease
  <2> QED BY <2>1, FrameInvSame, Zenon DEF IInv
<1>3. CASE ranges[index].available
  <2> DEFINE r == ranges[index]
             R == ReleasedFrames(r.base, r.length)
  <2>1. /\ ranges \in Seq(MemoryRange) /\ index \in 1 .. Len(ranges)
        /\ r \in MemoryRange /\ r.base <= Word - Frame
    BY <1>1, <1>3 DEF IInv, RangesOk
  <2>2. MarkFree(R)
    BY <1>3, Zenon DEF PmmRelease
  <2>3. Exact'
    BY <1>1, <2>2, MarkFreeExact, Zenon DEF IInv, FrameInv
  <2>4. used' = used \ (R \cap Frames) /\ Frames' = Frames
    BY <1>1, <2>2, Zenon DEF MarkFree, Frames
  <2>5. ASSUME NEW f \in R PROVE Backed(f)
    <3>1. r.base \in Nat /\ r.length \in Nat /\ r.length <= Word - 1
      BY <2>1, Sizes DEF MemoryRange
    <3>2. r.base <= f * Frame /\ (f + 1) * Frame <= r.base + r.length
      BY <2>1, <3>1, ReleasedInside, Zenon
    <3> QED BY <1>3, <2>1, <3>2, Zenon DEF Backed
  <2> HIDE DEF r, R
  <2>6. \A f \in (Frames' \ used') \cup held' : Backed(f)'
    <3>1. \A f \in (Frames' \ used') \cup held' : Backed(f)
      BY <1>1, <2>4, <2>5, Zenon DEF IInv, FrameInv
    <3> QED BY <1>1, <3>1, Zenon DEF Backed
  <2> QED BY <1>1, <2>3, <2>6, Sizes DEF FrameInv
<1> QED BY <1>2, <1>3, Zenon

\* No frame that is left free after pmm_init's reservations is claimed.
LEMMA KeptCovers ==
    ASSUME NEW f \in Nat, f \notin KeptFrames
    PROVE  Unclaimed(f)
<1> DEFINE K(i) == ReservedFrames(Kept[i][1], Kept[i][2])
<1>1. f \notin K(1) /\ f \notin K(2) /\ f \notin K(3) /\ f \notin K(4)
  BY DEF KeptFrames
<1>2. /\ K(1) = ReservedFrames(0, LoadAddress)
      /\ K(2) = ReservedFrames(LoadAddress, AlignUp(KernelEnd, Frame) - LoadAddress)
      /\ K(3) = ReservedFrames(HeapStart, HeapEnd - HeapStart)
      /\ K(4) = ReservedFrames(InfoAt, InfoSize)
  BY Zenon DEF Kept
<1> HIDE DEF K
<1>3. ~Touches(f, 0, LoadAddress)
  BY <1>1, <1>2, Sizes, ReservedCovers
<1>4. ~Touches(f, HeapStart, HeapEnd)
  <2>1. HeapEnd - HeapStart \in Nat /\ HeapStart + (HeapEnd - HeapStart) = HeapEnd
    BY Sizes
  <2> QED BY <1>1, <1>2, <2>1, Sizes, ReservedCovers
<1>5. ~Touches(f, InfoAt, InfoAt + InfoSize)
  BY <1>1, <1>2, Sizes, ReservedCovers
<1>6. ~Touches(f, LoadAddress, KernelEnd)
  <2> DEFINE A == AlignUp(KernelEnd, Frame)
             q == A \div Frame
             w == Word \div Frame
  <2>1. q \in Nat /\ A = Frame * q /\ KernelEnd <= Frame * q /\ Frame * q < KernelEnd + Frame
    BY Sizes, AlignUpIs
  <2>2. w \in Nat /\ Word = Frame * w
    BY MemoryAssumption, Sizes, Z3
  <2> HIDE DEF A, q, w
  <2>3. q < w
    <3>1. Frame * q < Frame * w /\ Frame * q \in Nat
      BY <2>1, <2>2, Sizes
    <3> QED BY <2>1, <2>2, <3>1, Sizes, MulLess
  <2>4. Frame * q <= Frame * (w - 1)
    BY <2>1, <2>2, <2>3, Sizes, MulLess
  <2>5. Frame * (w - 1) = Word - Frame
    BY <2>2, Sizes
  <2>6. /\ A \in Nat /\ A - LoadAddress \in Nat /\ KernelEnd <= A
        /\ LoadAddress + (A - LoadAddress) = A /\ A <= Word - Frame
    BY <2>1, <2>4, <2>5, Sizes
  <2>7. ~Touches(f, LoadAddress, A)
    BY <1>1, <1>2, <2>6, Sizes, ReservedCovers DEF A
  <2>8. f * Frame \in Nat /\ (f + 1) * Frame \in Nat
    BY Sizes
  <2> QED BY <2>6, <2>7, <2>8, Sizes DEF Touches
<1>7. ~Touches(f, 0, KernelEnd)
  <2>1. f * Frame \in Nat /\ (f + 1) * Frame = f * Frame + Frame
    BY Sizes
  <2> QED BY <1>3, <1>6, <2>1, Sizes DEF Touches
<1> QED BY <1>4, <1>5, <1>7, Zenon DEF Unclaimed

\* An address that callers may give back is that of a frame they hold, or no
\* address of a frame.
LEMMA FreeableIs ==
    ASSUME FrameInv, NEW a \in Freeable
    PROVE  \/ a % Frame # 0 \/ a \div Frame >= total
           \/ a \div Frame \in held \ PagingFrames
<1>1. total \in Nat /\ held \subseteq Nat
  BY DEF FrameInv, Exact, Frames
<1>2. ASSUME NEW f \in held \ PagingFrames, a = f * Frame
      PROVE  a \div Frame \in held \ PagingFrames
  BY <1>1, <1>2, Sizes, DivMul, Zenon
<1>3. CASE a = Frame + 1
  <2>1. a % Frame = 1
    <3>1. 1 \in 0 .. (Frame - 1)
      BY Sizes
    <3>2. (1 + Frame) % Frame = 1
      BY <3>1, Sizes, ModSmall, Zenon
    <3> QED BY <1>3, <3>2, Sizes
  <2> QED BY <2>1
<1>4. CASE a = total * Frame
  <2>1. a \div Frame = total
    BY <1>1, <1>4, Sizes, DivMul, Zenon
  <2> QED BY <1>1, <2>1
<1> QED BY <1>2, <1>3, <1>4, Zenon DEF Freeable

\* The number of frames of a machine with its highest address
LEMMA FrameCountIs ==
    ASSUME highest \in 0 .. (Word - 1)
    PROVE  FrameCount \in Nat
<1>1. CASE highest = Word - 1
  BY <1>1, Sizes, DivIs DEF FrameCount
<1>2. CASE highest # Word - 1
  <2> DEFINE b == (highest + 1 + (Frame - 1)) % Word
  <2>1. b \in Nat
    BY Sizes, ModRange
  <2>2. b \div Frame \in Nat
    BY <2>1, Sizes, DivIs, Zenon
  <2>3. FrameCount = ((b \div Frame) * Frame) \div Frame
    BY <1>2, Zenon DEF FrameCount, AlignUp
  <2> QED BY <2>2, <2>3, Sizes, DivMul, Zenon
<1> QED BY <1>1, <1>2, Zenon

\* Every step keeps what is known of the frames.
LEMMA FrameStep == IInv /\ [Next]_vars => FrameInv'
<1> SUFFICES ASSUME IInv, [Next]_vars PROVE FrameInv'
  BY Zenon
<1>1. FrameInv
  BY Zenon DEF IInv
<1>2. ASSUME NEW e \in Entries, StoreMemoryRange(e) PROVE FrameInv'
  <2>1. /\ total = 0 /\ used = {} /\ held = {}
        /\ UNCHANGED <<total, used, free, search, ready, held>>
    BY <1>2, Zenon DEF IInv, Phase, StoreMemoryRange, pmm
  <2>2. Frames = {} /\ Frames' = {}
    BY <2>1 DEF Frames
  <2> QED BY <1>1, <2>1, <2>2, Zenon DEF FrameInv, Exact
<1>3. CASE BootinfoDone \/ PagingEnable
  <2>1. UNCHANGED <<total, used, free, search, ready, ranges, held>>
    BY <1>3, Zenon DEF BootinfoDone, PagingEnable, pmm, boot
  <2> QED BY <1>1, <2>1, FrameInvSame, Zenon
<1>4. ASSUME NEW allocated \in BOOLEAN, PmmStart(allocated) PROVE FrameInv'
  <2>1. /\ total = 0 /\ used = {} /\ held = {} /\ search = 0 /\ ~ready
        /\ UNCHANGED <<free, search, ready, ranges, held>>
    BY <1>4, Zenon DEF IInv, Phase, PmmStart, boot
  <2>2. CASE UNCHANGED <<total, used>>
    BY <1>1, <2>1, <2>2, FrameInvSame, Zenon
  <2>3. CASE total' = FrameCount /\ used' = 0 .. (FrameCount - 1)
    <3>1. FrameCount \in Nat
      BY FrameCountIs, Zenon DEF IInv, RangesOk
    <3>2. used' = Frames'
      BY <2>3, Zenon DEF Frames
    <3>3. Frames \ used = {} /\ Frames' \ used' = {}
      BY <2>1, <3>2 DEF Frames
    <3>4. Exact'
      BY <1>1, <2>1, <2>3, <3>1, <3>2, <3>3, Zenon DEF FrameInv, Exact
    <3> QED BY <2>1, <3>3, <3>4 DEF FrameInv
  <2> QED BY <1>4, <2>2, <2>3, Zenon DEF PmmStart
<1>5. CASE PmmRelease
  BY <1>5, ReleaseStep, Zenon
<1>6. CASE PmmReserve
  <2>1. /\ held = {} /\ search = 0 /\ MarkUsed(KeptFrames)
        /\ UNCHANGED <<total, search, ranges, held>>
    BY <1>6, Zenon DEF IInv, Phase, PmmReserve, boot
  <2>2. Exact'
    BY <1>1, <2>1, MarkUsedExact, Zenon DEF FrameInv
  <2>3. Frames' = Frames /\ used' = used \cup (KeptFrames \cap Frames) /\ Frames \subseteq Nat
    BY <1>1, <2>1 DEF Frames, MarkUsed, FrameInv, Exact
  <2>4. \A f \in (Frames' \ used') \cup held' : f \in Nat /\ Backed(f) /\ f \notin KeptFrames
    BY <1>1, <2>1, <2>3, Zenon DEF FrameInv
  <2>5. \A f \in (Frames' \ used') \cup held' : Backed(f)' /\ Unclaimed(f)'
    BY <2>1, <2>4, KeptCovers, Zenon DEF Backed, Unclaimed, Touches
  <2> QED BY <2>1, <2>2, <2>5, Sizes DEF FrameInv
<1>7. CASE PagingStart \/ PagingTable \/ AllocFrame
  <2>1. ranges' = ranges
    BY <1>7, Zenon DEF PagingStart, PagingTable, AllocFrame, boot
  <2>2. ASSUME NEW f \in Frames, Allocated(f), held' = held \cup {f}
        PROVE  FrameInv'
    BY <1>1, <2>1, <2>2, AllocatedStep, Zenon
  <2>3. CASE UNCHANGED <<pmm, held>>
    BY <1>1, <2>1, <2>3, FrameInvSame, Zenon DEF pmm
  <2>4. \/ \E f \in Frames : Allocated(f) /\ held' = held \cup {f}
        \/ UNCHANGED <<pmm, held>>
    BY <1>7, Zenon DEF PagingStart, PagingTable, AllocFrame, NoFrame
  <2> QED BY <2>2, <2>3, <2>4, Zenon
<1>8. ASSUME NEW a \in Freeable, FreeFrame(a) PROVE FrameInv'
  <2>1. UNCHANGED <<total, ready, ranges>>
    BY <1>8, Zenon DEF FreeFrame, boot
  <2>2. CASE a % Frame # 0 \/ a \div Frame >= total
    BY <1>1, <1>8, <2>1, <2>2, FrameInvSame, Zenon DEF FreeFrame
  <2>3. CASE ~(a % Frame # 0 \/ a \div Frame >= total)
    <3> DEFINE f == a \div Frame
    <3>1. f \in held
      BY <1>1, <2>3, FreeableIs, Zenon
    <3>2. /\ MarkFree({f}) /\ held' = held \ {f}
          /\ search' = IF f < search THEN f ELSE search
      BY <1>8, <2>3, Zenon DEF FreeFrame
    <3> HIDE DEF f
    <3> QED BY <1>1, <2>1, <3>1, <3>2, FreedStep, Zenon
  <2> QED BY <2>2, <2>3, Zenon
<1>9. CASE UNCHANGED vars
  BY <1>1, <1>9, FrameInvSame, Zenon DEF vars, pmm, boot
<1> QED BY <1>2, <1>3, <1>4, <1>5, <1>6, <1>7, <1>8, <1>9, Zenon DEF Next

\* Every step keeps the ranges within the address space.
LEMMA RangesStep == IInv /\ [Next]_vars => RangesOk'
<1> SUFFICES ASSUME IInv, [Next]_vars PROVE RangesOk'
  BY Zenon
<1>1. RangesOk
  BY Zenon DEF IInv
<1>2. ASSUME NEW e \in Entries, StoreMemoryRange(e) PROVE RangesOk'
  <2> DEFINE end == IF e.addr + e.len > Word THEN Word ELSE e.addr + e.len
             length == (end - e.addr) % Word
             r == [base |-> e.addr, length |-> length, available |-> e.available]
             keep == Len(ranges) < MaxRanges /\ e.len # 0 /\ e.addr < Word /\ length # 0
  <2>1. e.addr \in Nat /\ e.len \in Nat /\ e.available \in BOOLEAN
    BY MemoryAssumption, Zenon
  <2>2. CASE ~keep
    BY <1>1, <1>2, <2>2, Zenon DEF StoreMemoryRange, RangesOk
  <2>3. CASE keep
    <3>1. end \in Nat /\ end <= Word /\ e.addr <= end
      BY <2>1, <2>3, Sizes
    <3>2. length \in 0 .. (Word - 1)
      <4> HIDE DEF end
      <4>1. end - e.addr \in Int
        BY <2>1, <3>1
      <4> QED BY <4>1, Sizes, ModRange, Zenon
    <3>3. end # e.addr
      <4>1. SUFFICES ASSUME end = e.addr PROVE FALSE
        BY Zenon
      <4>2. end - e.addr = 0
        BY <2>1, <4>1
      <4>3. length = 0
        BY <4>2, Sizes, ModSmall
      <4> QED BY <2>3, <4>3, Zenon
    <3>4. end - 1 \in 0 .. (Word - 1)
      BY <2>1, <3>1, <3>3, Sizes
    <3>5. ranges' = Append(ranges, r)
      BY <1>2, <2>3, Zenon DEF StoreMemoryRange
    <3>6. highest' \in 0 .. (Word - 1)
      BY <1>1, <1>2, <2>3, <3>4, Zenon DEF StoreMemoryRange, RangesOk
    <3>7. r \in MemoryRange
      BY <2>1, <2>3, <3>2, Sizes DEF MemoryRange
    <3>8. r.available => r.base <= Word - Frame
      BY <2>1, <2>3, Sizes, LoaderAssumption
    <3> HIDE DEF r, keep, end, length
    <3>9. ranges' \in Seq(MemoryRange)
      BY <1>1, <3>5, <3>7 DEF RangesOk
    <3>10. \A i \in 1 .. Len(ranges') : ranges'[i].available => ranges'[i].base <= Word - Frame
      <4> TAKE i \in 1 .. Len(ranges')
      <4>1. \/ i = Len(ranges) + 1 /\ ranges'[i] = r
            \/ i \in 1 .. Len(ranges) /\ ranges'[i] = ranges[i]
        BY <1>1, <3>5, <3>7 DEF RangesOk
      <4> QED BY <1>1, <3>8, <4>1, Zenon DEF RangesOk
    <3> QED BY <3>6, <3>9, <3>10, Zenon DEF RangesOk
  <2> QED BY <2>2, <2>3, Zenon
<1>3. CASE UNCHANGED boot
  BY <1>1, <1>3, Zenon DEF RangesOk, boot
<1>4. (\E e \in Entries : StoreMemoryRange(e)) \/ UNCHANGED boot
  BY Zenon DEF Next, BootinfoDone, PmmStart, PmmRelease, PmmReserve, PagingStart, PagingTable,
         PagingEnable, AllocFrame, FreeFrame, vars
<1> QED BY <1>2, <1>3, <1>4, Zenon
\* Every step goes on in the order of kernel_main.
LEMMA PhaseStep == IInv /\ [Next]_vars => Phase'
<1> SUFFICES ASSUME IInv, [Next]_vars PROVE Phase'
  BY Zenon
<1>1. Phase
  BY Zenon DEF IInv
<1>2. ASSUME NEW e \in Entries, StoreMemoryRange(e) PROVE Phase'
  BY <1>1, <1>2, Zenon DEF Phase, StoreMemoryRange, pmm, page
<1>3. CASE BootinfoDone
  BY <1>1, <1>3, Zenon DEF Phase, BootinfoDone, pmm, page
<1>4. ASSUME NEW allocated \in BOOLEAN, PmmStart(allocated) PROVE Phase'
  BY <1>1, <1>4, Zenon DEF Phase, PmmStart, page
<1>5. CASE PmmRelease
  BY <1>1, <1>5 DEF Phase, PmmRelease, page
<1>6. CASE PmmReserve
  BY <1>1, <1>6, Zenon DEF Phase, PmmReserve, page
<1>7. CASE PagingStart
  BY <1>1, <1>7, Zenon DEF Phase, PagingStart
<1>8. CASE PagingTable
  BY <1>1, <1>8, Zenon DEF Phase, PagingTable
<1>9. CASE PagingEnable
  BY <1>1, <1>9, Zenon DEF Phase, PagingEnable
<1>10. CASE AllocFrame
  BY <1>1, <1>10, Zenon DEF Phase, AllocFrame, page
<1>11. ASSUME NEW a \in Freeable, FreeFrame(a) PROVE Phase'
  BY <1>1, <1>11, Zenon DEF Phase, FreeFrame, page
<1>12. CASE UNCHANGED vars
  BY <1>1, <1>12, Zenon DEF Phase, vars, pmm, page
<1> QED BY <1>2, <1>3, <1>4, <1>5, <1>6, <1>7, <1>8, <1>9, <1>10, <1>11, <1>12, Zenon DEF Next

\* Distinct frames have distinct addresses.
LEMMA AddressIsFrame ==
    ASSUME NEW f \in Nat, NEW g \in Nat, f * Frame = g * Frame
    PROVE  f = g
<1>1. (f * Frame) \div Frame = f /\ (g * Frame) \div Frame = g
  BY Sizes, DivMul, Zenon
<1> QED BY <1>1, Zenon

\* Every step keeps the frames of the directory and of the tables apart.
LEMMA OwnStep == IInv /\ [Next]_vars => OwnFrames'
<1> SUFFICES ASSUME IInv, [Next]_vars PROVE OwnFrames'
  BY Zenon
<1> DEFINE Table == [at : Nat, map : [0 .. (TableEntries - 1) -> Nat]]
<1>1. /\ OwnFrames /\ Phase /\ FrameInv /\ tables \in Seq(Table) /\ index \in Nat
      /\ Frames \subseteq Nat /\ total \in Nat
  BY DEF IInv, OwnFrames, FrameInv, Exact, Frames
<1> HIDE DEF Table
<1>2. ASSUME UNCHANGED <<directory, tables, total>>, held \cap PagingFrames \subseteq held',
             pc' = "tables" \/ paging' => pc = "tables" \/ paging, index' \in Nat
      PROVE  OwnFrames'
  <2>1. PagingFrames' = PagingFrames
    BY <1>2, Zenon DEF PagingFrames, Frames
  <2> QED BY <1>1, <1>2, <2>1, Zenon DEF OwnFrames
<1>3. ASSUME pc' # "tables", ~paging', tables' = tables, index' \in Nat
      PROVE  OwnFrames'
  BY <1>1, <1>3, Zenon DEF OwnFrames
<1>4. ASSUME NEW e \in Entries, StoreMemoryRange(e) PROVE OwnFrames'
  BY <1>1, <1>3, <1>4, Zenon DEF StoreMemoryRange, Phase, page
<1>5. CASE BootinfoDone
  BY <1>1, <1>3, <1>5, Zenon DEF BootinfoDone, Phase, page
<1>6. ASSUME NEW allocated \in BOOLEAN, PmmStart(allocated) PROVE OwnFrames'
  BY <1>1, <1>3, <1>6, Zenon DEF PmmStart, Phase, page
<1>7. CASE PmmRelease
  BY <1>1, <1>3, <1>7 DEF PmmRelease, Phase, page
<1>8. CASE PmmReserve
  BY <1>1, <1>3, <1>8, Zenon DEF PmmReserve, Phase, page
<1>9. CASE PagingStart
  <2>1. pc = "paging" /\ tables = <<>> /\ tables' = tables /\ ~paging /\ paging' = paging
        /\ index' = 0
    BY <1>1, <1>9, Zenon DEF PagingStart, Phase
  <2>2. CASE pc' = "run"
    BY <1>3, <2>1, <2>2, Zenon
  <2>3. CASE pc' # "run"
    <3>1. PICK f \in Frames : Allocated(f) /\ directory' = f * Frame /\ held' = held \cup {f}
      BY <1>9, <2>3, Zenon DEF PagingStart
    <3>2. Frames' = Frames
      BY <3>1, Zenon DEF Allocated, Frames
    <3>3. PagingFrames' = {f}
      <4>1. \A i \in 1 .. Len(tables') : FALSE
        BY <2>1
      <4>2. PagingFrames' = {g \in Frames : g * Frame = f * Frame}
        BY <3>1, <3>2, <4>1, Zenon DEF PagingFrames
      <4>3. \A g \in Frames : g * Frame = f * Frame => g = f
        BY <1>1, AddressIsFrame, Zenon
      <4> QED BY <4>2, <4>3, Zenon
    <3>4. Cardinality({f}) = 1
      BY FS_Singleton, Zenon
    <3> QED BY <1>1, <2>1, <3>1, <3>3, <3>4 DEF OwnFrames
  <2> QED BY <2>2, <2>3, Zenon
<1>10. CASE PagingTable
  <2>1. pc = "tables" /\ ~paging /\ paging' = paging
    BY <1>1, <1>10, Zenon DEF PagingTable, Phase
  <2>2. CASE pc' = "run"
    BY <1>1, <1>3, <1>10, <2>1, <2>2 DEF PagingTable
  <2>3. CASE pc' # "run"
    <3>1. PICK f \in Frames :
             /\ Allocated(f) /\ held' = held \cup {f}
             /\ tables' = Append(tables, [at |-> f * Frame, map |-> TableFor(index)])
             /\ index' = index + 1 /\ UNCHANGED <<pc, directory>>
      BY <1>10, <2>3, Zenon DEF PagingTable
    <3> DEFINE t == [at |-> f * Frame, map |-> TableFor(index)]
    <3>2. Frames' = Frames /\ f \in Nat /\ ranges' = ranges
      BY <1>1, <1>10, <3>1, Zenon DEF Allocated, Frames, PagingTable, boot
    <3>3. f \notin used /\ held \subseteq used
      BY <1>1, <3>1, <3>2, AllocatedStep, Zenon
    <3>4. t \in Table
      <4>1. TableFor(index) \in [0 .. (TableEntries - 1) -> Nat]
        <5>1. ASSUME NEW k \in 0 .. (TableEntries - 1)
              PROVE  index * TableBytes + k * Frame \in Nat
          <6>1. TableBytes \in Nat
            BY MemoryAssumption, Sizes DEF TableBytes
          <6>2. k \in Nat
            BY MemoryAssumption
          <6> QED BY <1>1, <6>1, <6>2, Sizes
        <5> QED BY <5>1, Zenon DEF TableFor
      <4>2. f * Frame \in Nat
        BY <3>2, Sizes
      <4> QED BY <4>1, <4>2, Zenon DEF Table
    <3>5. t.at = f * Frame
      BY Zenon
    <3> HIDE DEF t
    <3>6. /\ tables' = Append(tables, t) /\ tables' \in Seq(Table)
          /\ Len(tables') = Len(tables) + 1
          /\ \A i \in 1 .. Len(tables) : tables'[i] = tables[i]
          /\ tables'[Len(tables) + 1] = t
      BY SMTT(30), <1>1, <3>1, <3>4, AppendProperties DEF t
    <3>7. PagingFrames' = PagingFrames \cup {f}
      <4>1. ASSUME NEW g \in Frames
            PROVE  (\E i \in 1 .. Len(tables') : g * Frame = tables'[i].at)
                   <=> g = f \/ \E i \in 1 .. Len(tables) : g * Frame = tables[i].at
        <5>1. g \in Nat /\ (g * Frame = f * Frame => g = f)
          BY <1>1, <3>2, AddressIsFrame, Zenon
        <5>2. Len(tables) \in Nat
          BY <1>1
        <5>3. \A i \in 1 .. Len(tables') : i \in 1 .. Len(tables) \/ i = Len(tables) + 1
          BY <3>6, <5>2
        <5>4. \A i \in 1 .. Len(tables) : i \in 1 .. Len(tables')
          BY <3>6, <5>2
        <5>5. Len(tables) + 1 \in 1 .. Len(tables')
          BY <3>6, <5>2
        <5> QED BY <3>5, <3>6, <5>1, <5>3, <5>4, <5>5, Zenon
      <4> QED BY <3>1, <3>2, <4>1, Zenon DEF PagingFrames
    <3>8. PagingFrames \subseteq held /\ Cardinality(PagingFrames) = Len(tables) + 1
      BY <1>1, <2>1, Zenon DEF OwnFrames
    <3>9. f \notin PagingFrames /\ IsFiniteSet(PagingFrames)
      <4>1. PagingFrames \in SUBSET Frames /\ IsFiniteSet(Frames)
        BY <1>1, FramesFinite, Zenon DEF PagingFrames
      <4> QED BY <3>3, <3>8, <4>1, FS_Subset, Zenon
    <3>10. Cardinality(PagingFrames \cup {f}) = Cardinality(PagingFrames) + 1
      BY <3>9, FS_AddElement, Zenon
    <3>11. Cardinality(PagingFrames') = Len(tables') + 1
      BY <1>1, <3>6, <3>7, <3>8, <3>10, Zenon
    <3>12. PagingFrames' \subseteq held'
      BY <3>1, <3>7, <3>8, Zenon
    <3>13. index' \in Nat
      BY <1>1, <3>1
    <3> QED BY <3>6, <3>11, <3>12, <3>13, Zenon DEF OwnFrames, Table
  <2> QED BY <2>2, <2>3, Zenon
<1>11. CASE PagingEnable
  <2>1. /\ UNCHANGED <<directory, tables, total, held, index>> /\ pc = "tables"
    BY <1>11, Zenon DEF PagingEnable, pmm
  <2> QED BY <1>1, <1>2, <2>1, Zenon
<1>12. CASE AllocFrame
  <2>1. /\ UNCHANGED <<pc, directory, tables, paging, index>>
        /\ total' = total /\ held \subseteq held'
    BY <1>12, Zenon DEF AllocFrame, Allocated, NoFrame, page, pmm
  <2> QED BY <1>1, <1>2, <2>1, Zenon
<1>13. ASSUME NEW a \in Freeable, FreeFrame(a) PROVE OwnFrames'
  <2>1. UNCHANGED <<pc, directory, tables, paging, index, total>>
    BY <1>13, Zenon DEF FreeFrame, page
  <2>2. held \cap PagingFrames \subseteq held'
    BY <1>1, <1>13, FreeableIs, Zenon DEF FreeFrame
  <2> QED BY <1>1, <1>2, <2>1, <2>2, Zenon
<1>14. CASE UNCHANGED vars
  <2>1. UNCHANGED <<pc, directory, tables, paging, index, total, held>>
    BY <1>14, Zenon DEF vars, page, pmm
  <2> QED BY <1>1, <1>2, <2>1, Zenon
<1> QED
  BY <1>4, <1>5, <1>6, <1>7, <1>8, <1>9, <1>10, <1>11, <1>12, <1>13, <1>14, Zenon DEF Next

\* Every step keeps the identity mapping as far as it has been made.
LEMMA MapStep == IInv /\ [Next]_vars => MapInv'
<1> SUFFICES ASSUME IInv, [Next]_vars PROVE MapInv'
  BY Zenon
<1> DEFINE Table == [at : Nat, map : [0 .. (TableEntries - 1) -> Nat]]
<1>1. MapInv /\ Phase /\ tables \in Seq(Table) /\ index \in Nat
  BY Zenon DEF IInv, OwnFrames
<1> HIDE DEF Table
<1>2. ASSUME UNCHANGED <<identity, tables, paging>>,
             pc' = "tables" => pc = "tables" /\ index' = index
      PROVE  MapInv'
  BY <1>1, <1>2, Zenon DEF MapInv, TableCount
<1>3. CASE PagingStart
  <2>1. pc = "paging" /\ tables = <<>> /\ UNCHANGED <<tables, paging>> /\ ~paging /\ index' = 0
    BY <1>1, <1>3, Zenon DEF PagingStart, Phase
  <2>2. CASE pc' = "run"
    <3>1. UNCHANGED identity
      BY <1>3, <2>2, Zenon DEF PagingStart
    <3> QED BY <1>2, <2>1, <2>2, <3>1, Zenon
  <2>3. CASE pc' # "run"
    <3>1. identity' = IdentityLimit /\ IdentityLimit \div TableBytes # 0
      BY <1>3, <2>3, Zenon DEF PagingStart
    <3>2. TableCount' # 0
      BY <3>1, Zenon DEF TableCount
    <3>3. Len(tables') = 0
      BY <2>1, Zenon
    <3> QED BY <2>1, <3>1, <3>2, <3>3 DEF MapInv
  <2> QED BY <2>2, <2>3, Zenon
<1>4. CASE PagingTable
  <2>1. pc = "tables" /\ ~paging /\ paging' = paging
    BY <1>1, <1>4, Zenon DEF PagingTable, Phase
  <2>2. CASE pc' = "run"
    <3>1. UNCHANGED tables
      BY <1>4, <2>1, <2>2, Zenon DEF PagingTable
    <3> QED BY <1>1, <2>1, <2>2, <3>1, Zenon DEF MapInv
  <2>3. CASE pc' # "run"
    <3>1. PICK f \in Frames :
             /\ tables' = Append(tables, [at |-> f * Frame, map |-> TableFor(index)])
             /\ index' = index + 1 /\ UNCHANGED <<pc, identity>>
      BY <1>4, <2>3, Zenon DEF PagingTable
    <3> DEFINE t == [at |-> f * Frame, map |-> TableFor(index)]
    <3>2. t.map = TableFor(index) /\ tables' = Append(tables, t)
      BY <3>1, Zenon
    <3> HIDE DEF t
    <3>3. /\ Len(tables) \in Nat /\ Len(tables') = Len(tables) + 1
          /\ \A i \in 1 .. Len(tables) : tables'[i] = tables[i]
          /\ tables'[Len(tables) + 1] = t
      BY <1>1, <3>2
    <3>4. index = Len(tables)
      BY <1>1, <2>1, Zenon DEF MapInv
    <3>5. ASSUME NEW i \in 1 .. Len(tables') PROVE tables'[i].map = TableFor(i - 1)
      <4>1. CASE i = Len(tables) + 1
        <5>1. i - 1 = index
          BY <3>3, <3>4, <4>1
        <5> QED BY <3>2, <3>3, <4>1, <5>1, Zenon
      <4>2. CASE i # Len(tables) + 1
        <5>1. i \in 1 .. Len(tables)
          BY <3>3, <4>2
        <5> QED BY <1>1, <3>3, <5>1, Zenon DEF MapInv
      <4> QED BY <4>1, <4>2, Zenon
    <3>6. identity' = IdentityLimit /\ TableCount' # 0
      BY <1>1, <2>1, <3>1, Zenon DEF MapInv, TableCount
    <3> QED BY <2>1, <3>1, <3>3, <3>4, <3>5, <3>6, Zenon DEF MapInv
  <2> QED BY <2>2, <2>3, Zenon
<1>5. CASE PagingEnable
  BY <1>1, <1>5, Zenon DEF PagingEnable, MapInv, TableCount
<1>6. CASE ~PagingStart /\ ~PagingTable /\ ~PagingEnable
  <2>1. UNCHANGED page
    BY <1>6, Zenon DEF Next, StoreMemoryRange, BootinfoDone, PmmStart, PmmRelease, PmmReserve,
         AllocFrame, FreeFrame, vars
  <2>2. pc' = "tables" => pc = "tables" /\ index' = index
    BY <1>6, Zenon DEF Next, StoreMemoryRange, BootinfoDone, PmmStart, PmmRelease, PmmReserve,
         AllocFrame, FreeFrame, vars
  <2> QED BY <1>2, <2>1, <2>2, Zenon DEF page
<1> QED BY <1>3, <1>4, <1>5, <1>6, Zenon

\* The machine starts with no frames at all.
LEMMA InitInv == Init => IInv
<1> SUFFICES ASSUME Init PROVE IInv
  BY Zenon
<1>1. RangesOk
  BY Sizes DEF Init, RangesOk
<1>2. Phase
  BY DEF Init, Phase
<1>3. OwnFrames
  BY DEF Init, OwnFrames
<1>4. Frames = {} /\ Cardinality({}) = 0
  BY FS_EmptySet DEF Init, Frames
<1>5. FrameInv
  BY <1>4 DEF Init, FrameInv, Exact
<1>6. MapInv
  BY DEF Init, MapInv
<1> QED BY <1>1, <1>2, <1>3, <1>5, <1>6, Zenon DEF IInv

\* The invariant holds always: at every point of the boot and after it.
LEMMA InvInductive == Spec => []IInv
<1>1. IInv /\ [Next]_vars => IInv'
  BY RangesStep, PhaseStep, OwnStep, MapStep, FrameStep, Zenon DEF IInv
<1> QED BY InitInv, <1>1, PTL DEF Spec

-----------------------------------------------------------------------------
(* The identity mapping *)

\* The limit of the identity mapping: when it is not 0 its rounding has not
\* wrapped, and it is past everything that must be mapped.
LEMMA LimitIs ==
    ASSUME IdentityLimit \div TableBytes # 0
    PROVE  /\ TableBytes \in Nat \ {0}
           /\ IdentityLimit \div TableBytes \in Nat
           /\ Largest(HeapEnd, InfoAt + InfoSize) \in Nat
           /\ Largest(HeapEnd, InfoAt + InfoSize) <= TableBytes * (IdentityLimit \div TableBytes)
<1> DEFINE x == Largest(Largest(HeapEnd, MinIdentity), InfoAt + InfoSize)
           b == Largest(HeapEnd, InfoAt + InfoSize)
           y == (x + (TableBytes - 1)) % Word
           q == y \div TableBytes
<1>1. TableBytes \in Nat \ {0}
  BY MemoryAssumption, Z3 DEF TableBytes
<1>2. x \in Nat /\ x < Word /\ b \in Nat /\ b <= x
  BY Sizes DEF Largest
<1>3. IdentityLimit = q * TableBytes
  BY Zenon DEF IdentityLimit, AlignUp
<1> HIDE DEF x, b
<1>4. x + (TableBytes - 1) \in Nat
  BY <1>1, <1>2
<1>5. y \in 0 .. (Word - 1)
  <2>1. x + (TableBytes - 1) \in Int
    BY <1>4
  <2> QED BY <2>1, Sizes, ModRange, Zenon
<1> HIDE DEF y
<1>6. q \in Nat /\ TableBytes * q <= y /\ y < TableBytes * q + TableBytes
  BY <1>1, <1>5, DivIs
<1> HIDE DEF q
<1>7. IdentityLimit \div TableBytes = q
  BY <1>1, <1>3, <1>6, DivMul, Zenon
<1>8. q # 0
  BY <1>7, Zenon
<1>9. TableBytes * q \in Nat /\ TableBytes <= TableBytes * q
  <2>1. TableBytes * 1 <= TableBytes * q
    BY <1>1, <1>6, <1>8, MulLess
  <2> QED BY <1>1, <1>6, <2>1
<1>10. TableBytes <= y
  BY <1>1, <1>5, <1>6, <1>9
<1>11. x + (TableBytes - 1) < Word
  <2> SUFFICES ASSUME x + (TableBytes - 1) >= Word PROVE FALSE
    BY <1>1, <1>2, Sizes
  <2> DEFINE r == x + (TableBytes - 1) - Word
  <2>1. r \in 0 .. (Word - 1)
    BY <1>1, <1>2, <1>5, <1>10, Sizes
  <2>2. x + (TableBytes - 1) = r + Word
    BY <1>1, <1>2, Sizes
  <2>3. y = r
    <3> HIDE DEF r
    <3> QED BY <2>1, <2>2, Sizes, ModSmall, Zenon DEF y
  <2> QED BY <1>1, <1>2, <1>10, <2>3, Sizes
<1>12. y = x + (TableBytes - 1)
  <2>1. x + (TableBytes - 1) \in 0 .. (Word - 1)
    BY <1>1, <1>2, <1>11, Sizes
  <2> QED BY <2>1, Sizes, ModSmall, Zenon DEF y
<1>13. b <= TableBytes * q
  BY <1>1, <1>2, <1>6, <1>9, <1>12
<1> QED BY <1>1, <1>2, <1>6, <1>7, <1>13, Zenon DEF b

\* An entry of the tables and an offset in the page make up the address again.
LEMMA PiecesOfAddress ==
    ASSUME NEW a \in Nat
    PROVE  LET i == a \div TableBytes
               k == (a % TableBytes) \div Frame
           IN  /\ i \in Nat
               /\ k \in 0 .. (TableEntries - 1)
               /\ i * TableBytes + k * Frame + (a % Frame) = a
<1> DEFINE i == a \div TableBytes
           m == a % TableBytes
           k == m \div Frame
           r == m % Frame
<1>1. TableBytes \in Nat \ {0} /\ TableEntries \in Nat \ {0} /\ Frame \in Nat \ {0}
  BY MemoryAssumption, Z3 DEF TableBytes
<1>2. i \in Nat /\ m \in 0 .. (TableBytes - 1) /\ a = TableBytes * i + m
  BY <1>1, Z3
<1>3. TableBytes = Frame * TableEntries
  BY Zenon DEF TableBytes
<1> HIDE DEF i, m
<1>4. m \in Nat /\ m < Frame * TableEntries
  BY <1>1, <1>2, <1>3
<1>5. k \in Nat /\ Frame * k <= m /\ r \in 0 .. (Frame - 1) /\ m = Frame * k + r
  BY <1>1, <1>4, Z3
<1> HIDE DEF k, r
<1>6. k < TableEntries
  <2>1. Frame * k < Frame * TableEntries
    <3>1. Frame * k \in Nat /\ Frame * TableEntries \in Nat
      BY <1>1, <1>5
    <3> QED BY <1>4, <1>5, <3>1
  <2> QED BY <1>1, <1>5, <2>1, MulLess
<1>7. a % Frame = r
  <2>1. TableEntries * i \in Int /\ TableEntries * i + k \in Int
    BY <1>1, <1>2, <1>5
  <2>2. TableBytes * i = Frame * (TableEntries * i)
    BY <1>1, <1>2, <1>3, Z3
  <2>3. Frame * (TableEntries * i + k) = Frame * (TableEntries * i) + Frame * k
    BY <1>1, <1>2, <1>5, <2>1, Z3
  <2>4. Frame * (TableEntries * i) \in Int /\ Frame * k \in Int
    BY <1>1, <1>5, <2>1
  <2>5. a = Frame * (TableEntries * i + k) + r
    BY <1>2, <1>5, <2>2, <2>3, <2>4
  <2>6. a \in Int
    OBVIOUS
  <2> QED BY <1>1, <1>5, <2>1, <2>5, <2>6, DivUnique, Zenon
<1>8. i * TableBytes = TableBytes * i /\ k * Frame = Frame * k
      /\ TableBytes * i \in Nat /\ Frame * k \in Nat
  BY <1>1, <1>2, <1>5, Z3
<1> QED BY <1>1, <1>2, <1>5, <1>6, <1>7, <1>8 DEF i, m, k

\* When paging is on, the kernel, the heap and the boot information stay where they
\* were: the directory maps each of their addresses to itself.
THEOREM MapIsIdentity == Spec => []IdentityMapped
<1>1. IInv => IdentityMapped
  <2> SUFFICES ASSUME IInv, paging,
                      NEW a \in 0 .. (Largest(HeapEnd, InfoAt + InfoSize) - 1)
               PROVE  a \div TableBytes < Len(tables) /\ Translate(a) = a
    BY Zenon DEF IdentityMapped
  <2> DEFINE i == a \div TableBytes
             k == (a % TableBytes) \div Frame
             c == IdentityLimit \div TableBytes
  <2>1. c # 0 /\ Len(tables) = c /\ \A j \in 1 .. Len(tables) : tables[j].map = TableFor(j - 1)
    BY Zenon DEF IInv, MapInv, TableCount
  <2>2. /\ TableBytes \in Nat \ {0} /\ c \in Nat
        /\ Largest(HeapEnd, InfoAt + InfoSize) \in Nat
        /\ Largest(HeapEnd, InfoAt + InfoSize) <= TableBytes * c
    BY <2>1, LimitIs, Zenon
  <2> HIDE DEF c
  <2>3. a \in Nat /\ a < TableBytes * c
    <3>1. TableBytes * c \in Nat
      BY <2>2
    <3> QED BY <2>2, <3>1
  <2>4. i \in Nat /\ TableBytes * i <= a
    BY <2>2, <2>3, DivIs, Zenon
  <2>5. k \in 0 .. (TableEntries - 1) /\ i * TableBytes + k * Frame + (a % Frame) = a
    BY <2>3, PiecesOfAddress, Zenon
  <2>6. Translate(a) = tables[i + 1].map[k] + (a % Frame)
    BY Zenon DEF Translate
  <2> HIDE DEF i, k
  <2>7. i < c
    <3>1. TableBytes * i < TableBytes * c
      <4>1. TableBytes * c \in Nat /\ TableBytes * i \in Nat
        BY <2>2, <2>4
      <4> QED BY <2>3, <2>4, <4>1
    <3> QED BY <2>2, <2>4, <3>1, MulLess
  <2>8. tables[i + 1].map = TableFor(i)
    <3>1. i + 1 \in 1 .. Len(tables) /\ (i + 1) - 1 = i
      BY <2>1, <2>2, <2>4, <2>7
    <3> QED BY <2>1, <3>1, Zenon
  <2>9. tables[i + 1].map[k] = i * TableBytes + k * Frame
    BY <2>5, <2>8, Zenon DEF TableFor
  <2> QED BY <2>1, <2>5, <2>6, <2>7, <2>9, Zenon DEF i
<1> QED BY <1>1, InvInductive, PTL

-----------------------------------------------------------------------------
\* pmm_alloc_frame gives the lowest free frame and fails only if there is none.
THEOREM AllocationIsExact == Spec => []SearchIsExact
<1>1. IInv => SearchIsExact
  BY Zenon DEF IInv, FrameInv, Exact, SearchIsExact
<1> QED BY <1>1, InvInductive, PTL

\* Only memory that the loader called available, and that nothing of the kernel's
\* is in, is handed out.
THEOREM HandsOutGoodFrames == Spec => []OnlyGoodFrames
<1>1. IInv => OnlyGoodFrames
  BY Zenon DEF IInv, FrameInv, Unclaimed, OnlyGoodFrames
<1> QED BY <1>1, InvInductive, PTL

\* No frame has two owners, and the page directory and the tables do not share one.
THEOREM NoFrameTwice == Spec => []FramesHaveOneOwner
<1>1. IInv => FramesHaveOneOwner
  BY Zenon DEF IInv, FrameInv, OwnFrames, FramesHaveOneOwner
<1> QED BY <1>1, InvInductive, PTL
=============================================================================
