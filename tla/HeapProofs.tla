----------------------------- MODULE HeapProofs -----------------------------
(***************************************************************************)
(* The kernel heap, for every region, header size, alignment and every set *)
(* of requests: memory handed out belongs to one caller only, kmalloc      *)
(* fails only when no free block is large enough, and the heap passes      *)
(* heap_check_integrity at all times, the self-test and the frees of       *)
(* pointers that were never handed out included.                           *)
(*                                                                         *)
(* The invariant says that the heap is in order (HeapBlockProofs) and that *)
(* what callers hold are payloads of used blocks.                          *)
(***************************************************************************)
EXTENDS HeapBlockProofs

-----------------------------------------------------------------------------
(* The inductive invariant *)

\* What callers hold are the payloads of used blocks that are large enough.
LiveOn(h, l) ==
    \A p \in DOMAIN l :
        /\ p \in Addr
        /\ p - Header \in DOMAIN h.blk
        /\ ~h.blk[p - Header].free
        /\ l[p] \in Nat
        /\ l[p] <= h.blk[p - Header].size

\* The self-test under way
TestOk ==
    test # NoTest =>
        /\ ready /\ test.todo # <<>>
        /\ test.ptr \in [TestNames -> Links]
        /\ test = [todo |-> test.todo, ptr |-> test.ptr, from |-> test.from]

ErrorNames == {"invalid_free", "double_free", "corruption",
               "integrity", "selftest", "reuse", "mismatch"}

HeapInv ==
    /\ ready \in BOOLEAN
    /\ errors \subseteq ErrorNames
    /\ ~ready => /\ heap = [first |-> Null, list |-> Null, blk |-> <<>>]
                 /\ DOMAIN live = {}
    /\ ready => Good(heap, DOMAIN heap.blk) /\ LiveOn(heap, live)
    /\ TestOk

-----------------------------------------------------------------------------
(* kmalloc and kfree *)

\* heap_align_up rounds up to the next multiple, without wrapping.
LEMMA AlignUpIs ==
    ASSUME NEW m \in Nat, m <= Word - Align
    PROVE  /\ AlignUp(m) \in Nat /\ AlignUp(m) % Align = 0
           /\ m <= AlignUp(m) /\ (m # 0 => Align <= AlignUp(m))
<1> DEFINE a == m + (Align - 1)
           q == a \div Align
<1>1. a \in Nat /\ a \in 0 .. (Word - 1)
  BY HeapNumbers
<1>2. a % Word = a
  <2> HIDE DEF a
  <2> QED BY <1>1, HeapNumbers, ModSmall, Zenon
<1>3. q \in Nat /\ Align * q <= a /\ a < Align * q + Align
  <2> HIDE DEF a
  <2> QED BY <1>1, HeapNumbers, DivIs, Zenon
<1>4. AlignUp(m) = q * Align
  BY <1>2, Zenon DEF AlignUp
<1> HIDE DEF q
<1>5. q * Align = Align * q /\ q * Align \in Nat
  BY <1>3, HeapNumbers, Z3
<1>6. (q * Align) % Align = 0
  BY <1>3, HeapNumbers, DivMul, Zenon
<1>7. m <= q * Align
  BY <1>3, <1>5, HeapNumbers
<1>8. m # 0 => Align <= q * Align
  <2> SUFFICES ASSUME m # 0 PROVE Align <= q * Align
    BY Zenon
  <2>1. q # 0
    <3>1. SUFFICES ASSUME q = 0 PROVE FALSE
      BY Zenon
    <3>2. Align * q = 0
      BY <3>1, HeapNumbers
    <3> QED BY <1>3, <3>2, HeapNumbers
  <2>2. 1 <= q /\ q \in Int /\ 1 \in Int
    BY <1>3, <2>1
  <2>3. Align * 1 <= Align * q
    BY <2>2, HeapNumbers, MulLess, Zenon
  <2> QED BY <1>5, <2>3, HeapNumbers
<1> QED BY <1>4, <1>5, <1>6, <1>7, <1>8, Zenon

\* Writes to the links of the free list leave the tiling alone.
LEMMA SameTiled ==
    ASSUME NEW D, NEW h, NEW g, SameBlocks(h, g, D), Tiled(h, D)
    PROVE  Tiled(g, D)
<1>1. \A c \in D : End(g, c) = End(h, c)
  BY Zenon DEF SameBlocks, End
<1> QED BY <1>1, Zenon DEF SameBlocks, Tiled

\* heap_mark_block_used
PutUsed(h, b) == [h EXCEPT !.blk[b].free = FALSE]

\* A block is marked as used (heap_mark_used).
LEMMA SetUsed ==
    ASSUME NEW D, NEW h \in HeapOn(D), NEW b \in D, NEW F, Listed(h, F), F \subseteq D,
           NEW g, g = PutUsed(h, b)
    PROVE  /\ SameBlocks(h, g, D) /\ Listed(g, F)
           /\ ~g.blk[b].free /\ \A c \in D : c # b => g.blk[c].free = h.blk[c].free
<1> DEFINE r == [h.blk[b] EXCEPT !.free = FALSE]
<1>1. r \in Blocks /\ r.next_free = h.blk[b].next_free /\ r.size = h.blk[b].size
      /\ r.free = FALSE /\ r.prev_phys = h.blk[b].prev_phys
      /\ r.next_phys = h.blk[b].next_phys /\ r.prev_free = h.blk[b].prev_free
  BY Zenon DEF HeapOn, Blocks
<1>2. g = PutBlock(h, b, r)
  BY Zenon DEF PutBlock, PutUsed
<1> HIDE DEF r
<1>3. r \in Blocks
  BY <1>1, Zenon
<1>4. /\ g \in HeapOn(D) /\ g.first = h.first /\ g.list = h.list /\ g.blk[b] = r
      /\ \A c \in D : c # b => g.blk[c] = h.blk[c]
  BY <1>2, <1>3, PutHeader
<1>5. \A c \in D : /\ c # b => g.blk[c].free = h.blk[c].free
                   /\ g.blk[c].next_free = h.blk[c].next_free
                   /\ g.blk[c].prev_free = h.blk[c].prev_free
  BY <1>1, <1>4, Zenon
<1>6. SameBlocks(h, g, D)
  BY <1>1, <1>4, Zenon DEF SameBlocks
<1>7. DOMAIN g.blk = D /\ DOMAIN h.blk = D
  BY <1>4, Zenon DEF HeapOn
<1>8. Listed(g, F)
  BY <1>4, <1>5, <1>7, Zenon DEF Listed
<1> QED BY <1>1, <1>4, <1>5, <1>6, <1>8, Zenon

\* What kmalloc does with a block of the free list that is large enough
Taken(h, b, n) ==
    LET h1 == RemoveFree(h, b)
        h2 == IF CanSplit(h1, b, n)
              THEN InsertFree(Split(h1, b, n), Payload(b) + n) ELSE h1
    IN  PutUsed(h2, b)

\* The block that kmalloc takes: taken off the list, cut to the size asked for, and
\* marked.  The heap is in order again and the other used blocks are as they were.
LEMMA TakenIs ==
    ASSUME NEW D, NEW h, Good(h, D), NEW b \in FreeOf(h, D), NEW n \in Nat,
           n % Align = 0, h.blk[b].size >= n
    PROVE  LET g == Taken(h, b, n)
               E == DOMAIN g.blk
           IN  /\ Good(g, E) /\ Kept(h, D, g, E)
               /\ b \in E /\ ~g.blk[b].free /\ g.blk[b].size >= n
<1> DEFINE F == FreeOf(h, D)
           h1 == RemoveFree(h, b)
           s == Payload(b) + n
           G == F \ {b}
           J == G \cup {s}
           k == Split(h1, b, n)
           i == InsertFree(k, s)
           g == Taken(h, b, n)
<1>1. D \subseteq Addr /\ h \in HeapOn(D) /\ Tiled(h, D) /\ Listed(h, F) /\ Base(h, D)
      /\ \A c \in D : ~Mergeable(h, c)
  BY GoodIs, Zenon DEF Base
<1>2. F \in SUBSET D /\ b \in D /\ h.blk[b].free /\ \A c \in D : c \in F <=> h.blk[c].free
  BY <1>1, Zenon DEF FreeOf, HeapOn, Blocks
<1>3. /\ SameBlocks(h, h1, D)
      /\ \A c \in D : h1.blk[c].free = h.blk[c].free
      /\ Listed(h1, G)
  BY <1>1, <1>2, RemoveListed, Zenon
<1>4. g = IF CanSplit(h1, b, n) THEN PutUsed(i, b) ELSE PutUsed(h1, b)
  BY Zenon DEF Taken
<1> HIDE DEF F, h1
<1>51. G \in SUBSET D /\ G \subseteq D /\ \A c \in D : c \in G <=> c # b /\ h.blk[c].free
  BY <1>2, Zenon
<1> HIDE DEF G
<1>5. h1 \in HeapOn(D) /\ Tiled(h1, D)
  BY <1>1, <1>3, SameTiled, Zenon DEF SameBlocks
<1>6. \A c \in D : h.blk[c].next_phys \in D \cup {Null}
  BY <1>1, Zenon DEF Tiled, After
<1>7. CASE ~CanSplit(h1, b, n)
  <2>1. g = PutUsed(h1, b)
    BY <1>4, <1>7, Zenon
  <2> HIDE DEF g
  <2>2. /\ SameBlocks(h1, g, D) /\ Listed(g, G)
        /\ ~g.blk[b].free /\ \A c \in D : c # b => g.blk[c].free = h1.blk[c].free
    BY <1>2, <1>3, <1>5, <1>51, <2>1, SetUsed
  <2>3. SameBlocks(h, g, D) /\ DOMAIN g.blk = D
    BY <1>3, <2>2, SameTrans, Zenon DEF SameBlocks, HeapOn
  <2>4. Tiled(g, D) /\ g \in HeapOn(D)
    BY <1>1, <2>3, SameTiled, Zenon DEF SameBlocks
  <2>11. \A c \in D : /\ g.blk[c].next_phys = h.blk[c].next_phys
                      /\ g.blk[c].size = h.blk[c].size
                      /\ g.blk[c].free <=> c # b /\ h.blk[c].free
    <3>1. \A c \in D : g.blk[c].free <=> c # b /\ h.blk[c].free
      BY <1>3, <2>2, Zenon
    <3> QED BY <2>3, <3>1, Zenon DEF SameBlocks
  <2>5. FreeOf(g, D) = G
    BY <1>51, <2>11, Zenon DEF FreeOf
  <2>6. \A c \in D : ~Mergeable(g, c)
    BY <1>1, <1>6, <2>11, Zenon DEF Mergeable
  <2>7. Good(g, D)
    BY <1>1, <2>2, <2>4, <2>5, <2>6, GoodIs, Zenon DEF Base
  <2>8. Kept(h, D, g, D)
    BY <1>2, <2>11, Zenon DEF Kept
  <2>9. ~g.blk[b].free /\ g.blk[b].size >= n
    BY <1>2, <2>11, Zenon
  <2> QED BY <1>2, <2>3, <2>7, <2>8, <2>9, Zenon DEF g
<1>8. CASE CanSplit(h1, b, n)
  <2> DEFINE E == D \cup {s}
  <2>0. s = Payload(b) + n
    BY Zenon
  <2> HIDE DEF s
  <2>1. /\ s \in Addr /\ s \notin D
        /\ k \in HeapOn(E) /\ Tiled(k, E) /\ k.list = h1.list
        /\ \A c \in D : /\ k.blk[c].free = h1.blk[c].free
                        /\ k.blk[c].next_free = h1.blk[c].next_free
                        /\ k.blk[c].prev_free = h1.blk[c].prev_free
        /\ \A c \in D \ {b} : /\ k.blk[c].next_phys = h1.blk[c].next_phys
                              /\ k.blk[c].size = h1.blk[c].size
        /\ k.blk[b].next_phys = s /\ k.blk[b].size = n
        /\ k.blk[s].next_phys = h1.blk[b].next_phys
        /\ k.blk[s].free = TRUE /\ k.blk[s].next_free = Null
    <3>1. D \subseteq Addr /\ b \in D
      BY <1>1, <1>2, Zenon
    <3>2. IsSplit(h1, D, b, n, s, k)
      BY <1>5, <1>8, <2>0, <3>1, SplitTiled, Zenon
    <3> HIDE DEF k
    <3> QED BY <3>2, Zenon DEF IsSplit
  <2>2. g = PutUsed(i, b)
    BY <1>4, <1>8, Zenon
  <2> HIDE DEF k, g
  <2>3. Listed(k, G)
    <3>1. DOMAIN k.blk = E /\ DOMAIN h1.blk = D
      BY <1>5, <2>1, Zenon DEF HeapOn
    <3>2. \A c \in E \ G : k.blk[c].next_free = Null
      BY <1>3, <2>1, <3>1 DEF Listed
    <3>3. \A c \in G : c \in D
      BY <1>51, Zenon
    <3> QED BY <1>3, <2>1, <3>1, <3>2, <3>3, Zenon DEF Listed
  <2>4. E \subseteq Addr /\ s \in E /\ s \notin G /\ G \in SUBSET E /\ b \in E /\ k \in HeapOn(E)
    BY <1>1, <1>2, <1>51, <2>1
  <2>5. /\ SameBlocks(k, i, E)
        /\ \A c \in E : i.blk[c].free = IF c = s THEN TRUE ELSE k.blk[c].free
        /\ Listed(i, J)
    <3> HIDE DEF E
    <3> QED BY <2>3, <2>4, InsertListed, Zenon
  <2>51. J \subseteq E
    BY <2>4, Zenon
  <2>52. \A c \in E : c \in J <=> c = s \/ (c # b /\ h.blk[c].free)
    BY <1>51, <2>1, Zenon
  <2> HIDE DEF i, J
  <2>6. i \in HeapOn(E)
    BY <2>5, Zenon DEF SameBlocks
  <2>7. /\ SameBlocks(i, g, E) /\ Listed(g, J)
        /\ ~g.blk[b].free /\ \A c \in E : c # b => g.blk[c].free = i.blk[c].free
    <3> HIDE DEF E
    <3> QED BY <2>2, <2>4, <2>5, <2>51, <2>6, SetUsed
  <2>8. SameBlocks(k, g, E) /\ g \in HeapOn(E) /\ DOMAIN g.blk = E
    <3> HIDE DEF E
    <3> QED BY <2>5, <2>7, SameTrans DEF SameBlocks, HeapOn
  <2>9. Tiled(g, E)
    BY <2>1, <2>8, SameTiled, Zenon
  <2>10. \A c \in D : /\ g.blk[c].free <=> c # b /\ h.blk[c].free
                      /\ c # b => /\ g.blk[c].next_phys = h.blk[c].next_phys
                                  /\ g.blk[c].size = h.blk[c].size
    <3> TAKE c \in D
    <3>1. c # s /\ c \in E
      BY <2>1, Zenon
    <3>2. g.blk[c].free <=> c # b /\ h.blk[c].free
      <4>1. k.blk[c].free = h.blk[c].free
        BY <1>3, <2>1, Zenon
      <4>2. i.blk[c].free = k.blk[c].free
        BY <2>5, <3>1, Zenon
      <4> QED BY <2>7, <3>1, <4>1, <4>2, Zenon
    <3>3. c # b => /\ g.blk[c].next_phys = h.blk[c].next_phys
                   /\ g.blk[c].size = h.blk[c].size
      BY <1>3, <2>1, <2>8, <3>1 DEF SameBlocks
    <3> QED BY <3>2, <3>3, Zenon
  <2>11. /\ g.blk[s].free = TRUE /\ g.blk[s].next_phys = h.blk[b].next_phys
         /\ g.blk[b].size = n /\ ~g.blk[b].free
    <3>1. s # b
      BY <1>2, <2>1, Zenon
    <3>2. g.blk[s].next_phys = h.blk[b].next_phys /\ g.blk[b].size = n
      BY <1>2, <1>3, <2>1, <2>4, <2>8, Zenon DEF SameBlocks
    <3> QED BY <1>2, <2>4, <2>5, <2>7, <2>10, <3>1, <3>2, Zenon
  <2>12. FreeOf(g, E) = J
    <3>1. \A c \in E : g.blk[c].free <=> c = s \/ (c # b /\ h.blk[c].free)
      BY <1>2, <2>1, <2>10, <2>11, Zenon
    <3> QED BY <2>51, <2>52, <3>1, Zenon DEF FreeOf
  <2>13. \A c \in E : ~Mergeable(g, c)
    <3> SUFFICES ASSUME NEW c \in E, Mergeable(g, c) PROVE FALSE
      BY Zenon
    <3> DEFINE m == g.blk[c].next_phys
    <3>1. g.blk[c].free /\ m # Null /\ g.blk[m].free
      BY Zenon DEF Mergeable
    <3>2. CASE c = s
      <4>1. m = h.blk[b].next_phys /\ m \in D
        BY <1>2, <1>6, <2>11, <3>1, <3>2, Zenon
      <4> HIDE DEF m
      <4>2. h.blk[m].free
        BY <2>10, <3>1, <4>1, Zenon
      <4> QED BY <1>1, <1>2, <3>1, <4>1, <4>2, Zenon DEF Mergeable
    <3>3. CASE c # s
      <4>1. c \in D /\ c # b
        BY <2>11, <3>1, <3>3, Zenon
      <4>2. m = h.blk[c].next_phys /\ m \in D /\ h.blk[c].free
        BY <1>6, <2>10, <3>1, <4>1, Zenon
      <4> HIDE DEF m
      <4>3. h.blk[m].free
        BY <2>10, <3>1, <4>2, Zenon
      <4> QED BY <1>1, <3>1, <4>1, <4>2, <4>3, Zenon DEF Mergeable
    <3> QED BY <3>2, <3>3, Zenon
  <2>14. Good(g, E)
    <3> HIDE DEF E
    <3> QED BY <2>4, <2>7, <2>8, <2>9, <2>12, <2>13, GoodIs, Zenon DEF Base
  <2>15. Kept(h, D, g, E)
    BY <1>2, <2>10, Zenon DEF Kept
  <2> HIDE DEF E
  <2> QED BY <2>4, <2>8, <2>11, <2>14, <2>15 DEF g
<1> QED BY <1>7, <1>8, Zenon

\* What a call of kmalloc leaves: the used blocks as they were, and a pointer to a
\* used block that is large enough, or none if no free block is.
MallocOk(h, D, size, r) ==
    LET E == DOMAIN r.heap.blk
        b == r.ptr - Header
    IN  /\ r.errors = {} /\ Good(r.heap, E) /\ Kept(h, D, r.heap, E)
        /\ r.ptr = Null /\ size # 0 =>
              \A c \in FreeOf(h, D) : h.blk[c].size < AlignUp(size)
        /\ r.ptr # Null => /\ r.ptr \in Addr /\ b \in E
                           /\ ~r.heap.blk[b].free /\ size <= r.heap.blk[b].size

\* kmalloc gives a used block that is large enough and was not used before, or
\* nothing and the heap as it was.
LEMMA MallocIs ==
    ASSUME NEW D, NEW h, Good(h, D), NEW size \in Nat, size <= Word - Align
    PROVE  MallocOk(h, D, size, Malloc(h, size))
<1> DEFINE n == AlignUp(size)
           b == FirstFit(h, n)
           r == Malloc(h, size)
           g == Taken(h, b, n)
           E == DOMAIN g.blk
<1>1. /\ n \in Nat /\ n % Align = 0 /\ size <= n /\ (size # 0 => Align <= n)
  BY AlignUpIs, Zenon
<1>2. D \subseteq Addr /\ h \in HeapOn(D) /\ Tiled(h, D) /\ Listed(h, FreeOf(h, D))
  BY Zenon DEF Good
<1>3. r = IF size = 0 \/ b = Null
          THEN [heap |-> h, ptr |-> Null, errors |-> {}]
          ELSE IF ~Sane(h, b) \/ ~h.blk[b].free
          THEN [heap |-> h, ptr |-> Null, errors |-> {"corruption"}]
          ELSE [heap |-> g, ptr |-> Payload(b), errors |-> {}]
  BY Zenon DEF Malloc, Taken, PutUsed
<1>4. n = AlignUp(size)
  BY Zenon
<1> HIDE DEF n
<1>5. \/ b = Null /\ \A c \in FreeOf(h, D) : h.blk[c].size < n
      \/ b \in FreeOf(h, D) /\ h.blk[b].size >= n
  BY <1>1, <1>2, FitIs, Zenon
<1> HIDE DEF b, r, g
<1>6. CASE size = 0 \/ b = Null
  <2>1. r = [heap |-> h, ptr |-> Null, errors |-> {}]
    BY <1>3, <1>6, Zenon
  <2>2. DOMAIN h.blk = D /\ Kept(h, D, h, D)
    BY <1>2, Zenon DEF HeapOn, Kept
  <2>3. b = Null => \A c \in FreeOf(h, D) : h.blk[c].size < n
    <3>1. \A c \in FreeOf(h, D) : c # Null
      BY <1>2, AddrIs, Zenon DEF FreeOf
    <3> QED BY <1>5, <3>1, Zenon
  <2>4. r.heap = h /\ r.ptr = Null /\ r.errors = {}
    BY <2>1, Zenon
  <2>5. MallocOk(h, D, size, r)
    BY <1>4, <1>6, <2>2, <2>3, <2>4, Zenon DEF MallocOk
  <2> QED BY <2>5, Zenon DEF r
<1>7. CASE size # 0 /\ b # Null
  <2>1. b \in FreeOf(h, D) /\ h.blk[b].size >= n /\ b \in D /\ h.blk[b].free
    BY <1>5, <1>7, Zenon DEF FreeOf
  <2>2. Sane(h, b)
    BY <1>2, <2>1, GoodSane, Zenon
  <2>3. r = [heap |-> g, ptr |-> Payload(b), errors |-> {}]
    BY <1>3, <1>7, <2>1, <2>2, Zenon
  <2>4. /\ Good(g, E) /\ Kept(h, D, g, E)
        /\ b \in E /\ ~g.blk[b].free /\ g.blk[b].size >= n
    BY <1>1, <2>1, TakenIs, Zenon DEF g
  <2>5. b \in Nat /\ b % Align = 0 /\ Start <= b
    BY <1>2, <2>1, AddrIs, Zenon
  <2>6. g.blk[b].size \in Nat /\ b + Header + g.blk[b].size <= HeapEnd
    <3>1. E \subseteq Addr /\ g \in HeapOn(E) /\ Tiled(g, E)
      BY <2>4, Zenon DEF Good
    <3>2. Sane(g, b) /\ g.blk[b].size \in Nat
      BY <2>4, <3>1, GoodSane, Zenon
    <3> QED BY <3>2, Zenon DEF Sane, End, Payload
  <2>7. (b + Header) % Align = 0 /\ b + Header \in Nat /\ Start <= b + Header
    <3>1. b \in Int /\ Header \in Int /\ Header % Align = 0
      BY <2>5, HeapNumbers
    <3>2. (b + Header) % Align = 0
      BY <2>5, <3>1, Aligned, Zenon
    <3> QED BY <2>5, <3>2, HeapNumbers
  <2>8. b + Header < HeapEnd /\ size <= g.blk[b].size
    BY <1>1, <1>7, <2>4, <2>5, <2>6, HeapNumbers
  <2>9. Payload(b) \in Addr /\ Payload(b) - Header = b /\ Payload(b) # Null
    <3>1. b + Header \in Addr
      BY <2>7, <2>8, RegionAddr
    <3>2. b + Header # Null
      BY <3>1, AddrIs, Zenon
    <3> QED BY <2>5, <3>1, <3>2, HeapNumbers DEF Payload
  <2>10. r.heap = g /\ r.ptr = Payload(b) /\ r.errors = {}
    BY <2>3, Zenon
  <2>11. MallocOk(h, D, size, r)
    BY <2>4, <2>8, <2>9, <2>10, Zenon DEF MallocOk
  <2> QED BY <2>11, Zenon DEF r
<1> QED BY <1>6, <1>7, Zenon

\* What a call of kfree leaves: the used blocks as they were, but for the one it was
\* given.
FreeOk(h, D, ptr, r) ==
    LET E == DOMAIN r.heap.blk
    IN  /\ r.errors \subseteq {"invalid_free", "double_free"} /\ Good(r.heap, E)
        /\ \A c \in D : ~h.blk[c].free /\ c # ptr - Header =>
              c \in E /\ ~r.heap.blk[c].free /\ r.heap.blk[c].size = h.blk[c].size

\* kfree gives back the block whose payload it is given and leaves all other used
\* blocks alone; any other pointer changes nothing.
LEMMA FreeIs ==
    ASSUME NEW D, NEW h, Good(h, D), NEW ptr \in Links
    PROVE  FreeOk(h, D, ptr, Free(h, ptr))
<1> DEFINE b == FindByPayload(h, ptr)
           F == FreeOf(h, D)
           r == Free(h, ptr)
           g == InsertFree(h, b)
           k == Coalesce(g, b)
<1>1. /\ D \subseteq Addr /\ h \in HeapOn(D) /\ Tiled(h, D) /\ Listed(h, F)
      /\ DOMAIN h.blk = D /\ \A c \in D : ~Mergeable(h, c)
  BY GoodIs, Zenon DEF Base, HeapOn
<1>2. ptr \in Int
  BY AddrIs, HeapNumbers DEF Links
<1>3. b = IF ptr - Header \in D THEN ptr - Header ELSE Null
  BY <1>1, <1>2, FindIs, Zenon
<1>4. r = IF ptr = Null THEN [heap |-> h, errors |-> {}]
          ELSE IF b = Null THEN [heap |-> h, errors |-> {"invalid_free"}]
          ELSE IF ~Sane(h, b)
          THEN [heap |-> h, errors |-> {"corruption", "invalid_free"}]
          ELSE IF h.blk[b].free THEN [heap |-> h, errors |-> {"double_free"}]
          ELSE [heap |-> k.heap, errors |-> IF k.bad THEN {"corruption"} ELSE {}]
  BY Zenon DEF Free
<1> HIDE DEF b, r
<1>5. b # Null => b \in D /\ Sane(h, b) /\ b = ptr - Header
  BY <1>1, <1>3, GoodSane, Zenon
<1>6. CASE ptr = Null \/ b = Null \/ h.blk[b].free
  <2>1. r.heap = h /\ r.errors \subseteq {"invalid_free", "double_free"}
    BY <1>4, <1>5, <1>6, Zenon
  <2>2. FreeOk(h, D, ptr, r)
    BY <1>1, <2>1, Zenon DEF FreeOk
  <2> QED BY <2>2, Zenon DEF r
<1>7. CASE ptr # Null /\ b # Null /\ ~h.blk[b].free
  <2>1. b \in D /\ Sane(h, b) /\ b = ptr - Header
    BY <1>5, <1>7, Zenon
  <2>2. r = [heap |-> k.heap, errors |-> IF k.bad THEN {"corruption"} ELSE {}]
    BY <1>4, <1>7, <2>1, Zenon
  <2>3. F \in SUBSET D /\ b \notin F
    BY <1>7, Zenon DEF FreeOf
  <2>4. /\ SameBlocks(h, g, D)
        /\ \A c \in D : g.blk[c].free = IF c = b THEN TRUE ELSE h.blk[c].free
        /\ Listed(g, F \cup {b})
    <3> HIDE DEF F
    <3>1. D \subseteq Addr /\ h \in HeapOn(D) /\ Listed(h, F) /\ b \in D
      BY <1>1, <2>1, Zenon
    <3> QED BY <2>3, <3>1, InsertListed, Zenon
  <2> HIDE DEF g
  <2>5. g.blk[b].free /\ \A c \in D : c # b => g.blk[c].free = h.blk[c].free
    BY <2>1, <2>4, Zenon
  <2>6. FreeOf(g, D) = F \cup {b}
    BY <2>1, <2>5, Zenon DEF FreeOf
  <2>7. Base(g, D)
    BY <1>1, <2>4, <2>6, SameTiled, Zenon DEF Base, SameBlocks
  <2>8. ASSUME NEW c \in D, Mergeable(g, c) PROVE c = b \/ g.blk[c].next_phys = b
    <3>1. SUFFICES ASSUME c # b, g.blk[c].next_phys # b PROVE FALSE
      BY Zenon
    <3>2. h.blk[c].next_phys \in D \cup {Null} /\ g.blk[c].next_phys = h.blk[c].next_phys
      BY <1>1, <2>4, Zenon DEF Tiled, After, SameBlocks
    <3>3. Mergeable(h, c)
      BY <2>5, <2>8, <3>1, <3>2, Zenon DEF Mergeable
    <3> QED BY <1>1, <3>3, Zenon
  <2>9. /\ k.bad = FALSE
        /\ Good(k.heap, DOMAIN k.heap.blk)
        /\ Kept(g, D, k.heap, DOMAIN k.heap.blk)
    BY <2>1, <2>5, <2>7, <2>8, CoalesceIs, Zenon
  <2> HIDE DEF k
  <2>10. r.heap = k.heap /\ r.errors = {}
    BY <2>2, <2>9, Zenon
  <2>11. \A c \in D : ~h.blk[c].free /\ c # b =>
            /\ c \in DOMAIN k.heap.blk /\ ~k.heap.blk[c].free
            /\ k.heap.blk[c].size = h.blk[c].size
    BY <2>4, <2>5, <2>9, Zenon DEF Kept, SameBlocks
  <2>12. FreeOk(h, D, ptr, r)
    BY <2>1, <2>9, <2>10, <2>11, Zenon DEF FreeOk
  <2> QED BY <2>12, Zenon DEF r
<1> QED BY <1>6, <1>7, Zenon

-----------------------------------------------------------------------------
(* The steps *)

\* What callers hold after a kmalloc of size with the result r
Held(l, size, r) ==
    IF r.ptr = Null THEN l
    ELSE [p \in DOMAIN l \cup {r.ptr} |-> IF p = r.ptr THEN size ELSE l[p]]

\* What callers hold stays theirs when one of them is given a block.
LEMMA LiveTake ==
    ASSUME NEW h, NEW l, LiveOn(h, l), NEW size \in Nat, NEW r,
           MallocOk(h, DOMAIN h.blk, size, r),
           NEW m, m = Held(l, size, r)
    PROVE  LiveOn(r.heap, m)
<1> USE DEF Held
<1>1. SUFFICES ASSUME NEW p \in DOMAIN m
               PROVE  /\ p \in Addr /\ p - Header \in DOMAIN r.heap.blk
                      /\ ~r.heap.blk[p - Header].free /\ m[p] \in Nat
                      /\ m[p] <= r.heap.blk[p - Header].size
  BY Zenon DEF LiveOn
<1>2. CASE r.ptr # Null /\ p = r.ptr
  <2>1. m[p] = size
    BY <1>2, Zenon
  <2> QED BY <1>2, <2>1, Zenon DEF MallocOk
<1>3. CASE ~(r.ptr # Null /\ p = r.ptr)
  <2>1. p \in DOMAIN l /\ m[p] = l[p]
    BY <1>1, <1>3, Zenon
  <2>2. /\ p \in Addr /\ p - Header \in DOMAIN h.blk /\ ~h.blk[p - Header].free
        /\ l[p] \in Nat /\ l[p] <= h.blk[p - Header].size
    BY <2>1, Zenon DEF LiveOn
  <2>3. Kept(h, DOMAIN h.blk, r.heap, DOMAIN r.heap.blk)
    BY Zenon DEF MallocOk
  <2> QED BY <2>1, <2>2, <2>3, Zenon DEF Kept
<1> QED BY <1>2, <1>3, Zenon

\* What callers hold after a kfree
LEMMA LiveGive ==
    ASSUME NEW h, NEW l, LiveOn(h, l), NEW ptr \in Links, NEW r,
           FreeOk(h, DOMAIN h.blk, ptr, r),
           NEW m, m = Restrict(l, DOMAIN l \ {ptr})
    PROVE  LiveOn(r.heap, m)
<1>0. m = [p \in DOMAIN l \ {ptr} |-> l[p]]
  BY Zenon DEF Restrict
<1>1. SUFFICES ASSUME NEW p \in DOMAIN m
               PROVE  /\ p \in Addr /\ p - Header \in DOMAIN r.heap.blk
                      /\ ~r.heap.blk[p - Header].free /\ m[p] \in Nat
                      /\ m[p] <= r.heap.blk[p - Header].size
  BY Zenon DEF LiveOn
<1>2. p \in DOMAIN l /\ p # ptr /\ m[p] = l[p]
  BY <1>0, <1>1, Zenon
<1>3. /\ p \in Addr /\ p - Header \in DOMAIN h.blk /\ ~h.blk[p - Header].free
      /\ l[p] \in Nat /\ l[p] <= h.blk[p - Header].size
  BY <1>2, Zenon DEF LiveOn
<1>4. p \in Nat /\ ptr \in Nat
  BY <1>3, AddrIs, HeapNumbers DEF Links
<1>5. p - Header # ptr - Header
  BY <1>2, <1>4, HeapNumbers
<1> QED BY <1>2, <1>3, <1>5, Zenon DEF FreeOk

\* A kmalloc, of a caller or of the self-test
LEMMA TakeStep ==
    ASSUME HeapInv, ready, NEW size \in Nat, size <= Word - Align,
           Take(size, Malloc(heap, size))
    PROVE  /\ Good(heap', DOMAIN heap'.blk) /\ LiveOn(heap', live')
           /\ Malloc(heap, size).errors = {} /\ Malloc(heap, size).ptr \in Links
<1>1. PICK r \in {Malloc(heap, size)} : TRUE
  BY Zenon
<1>2. heap' = r.heap /\ live' = Held(live, size, r)
  BY <1>1, Zenon DEF Take, Held
<1>3. Good(heap, DOMAIN heap.blk) /\ LiveOn(heap, live)
  BY Zenon DEF HeapInv
<1>4. MallocOk(heap, DOMAIN heap.blk, size, r)
  <2>1. MallocOk(heap, DOMAIN heap.blk, size, Malloc(heap, size))
    BY <1>3, MallocIs, Zenon
  <2> QED BY <1>1, <2>1, Zenon
<1>5. LiveOn(r.heap, live')
  BY <1>2, <1>3, <1>4, LiveTake, Zenon
<1>6. /\ r.errors = {} /\ r.ptr \in Links /\ Good(r.heap, DOMAIN r.heap.blk)
  BY <1>4, AddrIs, Zenon DEF MallocOk, Links
<1> QED BY <1>1, <1>2, <1>5, <1>6, Zenon

\* A kfree, of a caller or of the self-test
LEMMA GiveStep ==
    ASSUME HeapInv, ready, NEW ptr \in Links, GiveBack(ptr)
    PROVE  /\ Good(heap', DOMAIN heap'.blk) /\ LiveOn(heap', live')
           /\ errors' \subseteq ErrorNames
<1>1. PICK r \in {Free(heap, ptr)} : TRUE
  BY Zenon
<1>2. heap' = r.heap /\ errors' = errors \cup r.errors
      /\ live' = Restrict(live, DOMAIN live \ {ptr})
  BY <1>1, Zenon DEF GiveBack
<1>3. Good(heap, DOMAIN heap.blk) /\ LiveOn(heap, live) /\ errors \subseteq ErrorNames
  BY Zenon DEF HeapInv
<1>4. FreeOk(heap, DOMAIN heap.blk, ptr, r)
  <2>1. FreeOk(heap, DOMAIN heap.blk, ptr, Free(heap, ptr))
    BY <1>3, FreeIs, Zenon
  <2> QED BY <1>1, <2>1, Zenon
<1>5. LiveOn(r.heap, live')
  BY <1>2, <1>3, <1>4, LiveGive, Zenon
<1>6. r.errors \subseteq {"invalid_free", "double_free"} /\ Good(r.heap, DOMAIN r.heap.blk)
  BY <1>4, Zenon DEF FreeOk
<1>7. r.errors \subseteq ErrorNames
  BY <1>6, Zenon DEF ErrorNames
<1> QED BY <1>2, <1>3, <1>5, <1>6, <1>7, Zenon

\* What the self-test has yet to do and its pointers
LEMMA RemainingOk ==
    ASSUME HeapInv, test # NoTest, NEW todo, NEW ptr \in [TestNames -> Links],
           ready', test' = Remaining(todo, ptr)
    PROVE  TestOk'
<1>1. test = [todo |-> test.todo, ptr |-> test.ptr, from |-> test.from]
  BY Zenon DEF HeapInv, TestOk
<1>2. [test EXCEPT !.todo = todo, !.ptr = ptr]
         = [todo |-> todo, ptr |-> ptr, from |-> test.from]
  <2>1. PICK a, b, c : test = [todo |-> a, ptr |-> b, from |-> c]
    BY <1>1, Zenon
  <2>2. test.from = c
    BY <2>1, Zenon
  <2> DEFINE R == [todo : {a, todo}, ptr : {b, ptr}, from : {c}]
             t == [test EXCEPT !.todo = todo, !.ptr = ptr]
  <2>3. test \in R
    BY <2>1, Zenon
  <2>4. t \in R /\ t.todo = todo /\ t.ptr = ptr
    BY <2>3, Zenon
  <2> HIDE DEF t
  <2>5. t.from = c /\ t = [todo |-> t.todo, ptr |-> t.ptr, from |-> t.from]
    BY <2>4, Zenon
  <2> QED BY <2>2, <2>4, <2>5, Zenon DEF t
<1>3. CASE todo = <<>>
  BY <1>3, Zenon DEF Remaining, TestOk, NoTest
<1>4. CASE todo # <<>>
  <2>1. test' = [todo |-> todo, ptr |-> ptr, from |-> test.from]
    BY <1>2, <1>4, Zenon DEF Remaining
  <2> QED BY <1>4, <2>1 DEF TestOk
<1> QED BY <1>3, <1>4, Zenon

\* The heap after heap_init: one free block.
LEMMA FirstBlock ==
    ASSUME NEW h, h = [first |-> Start, list |-> Start,
                       blk |-> [b \in {Start} |->
                                   NewBlock(HeapSize - Header, Null, Null, TRUE)]]
    PROVE  DOMAIN h.blk = {Start} /\ Good(h, {Start})
<1> DEFINE new == NewBlock(HeapSize - Header, Null, Null, TRUE)
           D == {Start}
<1>1. HeapSize - Header \in 0 .. HeapSize /\ (HeapSize - Header) % Align = 0
  <2>1. HeapSize \in Int /\ Header \in Int /\ HeapSize % Align = 0 /\ Header % Align = 0
    BY HeapNumbers
  <2>2. (HeapSize - Header) % Align = 0
    BY <2>1, Aligned, Zenon
  <2> QED BY <2>2, HeapNumbers
<1>2. Start \in Addr /\ Start \in Links /\ Null \in Links /\ Start # Null /\ Start \in Nat
  <2>1. Start \in Int /\ Start % Align = 0 /\ Start <= Start /\ Start < HeapEnd
    BY HeapNumbers
  <2>2. Start \in Addr
    BY <2>1, RegionAddr, Zenon
  <2> QED BY <2>2, HeapNumbers, Zenon DEF Links
<1>3. /\ new \in Blocks /\ new.size = HeapSize - Header /\ new.free = TRUE
      /\ new.prev_phys = Null /\ new.next_phys = Null
      /\ new.prev_free = Null /\ new.next_free = Null
  <2> DEFINE z == HeapSize - Header
  <2>1. z \in 0 .. HeapSize /\ z = HeapSize - Header
    BY <1>1, Zenon
  <2> HIDE DEF z
  <2> QED BY <1>2, <2>1, Zenon DEF NewBlock, Blocks
<1> HIDE DEF new
<1>4. h \in HeapOn(D) /\ h.first = Start /\ h.list = Start /\ h.blk[Start] = new
      /\ DOMAIN h.blk = D
  BY <1>2, <1>3, Zenon DEF HeapOn, new
<1>5. /\ After(D, Start, Null) /\ Preceding(D, Start, Null) /\ After(D, Null, Start)
  BY <1>2, HeapNumbers DEF After, Preceding
<1>6. End(h, Start) = HeapEnd
  <2>1. End(h, Start) = Start + Header + (HeapSize - Header)
    BY <1>3, <1>4, Zenon DEF End, Payload
  <2> QED BY <2>1, HeapNumbers
<1>7. Tiled(h, D)
  BY <1>1, <1>3, <1>4, <1>5, <1>6, Zenon DEF Tiled
<1>8. FreeOf(h, D) = D
  BY <1>3, <1>4, Zenon DEF FreeOf
<1>9. Listed(h, D)
  BY <1>3, <1>4, <1>5, Zenon DEF Listed
<1>10. Apart(h, D)
  BY <1>3, <1>4, Zenon DEF Apart
<1>11. Good(h, D)
  BY <1>2, <1>4, <1>7, <1>8, <1>9, <1>10, Zenon DEF Good
<1> QED BY <1>4, <1>11, Zenon

\* The sizes the self-test asks for
LEMMA TestSizeIs ==
    ASSUME NEW x \in TestNames
    PROVE  TestSize[x] \in Nat /\ TestSize[x] <= Word - Align
<1>1. \A i \in 1 .. 4 : TestSizes[i] \in 1 .. (Word - Align)
  BY HeapAssumption, Zenon
<1>2. \A i \in 1 .. 4 : TestSizes[i] \in Nat /\ TestSizes[i] <= Word - Align
  BY <1>1, HeapNumbers
<1>3. \E i \in 1 .. 4 : TestSize[x] = TestSizes[i]
  BY DEF TestSize, TestNames
<1> QED BY <1>2, <1>3, Zenon

\* The sizes callers ask for, a product of kcalloc included
LEMMA SizeIs ==
    ASSUME NEW n \in Sizes
    PROVE  /\ n \in Nat /\ n <= Word - Align
           /\ n # 0 /\ 2 <= (Word - 1) \div n => 2 * n \in Nat /\ 2 * n <= Word - Align
<1>1. n \in Nat /\ n <= Word - Align
  BY HeapAssumption, HeapNumbers
<1>2. ASSUME n # 0, 2 <= (Word - 1) \div n
      PROVE  2 * n \in Nat /\ 2 * n <= Word - Align
  <2> DEFINE q == (Word - 1) \div n
  <2>1. Word - 1 \in Nat /\ n \in Nat \ {0}
    BY <1>1, <1>2, HeapNumbers
  <2>2. q \in Nat /\ n * q <= Word - 1
    BY <2>1, DivIs, Zenon
  <2>3. 2 \in Int /\ q \in Int /\ 2 <= q
    BY <1>2, <2>2
  <2> HIDE DEF q
  <2>4. n * 2 <= n * q /\ n * q \in Int
    BY <2>1, <2>3, MulLess
  <2>5. 2 * n <= Word - 1 /\ 2 * n \in Nat
    BY <1>1, <2>2, <2>4, HeapNumbers
  <2>6. 2 * n <= Word - Align \/ 2 * n >= Word
    BY HeapAssumption, Zenon
  <2> QED BY <2>5, <2>6, HeapNumbers
<1> QED BY <1>1, <1>2, Zenon

\* The invariant holds before heap_init.
LEMMA HeapInvInit == Init => HeapInv
<1> SUFFICES ASSUME Init PROVE HeapInv
  BY Zenon
<1>1. DOMAIN live = {} /\ errors \subseteq ErrorNames /\ TestOk
  BY DEF Init, TestOk
<1> QED BY <1>1, Zenon DEF Init, HeapInv

\* Every call keeps the invariant.
LEMMA HeapInvStep == HeapInv /\ [Next]_vars => HeapInv'
<1> SUFFICES ASSUME HeapInv, [Next]_vars PROVE HeapInv'
  BY Zenon
<1>1. CASE HeapInit
  <2>1. Good(heap', DOMAIN heap'.blk)
    BY <1>1, FirstBlock, Zenon DEF HeapInit
  <2>2. live' = live /\ test' = test /\ DOMAIN live = {} /\ test = NoTest
    BY <1>1, Zenon DEF HeapInit, HeapInv, TestOk
  <2>3. LiveOn(heap', live') /\ TestOk'
    BY <2>2, Zenon DEF LiveOn, TestOk
  <2> QED BY <1>1, <2>1, <2>3, Zenon DEF HeapInit, HeapInv, ErrorNames
<1>2. ASSUME NEW size \in Nat, size <= Word - Align, Kmalloc(size) PROVE HeapInv'
  <2>1. /\ ready /\ ready' = ready /\ test' = test /\ test = NoTest
        /\ Take(size, Malloc(heap, size)) /\ errors' = errors \cup Malloc(heap, size).errors
    BY <1>2, Zenon DEF Kmalloc, Idle
  <2>2. /\ Good(heap', DOMAIN heap'.blk) /\ LiveOn(heap', live')
        /\ Malloc(heap, size).errors = {}
    BY <1>2, <2>1, TakeStep, Zenon
  <2>3. errors' \subseteq ErrorNames /\ TestOk'
    BY <2>1, <2>2, Zenon DEF HeapInv, TestOk
  <2> QED BY <2>1, <2>2, <2>3, Zenon DEF HeapInv
<1>3. ASSUME NEW n \in Sizes, Kmalloc(n) PROVE HeapInv'
  BY <1>2, <1>3, SizeIs, Zenon
<1>4. ASSUME NEW n \in Sizes, Kcalloc(2, n) PROVE HeapInv'
  <2>1. n # 0 /\ 2 <= (Word - 1) \div n /\ Kmalloc(2 * n)
    BY <1>4, Zenon DEF Kcalloc
  <2>2. 2 * n \in Nat /\ 2 * n <= Word - Align
    BY <2>1, SizeIs, Zenon
  <2> QED BY <1>2, <2>1, <2>2, Zenon
<1>5. ASSUME NEW p \in Links, Kfree(p) PROVE HeapInv'
  <2>1. ready /\ ready' = ready /\ test' = test /\ test = NoTest /\ GiveBack(p)
    BY <1>5, Zenon DEF Kfree, Idle
  <2>2. /\ Good(heap', DOMAIN heap'.blk) /\ LiveOn(heap', live')
        /\ errors' \subseteq ErrorNames
    BY <2>1, GiveStep, Zenon
  <2>3. TestOk'
    BY <2>1, Zenon DEF TestOk
  <2> QED BY <2>1, <2>2, <2>3, Zenon DEF HeapInv
<1>6. CASE CheckIntegrity
  <2>1. /\ ready /\ ready' = ready /\ heap' = heap /\ live' = live /\ test' = test
        /\ errors' \subseteq errors \cup {"integrity"}
    BY <1>6, Zenon DEF CheckIntegrity, Idle
  <2>2. errors' \subseteq ErrorNames
    BY <2>1, Zenon DEF HeapInv, ErrorNames
  <2> QED BY <2>1, <2>2, Zenon DEF HeapInv, TestOk
<1>7. CASE TestStart
  <2>1. /\ ready /\ ready' = ready /\ heap' = heap /\ live' = live
        /\ errors' \subseteq errors \cup {"integrity"}
    BY <1>7, Zenon DEF TestStart, Idle
  <2>2. errors' \subseteq ErrorNames
    BY <2>1, Zenon DEF HeapInv, ErrorNames
  <2>3. TestOk'
    <3>1. CASE test' = test
      BY <2>1, <3>1, Zenon DEF HeapInv, TestOk
    <3>2. CASE test' # test
      <4> DEFINE todo == Calls("kmalloc", <<"a", "b", "c">>)
                 ptr  == [x \in TestNames |-> Null]
                 from == [heap |-> heap, errors |-> errors]
      <4>1. test' = [todo |-> todo, ptr |-> ptr, from |-> from]
        BY <1>7, <3>2, Zenon DEF TestStart
      <4>2. todo # <<>>
        BY DEF Calls
      <4>3. ptr \in [TestNames -> Links]
        BY Zenon DEF Links
      <4> HIDE DEF todo, ptr, from
      <4> QED BY <2>1, <4>1, <4>2, <4>3, Zenon DEF TestOk
    <3> QED BY <3>1, <3>2, Zenon
  <2> QED BY <2>1, <2>2, <2>3, Zenon DEF HeapInv
<1>8. ASSUME NEW x \in TestNames, TestMalloc(x) PROVE HeapInv'
  <2> DEFINE size == TestSize[x]
             r    == Malloc(heap, size)
             ptr  == [test.ptr EXCEPT ![x] = r.ptr]
  <2>1. /\ test # NoTest /\ ready' = ready /\ Take(size, r)
        /\ errors' = errors \cup r.errors \cup Complaint(x, ptr)
        /\ test' = Remaining(AfterMalloc(x, ptr), ptr)
    BY <1>8, Zenon DEF TestMalloc
  <2>2. ready /\ test.ptr \in [TestNames -> Links]
    BY <2>1, Zenon DEF HeapInv, TestOk
  <2>3. size \in Nat /\ size <= Word - Align
    BY TestSizeIs, Zenon
  <2> HIDE DEF size
  <2>4. /\ Good(heap', DOMAIN heap'.blk) /\ LiveOn(heap', live')
        /\ r.errors = {} /\ r.ptr \in Links
    BY <2>1, <2>2, <2>3, TakeStep, Zenon
  <2> HIDE DEF r
  <2>5. ptr \in [TestNames -> Links]
    BY <2>2, <2>4, Zenon
  <2> HIDE DEF ptr
  <2>6. Complaint(x, ptr) \subseteq {"selftest", "reuse"}
    BY Zenon DEF Complaint
  <2>7. errors' \subseteq ErrorNames
    BY <2>1, <2>4, <2>6, Zenon DEF HeapInv, ErrorNames
  <2>8. TestOk'
    BY <2>1, <2>2, <2>5, RemainingOk, Zenon
  <2> QED BY <2>1, <2>2, <2>4, <2>7, <2>8, Zenon DEF HeapInv
<1>9. ASSUME NEW x \in TestNames, TestFree(x) PROVE HeapInv'
  <2>1. /\ test # NoTest /\ ready' = ready /\ GiveBack(test.ptr[x])
        /\ test' = Remaining(Tail(test.todo), test.ptr)
    BY <1>9, Zenon DEF TestFree
  <2>2. ready /\ test.ptr \in [TestNames -> Links] /\ test.ptr[x] \in Links
    BY <2>1, Zenon DEF HeapInv, TestOk
  <2>3. /\ Good(heap', DOMAIN heap'.blk) /\ LiveOn(heap', live')
        /\ errors' \subseteq ErrorNames
    BY <2>1, <2>2, GiveStep, Zenon
  <2>4. TestOk'
    BY <2>1, <2>2, RemainingOk, Zenon
  <2> QED BY <2>1, <2>2, <2>3, <2>4, Zenon DEF HeapInv
<1>10. CASE TestCheck
  <2>1. /\ ready' = ready /\ heap' = heap /\ live' = live /\ test' = NoTest
        /\ test # NoTest /\ errors' \subseteq errors \cup {"integrity", "mismatch"}
    BY <1>10, Zenon DEF TestCheck
  <2>2. errors' \subseteq ErrorNames
    BY <2>1, Zenon DEF HeapInv, ErrorNames
  <2>3. TestOk'
    BY <2>1, Zenon DEF TestOk, NoTest
  <2> QED BY <2>1, <2>2, <2>3, Zenon DEF HeapInv
<1>11. CASE UNCHANGED vars
  BY <1>11, Zenon DEF vars, HeapInv, TestOk
<1> QED
  BY <1>1, <1>3, <1>4, <1>5, <1>6, <1>7, <1>8, <1>9, <1>10, <1>11, Zenon DEF Next

\* The invariant holds at all times.
LEMMA HeapInvAlways == Spec => []HeapInv
BY HeapInvInit, HeapInvStep, PTL DEF Spec

-----------------------------------------------------------------------------
(* What callers rely on *)

\* Blocks follow each other: one ends before a later one starts.
LEMMA TileOrder ==
    ASSUME NEW D, NEW h, Good(h, D), NEW b \in D, NEW c \in D, b < c
    PROVE  End(h, b) <= c
<1>1. D \subseteq Addr /\ Tiled(h, D) /\ After(D, b, h.blk[b].next_phys)
      /\ End(h, b) = IF h.blk[b].next_phys = Null THEN HeapEnd ELSE h.blk[b].next_phys
  BY Zenon DEF Good, Tiled
<1>2. \A d \in D : d \in Nat /\ d # Null
  BY <1>1, AddrIs, Zenon
<1>3. h.blk[b].next_phys \in D /\ h.blk[b].next_phys <= c
  <2>1. ~\A d \in D : d <= b
    BY <1>2
  <2> QED BY <1>1, <2>1, Zenon DEF After
<1> QED BY <1>1, <1>2, <1>3, Zenon

\* Callers' memory is apart from everything else in the heap.
LEMMA HeldApart == HeapInv => LiveIsPrivate
<1> SUFFICES ASSUME HeapInv, NEW p \in DOMAIN live
             PROVE  /\ p - Header \in DOMAIN heap.blk
                    /\ ~heap.blk[p - Header].free
                    /\ live[p] <= heap.blk[p - Header].size
                    /\ \A b \in DOMAIN heap.blk \ {p - Header} :
                          End(heap, b) <= p - Header \/ p + live[p] <= b
  BY Zenon DEF LiveIsPrivate
<1> DEFINE c == p - Header
           D == DOMAIN heap.blk
<1>1. ready /\ Good(heap, D) /\ LiveOn(heap, live)
  BY Zenon DEF HeapInv
<1>2. /\ p \in Addr /\ c \in D /\ ~heap.blk[c].free
      /\ live[p] \in Nat /\ live[p] <= heap.blk[c].size
  BY <1>1, Zenon DEF LiveOn
<1>3. D \subseteq Addr /\ heap \in HeapOn(D) /\ Tiled(heap, D)
  BY <1>1, Zenon DEF Good
<1>4. p \in Nat /\ heap.blk[c].size \in Nat /\ \A b \in D : b \in Nat
  BY <1>2, <1>3, AddrIs, GoodSane, Zenon
<1>5. End(heap, c) = p + heap.blk[c].size
  <2>1. End(heap, c) = (p - Header) + Header + heap.blk[p - Header].size
    BY Zenon DEF End, Payload
  <2>2. (p - Header) + Header = p
    BY <1>4, HeapNumbers
  <2> QED BY <2>1, <2>2, Zenon
<1>6. ASSUME NEW b \in D \ {c} PROVE End(heap, b) <= c \/ p + live[p] <= b
  <2> HIDE DEF c, D
  <2>1. b \in Nat /\ c \in Nat
    BY <1>2, <1>4, Zenon
  <2>2. CASE b < c
    BY <1>1, <1>2, <2>2, TileOrder, Zenon
  <2>3. CASE c < b
    <3>1. End(heap, c) <= b
      BY <1>1, <1>2, <2>3, TileOrder, Zenon
    <3>2. p + heap.blk[c].size <= b
      BY <1>5, <3>1, Zenon
    <3> QED BY <1>2, <1>4, <2>1, <3>2
  <2> QED BY <2>1, <2>2, <2>3
<1> QED BY <1>2, <1>6, Zenon

\* If all free blocks are smaller than N then a header and N bytes fit nowhere
\* between the used ones.
LEMMA NoRoom ==
    ASSUME NEW D, NEW h, Good(h, D), NEW N \in Nat,
           \A c \in FreeOf(h, D) : h.blk[c].size < N,
           NEW a \in Addr, a + Header + N <= HeapEnd
    PROVE  \E b \in D : ~h.blk[b].free /\ b < a + Header + N /\ a < End(h, b)
<1>1. D \subseteq Addr /\ h \in HeapOn(D) /\ Tiled(h, D) /\ Apart(h, D)
  BY Zenon DEF Good
<1>2. a \in Nat /\ Start <= a /\ a < HeapEnd
  BY AddrIs, Zenon
<1>3. \A d \in D : d \in Nat /\ d # Null
  BY <1>1, AddrIs, Zenon
<1>4. PICK b \in D : b <= a /\ \A d \in D : d <= a => d <= b
  <2> DEFINE T == {d \in D : d <= a}
  <2>1. T \subseteq Nat /\ T # {}
    BY <1>1, <1>2, <1>3, Zenon DEF Tiled
  <2>2. PICK b \in T : \A d \in T : d <= b
    BY <1>2, <2>1, GreatestNat, Zenon
  <2> QED BY <2>2, Zenon
<1> DEFINE c == h.blk[b].next_phys
<1>5. /\ After(D, b, c) /\ End(h, b) = IF c = Null THEN HeapEnd ELSE c
      /\ h.blk[b].size \in Nat /\ End(h, b) = b + Header + h.blk[b].size
  BY <1>1, GoodSane, Zenon DEF Tiled, End, Payload
<1>6. c = Null \/ (c \in D /\ a < c)
  BY <1>2, <1>3, <1>4, <1>5 DEF After
<1>7. b < a + Header + N
  BY <1>2, <1>3, <1>4, HeapNumbers
<1>8. CASE ~h.blk[b].free
  <2>1. a < End(h, b)
    BY <1>2, <1>5, <1>6, Zenon
  <2> QED BY <1>7, <1>8, <2>1, Zenon
<1>9. CASE h.blk[b].free
  <2>1. h.blk[b].size < N
    BY <1>9, Zenon DEF FreeOf
  <2>2. End(h, b) < a + Header + N
    <3> HIDE DEF c
    <3> DEFINE z == h.blk[b].size
    <3>1. z \in Nat /\ z < N /\ End(h, b) = b + Header + z
      BY <1>5, <2>1, Zenon
    <3> HIDE DEF z
    <3> QED BY <1>2, <1>3, <1>4, <3>1, HeapNumbers
  <2>3. c \in D /\ a < c /\ End(h, b) = c
    BY <1>2, <1>5, <1>6, <2>2, HeapNumbers
  <2>4. ~h.blk[c].free
    BY <1>1, <1>3, <1>9, <2>3, Zenon DEF Apart
  <2> HIDE DEF c
  <2>5. End(h, c) \in Nat /\ c + Header <= End(h, c) /\ c \in Nat
    BY <1>1, <1>3, <2>3, GoodSane, Zenon
  <2>6. a < End(h, c)
    BY <1>2, <2>3, <2>5, HeapNumbers
  <2> QED BY <2>2, <2>3, <2>4, <2>6, Zenon
<1> QED BY <1>8, <1>9, Zenon

\* With the free list complete and in order, a failed search has seen every free
\* block.
LEMMA FullIsFull == HeapInv => FailsOnlyWhenFull
<1> SUFFICES ASSUME HeapInv, NEW n \in Sizes \ {0}, ready, Malloc(heap, n).ptr = Null,
                    NEW a \in Addr, ~(a + Header + AlignUp(n) > HeapEnd)
             PROVE  \E b \in DOMAIN heap.blk : /\ ~heap.blk[b].free
                                               /\ b < a + Header + AlignUp(n)
                                               /\ a < End(heap, b)
  BY Zenon DEF FailsOnlyWhenFull
<1> DEFINE N == AlignUp(n)
           D == DOMAIN heap.blk
<1>1. n \in Nat /\ n # 0 /\ n <= Word - Align
  BY SizeIs, Zenon
<1>2. N \in Nat
  BY <1>1, AlignUpIs, Zenon
<1>3. Good(heap, D)
  BY Zenon DEF HeapInv
<1>4. \A c \in FreeOf(heap, D) : heap.blk[c].size < N
  <2>1. MallocOk(heap, D, n, Malloc(heap, n))
    BY <1>1, <1>3, MallocIs, Zenon
  <2> QED BY <1>1, <2>1, Zenon DEF MallocOk
<1> HIDE DEF N
<1>5. a + Header + N <= HeapEnd
  <2>1. ~(a + Header + N > HeapEnd)
    BY Zenon DEF N
  <2> QED BY <1>2, <2>1, AddrIs, HeapNumbers
<1> HIDE DEF D
<1>6. \E b \in D : ~heap.blk[b].free /\ b < a + Header + N /\ a < End(heap, b)
  BY <1>2, <1>3, <1>4, <1>5, NoRoom, Zenon
<1> QED BY <1>6, Zenon DEF N, D

\* A caller's memory (a block kmalloc or kcalloc returned and kfree was not given
\* since) is inside its block, which no other block, free or used, overlaps: for
\* every region, every size and every sequence of calls.
THEOREM CallersApart == Spec => []LiveIsPrivate
BY HeapInvAlways, HeldApart, PTL

\* kmalloc returns NULL only when the used blocks leave no room for a header and the
\* payload: the merging of kfree never leaves free memory unusable.
THEOREM FailsWhenFull == Spec => []FailsOnlyWhenFull
BY HeapInvAlways, FullIsFull, PTL

-----------------------------------------------------------------------------
(* heap_check_integrity *)

\* From first, each of S leads by nx to the one after it.
Chained(S, nx, first) == After(S, Null, first) /\ \A c \in S : After(S, c, nx[c])

\* Where the walk of S from first is after k steps: at its end or at the block k + 1,
\* which is at least k steps of Align into the region, with all lower ones behind it.
OnWay(s, S, nx, first, k) ==
    /\ s \in Seq(Links) /\ Len(s) \in 1 .. (k + 1) /\ s[1] = first
    /\ \A i \in 1 .. (Len(s) - 1) : s[i] \in S /\ s[i + 1] = nx[s[i]]
    /\ s[Len(s)] \in S \cup {Null}
    /\ Len(s) = k + 1 \/ s[Len(s)] = Null
    /\ s[Len(s)] # Null => Start + Align * (Len(s) - 1) <= s[Len(s)]
    /\ \A d \in S : \/ \E i \in 1 .. (Len(s) - 1) : d = s[i]
                    \/ s[Len(s)] # Null /\ s[Len(s)] <= d

\* A walk that has not begun
LEMMA WayStart ==
    ASSUME NEW S, S \subseteq Addr, NEW nx, NEW first, Chained(S, nx, first)
    PROVE  OnWay(<<first>>, S, nx, first, 0)
<1>1. \A c \in S : c \in Nat /\ c > Null /\ c # Null /\ Start <= c /\ c \in Links
  BY AddrIs, Zenon
<1>2. first \in S \cup {Null} /\ first \in Links
  BY <1>1, Zenon DEF Chained, After, Links
<1>3. \A d \in S : first # Null /\ first <= d
  BY <1>1, HeapNumbers DEF Chained, After
<1>4. first # Null => Start + Align * (1 - 1) <= first
  BY <1>1, <1>2, HeapNumbers
<1> DEFINE s == <<first>>
<1>5. s \in Seq(Links) /\ Len(s) = 1 /\ s[1] = first
  BY <1>2
<1> HIDE DEF s
<1>6. OnWay(s, S, nx, first, 0)
  BY <1>2, <1>3, <1>4, <1>5 DEF OnWay
<1> QED BY <1>6, Zenon DEF s

\* One turn of a walk goes to the next block, or stays at the end.
LEMMA WayStep ==
    ASSUME NEW D, D \subseteq Addr, NEW S, S \subseteq D, NEW nx \in [D -> Links], NEW first,
           Chained(S, nx, first), NEW k \in Nat, NEW s, OnWay(s, S, nx, first, k),
           NEW t, t = IF s[Len(s)] \notin D THEN s ELSE Append(s, nx[s[Len(s)]])
    PROVE  OnWay(t, S, nx, first, k + 1)
<1> DEFINE n == Len(s)
           c == s[n]
           m == nx[c]
<1>1. \A d \in S : d \in Addr /\ d \in Nat /\ d # Null /\ d \in D
  BY AddrIs, Zenon
<1>2. Null \notin D
  BY AddrIs, Zenon
<1>3. s \in Seq(Links) /\ n \in Nat /\ 1 <= n /\ n <= k + 1 /\ s[1] = first
  BY DEF OnWay
<1>4. CASE c = Null
  <2>1. t = s /\ n \in 1 .. (k + 1 + 1)
    BY <1>2, <1>3, <1>4
  <2> QED BY <1>4, <2>1, Zenon DEF OnWay
<1>5. CASE c # Null
  <2>1. c \in S /\ c \in D /\ n = k + 1 /\ Start + Align * (n - 1) <= c
    BY <1>1, <1>5, Zenon DEF OnWay
  <2>2. After(S, c, m) /\ m \in S \cup {Null} /\ m \in Links
    <3>1. After(S, c, m)
      BY <2>1, Zenon DEF Chained
    <3> QED BY <2>1, <3>1, Zenon DEF After
  <2>3. t = Append(s, m)
    BY <2>1, Zenon
  <2> HIDE DEF m
  <2>4. /\ t \in Seq(Links) /\ Len(t) = n + 1 /\ t[n + 1] = m
        /\ \A i \in 1 .. n : t[i] = s[i]
    BY <1>3, <2>2, <2>3
  <2>5. t[1] = first /\ Len(t) \in 1 .. (k + 1 + 1) /\ Len(t) = k + 1 + 1
    BY <1>3, <2>1, <2>4
  <2>6. ASSUME NEW i \in 1 .. (Len(t) - 1) PROVE t[i] \in S /\ t[i + 1] = nx[t[i]]
    <3>1. i \in 1 .. n
      BY <1>3, <2>4
    <3>2. CASE i = n
      BY <1>3, <2>1, <2>4, <3>1, <3>2, Zenon DEF m
    <3>3. CASE i # n
      <4>1. i \in 1 .. (n - 1) /\ i + 1 \in 1 .. n
        BY <1>3, <3>1, <3>3
      <4>2. s[i] \in S /\ s[i + 1] = nx[s[i]]
        BY <4>1, Zenon DEF OnWay
      <4> QED BY <2>4, <3>1, <4>1, <4>2, Zenon
    <3> QED BY <3>2, <3>3, Zenon
  <2>7. m # Null => Start + Align * (Len(t) - 1) <= m
    <3> SUFFICES ASSUME m # Null PROVE Start + Align * (Len(t) - 1) <= m
      BY Zenon
    <3>1. m \in S /\ c < m
      BY <2>2, Zenon DEF After
    <3>2. c \in Int /\ m \in Int /\ c % Align = 0 /\ m % Align = 0
      BY <1>1, <2>1, <3>1, AddrIs
    <3>3. c + Align <= m
      BY <3>1, <3>2, Aligned, Zenon
    <3>4. Align * n = Align * (n - 1) + Align /\ Align * (n - 1) \in Int /\ Align * n \in Int
      BY <1>3, HeapNumbers, Z3
    <3>5. Len(t) - 1 = n
      BY <1>3, <2>4
    <3>6. Start + Align * n <= m
      <4> DEFINE x == Align * (n - 1)
                 y == Align * n
      <4>1. y = x + Align /\ x \in Int /\ y \in Int /\ Start + x <= c
        BY <2>1, <3>4, Zenon
      <4> HIDE DEF x, y, c
      <4>2. Start + y <= m
        BY <3>2, <3>3, <4>1, HeapNumbers
      <4> QED BY <4>2, Zenon DEF y
    <3> QED BY <3>5, <3>6, Zenon
  <2>8. ASSUME NEW d \in S
        PROVE  (\E i \in 1 .. (Len(t) - 1) : d = t[i]) \/ (m # Null /\ m <= d)
    <3>1. CASE \E i \in 1 .. (n - 1) : d = s[i]
      <4>1. PICK i \in 1 .. (n - 1) : d = s[i]
        BY <3>1, Zenon
      <4>2. i \in 1 .. n /\ i \in 1 .. (Len(t) - 1)
        BY <1>3, <2>4
      <4> QED BY <2>4, <4>1, <4>2, Zenon
    <3>2. CASE d = c
      <4>1. n \in 1 .. n /\ n \in 1 .. (Len(t) - 1)
        BY <1>3, <2>4
      <4> QED BY <2>4, <3>2, <4>1, Zenon
    <3>3. CASE c < d
      BY <1>1, <2>1, <2>2, <3>3 DEF After
    <3>4. c <= d \/ \E i \in 1 .. (n - 1) : d = s[i]
      BY Zenon DEF OnWay
    <3> QED BY <1>1, <2>1, <3>1, <3>2, <3>3, <3>4
  <2> QED BY <2>2, <2>4, <2>5, <2>6, <2>7, <2>8, Zenon DEF OnWay
<1> QED BY <1>4, <1>5, Zenon

\* The walk is over within heap_max_walks steps.
LEMMA WayEnds ==
    ASSUME NEW S, S \subseteq Addr, NEW nx, NEW first, NEW s,
           OnWay(s, S, nx, first, MaxWalks)
    PROVE  s[Len(s)] = Null
<1> SUFFICES ASSUME s[Len(s)] # Null PROVE FALSE
  BY Zenon
<1> DEFINE q == HeapSize \div Align
           c == s[Len(s)]
<1>1. q \in Nat /\ HeapSize < Align * q + Align /\ Align * q \in Nat
  BY HeapNumbers, DivIs
<1>2. MaxWalks = q + 1
  BY Zenon DEF MaxWalks
<1>3. c \in Addr /\ Len(s) = q + 1 + 1 /\ Start + Align * (Len(s) - 1) <= c
  BY <1>2, Zenon DEF OnWay
<1>4. c \in Nat /\ c < HeapEnd
  BY <1>3, AddrIs, Zenon
<1> HIDE DEF c, q
<1>5. Align * (Len(s) - 1) = Align * q + Align
  BY <1>1, <1>3, HeapNumbers, Z3
<1> QED BY <1>1, <1>3, <1>4, <1>5, HeapNumbers

\* s is S in the order of addresses, found along nx from first.
Lists(s, S, nx, first) ==
    /\ s \in Seq(S) /\ Len(s) <= MaxWalks
    /\ \A d \in S : \E i \in 1 .. Len(s) : d = s[i]
    /\ \A i \in 1 .. (Len(s) - 1) : s[i + 1] = nx[s[i]]
    /\ Len(s) # 0 => s[1] = first /\ nx[s[Len(s)]] = Null

\* The walks of heap_check_integrity
LEMMA WalkIs ==
    ASSUME NEW h, NEW D, D = DOMAIN h.blk, D \subseteq Addr, NEW S, S \subseteq D,
           NEW next, NEW nx \in [D -> Links], \A c \in D : nx[c] = h.blk[c][next],
           NEW first, Chained(S, nx, first)
    PROVE  Lists(Walk(h, first, next), S, nx, first)
<1> DEFINE Step(s) == IF s[Len(s)] \notin D THEN s ELSE Append(s, nx[s[Len(s)]])
           Turn(s) == LET c == s[Len(s)]
                      IN  IF c \notin DOMAIN h.blk THEN s ELSE Append(s, h.blk[c][next])
           Def(w) == [k \in 0 .. MaxWalks |->
                         IF k = 0 THEN <<first>> ELSE Turn(w[k - 1])]
           w == CHOOSE w : w = Def(w)
           full == w[MaxWalks]
<1>0. MaxWalks \in Nat
  BY HeapNumbers, DivIs DEF MaxWalks
<1>1. \A s : Turn(s) = Step(s)
  BY Zenon
<1>2. Walk(h, first, next)
         = IF full[Len(full)] = Null THEN SubSeq(full, 1, Len(full) - 1) ELSE full
  BY Zenon DEF Walk
<1>3. \E v : v = Def(v)
  <2> DEFINE Q == Seq(Links) \ {<<>>}
             F == [s \in Q |-> Step(s)]
  <2>1. \A s \in Q : Step(s) \in Q
    <3> TAKE s \in Q
    <3>1. CASE s[Len(s)] \in D
      <4>1. nx[s[Len(s)]] \in Links
        BY <3>1, Zenon
      <4>2. Append(s, nx[s[Len(s)]]) \in Q
        BY <4>1
      <4> QED BY <3>1, <4>2, Zenon
    <3>2. CASE s[Len(s)] \notin D
      BY <3>2, Zenon
    <3> QED BY <3>1, <3>2, Zenon
  <2>2. F \in [Q -> Q]
    BY <2>1, Zenon
  <2>3. first \in Links
    BY AddrIs, Zenon DEF Chained, After, Links
  <2>4. <<first>> \in Q
    BY <2>3
  <2>5. \A s \in Q : F[s] = Turn(s)
    BY <1>1, Zenon
  <2> HIDE DEF F, Q, Turn
  <2> DEFINE e == <<first>>
  <2>6. e \in Q /\ e = <<first>>
    BY <2>4, Zenon
  <2> HIDE DEF e
  <2>7. PICK v : Repeated(v, Q, e, F, MaxWalks)
    BY <1>0, <2>2, <2>6, RepeatedExists, Zenon
  <2>8. ASSUME NEW k \in 0 .. MaxWalks, k # 0 PROVE v[k] = Turn(v[k - 1])
    <3>1. k - 1 \in 0 .. MaxWalks
      BY <1>0, <2>8
    <3> QED BY <2>5, <2>7, <2>8, <3>1, Zenon DEF Repeated
  <2>9. v = [k \in 0 .. MaxWalks |-> v[k]] /\ v[0] = e
    BY <2>7, Zenon DEF Repeated
  <2>10. v = Def(v)
    BY <2>6, <2>8, <2>9, Zenon
  <2> QED BY <2>10, Zenon
<1>4. w = Def(w)
  <2> HIDE DEF Def
  <2> QED BY <1>3, Zenon
<1> HIDE DEF w
<1>5. w[0] = <<first>> /\ \A k \in Nat : k + 1 <= MaxWalks => w[k + 1] = Turn(w[k])
  <2> HIDE DEF Turn
  <2>1. w[0] = <<first>>
    BY <1>0, <1>4
  <2>2. ASSUME NEW k \in Nat, k + 1 <= MaxWalks PROVE w[k + 1] = Turn(w[k])
    <3>1. k + 1 \in 0 .. MaxWalks /\ k + 1 # 0 /\ (k + 1) - 1 = k
      BY <1>0, <2>2
    <3> QED BY <1>4, <3>1, Zenon
  <2> QED BY <2>1, <2>2, Zenon
<1>6. OnWay(full, S, nx, first, MaxWalks)
  <2> DEFINE T == {k \in Nat : k <= MaxWalks => OnWay(w[k], S, nx, first, k)}
  <2>1. 0 \in T
    BY <1>5, WayStart, Zenon
  <2>2. ASSUME NEW k \in Nat, k \in T PROVE k + 1 \in T
    <3> SUFFICES ASSUME k + 1 <= MaxWalks PROVE OnWay(w[k + 1], S, nx, first, k + 1)
      OBVIOUS
    <3>1. OnWay(w[k], S, nx, first, k)
      BY <1>0, <2>2
    <3>2. w[k + 1] = Step(w[k])
      BY <1>1, <1>5, Zenon
    <3> QED BY <3>1, <3>2, WayStep, Zenon
  <2>3. Nat \subseteq T
    <3> HIDE DEF T
    <3> QED BY <2>1, <2>2, SetInduction, Zenon
  <2> QED BY <1>0, <2>3
<1>7. full[Len(full)] = Null
  BY <1>6, WayEnds, Zenon
<1> HIDE DEF full
<1> DEFINE n == Len(full) - 1
           s == SubSeq(full, 1, n)
<1>8. /\ n \in Nat /\ n <= MaxWalks /\ full[1] = first /\ full[n + 1] = Null
      /\ \A i \in 1 .. n : full[i] \in S /\ full[i + 1] = nx[full[i]]
      /\ \A d \in S : \E i \in 1 .. n : d = full[i]
  <2>1. Len(full) \in 1 .. (MaxWalks + 1) /\ full[1] = first
    BY <1>6, Zenon DEF OnWay
  <2>2. n \in Nat /\ n <= MaxWalks /\ n + 1 = Len(full)
    BY <1>0, <2>1
  <2>3. /\ \A i \in 1 .. n : full[i] \in S /\ full[i + 1] = nx[full[i]]
        /\ \A d \in S : \E i \in 1 .. n : d = full[i]
    BY <1>6, <1>7, Zenon DEF OnWay
  <2> QED BY <1>7, <2>1, <2>2, <2>3, Zenon
<1>9. Walk(h, first, next) = s
  BY <1>2, <1>7, Zenon
<1> HIDE DEF n
<1>10. s \in Seq(S) /\ Len(s) = n /\ \A i \in 1 .. n : s[i] = full[i]
  <2>1. \A i \in 1 .. n : full[i] \in S
    BY <1>8, Zenon
  <2>2. 1 \in Int /\ n \in Int /\ n - 1 + 1 = n /\ (1 <= n \/ n = 0)
    BY <1>8
  <2>3. /\ s \in Seq(S) /\ Len(s) = IF 1 <= n THEN n - 1 + 1 ELSE 0
        /\ \A i \in 1 .. (n - 1 + 1) : s[i] = full[1 + i - 1]
    BY <2>1, <2>2
  <2>4. Len(s) = n
    BY <2>2, <2>3, Zenon
  <2>5. \A i \in 1 .. n : s[i] = full[i]
    BY <2>2, <2>3
  <2> QED BY <2>3, <2>4, <2>5, Zenon
<1> HIDE DEF s
<1>11. \A i \in 1 .. (n - 1) : i \in 1 .. n /\ i + 1 \in 1 .. n
  BY <1>8
<1>12. n # 0 => 1 \in 1 .. n /\ n \in 1 .. n
  BY <1>8
<1>13. \A d \in S : \E i \in 1 .. n : d = s[i]
  BY <1>8, <1>10
<1>14. \A i \in 1 .. (n - 1) : s[i + 1] = nx[s[i]]
  BY <1>8, <1>10, <1>11, Zenon
<1>15. n # 0 => s[1] = first /\ nx[s[n]] = Null
  BY <1>8, <1>10, <1>12, Zenon
<1>16. Lists(s, S, nx, first)
  BY <1>8, <1>10, <1>13, <1>14, <1>15, Zenon DEF Lists
<1> QED BY <1>9, <1>16, Zenon

\* The blocks of a walk ascend, and each has the one before it behind it.
LEMMA ListsOrder ==
    ASSUME NEW S, S \subseteq Addr, NEW nx, NEW first, NEW s, Lists(s, S, nx, first),
           Chained(S, nx, first)
    PROVE  /\ \A i \in 1 .. Len(s) : Preceding(S, s[i], Before(s, i))
           /\ \A i, j \in 1 .. Len(s) : i < j => s[i] < s[j]
<1>1. Len(s) \in Nat /\ \A i \in 1 .. Len(s) : s[i] \in S /\ s[i] \in Nat /\ s[i] # Null
  BY AddrIs DEF Lists
<1>2. \A c \in S : c \in Nat \ {0} /\ c # Null
  BY AddrIs, Zenon
<1>3. ASSUME NEW i \in 1 .. Len(s), i # 1
      PROVE  i - 1 \in 1 .. Len(s) /\ After(S, s[i - 1], s[i]) /\ s[i - 1] < s[i]
  <2>1. i - 1 \in 1 .. (Len(s) - 1) /\ i - 1 \in 1 .. Len(s) /\ (i - 1) + 1 = i
    BY <1>1, <1>3
  <2>2. s[i] = nx[s[i - 1]]
    BY <2>1, Zenon DEF Lists
  <2>3. After(S, s[i - 1], s[i])
    BY <1>1, <2>1, <2>2, Zenon DEF Chained
  <2>4. s[i - 1] < s[i]
    BY <1>1, <2>3, Zenon DEF After
  <2> QED BY <2>1, <2>3, <2>4, Zenon
<1>4. ASSUME NEW i \in 1 .. Len(s) PROVE Preceding(S, s[i], Before(s, i))
  <2>1. CASE i = 1
    <3>1. s[1] = first /\ first \in S
      BY <1>1, <2>1 DEF Lists
    <3>2. \A c \in S : first <= c
      BY <1>2, <3>1, HeapNumbers DEF Chained, After
    <3> QED BY <2>1, <3>1, <3>2, Zenon DEF Preceding, Before
  <2>2. CASE i # 1
    <3>1. i - 1 \in 1 .. Len(s) /\ After(S, s[i - 1], s[i])
      BY <1>3, <2>2, Zenon
    <3>2. s[i - 1] \in S /\ s[i - 1] \in Nat /\ s[i] # Null /\ Before(s, i) = s[i - 1]
      BY <1>1, <2>2, <3>1, Zenon DEF Before
    <3>3. S \subseteq Nat \ {0}
      BY <1>2, Zenon
    <3>4. Preceding(S, s[i], s[i - 1])
      <4> DEFINE x == s[i - 1]
                 y == s[i]
      <4>1. x \in S /\ x \in Nat /\ y # Null /\ After(S, x, y)
        BY <3>1, <3>2, Zenon
      <4> HIDE DEF x, y
      <4>2. Preceding(S, y, x)
        BY <3>3, <4>1, OrderUnique, Zenon
      <4> QED BY <4>2, Zenon DEF x, y
    <3> QED BY <3>2, <3>4, Zenon
  <2> QED BY <2>1, <2>2, Zenon
<1>5. ASSUME NEW i \in 1 .. Len(s), NEW j \in 1 .. Len(s), i < j PROVE s[i] < s[j]
  <2> DEFINE T == {k \in Nat : i + 1 + k <= Len(s) => s[i] < s[i + 1 + k]}
  <2>0. i \in Nat /\ j \in Nat /\ 1 <= i /\ j <= Len(s)
    BY <1>1
  <2>1. 0 \in T
    <3> SUFFICES ASSUME i + 1 <= Len(s) PROVE s[i] < s[i + 1]
      BY <2>0
    <3>1. i + 1 \in 1 .. Len(s) /\ i + 1 # 1 /\ (i + 1) - 1 = i
      BY <1>1, <2>0
    <3> QED BY <1>3, <3>1, Zenon
  <2>2. ASSUME NEW k \in Nat, k \in T PROVE k + 1 \in T
    <3> DEFINE m == i + 1 + k
    <3>1. m \in Nat /\ i + 1 + (k + 1) = m + 1 /\ 1 <= m
      BY <2>0
    <3> SUFFICES ASSUME m + 1 <= Len(s) PROVE s[i] < s[m + 1]
      BY <3>1
    <3>2. m <= Len(s) => s[i] < s[m]
      BY <2>2, Zenon
    <3> HIDE DEF m, T
    <3>3. /\ m <= Len(s) /\ m \in 1 .. Len(s) /\ m + 1 \in 1 .. Len(s) /\ m + 1 # 1
          /\ (m + 1) - 1 = m
      BY <1>1, <3>1
    <3>4. s[m] < s[m + 1]
      BY <1>3, <3>3, Zenon
    <3>5. s[m] \in Nat /\ s[m + 1] \in Nat /\ s[i] \in Nat
      BY <1>1, <3>3, Zenon
    <3> QED BY <3>2, <3>3, <3>4, <3>5
  <2>3. Nat \subseteq T
    <3> HIDE DEF T
    <3> QED BY <2>1, <2>2, SetInduction, Zenon
  <2>4. j - i - 1 \in Nat /\ i + 1 + (j - i - 1) = j
    BY <1>5, <2>0
  <2>5. j - i - 1 \in T
    BY <2>3, <2>4, Zenon
  <2> QED BY <2>0, <2>4, <2>5, Zenon
<1> QED BY <1>4, <1>5, Zenon

\* A walk meets as many blocks as there are.
LEMMA ListsCount ==
    ASSUME NEW S, S \subseteq Addr, NEW nx, NEW first, NEW s, Lists(s, S, nx, first),
           Chained(S, nx, first)
    PROVE  Range(s) = S /\ ExistsBijection(DOMAIN s, S)
<1>1. Len(s) \in Nat /\ s \in [1 .. Len(s) -> S] /\ DOMAIN s = 1 .. Len(s)
  BY DEF Lists
<1>2. \A d \in S : \E i \in 1 .. Len(s) : d = s[i]
  BY Zenon DEF Lists
<1>3. Range(s) = S
  BY <1>1, <1>2, Zenon DEF Range
<1>4. \A i, j \in 1 .. Len(s) : s[i] = s[j] => i = j
  <2> TAKE i, j \in 1 .. Len(s)
  <2>1. i \in Nat /\ j \in Nat /\ s[i] \in Nat /\ s[j] \in Nat
    BY <1>1, AddrIs
  <2>2. (i < j => s[i] < s[j]) /\ (j < i => s[j] < s[i])
    BY ListsOrder, Zenon
  <2> QED BY <2>1, <2>2
<1>5. s \in Bijection(1 .. Len(s), S)
  BY <1>1, <1>2, <1>4, Zenon DEF Bijection, Injection, Surjection, IsInjective
<1>6. ExistsBijection(1 .. Len(s), S)
  BY <1>5, Zenon DEF ExistsBijection
<1> QED BY <1>1, <1>3, <1>6, Zenon

\* A heap in order passes the checks of heap_check_integrity_internal.
LEMMA GoodPasses ==
    ASSUME NEW h, NEW D, D = DOMAIN h.blk, Good(h, D)
    PROVE  Integrity(h)
<1> DEFINE F == FreeOf(h, D)
           np == [c \in D |-> h.blk[c].next_phys]
           nf == [c \in D |-> h.blk[c].next_free]
           phys == Walk(h, h.first, "next_phys")
           free == Walk(h, h.list, "next_free")
           holes == {b \in Range(phys) : h.blk[b].free}
<1>1. /\ D \subseteq Addr /\ h \in HeapOn(D) /\ Tiled(h, D) /\ Listed(h, F) /\ Apart(h, D)
      /\ F \subseteq D /\ \A c \in F : h.blk[c].free
  BY Zenon DEF Good, FreeOf
<1>2. \A c \in D : /\ h.blk[c].next_phys \in Links /\ h.blk[c].next_free \in Links
                   /\ c \in Nat /\ c # Null /\ c > Null /\ Start <= c
  BY <1>1, AddrIs, Zenon DEF HeapOn, Blocks
<1>3. Chained(D, np, h.first)
  <2>1. After(D, Null, h.first)
    BY <1>1, <1>2, HeapNumbers, Zenon DEF Tiled, After
  <2> QED BY <1>1, <2>1, Zenon DEF Tiled, Chained
<1>4. Chained(F, nf, h.list)
  BY <1>1, Zenon DEF Listed, Chained
<1>5. Lists(phys, D, np, h.first)
  <2>1. np \in [D -> Links] /\ \A c \in D : np[c] = h.blk[c]["next_phys"]
    BY <1>2, Zenon
  <2> HIDE DEF np
  <2> QED BY <1>1, <1>3, <2>1, WalkIs, Zenon
<1>6. Lists(free, F, nf, h.list)
  <2>1. nf \in [D -> Links] /\ \A c \in D : nf[c] = h.blk[c]["next_free"]
    BY <1>2, Zenon
  <2> HIDE DEF nf, F
  <2> QED BY <1>1, <1>4, <2>1, WalkIs, Zenon
<1>7. /\ \A i \in 1 .. Len(phys) : Preceding(D, phys[i], Before(phys, i))
      /\ Range(phys) = D
  <2> HIDE DEF np, phys
  <2> QED BY <1>1, <1>3, <1>5, ListsOrder, ListsCount, Zenon
<1>8. /\ \A i \in 1 .. Len(free) : Preceding(F, free[i], Before(free, i))
      /\ \A i, j \in 1 .. Len(free) : i < j => free[i] < free[j]
      /\ Range(free) = F /\ ExistsBijection(DOMAIN free, F)
  <2>1. F \subseteq Addr
    BY <1>1, Zenon
  <2> HIDE DEF nf, free, F
  <2> QED BY <1>4, <1>6, <2>1, ListsOrder, ListsCount, Zenon
<1>9. /\ Len(phys) \in Nat /\ Len(phys) <= MaxWalks
      /\ \A i \in 1 .. Len(phys) : phys[i] \in D
      /\ \A i \in 1 .. (Len(phys) - 1) : phys[i + 1] = h.blk[phys[i]].next_phys
      /\ Len(phys) # 0
      /\ phys[1] = Start /\ h.blk[phys[Len(phys)]].next_phys = Null
  <2> HIDE DEF phys
  <2>1. Start \in D /\ h.first = Start
    BY <1>1, Zenon DEF Tiled
  <2>2. /\ Len(phys) \in Nat /\ Len(phys) <= MaxWalks
        /\ \A i \in 1 .. Len(phys) : phys[i] \in D
    BY <1>5 DEF Lists
  <2>3. Len(phys) # 0
    BY <1>5, <2>1 DEF Lists
  <2>4. \A i \in 1 .. (Len(phys) - 1) : i \in 1 .. Len(phys)
    BY <2>2
  <2>5. Len(phys) \in 1 .. Len(phys)
    BY <2>2, <2>3
  <2> QED BY <1>5, <2>1, <2>2, <2>3, <2>4, <2>5, Zenon DEF Lists
<1>10. /\ Len(free) \in Nat /\ Len(free) <= MaxWalks
       /\ \A i \in 1 .. Len(free) : free[i] \in F /\ free[i] \in D
  <2> HIDE DEF free
  <2> QED BY <1>1, <1>6 DEF Lists
<1>11. holes = F
  BY <1>7, Zenon DEF FreeOf
<1>12. Integrity(h) =
          /\ h.first # Null
          /\ Len(phys) <= MaxWalks /\ Len(free) <= MaxWalks
          /\ \A i \in 1 .. Len(phys) :
                /\ Sane(h, phys[i])
                /\ phys[i] = IF i = 1 THEN Start ELSE End(h, phys[i - 1])
                /\ h.blk[phys[i]].prev_phys = Before(phys, i)
          /\ End(h, phys[Len(phys)]) = HeapEnd
          /\ \A i \in 1 .. (Len(phys) - 1) :
                ~(h.blk[phys[i]].free /\ h.blk[phys[i + 1]].free)
          /\ \A i \in 1 .. Len(free) :
                /\ Sane(h, free[i]) /\ h.blk[free[i]].free
                /\ h.blk[free[i]].prev_free = Before(free, i)
                /\ Before(free, i) < free[i]
          /\ ExistsBijection(DOMAIN free, holes)
          /\ holes \subseteq Range(free)
  BY Zenon DEF Integrity
<1> HIDE DEF phys, free, holes, np, nf, F
<1>13. \A c \in D : Sane(h, c)
  BY <1>1, GoodSane, Zenon
<1>14. ASSUME NEW i \in 1 .. Len(phys), i # 1
       PROVE  i - 1 \in 1 .. (Len(phys) - 1) /\ phys[i] = h.blk[phys[i - 1]].next_phys
  <2>1. i - 1 \in 1 .. (Len(phys) - 1) /\ (i - 1) + 1 = i
    BY <1>9, <1>14
  <2> QED BY <1>9, <2>1, Zenon
<1>15. ASSUME NEW i \in 1 .. Len(phys)
       PROVE  phys[i] = IF i = 1 THEN Start ELSE End(h, phys[i - 1])
  <2>1. CASE i = 1
    BY <1>9, <2>1, Zenon
  <2>2. CASE i # 1
    <3>1. i - 1 \in 1 .. (Len(phys) - 1) /\ phys[i] = h.blk[phys[i - 1]].next_phys
      BY <1>14, <2>2, Zenon
    <3>2. i - 1 \in 1 .. Len(phys)
      BY <1>9, <3>1
    <3>3. phys[i - 1] \in D /\ phys[i] \in D /\ phys[i] # Null
      BY <1>2, <1>9, <3>2, Zenon
    <3>4. End(h, phys[i - 1]) = phys[i]
      BY <1>1, <3>1, <3>3, Zenon DEF Tiled
    <3> QED BY <2>2, <3>4, Zenon
  <2> QED BY <2>1, <2>2, Zenon
<1>16. D \subseteq Nat \ {0} /\ F \subseteq Nat \ {0}
  BY <1>1, <1>2, HeapNumbers, Zenon
<1>17. ASSUME NEW i \in 1 .. Len(phys) PROVE h.blk[phys[i]].prev_phys = Before(phys, i)
  <2>1. Preceding(D, phys[i], Before(phys, i)) /\ phys[i] \in D /\ phys[i] \in Nat
    BY <1>2, <1>7, <1>9, Zenon
  <2>2. Preceding(D, phys[i], h.blk[phys[i]].prev_phys)
    BY <1>1, <2>1, Zenon DEF Tiled
  <2> DEFINE x == phys[i]
             y == Before(phys, i)
             z == h.blk[phys[i]].prev_phys
  <2>3. x \in Nat /\ Preceding(D, x, y) /\ Preceding(D, x, z)
    BY <2>1, <2>2, Zenon
  <2> HIDE DEF x, y, z
  <2>4. z = y
    BY <1>16, <2>3, OrderUnique, Zenon
  <2> QED BY <2>4, Zenon DEF x, y, z
<1>18. End(h, phys[Len(phys)]) = HeapEnd
  <2>1. Len(phys) \in 1 .. Len(phys)
    BY <1>9
  <2> QED BY <1>1, <1>9, <2>1, Zenon DEF Tiled
<1>19. ASSUME NEW i \in 1 .. (Len(phys) - 1)
       PROVE  ~(h.blk[phys[i]].free /\ h.blk[phys[i + 1]].free)
  <2>1. i \in 1 .. Len(phys) /\ i + 1 \in 1 .. Len(phys)
    BY <1>9
  <2>2. phys[i] \in D /\ phys[i + 1] = h.blk[phys[i]].next_phys /\ phys[i + 1] # Null
    BY <1>2, <1>9, <2>1, Zenon
  <2> QED BY <1>1, <2>2, Zenon DEF Apart
<1>20. ASSUME NEW i \in 1 .. Len(free)
       PROVE  /\ Sane(h, free[i]) /\ h.blk[free[i]].free
              /\ h.blk[free[i]].prev_free = Before(free, i)
              /\ Before(free, i) < free[i]
  <2>1. /\ Preceding(F, free[i], Before(free, i)) /\ free[i] \in F /\ free[i] \in D
        /\ free[i] \in Nat /\ free[i] > Null
    BY <1>2, <1>8, <1>10, Zenon
  <2>2. Preceding(F, free[i], h.blk[free[i]].prev_free)
    BY <1>1, <2>1, Zenon DEF Listed
  <2>3. h.blk[free[i]].prev_free = Before(free, i)
    <3> DEFINE x == free[i]
               y == Before(free, i)
               z == h.blk[free[i]].prev_free
    <3>1. x \in Nat /\ Preceding(F, x, y) /\ Preceding(F, x, z)
      BY <2>1, <2>2, Zenon
    <3> HIDE DEF x, y, z
    <3>2. z = y
      BY <1>16, <3>1, OrderUnique, Zenon
    <3> QED BY <3>2, Zenon DEF x, y, z
  <2>4. Before(free, i) < free[i]
    BY <2>1, HeapNumbers, Zenon DEF Preceding
  <2> QED BY <1>1, <1>13, <2>1, <2>3, <2>4, Zenon
<1>21. h.first # Null
  BY <1>1, <1>2, Zenon DEF Tiled
<1>22. ExistsBijection(DOMAIN free, holes) /\ holes \subseteq Range(free)
  BY <1>8, <1>11, Zenon
<1>23. \A i \in 1 .. Len(phys) : Sane(h, phys[i])
  BY <1>9, <1>13, Zenon
<1> QED
  BY <1>9, <1>10, <1>12, <1>15, <1>17, <1>18, <1>19, <1>20, <1>21, <1>22, <1>23, Zenon

\* The invariant gives the types.
LEMMA HeapTypes == HeapInv => TypeOK
<1> SUFFICES ASSUME HeapInv PROVE TypeOK
  BY Zenon
<1>1. /\ ready \in BOOLEAN
      /\ errors \subseteq {"invalid_free", "double_free", "corruption",
                           "integrity", "selftest", "reuse", "mismatch"}
      /\ test # NoTest => /\ ready /\ test.todo # <<>>
                          /\ test.ptr \in [TestNames -> Addr \cup {Null}]
  BY Zenon DEF HeapInv, ErrorNames, TestOk, Links
<1>2. CASE ~ready
  <2>1. heap = [first |-> Null, list |-> Null, blk |-> <<>>] /\ DOMAIN live = {}
    BY <1>2, Zenon DEF HeapInv
  <2>2. heap.first \in Links /\ heap.list \in Links /\ DOMAIN heap.blk = {}
    BY <2>1 DEF Links
  <2> QED BY <1>1, <2>1, <2>2, Zenon DEF TypeOK
<1>3. CASE ready
  <2> DEFINE D == DOMAIN heap.blk
  <2>1. D \subseteq Addr /\ heap \in HeapOn(D) /\ LiveOn(heap, live)
    BY <1>3, Zenon DEF HeapInv, Good
  <2>2. heap.first \in Links /\ heap.list \in Links /\ \A b \in D : heap.blk[b] \in Blocks
    BY <2>1, Zenon DEF HeapOn
  <2>3. ASSUME NEW p \in DOMAIN live PROVE p \in Addr /\ live[p] \in 0 .. HeapSize
    <3>1. /\ p \in Addr /\ p - Header \in D
          /\ live[p] \in Nat /\ live[p] <= heap.blk[p - Header].size
      BY <2>1, Zenon DEF LiveOn
    <3>2. heap.blk[p - Header].size \in 0 .. HeapSize
      BY <2>2, <3>1, Zenon DEF Blocks
    <3> QED BY <3>1, <3>2, HeapNumbers
  <2> QED BY <1>1, <2>1, <2>2, <2>3, Zenon DEF TypeOK
<1> QED BY <1>1, <1>2, <1>3, Zenon

\* The heap passes heap_check_integrity at all times, whatever is allocated and freed
\* and whatever pointers kfree is given: for every region, header and request.
THEOREM HeapIntact == Spec => []AlwaysIntact
<1>1. HeapInv => AlwaysIntact
  BY HeapTypes, GoodPasses, Zenon DEF HeapInv, AlwaysIntact
<1> QED BY <1>1, HeapInvAlways, PTL
=============================================================================
