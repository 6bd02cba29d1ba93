-------------------------- MODULE HeapBlockProofs --------------------------
(***************************************************************************)
(* The heap's list operations, for every region, header size and alignment:*)
(* what the helpers of core/heap.c (linking and unlinking a free block,    *)
(* splitting, merging, and the searches) make of a heap that is in order.  *)
(*                                                                         *)
(* A heap is in order when its blocks tile the region, the free list holds *)
(* exactly the free blocks in the order of their addresses, and no two     *)
(* free blocks touch.  Order in a linked list is stated for the set of its *)
(* members: each link points to the next higher member (After), each back  *)
(* link to the next lower one (Preceding).  That makes removing, inserting,*)
(* splitting and merging facts about sets of numbers.                      *)
(***************************************************************************)
EXTENDS Heap, Arithmetic, TLAPS

-----------------------------------------------------------------------------
(* A heap in order *)

\* n comes next after b in the set F, which is in the order of addresses; Null
\* stands before and after all.
After(F, b, n) ==
    \/ n = Null /\ \A c \in F : c <= b
    \/ n \in F /\ b < n /\ \A c \in F : b < c => n <= c

Preceding(F, b, p) ==
    \/ p = Null /\ \A c \in F : b <= c
    \/ p \in F /\ p < b /\ \A c \in F : c < b => c <= p

HeapOn(D) == [first : Links, list : Links, blk : [D -> Blocks]]

\* The blocks of D tile the region.
Tiled(h, D) ==
    /\ Start \in D
    /\ h.first = Start
    /\ \A b \in D :
          /\ h.blk[b].size % Align = 0
          /\ After(D, b, h.blk[b].next_phys)
          /\ Preceding(D, b, h.blk[b].prev_phys)
          /\ End(h, b) = IF h.blk[b].next_phys = Null THEN HeapEnd ELSE h.blk[b].next_phys

\* The free list holds the blocks of F; the others have no link.
Listed(h, F) ==
    /\ After(F, Null, h.list)
    /\ \A b \in F : /\ After(F, b, h.blk[b].next_free)
                    /\ Preceding(F, b, h.blk[b].prev_free)
    /\ \A b \in DOMAIN h.blk \ F : h.blk[b].next_free = Null

FreeOf(h, D) == {b \in D : h.blk[b].free}

Apart(h, D) ==
    \A b \in D : h.blk[b].free /\ h.blk[b].next_phys # Null =>
                     ~h.blk[h.blk[b].next_phys].free

Good(h, D) ==
    /\ D \subseteq Addr
    /\ h \in HeapOn(D)
    /\ Tiled(h, D)
    /\ Listed(h, FreeOf(h, D))
    /\ Apart(h, D)

-----------------------------------------------------------------------------
(* Addresses *)

\* The constants of the region, and its end
LEMMA HeapNumbers ==
    /\ Word \in Nat \ {0} /\ Align \in Nat \ {0} /\ Header \in Nat \ {0}
    /\ Start \in Nat \ {0} /\ HeapSize \in Nat \ {0} /\ Header < HeapSize
    /\ Header % Align = 0 /\ Start % Align = 0 /\ HeapSize % Align = 0
    /\ HeapEnd \in Nat /\ HeapEnd = Start + HeapSize /\ HeapEnd < Word
    /\ Null = 0
BY HeapAssumption DEF HeapEnd, Null

\* What is aligned stays so in sums and differences, and lies at least a step
\* apart.
LEMMA Aligned ==
    ASSUME NEW x \in Int, NEW y \in Int, x % Align = 0, y % Align = 0
    PROVE  /\ (x + y) % Align = 0
           /\ (x - y) % Align = 0
           /\ x < y => x + Align <= y
<1>1. PICK p \in Int : x = Align * p + (x % Align)
  BY HeapNumbers, ModSplit, Zenon
<1>2. PICK q \in Int : y = Align * q + (y % Align)
  BY HeapNumbers, ModSplit, Zenon
<1>3. Align * p \in Int /\ Align * q \in Int /\ x = Align * p /\ y = Align * q
  BY <1>1, <1>2, HeapNumbers
<1>4. x + y = Align * (p + q) + 0 /\ x - y = Align * (p - q) + 0
  BY <1>3, HeapNumbers, Z3
<1>5. /\ p + q \in Int /\ p - q \in Int /\ x + y \in Int /\ x - y \in Int
      /\ 0 \in 0 .. (Align - 1)
  BY HeapNumbers
<1>6. (x + y) % Align = 0
  BY <1>4, <1>5, HeapNumbers, ModUnique, ZenonT(30)
<1>7. (x - y) % Align = 0
  BY <1>4, <1>5, HeapNumbers, ModUnique, ZenonT(30)
<1>8. ASSUME x < y PROVE x + Align <= y
  <2>1. Align * p < Align * q
    BY <1>3, <1>8, Zenon
  <2>2. p < q
    BY <2>1, HeapNumbers, MulLess, Zenon
  <2>3. Align * (p + 1) <= Align * q
    <3>1. p + 1 \in Int /\ p + 1 <= q
      BY <2>2
    <3> QED BY <3>1, HeapNumbers, MulLess, Zenon
  <2>4. Align * (p + 1) = Align * p + Align
    BY HeapNumbers, Z3
  <2> QED BY <1>3, <2>3, <2>4, HeapNumbers, Zenon
<1> QED BY <1>6, <1>7, <1>8, Zenon

\* An address of a block is a multiple of the alignment inside the region.
LEMMA AddrIs ==
    ASSUME NEW a \in Addr
    PROVE  /\ a \in Nat \ {0} /\ a % Align = 0 /\ Start <= a /\ a < HeapEnd
           /\ a # Null /\ a \in Links /\ a > Null
BY HeapNumbers DEF Addr, Links

-----------------------------------------------------------------------------
(* Headers *)

\* g differs from h in the links of the free list only.
SameBlocks(h, g, D) ==
    /\ g \in HeapOn(D) /\ g.first = h.first
    /\ \A c \in D : /\ g.blk[c].size = h.blk[c].size
                    /\ g.blk[c].prev_phys = h.blk[c].prev_phys
                    /\ g.blk[c].next_phys = h.blk[c].next_phys

\* The assignments of the helpers
PutBlock(h, b, r)    == [h EXCEPT !.blk[b] = r]
PutNextFree(h, b, n) == [h EXCEPT !.blk[b].next_free = n]
PutPrevFree(h, b, p) == [h EXCEPT !.blk[b].prev_free = p]

\* One header is replaced.
LEMMA PutHeader ==
    ASSUME NEW D, NEW h \in HeapOn(D), NEW b \in D, NEW r \in Blocks,
           NEW g, g = PutBlock(h, b, r)
    PROVE  /\ g \in HeapOn(D) /\ g.first = h.first /\ g.list = h.list
           /\ g.blk[b] = r
           /\ \A c \in D : c # b => g.blk[c] = h.blk[c]
<1> DEFINE f == [h.blk EXCEPT ![b] = r]
<1>1. f \in [D -> Blocks] /\ \A c \in D : f[c] = IF c = b THEN r ELSE h.blk[c]
  BY Zenon DEF HeapOn
<1>2. g = [h EXCEPT !.blk = f]
  BY Zenon DEF PutBlock
<1> HIDE DEF f
<1>3. g \in HeapOn(D) /\ g.first = h.first /\ g.list = h.list /\ g.blk = f
  BY <1>1, <1>2, Zenon DEF HeapOn
<1> QED BY <1>1, <1>3, Zenon

\* A link of the free list is changed.
LEMMA SetNextFree ==
    ASSUME NEW D, NEW h \in HeapOn(D), NEW b \in D, NEW n \in Links,
           NEW g, g = PutNextFree(h, b, n)
    PROVE  /\ SameBlocks(h, g, D) /\ g.list = h.list
           /\ \A c \in D :
                 /\ g.blk[c].free = h.blk[c].free
                 /\ g.blk[c].prev_free = h.blk[c].prev_free
                 /\ g.blk[c].next_free = IF c = b THEN n ELSE h.blk[c].next_free
<1> DEFINE r == [h.blk[b] EXCEPT !.next_free = n]
<1>1. r \in Blocks /\ r.next_free = n /\ r.size = h.blk[b].size /\ r.free = h.blk[b].free
      /\ r.prev_phys = h.blk[b].prev_phys /\ r.next_phys = h.blk[b].next_phys
      /\ r.prev_free = h.blk[b].prev_free
  BY Zenon DEF HeapOn, Blocks
<1>2. g = PutBlock(h, b, r)
  BY Zenon DEF PutBlock, PutNextFree
<1> HIDE DEF r
<1>3. /\ g \in HeapOn(D) /\ g.first = h.first /\ g.list = h.list
      /\ \A c \in D : g.blk[c] = IF c = b THEN r ELSE h.blk[c]
  <2>1. r \in Blocks
    BY <1>1, Zenon
  <2>2. /\ g \in HeapOn(D) /\ g.first = h.first /\ g.list = h.list /\ g.blk[b] = r
        /\ \A c \in D : c # b => g.blk[c] = h.blk[c]
    BY <1>2, <2>1, PutHeader
  <2> QED BY <2>2, Zenon
<1> QED BY <1>1, <1>3, Zenon DEF SameBlocks

\* Writing prev_free of one header changes nothing else.
LEMMA SetPrevFree ==
    ASSUME NEW D, NEW h \in HeapOn(D), NEW b \in D, NEW p \in Links,
           NEW g, g = PutPrevFree(h, b, p)
    PROVE  /\ SameBlocks(h, g, D) /\ g.list = h.list
           /\ \A c \in D :
                 /\ g.blk[c].free = h.blk[c].free
                 /\ g.blk[c].next_free = h.blk[c].next_free
                 /\ g.blk[c].prev_free = IF c = b THEN p ELSE h.blk[c].prev_free
<1> DEFINE r == [h.blk[b] EXCEPT !.prev_free = p]
<1>1. r \in Blocks /\ r.prev_free = p /\ r.size = h.blk[b].size /\ r.free = h.blk[b].free
      /\ r.prev_phys = h.blk[b].prev_phys /\ r.next_phys = h.blk[b].next_phys
      /\ r.next_free = h.blk[b].next_free
  BY Zenon DEF HeapOn, Blocks
<1>2. g = PutBlock(h, b, r)
  BY Zenon DEF PutBlock, PutPrevFree
<1> HIDE DEF r
<1>3. /\ g \in HeapOn(D) /\ g.first = h.first /\ g.list = h.list
      /\ \A c \in D : g.blk[c] = IF c = b THEN r ELSE h.blk[c]
  <2>1. r \in Blocks
    BY <1>1, Zenon
  <2>2. /\ g \in HeapOn(D) /\ g.first = h.first /\ g.list = h.list /\ g.blk[b] = r
        /\ \A c \in D : c # b => g.blk[c] = h.blk[c]
    BY <1>2, <2>1, PutHeader
  <2> QED BY <2>2, Zenon
<1> QED BY <1>1, <1>3, Zenon DEF SameBlocks

\* Writing heap_free_list leaves the headers alone.
LEMMA SetList ==
    ASSUME NEW D, NEW h \in HeapOn(D), NEW n \in Links,
           NEW g, g = [h EXCEPT !.list = n]
    PROVE  /\ SameBlocks(h, g, D) /\ g.list = n /\ g.blk = h.blk
BY Zenon DEF HeapOn, SameBlocks

\* Writes to the links of the free list, one after the other
LEMMA SameTrans ==
    ASSUME NEW D, NEW h, NEW g, NEW k, SameBlocks(h, g, D), SameBlocks(g, k, D)
    PROVE  SameBlocks(h, k, D)
BY Zenon DEF SameBlocks

\* heap_remove_free_block takes the block out of the list and changes nothing else.
LEMMA RemoveIs ==
    ASSUME NEW D, D \subseteq Addr, NEW h \in HeapOn(D), NEW b \in D,
           NEW p \in D \cup {Null}, NEW n \in D \cup {Null},
           p = h.blk[b].prev_free, n = h.blk[b].next_free, p # b, n # b
    PROVE  LET g == RemoveFree(h, b)
           IN  /\ SameBlocks(h, g, D)
               /\ g.list = IF p = Null /\ h.list = b THEN n ELSE h.list
               /\ \A c \in D :
                     /\ g.blk[c].free = h.blk[c].free
                     /\ g.blk[c].next_free = IF c = b THEN Null
                                             ELSE IF c = p THEN n ELSE h.blk[c].next_free
                     /\ g.blk[c].prev_free = IF c = b THEN Null
                                             ELSE IF c = n THEN p ELSE h.blk[c].prev_free
<1> DEFINE h1 == IF p # Null THEN [h EXCEPT !.blk[p].next_free = n]
                 ELSE IF h.list = b THEN [h EXCEPT !.list = n] ELSE h
           h2 == IF n # Null THEN [h1 EXCEPT !.blk[n].prev_free = p] ELSE h1
           h3 == [h2 EXCEPT !.blk[b].prev_free = Null]
           g  == [h3 EXCEPT !.blk[b].next_free = Null]
<1>1. RemoveFree(h, b) = g
  BY DEF RemoveFree
<1>2. p \in Links /\ n \in Links /\ Null \in Links /\ Null \notin D
  BY AddrIs, Zenon DEF Links
<1>3. /\ SameBlocks(h, h1, D)
      /\ h1.list = IF p = Null /\ h.list = b THEN n ELSE h.list
      /\ \A c \in D :
            /\ h1.blk[c].free = h.blk[c].free
            /\ h1.blk[c].prev_free = h.blk[c].prev_free
            /\ h1.blk[c].next_free = IF c = p THEN n ELSE h.blk[c].next_free
  <2>1. CASE p # Null
    <3>1. p \in D /\ h1 = PutNextFree(h, p, n)
      BY <2>1, Zenon DEF PutNextFree
    <3> HIDE DEF h1
    <3> QED BY <1>2, <2>1, <3>1, SetNextFree
  <2>2. CASE p = Null /\ h.list = b
    <3>1. h1 = [h EXCEPT !.list = n]
      BY <2>2, Zenon
    <3> HIDE DEF h1
    <3> QED BY <1>2, <2>2, <3>1, SetList
  <2>3. CASE p = Null /\ h.list # b
    <3>1. h1 = h
      BY <2>3, Zenon
    <3> QED BY <1>2, <2>3, <3>1, Zenon DEF SameBlocks
  <2> QED BY <2>1, <2>2, <2>3, Zenon
<1> HIDE DEF h1
<1>4. h1 \in HeapOn(D)
  BY <1>3, Zenon DEF SameBlocks
<1>5. /\ SameBlocks(h1, h2, D) /\ h2.list = h1.list
      /\ \A c \in D :
            /\ h2.blk[c].free = h1.blk[c].free
            /\ h2.blk[c].next_free = h1.blk[c].next_free
            /\ h2.blk[c].prev_free = IF c = n THEN p ELSE h1.blk[c].prev_free
  <2>1. CASE n # Null
    <3>1. n \in D /\ h2 = PutPrevFree(h1, n, p)
      BY <2>1, Zenon DEF PutPrevFree
    <3> HIDE DEF h2
    <3> QED BY <1>2, <1>4, <2>1, <3>1, SetPrevFree
  <2>2. CASE n = Null
    <3>1. h2 = h1
      BY <2>2, Zenon
    <3> QED BY <1>2, <1>4, <2>2, <3>1, Zenon DEF SameBlocks
  <2> QED BY <2>1, <2>2, Zenon
<1> HIDE DEF h2
<1>6. h2 \in HeapOn(D)
  BY <1>5, Zenon DEF SameBlocks
<1>7. /\ SameBlocks(h2, h3, D) /\ h3.list = h2.list
      /\ \A c \in D :
            /\ h3.blk[c].free = h2.blk[c].free
            /\ h3.blk[c].next_free = h2.blk[c].next_free
            /\ h3.blk[c].prev_free = IF c = b THEN Null ELSE h2.blk[c].prev_free
  <2>1. h3 = PutPrevFree(h2, b, Null)
    BY Zenon DEF PutPrevFree
  <2> HIDE DEF h3
  <2> QED BY <1>2, <1>6, <2>1, SetPrevFree
<1> HIDE DEF h3
<1>8. h3 \in HeapOn(D)
  BY <1>7, Zenon DEF SameBlocks
<1>9. /\ SameBlocks(h3, g, D) /\ g.list = h3.list
      /\ \A c \in D :
            /\ g.blk[c].free = h3.blk[c].free
            /\ g.blk[c].prev_free = h3.blk[c].prev_free
            /\ g.blk[c].next_free = IF c = b THEN Null ELSE h3.blk[c].next_free
  <2>1. g = PutNextFree(h3, b, Null)
    BY Zenon DEF PutNextFree
  <2> HIDE DEF g
  <2> QED BY <1>2, <1>8, <2>1, SetNextFree
<1> HIDE DEF g
<1>10. SameBlocks(h, g, D)
  BY <1>3, <1>5, <1>7, <1>9, SameTrans, Zenon
<1> QED BY <1>1, <1>3, <1>5, <1>7, <1>9, <1>10

-----------------------------------------------------------------------------
(* Lists in the order of addresses *)

\* Taking a member out leaves the list in order when its neighbours are linked.
LEMMA OrderDrop ==
    ASSUME NEW F, F \subseteq Nat \ {0}, NEW b \in F, NEW p, NEW n,
           Preceding(F, b, p), After(F, b, n)
    PROVE  /\ After(F \ {b}, p, n)
           /\ n # Null => Preceding(F \ {b}, n, p)
           /\ p # Null => p \in F /\ p # b
           /\ n # Null => n \in F /\ n # b
           /\ \A c \in (F \cup {Null}) \ {b, p} : \A m :
                 After(F, c, m) => After(F \ {b}, c, m)
           /\ \A c \in F \ {b, n} : \A m :
                 Preceding(F, c, m) => Preceding(F \ {b}, c, m)
           /\ After(F, p, b)
<1> USE DEF Null
<1>0. p \in F \cup {0} /\ n \in F \cup {0}
  BY Zenon DEF After, Preceding
<1>1. p \in Nat /\ n \in Nat /\ \A c \in F : c \in Nat /\ c # 0
  BY <1>0
<1>2. After(F \ {b}, p, n)
  BY <1>1 DEF After, Preceding
<1>3. n # Null => Preceding(F \ {b}, n, p)
  BY <1>1 DEF After, Preceding
<1>4. After(F, p, b)
  BY <1>1 DEF After, Preceding
<1>5. ASSUME NEW c \in (F \cup {Null}) \ {b, p}, NEW m, After(F, c, m)
      PROVE  After(F \ {b}, c, m)
  BY <1>1, <1>5 DEF After, Preceding
<1>6. ASSUME NEW c \in F \ {b, n}, NEW m, Preceding(F, c, m)
      PROVE  Preceding(F \ {b}, c, m)
  BY <1>1, <1>6 DEF After, Preceding
<1>7. (p # Null => p \in F /\ p # b) /\ (n # Null => n \in F /\ n # b)
  BY <1>1 DEF After, Preceding
<1> QED BY <1>2, <1>3, <1>4, <1>5, <1>6, <1>7, Zenon

\* Putting a member between its neighbours keeps the list in order.
LEMMA OrderAdd ==
    ASSUME NEW F, F \subseteq Nat \ {0}, NEW b \in Nat \ {0}, b \notin F, NEW p, NEW n,
           Preceding(F, b, p), After(F, b, n)
    PROVE  /\ After(F \cup {b}, p, b) /\ After(F \cup {b}, b, n)
           /\ Preceding(F \cup {b}, b, p)
           /\ n # Null => Preceding(F \cup {b}, n, b)
           /\ \A c \in (F \cup {Null}) \ {p} : \A m :
                 After(F, c, m) => After(F \cup {b}, c, m)
           /\ \A c \in F \ {n} : \A m :
                 Preceding(F, c, m) => Preceding(F \cup {b}, c, m)
           /\ After(F, p, n)
           /\ p # Null => p \in F
           /\ n # Null => n \in F
<1> USE DEF Null
<1>0. p \in F \cup {0} /\ n \in F \cup {0}
  BY Zenon DEF After, Preceding
<1>1. p \in Nat /\ n \in Nat /\ \A c \in F : c \in Nat /\ c # 0
  BY <1>0
<1>2. After(F \cup {b}, p, b) /\ After(F \cup {b}, b, n) /\ Preceding(F \cup {b}, b, p)
  BY <1>1 DEF After, Preceding
<1>3. n # Null => Preceding(F \cup {b}, n, b)
  BY <1>1 DEF After, Preceding
<1>4. After(F, p, n)
  BY <1>1 DEF After, Preceding
<1>5. ASSUME NEW c \in (F \cup {Null}) \ {p}, NEW m, After(F, c, m)
      PROVE  After(F \cup {b}, c, m)
  <2>1. c \in Nat /\ c # p /\ (c \in F \/ c = 0)
    BY <1>1
  <2>2. CASE m = Null
    <3>1. \A a \in F : a <= c
      BY <1>1, <1>5, <2>1, <2>2, Zenon DEF After
    <3>2. b <= c
      BY <1>1, <2>1, <3>1 DEF Preceding
    <3> QED BY <2>2, <3>1, <3>2, Zenon DEF After
  <2>3. CASE m # Null
    <3>1. m \in F /\ c < m /\ \A a \in F : c < a => m <= a
      BY <1>5, <2>3, Zenon DEF After
    <3>2. c < b => m <= b
      BY <1>1, <2>1, <3>1 DEF Preceding
    <3> QED BY <3>1, <3>2, Zenon DEF After
  <2> QED BY <2>2, <2>3, Zenon
<1>6. ASSUME NEW c \in F \ {n}, NEW m, Preceding(F, c, m)
      PROVE  Preceding(F \cup {b}, c, m)
  <2>1. c \in Nat /\ c # n /\ c \in F
    BY <1>1, Zenon
  <2>2. CASE m = Null
    <3>1. \A a \in F : c <= a
      BY <1>1, <1>6, <2>1, <2>2, Zenon DEF Preceding
    <3>2. c <= b
      BY <1>1, <2>1, <3>1 DEF After
    <3> QED BY <2>2, <3>1, <3>2, Zenon DEF Preceding
  <2>3. CASE m # Null
    <3>1. m \in F /\ m < c /\ \A a \in F : a < c => a <= m
      BY <1>6, <2>3, Zenon DEF Preceding
    <3>2. b < c => b <= m
      BY <1>1, <2>1, <3>1 DEF After
    <3> QED BY <3>1, <3>2, Zenon DEF Preceding
  <2> QED BY <2>2, <2>3, Zenon
<1>7. (p # Null => p \in F) /\ (n # Null => n \in F)
  BY <1>1, Zenon DEF After, Preceding
<1> QED BY <1>2, <1>3, <1>4, <1>5, <1>6, <1>7, Zenon

\* A member has one successor and one predecessor.
LEMMA OrderUnique ==
    ASSUME NEW F, F \subseteq Nat \ {0}, NEW b \in Nat, NEW m, NEW n
    PROVE  /\ After(F, b, m) /\ After(F, b, n) => m = n
           /\ Preceding(F, b, m) /\ Preceding(F, b, n) => m = n
           /\ b \in F /\ m # Null /\ After(F, b, m) => Preceding(F, m, b)
           /\ b \in F /\ m # Null /\ Preceding(F, b, m) => After(F, m, b)
<1> USE DEF Null
<1>1. \A c \in F : c \in Nat /\ c # 0
  BY Zenon
<1>2. ASSUME NEW k, After(F, b, k) \/ Preceding(F, b, k)
      PROVE  k \in Nat
  <2>1. k \in F \cup {0}
    BY <1>2, Zenon DEF After, Preceding
  <2> QED BY <1>1, <2>1
<1>3. ASSUME After(F, b, m), After(F, b, n) PROVE m = n
  <2>1. m \in Nat /\ n \in Nat
    BY <1>2, <1>3, Zenon
  <2> QED BY <1>1, <1>3, <2>1 DEF After
<1>4. ASSUME Preceding(F, b, m), Preceding(F, b, n) PROVE m = n
  <2>1. m \in Nat /\ n \in Nat
    BY <1>2, <1>4, Zenon
  <2> QED BY <1>1, <1>4, <2>1 DEF Preceding
<1>5. ASSUME b \in F, m # Null, After(F, b, m) PROVE Preceding(F, m, b)
  <2>1. m \in Nat
    BY <1>2, <1>5, Zenon
  <2> QED BY <1>1, <1>5, <2>1 DEF After, Preceding
<1>6. ASSUME b \in F, m # Null, Preceding(F, b, m) PROVE After(F, m, b)
  <2>1. m \in Nat
    BY <1>2, <1>6, Zenon
  <2> QED BY <1>1, <1>6, <2>1 DEF After, Preceding
<1> QED BY <1>3, <1>4, <1>5, <1>6, Zenon

\* What follows the member before b follows b.
LEMMA OrderFill ==
    ASSUME NEW F, F \subseteq Nat \ {0}, NEW b \in Nat \ {0}, b \notin F, NEW p, NEW n,
           Preceding(F, b, p), After(F, p, n)
    PROVE  After(F, b, n)
<1> USE DEF Null
<1>1. p \in F \cup {0} /\ n \in F \cup {0}
  BY Zenon DEF After, Preceding
<1>2. p \in Nat /\ n \in Nat /\ \A c \in F : c \in Nat /\ c # 0 /\ c # b
  BY <1>1
<1>3. (p = 0 \/ p < b) /\ \A c \in F : c < b => c <= p
  BY <1>2 DEF Preceding
<1>4. CASE n = 0
  <2>1. \A c \in F : c <= p
    BY <1>2, <1>4, Zenon DEF After
  <2>2. \A c \in F : c <= b
    BY <1>2, <1>3, <2>1
  <2> QED BY <1>4, <2>2, Zenon DEF After
<1>5. CASE n # 0
  <2>1. n \in F /\ p < n /\ \A c \in F : p < c => n <= c
    BY <1>5, Zenon DEF After
  <2>2. b < n
    BY <1>2, <1>3, <2>1
  <2>3. \A c \in F : b < c => n <= c
    BY <1>2, <1>3, <2>1
  <2> QED BY <2>1, <2>2, <2>3, Zenon DEF After
<1> QED BY <1>4, <1>5, Zenon

\* heap_remove_free_block leaves the other free blocks listed.
LEMMA RemoveListed ==
    ASSUME NEW D, D \subseteq Addr, NEW h \in HeapOn(D), NEW F \in SUBSET D,
           Listed(h, F), NEW b \in F
    PROVE  LET g == RemoveFree(h, b)
           IN  /\ SameBlocks(h, g, D)
               /\ \A c \in D : g.blk[c].free = h.blk[c].free
               /\ Listed(g, F \ {b})
<1> DEFINE p == h.blk[b].prev_free
           n == h.blk[b].next_free
           g == RemoveFree(h, b)
<1>1. F \subseteq Nat \ {0} /\ Null \notin D
  BY AddrIs, Zenon
<1>2. Preceding(F, b, p) /\ After(F, b, n)
  BY Zenon DEF Listed
<1>3. After(F, Null, h.list)
  BY Zenon DEF Listed
<1>4. \A c \in F : After(F, c, h.blk[c].next_free) /\ Preceding(F, c, h.blk[c].prev_free)
  BY Zenon DEF Listed
<1> HIDE DEF p, n, g
<1>5. /\ After(F \ {b}, p, n)
      /\ n # Null => Preceding(F \ {b}, n, p)
      /\ p # Null => p \in F /\ p # b
      /\ n # Null => n \in F /\ n # b
      /\ \A c \in (F \cup {Null}) \ {b, p} : \A m :
            After(F, c, m) => After(F \ {b}, c, m)
      /\ \A c \in F \ {b, n} : \A m :
            Preceding(F, c, m) => Preceding(F \ {b}, c, m)
      /\ After(F, p, b)
  BY <1>1, <1>2, OrderDrop, Zenon
<1>6. p \in D \cup {Null} /\ n \in D \cup {Null} /\ p # b /\ n # b
  BY <1>1, <1>5, Zenon
<1>7. /\ SameBlocks(h, g, D)
      /\ g.list = IF p = Null /\ h.list = b THEN n ELSE h.list
      /\ \A c \in D :
            /\ g.blk[c].free = h.blk[c].free
            /\ g.blk[c].next_free = IF c = b THEN Null
                                    ELSE IF c = p THEN n ELSE h.blk[c].next_free
            /\ g.blk[c].prev_free = IF c = b THEN Null
                                    ELSE IF c = n THEN p ELSE h.blk[c].prev_free
  BY <1>6, RemoveIs DEF p, n, g
<1>8. After(F \ {b}, Null, g.list)
  <2>1. CASE p = Null
    <3>1. h.list = b
      BY <1>1, <1>3, <1>5, <2>1, OrderUnique, Zenon DEF Null
    <3> QED BY <1>5, <1>7, <2>1, <3>1, Zenon
  <2>2. CASE p # Null
    <3>1. g.list = h.list /\ Null \in (F \cup {Null}) \ {b, p}
      BY <1>1, <1>7, <2>2, Zenon
    <3> QED BY <1>3, <1>5, <3>1, Zenon
  <2> QED BY <2>1, <2>2, Zenon
<1>9. ASSUME NEW c \in F \ {b}
      PROVE  After(F \ {b}, c, g.blk[c].next_free) /\ Preceding(F \ {b}, c, g.blk[c].prev_free)
  <2>1. After(F \ {b}, c, g.blk[c].next_free)
    BY <1>4, <1>5, <1>7, Zenon
  <2>2. Preceding(F \ {b}, c, g.blk[c].prev_free)
    <3>1. c # Null
      BY <1>1, Zenon
    <3> QED BY <1>4, <1>5, <1>7, <3>1, Zenon
  <2> QED BY <2>1, <2>2, Zenon
<1>10. \A c \in DOMAIN g.blk \ (F \ {b}) : g.blk[c].next_free = Null
  <2>1. DOMAIN g.blk = D /\ DOMAIN h.blk = D
    BY <1>7, Zenon DEF SameBlocks, HeapOn
  <2>2. \A c \in D \ F : h.blk[c].next_free = Null
    BY <2>1, Zenon DEF Listed
  <2>3. \A c \in D \ F : c # p
    BY <1>1, <1>5, Zenon
  <2> QED BY <1>7, <2>1, <2>2, <2>3, Zenon
<1>11. Listed(g, F \ {b})
  BY <1>8, <1>9, <1>10, Zenon DEF Listed
<1> QED BY <1>7, <1>11, Zenon DEF g

-----------------------------------------------------------------------------
(* Walks *)

\* Every block of a tiled region passes heap_block_is_sane.
LEMMA GoodSane ==
    ASSUME NEW D, NEW h, D \subseteq Addr, h \in HeapOn(D), Tiled(h, D)
    PROVE  \A c \in D : /\ Sane(h, c) /\ End(h, c) \in Nat /\ c + Header <= End(h, c)
                        /\ h.blk[c].size \in Nat /\ h.blk[c] \in Blocks
<1> SUFFICES ASSUME NEW c \in D
             PROVE  /\ Sane(h, c) /\ End(h, c) \in Nat /\ c + Header <= End(h, c)
                    /\ h.blk[c].size \in Nat /\ h.blk[c] \in Blocks
  BY Zenon
<1>1. c \in Nat \ {0} /\ c % Align = 0 /\ Start <= c /\ c < HeapEnd /\ c \in DOMAIN h.blk
  BY AddrIs, Zenon DEF HeapOn
<1>2. h.blk[c] \in Blocks
  BY Zenon DEF HeapOn
<1>3. h.blk[c].size \in Nat /\ h.blk[c].size % Align = 0
  <2>1. h.blk[c].size \in 0 .. HeapSize
    BY <1>2, Zenon DEF Blocks
  <2> QED BY <2>1, HeapNumbers DEF Tiled
<1>4. h.blk[c].next_phys \in D \cup {Null}
  BY Zenon DEF Tiled, After
<1>5. End(h, c) <= HeapEnd
  <2>1. CASE h.blk[c].next_phys = Null
    <3>1. End(h, c) = HeapEnd
      BY <2>1, Zenon DEF Tiled
    <3> QED BY <3>1, HeapNumbers
  <2>2. CASE h.blk[c].next_phys # Null
    <3>1. h.blk[c].next_phys \in D /\ End(h, c) = h.blk[c].next_phys
      BY <1>4, <2>2, Zenon DEF Tiled
    <3>2. h.blk[c].next_phys < HeapEnd /\ h.blk[c].next_phys \in Nat
      BY <3>1, AddrIs, Zenon
    <3> QED BY <3>1, <3>2, HeapNumbers
  <2> QED BY <2>1, <2>2, Zenon
<1>6. End(h, c) = c + Header + h.blk[c].size
  BY Zenon DEF End, Payload
<1>7. End(h, c) \in Nat /\ c + Header <= End(h, c)
  BY <1>1, <1>3, <1>6, HeapNumbers
<1>8. c \in Start .. (HeapEnd - 1)
  BY <1>1, HeapNumbers
<1> QED BY <1>1, <1>2, <1>3, <1>5, <1>7, <1>8, Zenon DEF Sane

\* heap_find_block_by_payload finds the block of a payload, and nothing else.
LEMMA FindIs ==
    ASSUME NEW D, NEW h, D \subseteq Addr, h \in HeapOn(D), Tiled(h, D), NEW ptr \in Int
    PROVE  FindByPayload(h, ptr) = IF ptr - Header \in D THEN ptr - Header ELSE Null
<1> DEFINE stop == {c \in Links : c = Null \/ ~Sane(h, c) \/ Payload(c) = ptr}
           nx == [c \in Links |-> h.blk[c].next_phys]
           Body(g, c) == IF c = Null \/ ~Sane(h, c) \/ Payload(c) = ptr THEN c
                         ELSE g[h.blk[c].next_phys]
           Def(g) == [c \in Links |-> Body(g, c)]
           seek == CHOOSE g : g = Def(g)
<1>1. FindByPayload(h, ptr) = seek[h.first]
  BY Zenon DEF FindByPayload
<1>2. \A c \in Links \ stop : c \in D /\ nx[c] \in Links
  <2> TAKE c \in Links \ stop
  <2>1. c \in D
    BY Zenon DEF Sane, HeapOn
  <2> QED BY <2>1, Zenon DEF HeapOn, Blocks
<1>3. PICK f : Seeks(f, Links, stop, nx)
  <2> HIDE DEF stop, nx
  <2>1. \A c \in Links \ stop : nx[c] \in Links
    BY <1>2, Zenon
  <2> QED BY <2>1, SeekExists, Zenon
<1>4. f = Def(f)
  <2>1. \A c \in Links : (IF c \in stop THEN c ELSE f[nx[c]]) = Body(f, c)
    BY Zenon
  <2> HIDE DEF stop, nx, Body
  <2> QED BY <1>3, <2>1, Zenon DEF Seeks
<1>5. seek = Def(seek)
  <2> HIDE DEF Def
  <2> QED BY <1>4, Zenon
<1>6. \A c \in Links : seek[c] = Body(seek, c)
  <2> HIDE DEF seek, Body
  <2>1. \A c \in Links : Def(seek)[c] = Body(seek, c)
    BY Zenon
  <2> HIDE DEF Def
  <2> QED BY <1>5, <2>1, Zenon
<1> HIDE DEF seek
<1>7. \A c \in D : c \in Nat /\ c # Null /\ c \in Links /\ c < HeapEnd /\ Sane(h, c)
  BY AddrIs, GoodSane, Zenon
<1>8. Null \in Links /\ seek[Null] = Null
  BY <1>6, Zenon DEF Links
<1> DEFINE T == {c \in D : seek[c] = IF ptr - Header \in D /\ c <= ptr - Header
                                     THEN ptr - Header ELSE Null}
<1>9. ASSUME NEW c \in D, \A d \in D : c < d => d \in T
      PROVE  c \in T
  <2>1. seek[c] = IF Payload(c) = ptr THEN c ELSE seek[h.blk[c].next_phys]
    BY <1>6, <1>7, Zenon
  <2>2. Payload(c) = ptr <=> c = ptr - Header
    BY <1>7, HeapNumbers DEF Payload
  <2>3. CASE c = ptr - Header
    BY <1>7, <2>1, <2>2, <2>3
  <2>4. CASE c # ptr - Header /\ h.blk[c].next_phys = Null
    <3>1. \A d \in D : d <= c
      BY <1>7, <2>4, Zenon DEF Tiled, After
    <3>2. ~(ptr - Header \in D /\ c <= ptr - Header)
      BY <1>7, <2>4, <3>1
    <3> QED BY <1>8, <2>1, <2>2, <2>4, <3>2, Zenon
  <2>5. CASE c # ptr - Header /\ h.blk[c].next_phys # Null
    <3> DEFINE m == h.blk[c].next_phys
    <3>1. m \in D /\ c < m /\ \A d \in D : c < d => m <= d
      BY <2>5, Zenon DEF Tiled, After
    <3> HIDE DEF m
    <3>2. seek[m] = IF ptr - Header \in D /\ m <= ptr - Header THEN ptr - Header ELSE Null
      BY <1>9, <3>1, Zenon
    <3>3. ptr - Header \in D => (c <= ptr - Header <=> m <= ptr - Header)
      BY <1>7, <2>5, <3>1
    <3>4. seek[c] = seek[m]
      BY <2>1, <2>2, <2>5, Zenon DEF m
    <3> QED BY <3>2, <3>3, <3>4, Zenon
  <2> QED BY <2>3, <2>4, <2>5, Zenon
<1>10. D \subseteq T
  <2> HIDE DEF T
  <2>1. D \subseteq Nat /\ (\A c \in D : c <= HeapEnd) /\ HeapEnd \in Nat
    BY <1>7, HeapNumbers
  <2> QED BY <1>9, <2>1, DownInduction, Zenon
<1>11. h.first = Start /\ Start \in D
  BY Zenon DEF Tiled
<1>12. ptr - Header \in D => Start <= ptr - Header
  BY AddrIs, Zenon
<1> QED BY <1>1, <1>10, <1>11, <1>12, Zenon

\* kmalloc's walk finds a free block that is large enough, or there is none.
LEMMA FitIs ==
    ASSUME NEW D, NEW h, D \subseteq Addr, h \in HeapOn(D), Tiled(h, D),
           Listed(h, FreeOf(h, D)), NEW n \in Nat
    PROVE  \/ /\ FirstFit(h, n) = Null
              /\ \A c \in FreeOf(h, D) : h.blk[c].size < n
           \/ /\ FirstFit(h, n) \in FreeOf(h, D)
              /\ h.blk[FirstFit(h, n)].size >= n
<1> DEFINE F == FreeOf(h, D)
           stop == {c \in Links : c = Null \/ ~Sane(h, c) \/ ~h.blk[c].free
                                   \/ h.blk[c].size >= n}
           nx == [c \in Links |-> h.blk[c].next_free]
           Body(g, c) == IF c = Null \/ ~Sane(h, c) THEN c
                         ELSE IF ~h.blk[c].free \/ h.blk[c].size >= n THEN c
                         ELSE g[h.blk[c].next_free]
           Def(g) == [c \in Links |-> Body(g, c)]
           seek == CHOOSE g : g = Def(g)
<1>1. FirstFit(h, n) = seek[h.list]
  BY Zenon DEF FirstFit
<1>2. \A c \in Links \ stop : c \in D /\ nx[c] \in Links
  <2> TAKE c \in Links \ stop
  <2>1. c \in D
    BY Zenon DEF Sane, HeapOn
  <2> QED BY <2>1, Zenon DEF HeapOn, Blocks
<1>3. PICK f : Seeks(f, Links, stop, nx)
  <2> HIDE DEF stop, nx
  <2>1. \A c \in Links \ stop : nx[c] \in Links
    BY <1>2, Zenon
  <2> QED BY <2>1, SeekExists, Zenon
<1>4. f = Def(f)
  <2>1. \A c \in Links : (IF c \in stop THEN c ELSE f[nx[c]]) = Body(f, c)
    BY Zenon
  <2> HIDE DEF stop, nx, Body
  <2> QED BY <1>3, <2>1, Zenon DEF Seeks
<1>5. seek = Def(seek)
  <2> HIDE DEF Def
  <2> QED BY <1>4, Zenon
<1>6. \A c \in Links : seek[c] = Body(seek, c)
  <2> HIDE DEF seek, Body
  <2>1. \A c \in Links : Def(seek)[c] = Body(seek, c)
    BY Zenon
  <2> HIDE DEF Def
  <2> QED BY <1>5, <2>1, Zenon
<1> HIDE DEF seek
<1>7. \A c \in F : /\ c \in Nat /\ c # Null /\ c \in Links /\ c < HeapEnd /\ Sane(h, c)
                   /\ h.blk[c].free /\ h.blk[c].size \in Nat
  BY AddrIs, GoodSane, Zenon DEF FreeOf
<1>8. Null \in Links /\ seek[Null] = Null
  BY <1>6, Zenon DEF Links
<1>9. /\ After(F, Null, h.list)
      /\ \A c \in F : After(F, c, h.blk[c].next_free)
  BY Zenon DEF Listed
<1> HIDE DEF F, Body, Def
<1> DEFINE Fits(c) == \/ seek[c] = Null /\ \A d \in F : c <= d => h.blk[d].size < n
                      \/ seek[c] \in F /\ h.blk[seek[c]].size >= n
           T == {c \in F : Fits(c)}
<1>10. ASSUME NEW c \in F, \A d \in F : c < d => d \in T
       PROVE  c \in T
  <2>1. seek[c] = IF h.blk[c].size >= n THEN c ELSE seek[h.blk[c].next_free]
    BY <1>6, <1>7, Zenon DEF Body
  <2>2. CASE h.blk[c].size >= n
    BY <2>1, <2>2, Zenon
  <2>3. CASE h.blk[c].size < n /\ h.blk[c].next_free = Null
    <3>1. \A d \in F : d <= c
      BY <1>7, <1>9, <2>3, Zenon DEF After
    <3>2. seek[c] = Null
      BY <1>7, <1>8, <2>1, <2>3
    <3>3. \A d \in F : c <= d => d = c
      BY <1>7, <3>1
    <3> QED BY <2>3, <3>2, <3>3, Zenon
  <2>4. CASE h.blk[c].size < n /\ h.blk[c].next_free # Null
    <3> DEFINE m == h.blk[c].next_free
    <3>1. m \in F /\ c < m /\ \A d \in F : c < d => m <= d
      BY <1>9, <2>4, Zenon DEF After
    <3>2. seek[c] = seek[m]
      BY <1>7, <2>1, <2>4
    <3> HIDE DEF m
    <3>3. Fits(m)
      BY <1>10, <3>1, Zenon
    <3>4. \A d \in F : c <= d => d = c \/ m <= d
      BY <1>7, <3>1
    <3> QED BY <2>4, <3>2, <3>3, <3>4, Zenon
  <2> QED BY <1>7, <2>2, <2>3, <2>4
<1>11. F \subseteq T
  <2> HIDE DEF T
  <2>1. F \subseteq Nat /\ (\A c \in F : c <= HeapEnd) /\ HeapEnd \in Nat
    BY <1>7, HeapNumbers
  <2> QED BY <1>10, <2>1, DownInduction, Zenon
<1>12. CASE h.list = Null
  <2>1. \A c \in F : FALSE
    BY <1>7, <1>9, <1>12 DEF After, Null
  <2> QED BY <1>1, <1>8, <1>12, <2>1, Zenon DEF F
<1>13. CASE h.list # Null
  <2>1. h.list \in F /\ \A d \in F : Null < d => h.list <= d
    BY <1>9, <1>13, Zenon DEF After
  <2>2. \A d \in F : h.list <= d
    BY <1>7, <2>1 DEF Null
  <2>3. Fits(h.list)
    BY <1>11, <2>1, Zenon
  <2> QED BY <1>1, <2>2, <2>3, Zenon DEF F
<1> QED BY <1>12, <1>13, Zenon

\* last leads from each block of the list to the last one before b.
IsLast(last, h, D, b) ==
    last = [c \in D |-> LET m == h.blk[c].next_free
                        IN  IF m # Null /\ m < b THEN last[m] ELSE c]

\* The walk of heap_insert_free_block stops at the last block below b.
LEMMA LastIs ==
    ASSUME NEW D, NEW h, D \subseteq Addr, h \in HeapOn(D), NEW F \in SUBSET D,
           Listed(h, F), NEW b \in D, b \notin F, NEW last,
           IsLast(last, h, D, b)
    PROVE  \A c \in F : c < b => Preceding(F, b, last[c])
<1>1. \A c \in D : last[c] = IF h.blk[c].next_free # Null /\ h.blk[c].next_free < b
                             THEN last[h.blk[c].next_free] ELSE c
  <2> DEFINE Body(c) == LET m == h.blk[c].next_free
                        IN  IF m # Null /\ m < b THEN last[m] ELSE c
  <2>1. \A c \in D : last[c] = Body(c)
    <3> HIDE DEF Body
    <3>1. last = [c \in D |-> Body(c)]
      BY Zenon DEF Body, IsLast
    <3> QED BY <3>1, Zenon
  <2> QED BY <2>1, Zenon
<1>2. \A c \in F : After(F, c, h.blk[c].next_free)
  BY Zenon DEF Listed
<1>3. b \in Nat /\ \A c \in F : c \in Nat /\ c # Null /\ c < HeapEnd
  BY AddrIs, Zenon
<1> DEFINE T == {c \in F : c < b => Preceding(F, b, last[c])}
<1>4. ASSUME NEW c \in F, \A d \in F : c < d => d \in T, c < b
      PROVE  Preceding(F, b, last[c])
  <2> DEFINE m == h.blk[c].next_free
  <2>1. After(F, c, m) /\ last[c] = IF m # Null /\ m < b THEN last[m] ELSE c
    BY <1>1, <1>2, Zenon
  <2> HIDE DEF m
  <2>2. CASE m = Null
    <3>1. last[c] = c /\ \A d \in F : d <= c
      BY <1>3, <2>1, <2>2, Zenon DEF After
    <3> QED BY <1>3, <1>4, <3>1 DEF Preceding
  <2>3. CASE m # Null
    <3>1. m \in F /\ c < m /\ (\A d \in F : c < d => m <= d) /\ m # b /\ m \in Nat
      BY <1>3, <2>1, <2>3, Zenon DEF After
    <3>2. CASE m < b
      BY <1>4, <2>1, <2>3, <3>1, <3>2, Zenon
    <3>3. CASE ~(m < b)
      <4>1. last[c] = c
        BY <2>1, <3>3, Zenon
      <4>2. \A d \in F : d < b => d <= c
        BY <1>3, <3>1, <3>3
      <4> QED BY <1>4, <4>1, <4>2 DEF Preceding
    <3> QED BY <3>2, <3>3, Zenon
  <2> QED BY <2>2, <2>3, Zenon
<1>5. F \subseteq T
  <2>1. \A c \in F : (\A d \in F : c < d => d \in T) => c \in T
    BY <1>4, Zenon
  <2> HIDE DEF T
  <2>2. F \subseteq Nat /\ (\A c \in F : c <= HeapEnd) /\ HeapEnd \in Nat
    BY <1>3, HeapNumbers
  <2> QED BY <2>1, <2>2, DownInduction, Zenon
<1> QED BY <1>5, Zenon

\* A walk along the free list that stops somewhere below b
LEMMA LastExists ==
    ASSUME NEW D, NEW h, D \subseteq Addr, h \in HeapOn(D), NEW F \in SUBSET D,
           Listed(h, F), NEW b \in D
    PROVE  \E last : IsLast(last, h, D, b)
<1> DEFINE nx == [c \in D |-> h.blk[c].next_free]
           stop == {c \in D : ~(nx[c] # Null /\ nx[c] < b)}
           Body(g, c) == LET m == h.blk[c].next_free
                         IN  IF m # Null /\ m < b THEN g[m] ELSE c
<1>1. \A c \in D \ stop : nx[c] \in D
  <2> TAKE c \in D \ stop
  <2>1. h.blk[c].next_free # Null
    BY Zenon
  <2>2. c \in F
    BY <2>1, Zenon DEF Listed, HeapOn
  <2>3. h.blk[c].next_free \in F
    BY <2>1, <2>2, Zenon DEF Listed, After
  <2> QED BY <2>3, Zenon
<1>2. PICK f : Seeks(f, D, stop, nx)
  <2> HIDE DEF stop, nx
  <2> QED BY <1>1, SeekExists, Zenon
<1>3. \A c \in D : (IF c \in stop THEN c ELSE f[nx[c]]) = Body(f, c)
  BY Zenon
<1> HIDE DEF stop, nx, Body
<1>4. f = [c \in D |-> Body(f, c)]
  BY <1>2, <1>3, Zenon DEF Seeks
<1> QED BY <1>4, Zenon DEF Body, IsLast

\* heap_insert_free_block puts the block in its place in the list.
LEMMA InsertListed ==
    ASSUME NEW D, NEW h, D \subseteq Addr, h \in HeapOn(D), NEW F \in SUBSET D,
           Listed(h, F), NEW b \in D, b \notin F
    PROVE  LET g == InsertFree(h, b)
           IN  /\ SameBlocks(h, g, D)
               /\ \A c \in D : g.blk[c].free = IF c = b THEN TRUE ELSE h.blk[c].free
               /\ Listed(g, F \cup {b})
<1> DEFINE last == CHOOSE l : l = [c \in DOMAIN h.blk |->
                                     LET m == h.blk[c].next_free
                                     IN  IF m # Null /\ m < b THEN l[m] ELSE c]
           p  == IF h.list = Null \/ b < h.list THEN Null ELSE last[h.list]
           n  == IF p = Null THEN h.list ELSE h.blk[p].next_free
           h1 == [h EXCEPT !.blk[b].free = TRUE, !.blk[b].prev_free = p,
                           !.blk[b].next_free = n]
           h2 == IF p = Null THEN [h1 EXCEPT !.list = b]
                 ELSE [h1 EXCEPT !.blk[p].next_free = b]
           g  == IF n # Null THEN [h2 EXCEPT !.blk[n].prev_free = b] ELSE h2
<1>1. InsertFree(h, b) = g
  BY Zenon DEF InsertFree
<1>2. IsLast(last, h, D, b)
  <2>1. DOMAIN h.blk = D
    BY Zenon DEF HeapOn
  <2>2. last = CHOOSE l : IsLast(l, h, D, b)
    BY <2>1, Zenon DEF IsLast
  <2>3. \E l : IsLast(l, h, D, b)
    BY LastExists, Zenon
  <2> HIDE DEF last
  <2> QED BY <2>2, <2>3, Zenon
<1> HIDE DEF last
<1>3. b \in Nat \ {0} /\ F \subseteq Nat \ {0} /\ Null \notin D /\ b \in Links
      /\ \A c \in F : c \in Nat /\ c # 0
  BY AddrIs, Zenon
<1>4. After(F, Null, h.list)
  BY Zenon DEF Listed
<1>5. \A c \in F : After(F, c, h.blk[c].next_free) /\ Preceding(F, c, h.blk[c].prev_free)
  BY Zenon DEF Listed
<1>6. Preceding(F, b, p)
  <2>1. CASE h.list = Null
    <3>1. p = Null /\ \A c \in F : c <= 0
      BY <1>3, <1>4, <2>1, Zenon DEF After, Null
    <3> QED BY <1>3, <3>1 DEF Preceding
  <2>2. CASE h.list # Null /\ b < h.list
    <3>1. p = Null /\ h.list \in F /\ \A c \in F : h.list <= c
      BY <1>3, <1>4, <2>2 DEF After, Null
    <3>2. h.list \in Nat
      BY <1>3, <3>1, Zenon
    <3>3. \A c \in F : b <= c
      BY <1>3, <2>2, <3>1, <3>2
    <3> QED BY <3>1, <3>3, Zenon DEF Preceding
  <2>3. CASE h.list # Null /\ ~(b < h.list)
    <3>1. p = last[h.list] /\ h.list \in F
      BY <1>4, <2>3, Zenon DEF After
    <3>2. h.list < b
      <4>1. h.list \in Nat /\ h.list # b
        BY <1>3, <3>1, Zenon
      <4> QED BY <1>3, <2>3, <4>1
    <3>3. Preceding(F, b, last[h.list])
      BY <1>2, <3>1, <3>2, LastIs, Zenon
    <3> QED BY <3>1, <3>3, Zenon
  <2> QED BY <2>1, <2>2, <2>3, Zenon
<1> HIDE DEF p
<1>7. After(F, b, n)
  <2>1. After(F, p, n)
    <3>1. CASE p = Null
      BY <1>4, <3>1, Zenon
    <3>2. CASE p # Null
      <4>1. p \in F
        BY <1>6, <3>2, Zenon DEF Preceding
      <4> QED BY <1>5, <3>2, <4>1, Zenon
    <3> QED BY <3>1, <3>2, Zenon
  <2> HIDE DEF n
  <2> QED BY <1>3, <1>6, <2>1, OrderFill, Zenon
<1> HIDE DEF n
<1>8. /\ After(F \cup {b}, p, b) /\ After(F \cup {b}, b, n)
      /\ Preceding(F \cup {b}, b, p)
      /\ n # Null => Preceding(F \cup {b}, n, b)
      /\ \A c \in (F \cup {Null}) \ {p} : \A m :
            After(F, c, m) => After(F \cup {b}, c, m)
      /\ \A c \in F \ {n} : \A m :
            Preceding(F, c, m) => Preceding(F \cup {b}, c, m)
      /\ p # Null => p \in F
      /\ n # Null => n \in F
  BY <1>3, <1>6, <1>7, OrderAdd, Zenon
<1>9. p \in Links /\ n \in Links
  BY <1>8, AddrIs, Zenon DEF Links
<1>10. /\ SameBlocks(h, h1, D) /\ h1.list = h.list
       /\ \A c \in D :
             /\ h1.blk[c].free = IF c = b THEN TRUE ELSE h.blk[c].free
             /\ h1.blk[c].prev_free = IF c = b THEN p ELSE h.blk[c].prev_free
             /\ h1.blk[c].next_free = IF c = b THEN n ELSE h.blk[c].next_free
  <2> DEFINE r == [h.blk[b] EXCEPT !.free = TRUE, !.prev_free = p, !.next_free = n]
  <2>1. r \in Blocks /\ r.next_free = n /\ r.size = h.blk[b].size /\ r.free = TRUE
        /\ r.prev_phys = h.blk[b].prev_phys /\ r.next_phys = h.blk[b].next_phys
        /\ r.prev_free = p
    BY <1>9, Zenon DEF HeapOn, Blocks
  <2>2. h1 = PutBlock(h, b, r)
    BY Zenon DEF PutBlock
  <2> HIDE DEF r, h1
  <2>3. r \in Blocks
    BY <2>1, Zenon
  <2>4. /\ h1 \in HeapOn(D) /\ h1.first = h.first /\ h1.list = h.list /\ h1.blk[b] = r
        /\ \A c \in D : c # b => h1.blk[c] = h.blk[c]
    BY <2>2, <2>3, PutHeader
  <2> QED BY <2>1, <2>4, Zenon DEF SameBlocks
<1> HIDE DEF h1
<1>11. h1 \in HeapOn(D)
  BY <1>10, Zenon DEF SameBlocks
<1>12. /\ SameBlocks(h1, h2, D)
       /\ h2.list = IF p = Null THEN b ELSE h1.list
       /\ \A c \in D :
             /\ h2.blk[c].free = h1.blk[c].free
             /\ h2.blk[c].prev_free = h1.blk[c].prev_free
             /\ h2.blk[c].next_free = IF c = p THEN b ELSE h1.blk[c].next_free
  <2>1. CASE p # Null
    <3>1. p \in D /\ h2 = PutNextFree(h1, p, b)
      BY <1>8, <2>1, Zenon DEF PutNextFree
    <3> HIDE DEF h2
    <3> QED BY <1>3, <1>11, <2>1, <3>1, SetNextFree
  <2>2. CASE p = Null
    <3>1. h2 = [h1 EXCEPT !.list = b]
      BY <2>2, Zenon
    <3> HIDE DEF h2
    <3> QED BY <1>3, <1>11, <2>2, <3>1, SetList
  <2> QED BY <2>1, <2>2, Zenon
<1> HIDE DEF h2
<1>13. h2 \in HeapOn(D)
  BY <1>12, Zenon DEF SameBlocks
<1>14. /\ SameBlocks(h2, g, D) /\ g.list = h2.list
       /\ \A c \in D :
             /\ g.blk[c].free = h2.blk[c].free
             /\ g.blk[c].next_free = h2.blk[c].next_free
             /\ g.blk[c].prev_free = IF c = n THEN b ELSE h2.blk[c].prev_free
  <2>1. CASE n # Null
    <3>1. n \in D /\ g = PutPrevFree(h2, n, b)
      BY <1>8, <2>1, Zenon DEF PutPrevFree
    <3> HIDE DEF g
    <3> QED BY <1>3, <1>13, <2>1, <3>1, SetPrevFree
  <2>2. CASE n = Null
    <3>1. g = h2
      BY <2>2, Zenon
    <3> QED BY <1>3, <1>13, <2>2, <3>1, Zenon DEF SameBlocks
  <2> QED BY <2>1, <2>2, Zenon
<1> HIDE DEF g
<1>15. /\ SameBlocks(h, g, D)
       /\ g.list = IF p = Null THEN b ELSE h.list
       /\ \A c \in D :
             /\ g.blk[c].free = IF c = b THEN TRUE ELSE h.blk[c].free
             /\ g.blk[c].next_free = IF c = p THEN b ELSE IF c = b THEN n
                                     ELSE h.blk[c].next_free
             /\ g.blk[c].prev_free = IF c = n THEN b ELSE IF c = b THEN p
                                     ELSE h.blk[c].prev_free
  <2>1. SameBlocks(h, g, D)
    BY <1>10, <1>12, <1>14, SameTrans, Zenon
  <2>2. g.list = IF p = Null THEN b ELSE h.list
    BY <1>10, <1>12, <1>14, Zenon
  <2>3. ASSUME NEW c \in D
        PROVE  /\ g.blk[c].free = IF c = b THEN TRUE ELSE h.blk[c].free
               /\ g.blk[c].next_free = IF c = p THEN b ELSE IF c = b THEN n
                                       ELSE h.blk[c].next_free
               /\ g.blk[c].prev_free = IF c = n THEN b ELSE IF c = b THEN p
                                       ELSE h.blk[c].prev_free
    BY <1>10, <1>12, <1>14, ZenonT(30)
  <2> QED BY <2>1, <2>2, <2>3, Zenon
<1>16. b # p /\ b # n
  BY <1>3, <1>8, Zenon
<1>17. After(F \cup {b}, Null, g.list)
  BY <1>4, <1>8, <1>15, Zenon
<1>18. ASSUME NEW c \in F \cup {b}
       PROVE  /\ After(F \cup {b}, c, g.blk[c].next_free)
              /\ Preceding(F \cup {b}, c, g.blk[c].prev_free)
  <2>1. CASE c = b
    BY <1>8, <1>15, <1>16, <2>1, Zenon
  <2>2. CASE c # b
    <3>1. c \in F /\ c \in D /\ c # Null
      BY <1>3, <2>2, Zenon
    <3>2. After(F \cup {b}, c, g.blk[c].next_free)
      BY <1>5, <1>8, <1>15, <2>2, <3>1, Zenon
    <3>3. Preceding(F \cup {b}, c, g.blk[c].prev_free)
      BY <1>5, <1>8, <1>15, <2>2, <3>1, Zenon
    <3> QED BY <3>2, <3>3, Zenon
  <2> QED BY <2>1, <2>2, Zenon
<1>19. \A c \in DOMAIN g.blk \ (F \cup {b}) : g.blk[c].next_free = Null
  <2>1. DOMAIN g.blk = D /\ DOMAIN h.blk = D
    BY <1>15, Zenon DEF SameBlocks, HeapOn
  <2>2. \A c \in D \ F : h.blk[c].next_free = Null /\ c # p
    BY <1>3, <1>8, <2>1, Zenon DEF Listed
  <2> QED BY <1>15, <2>1, <2>2, Zenon
<1>20. Listed(g, F \cup {b})
  BY <1>17, <1>18, <1>19, Zenon DEF Listed
<1> QED BY <1>1, <1>15, <1>20, Zenon

-----------------------------------------------------------------------------
(* Splitting and merging *)

\* A sum of aligned numbers in the region is an address.
LEMMA RegionAddr ==
    ASSUME NEW a \in Int, a % Align = 0, Start <= a, a < HeapEnd
    PROVE  a \in Addr
<1>1. a \in Start .. (HeapEnd - 1)
  BY HeapNumbers
<1> QED BY <1>1, Zenon DEF Addr

\* g is h with block b cut at s: n bytes stay with b, the rest is the new free block s.
IsSplit(h, D, b, n, s, g) ==
    LET E == D \cup {s}
    IN  /\ s \in Addr /\ s \notin D
        /\ g \in HeapOn(E) /\ Tiled(g, E) /\ g.list = h.list
        /\ \A c \in D : /\ g.blk[c].free = h.blk[c].free
                        /\ g.blk[c].next_free = h.blk[c].next_free
                        /\ g.blk[c].prev_free = h.blk[c].prev_free
        /\ \A c \in D \ {b} : /\ g.blk[c].next_phys = h.blk[c].next_phys
                              /\ g.blk[c].size = h.blk[c].size
        /\ g.blk[b].next_phys = s /\ g.blk[b].size = n
        /\ g.blk[s].next_phys = h.blk[b].next_phys
        /\ g.blk[s].free = TRUE /\ g.blk[s].next_free = Null

\* heap_split_block cuts a block in two; the list is left alone.
LEMMA SplitTiled ==
    ASSUME NEW D, NEW h, D \subseteq Addr, h \in HeapOn(D), Tiled(h, D), NEW b \in D,
           NEW n \in Nat, n % Align = 0, CanSplit(h, b, n),
           NEW s, s = Payload(b) + n
    PROVE  IsSplit(h, D, b, n, s, Split(h, b, n))
<1> DEFINE z == h.blk[b].size
           next == h.blk[b].next_phys
           new == NewBlock(z - n - Header, b, next, TRUE)
           g == Split(h, b, n)
           E == D \cup {s}
<1>1. /\ b \in Nat \ {0} /\ b % Align = 0 /\ Start <= b /\ b < HeapEnd
      /\ z \in Nat /\ h.blk[b] \in Blocks /\ Sane(h, b)
  BY AddrIs, GoodSane, Zenon
<1>2. /\ h.blk \in [D -> Blocks] /\ z % Align = 0
      /\ After(D, b, next) /\ Preceding(D, b, h.blk[b].prev_phys)
      /\ b + Header + z = IF next = Null THEN HeapEnd ELSE next
      /\ z <= HeapSize
  <2>1. z <= HeapSize
    BY <1>1, HeapNumbers DEF Blocks
  <2> QED BY <2>1, Zenon DEF HeapOn, Tiled, End, Payload
<1>3. n <= z /\ z - n >= Header + Align /\ s = b + Header + n
  BY Zenon DEF CanSplit, Payload
<1>4. b + Header + z <= HeapEnd
  BY <1>1, Zenon DEF Sane, End, Payload
<1> HIDE DEF z
<1>5. /\ s \in Nat \ {0} /\ b < s /\ s < b + Header + z
      /\ s + Header + (z - n - Header) = b + Header + z
  BY <1>1, <1>3, HeapNumbers
<1>6. s \in Addr
  <2>1. b + Header \in Int /\ b \in Int /\ Header \in Int /\ n \in Int
    BY <1>1, HeapNumbers
  <2>2. (b + Header) % Align = 0
    BY <1>1, <2>1, HeapNumbers, Aligned, Zenon
  <2>3. s % Align = 0
    BY <1>3, <2>1, <2>2, Aligned, ZenonT(30)
  <2> QED BY <1>1, <1>4, <1>5, <2>3, HeapNumbers, RegionAddr
<1>7. \A d \in D : d \in Nat \ {0} /\ d # Null
  BY AddrIs, Zenon
<1>8. next = Null \/ (next \in D /\ b < next)
  BY <1>2, Zenon DEF After
<1> HIDE DEF next
<1>9. \A d \in D : b < d => s < d
  <2> TAKE d \in D
  <2> HAVE b < d
  <2>1. CASE next = Null
    <3>1. d <= b
      BY <1>2, <1>7, <1>8, <2>1, Zenon DEF After
    <3> QED BY <1>1, <1>7, <3>1
  <2>2. CASE next # Null
    <3>1. next <= d /\ next \in Nat
      BY <1>2, <1>7, <1>8, <2>2, Zenon DEF After
    <3> QED BY <1>1, <1>2, <1>3, <1>5, <1>7, <2>2, <3>1, HeapNumbers
  <2> QED BY <2>1, <2>2, Zenon
<1>10. s \notin D
  BY <1>5, <1>9
<1>11. Preceding(D, s, b)
  <2>1. \A c \in D : c < s => c <= b
    BY <1>1, <1>5, <1>7, <1>9
  <2> QED BY <1>5, <2>1, Zenon DEF Preceding
<1>12. After(D, s, next)
  <2>1. D \subseteq Nat \ {0}
    BY <1>7, Zenon
  <2> QED BY <1>2, <1>5, <1>10, <1>11, <2>1, OrderFill, Zenon
<1>13. /\ After(E, b, s) /\ After(E, s, next) /\ Preceding(E, s, b)
       /\ next # Null => Preceding(E, next, s)
       /\ \A c \in (D \cup {Null}) \ {b} : \A m : After(D, c, m) => After(E, c, m)
       /\ \A c \in D \ {next} : \A m : Preceding(D, c, m) => Preceding(E, c, m)
  BY <1>5, <1>7, <1>10, <1>11, <1>12, OrderAdd, ZenonT(30)
<1>14. new \in Blocks /\ new.size = z - n - Header /\ new.free = TRUE /\ new.prev_phys = b
       /\ new.next_phys = next /\ new.next_free = Null
  <2>1. z - n - Header \in 0 .. HeapSize
    BY <1>1, <1>2, <1>3, HeapNumbers
  <2>2. b \in Links /\ next \in Links /\ Null \in Links
    BY <1>8, AddrIs, Zenon DEF Links
  <2> HIDE DEF z
  <2> QED BY <2>1, <2>2, Zenon DEF NewBlock, Blocks
<1> DEFINE rb == [h.blk[b] EXCEPT !.next_phys = s, !.size = n]
           rn == [h.blk[next] EXCEPT !.prev_phys = s]
           f == [c \in E |-> CASE c = s    -> new
                               [] c = b    -> rb
                               [] c = next -> rn
                               [] OTHER    -> h.blk[c]]
<1>15. g = [h EXCEPT !.blk = f]
  <2>1. DOMAIN h.blk = D
    BY <1>2, Zenon
  <2> QED BY <2>1 DEF Split, z, next
<1>16. rb \in Blocks /\ rb.next_phys = s /\ rb.size = n /\ rb.free = h.blk[b].free
       /\ rb.next_free = h.blk[b].next_free /\ rb.prev_free = h.blk[b].prev_free
       /\ rb.prev_phys = h.blk[b].prev_phys
  <2>1. n \in 0 .. HeapSize /\ s \in Links
    BY <1>1, <1>2, <1>3, <1>6, HeapNumbers, AddrIs
  <2> QED BY <1>1, <2>1, Zenon DEF Blocks
<1>17. next # Null =>
          /\ rn \in Blocks /\ rn.prev_phys = s /\ rn.size = h.blk[next].size
          /\ rn.free = h.blk[next].free /\ rn.next_phys = h.blk[next].next_phys
          /\ rn.next_free = h.blk[next].next_free /\ rn.prev_free = h.blk[next].prev_free
  <2>1. s \in Links
    BY <1>6, AddrIs, Zenon
  <2>2. next # Null => h.blk[next] \in Blocks
    BY <1>2, <1>8, Zenon
  <2> QED BY <2>1, <2>2, Zenon DEF Blocks
<1> HIDE DEF rb, rn, new
<1>18. /\ f[s] = new /\ f[b] = rb
       /\ next # Null => f[next] = rn
       /\ \A c \in D \ {b, next} : f[c] = h.blk[c]
  <2>1. s # b /\ b # next /\ s # next /\ next \in D \cup {Null}
    <3>1. s # b /\ s # Null /\ b # Null
      BY <1>1, <1>5 DEF Null
    <3>2. CASE next = Null
      BY <3>1, <3>2, Zenon
    <3>3. CASE next # Null
      <4>1. next \in D /\ next \in Nat /\ b < next
        BY <1>7, <1>8, <3>3, Zenon
      <4> QED BY <1>1, <1>10, <3>1, <4>1
    <3> QED BY <3>2, <3>3, Zenon
  <2> QED BY <1>7, <1>10, <2>1, Zenon
<1>19. f \in [E -> Blocks]
  <2>1. \A c \in E : f[c] \in Blocks
    BY <1>2, <1>7, <1>14, <1>16, <1>17, <1>18
  <2> QED BY <2>1, Zenon
<1> HIDE DEF f, g
<1>20. g \in HeapOn(E) /\ g.list = h.list /\ g.first = h.first /\ g.blk = f
  BY <1>15, <1>19, Zenon DEF HeapOn
<1>21. \A c \in D : /\ g.blk[c].free = h.blk[c].free
                    /\ g.blk[c].next_free = h.blk[c].next_free
                    /\ g.blk[c].prev_free = h.blk[c].prev_free
                    /\ g.blk[c].prev_phys = IF c = next THEN s ELSE h.blk[c].prev_phys
  <2> TAKE c \in D
  <2>1. c # Null /\ b # next
    BY <1>1, <1>7, <1>8
  <2>2. CASE c = b
    BY <1>16, <1>18, <1>20, <2>1, <2>2, Zenon
  <2>3. CASE c = next
    BY <1>17, <1>18, <1>20, <2>1, <2>3, Zenon
  <2>4. CASE c # b /\ c # next
    BY <1>18, <1>20, <2>4, Zenon
  <2> QED BY <2>2, <2>3, <2>4, Zenon
<1>22. \A c \in D \ {b} : /\ g.blk[c].next_phys = h.blk[c].next_phys
                          /\ g.blk[c].size = h.blk[c].size
  BY <1>7, <1>17, <1>18, <1>20, Zenon
<1>23. Tiled(g, E)
  <2>1. Start \in E /\ g.first = Start
    BY <1>20, Zenon DEF Tiled
  <2>2. /\ g.blk[s].size % Align = 0
        /\ After(E, s, g.blk[s].next_phys)
        /\ Preceding(E, s, g.blk[s].prev_phys)
        /\ End(g, s) = IF g.blk[s].next_phys = Null THEN HeapEnd ELSE g.blk[s].next_phys
    <3>0. z \in Int /\ n \in Int /\ Header \in Int /\ z - n \in Int
      BY <1>1, <1>2, HeapNumbers
    <3>a. z % Align = 0 /\ n % Align = 0
      BY <1>1, <1>2, Zenon
    <3>1. (z - n) % Align = 0 /\ z - n \in Int /\ z \in Int /\ n \in Int /\ Header \in Int
      BY <3>0, <3>a, HeapNumbers, Aligned, Zenon
    <3>2. (z - n - Header) % Align = 0
      BY <3>1, HeapNumbers, Aligned, Zenon
    <3>3. End(g, s) = s + Header + (z - n - Header)
      BY <1>14, <1>18, <1>20, Zenon DEF End, Payload
    <3> QED BY <1>2, <1>5, <1>13, <1>14, <1>18, <1>20, <3>2, <3>3, Zenon
  <2>3. /\ g.blk[b].size % Align = 0
        /\ After(E, b, g.blk[b].next_phys)
        /\ Preceding(E, b, g.blk[b].prev_phys)
        /\ End(g, b) = IF g.blk[b].next_phys = Null THEN HeapEnd ELSE g.blk[b].next_phys
    <3>0. g.blk[b].size = n
      BY <1>16, <1>18, <1>20, Zenon
    <3>1. End(g, b) = s /\ s # Null
      BY <1>5, <3>0, Zenon DEF End, Null
    <3>2. b \in D \ {next}
      <4>1. next # Null => next \in Nat /\ b < next
        BY <1>7, <1>8, Zenon
      <4> QED BY <1>1, <4>1 DEF Null
    <3> QED BY <1>2, <1>13, <1>16, <1>18, <1>20, <3>1, <3>2, Zenon
  <2>4. ASSUME NEW c \in D \ {b}
        PROVE  /\ g.blk[c].size % Align = 0
               /\ After(E, c, g.blk[c].next_phys)
               /\ Preceding(E, c, g.blk[c].prev_phys)
               /\ End(g, c) = IF g.blk[c].next_phys = Null THEN HeapEnd
                              ELSE g.blk[c].next_phys
    <3>1. /\ h.blk[c].size % Align = 0
          /\ After(D, c, h.blk[c].next_phys)
          /\ Preceding(D, c, h.blk[c].prev_phys)
          /\ End(h, c) = IF h.blk[c].next_phys = Null THEN HeapEnd ELSE h.blk[c].next_phys
      BY Zenon DEF Tiled
    <3>2. End(g, c) = End(h, c)
      BY <1>22, Zenon DEF End
    <3>3. Preceding(E, c, g.blk[c].prev_phys)
      BY <1>7, <1>13, <1>21, <3>1, Zenon
    <3>4. After(E, c, g.blk[c].next_phys)
      BY <1>13, <1>22, <3>1, Zenon
    <3> QED BY <1>22, <3>1, <3>2, <3>3, <3>4, Zenon
  <2>5. \A c \in E : /\ g.blk[c].size % Align = 0
                     /\ After(E, c, g.blk[c].next_phys)
                     /\ Preceding(E, c, g.blk[c].prev_phys)
                     /\ End(g, c) = IF g.blk[c].next_phys = Null THEN HeapEnd
                                    ELSE g.blk[c].next_phys
    BY <2>2, <2>3, <2>4, Zenon
  <2> HIDE DEF E
  <2> QED BY <2>1, <2>5, Zenon DEF Tiled
<1>24. IsSplit(h, D, b, n, s, g)
  <2> HIDE DEF g
  <2> QED
    BY <1>6, <1>10, <1>14, <1>16, <1>18, <1>20, <1>21, <1>22, <1>23, Zenon DEF next, IsSplit
<1> QED BY <1>24, Zenon DEF g

\* Block b of h and its successor n, both free, are one block of g.
IsMerged(h, D, b, n, g) ==
    /\ ~BadNeighbour(h, b)
    /\ n \in D /\ b < n /\ h.blk[n].free
    /\ g \in HeapOn(D \ {n}) /\ Tiled(g, D \ {n}) /\ Listed(g, FreeOf(g, D \ {n}))
    /\ \A c \in D \ {n} : g.blk[c].free = h.blk[c].free
    /\ \A c \in (D \ {n}) \ {b} : /\ g.blk[c].next_phys = h.blk[c].next_phys
                                 /\ g.blk[c].size = h.blk[c].size
    /\ g.blk[b].next_phys = h.blk[n].next_phys

\* heap_try_coalesce_with_next joins two free neighbours.
LEMMA MergeTiled ==
    ASSUME NEW D, NEW h, D \subseteq Addr, h \in HeapOn(D), Tiled(h, D),
           Listed(h, FreeOf(h, D)), NEW b \in D, Mergeable(h, b)
    PROVE  IsMerged(h, D, b, h.blk[b].next_phys, TryCoalesce(h, b))
<1> DEFINE n  == h.blk[b].next_phys
           nn == h.blk[n].next_phys
           F  == FreeOf(h, D)
           E  == D \ {n}
           zb == h.blk[b].size
           zn == h.blk[n].size
           h1 == RemoveFree(h, n)
           rb == [h1.blk[b] EXCEPT !.size = zb + Header + zn, !.next_phys = nn]
           rn == [h1.blk[nn] EXCEPT !.prev_phys = b]
           f  == [c \in DOMAIN h1.blk \ {n} |->
                     CASE c = b  -> rb
                       [] c = nn -> [h1.blk[c] EXCEPT !.prev_phys = b]
                       [] OTHER  -> h1.blk[c]]
           g  == [h1 EXCEPT !.blk = f]
<1>1. h.blk[b].free /\ n # Null /\ h.blk[n].free
  BY Zenon DEF Mergeable
<1>2. n \in D /\ b < n /\ After(D, b, n) /\ End(h, b) = n
  BY <1>1, Zenon DEF Tiled, After
<1>3. ~BadNeighbour(h, b)
  BY <1>2, GoodSane, Zenon DEF BadNeighbour
<1>4. TryCoalesce(h, b) = g
  BY <1>3, Zenon DEF TryCoalesce
<1> HIDE DEF n
<1>5. /\ zb \in Nat /\ zn \in Nat /\ zb % Align = 0 /\ zn % Align = 0
      /\ n = b + Header + zb
      /\ n + Header + zn = IF nn = Null THEN HeapEnd ELSE nn
      /\ n + Header + zn <= HeapEnd
      /\ b \in Nat /\ n \in Nat /\ Start <= b
  <2>1. zb \in Nat /\ zn \in Nat /\ Sane(h, n)
    BY <1>2, GoodSane, Zenon
  <2>2. n + Header + zn <= HeapEnd
    BY <2>1, Zenon DEF Sane, End, Payload
  <2>3. zb % Align = 0 /\ zn % Align = 0 /\ End(h, n) = IF nn = Null THEN HeapEnd ELSE nn
    BY <1>2, Zenon DEF Tiled
  <2>4. n = b + Header + zb /\ End(h, n) = n + Header + zn
    BY <1>2, Zenon DEF End, Payload
  <2>5. b \in Nat /\ n \in Nat /\ Start <= b
    BY <1>2, AddrIs, Zenon
  <2> QED BY <2>1, <2>2, <2>3, <2>4, <2>5, Zenon
<1>6. /\ SameBlocks(h, h1, D)
      /\ \A c \in D : h1.blk[c].free = h.blk[c].free
      /\ Listed(h1, F \ {n})
  <2>1. n \in F /\ F \in SUBSET D
    BY <1>1, <1>2, Zenon DEF FreeOf
  <2> QED BY <2>1, RemoveListed, Zenon
<1> HIDE DEF h1, F
<1>7. D \subseteq Nat \ {0} /\ \A c \in D : c # Null /\ c \in Nat /\ c \in Links
  BY AddrIs, Zenon
<1>8. After(D, n, nn) /\ Preceding(D, n, b)
  <2>1. After(D, n, nn)
    BY <1>2, Zenon DEF Tiled
  <2> QED BY <1>1, <1>2, <1>5, <1>7, <2>1, OrderUnique, Zenon
<1>9. /\ After(E, b, nn)
      /\ nn # Null => Preceding(E, nn, b)
      /\ nn # Null => nn \in D /\ nn # n
      /\ \A c \in (D \cup {Null}) \ {n, b} : \A m : After(D, c, m) => After(E, c, m)
      /\ \A c \in D \ {n, nn} : \A m : Preceding(D, c, m) => Preceding(E, c, m)
  <2> HIDE DEF nn
  <2> QED BY <1>2, <1>7, <1>8, OrderDrop, ZenonT(30)
<1>10. nn # Null => n < nn
  BY <1>8, Zenon DEF After
<1>11. b # n /\ b # nn /\ n # nn /\ nn \in Links
  <2>1. b # n
    BY <1>2, <1>5
  <2>2. CASE nn = Null
    BY <1>7, <1>1, <2>1, <2>2, Zenon DEF Links
  <2>3. CASE nn # Null
    <3>1. nn \in Nat /\ nn \in Links
      BY <1>7, <1>9, <2>3, Zenon
    <3> QED BY <1>2, <1>5, <1>10, <2>1, <2>3, <3>1
  <2> QED BY <2>2, <2>3, Zenon
<1> HIDE DEF nn, zb, zn
<1>12. h1 \in HeapOn(D) /\ h1.blk[b].size = zb /\ h1.first = h.first
  BY <1>6, Zenon DEF SameBlocks, zb
<1>13. DOMAIN h1.blk = D /\ h1.blk \in [D -> Blocks]
  BY <1>12, Zenon DEF HeapOn
<1>14. /\ rb \in Blocks /\ rb.size = zb + Header + zn /\ rb.next_phys = nn
       /\ rb.free = h1.blk[b].free /\ rb.prev_phys = h1.blk[b].prev_phys
       /\ rb.next_free = h1.blk[b].next_free /\ rb.prev_free = h1.blk[b].prev_free
  <2>1. zb + Header + zn \in 0 .. HeapSize
    BY <1>5, HeapNumbers
  <2>2. h1.blk[b] \in Blocks
    BY <1>13, Zenon
  <2> QED BY <1>11, <1>12, <2>1, <2>2, Zenon DEF Blocks
<1>15. nn # Null =>
          /\ rn \in Blocks /\ rn.size = h1.blk[nn].size /\ rn.prev_phys = b
          /\ rn.next_phys = h1.blk[nn].next_phys /\ rn.free = h1.blk[nn].free
          /\ rn.next_free = h1.blk[nn].next_free /\ rn.prev_free = h1.blk[nn].prev_free
  <2>1. nn # Null => h1.blk[nn] \in Blocks /\ b \in Links
    BY <1>7, <1>9, <1>13, Zenon
  <2> QED BY <2>1, Zenon DEF Blocks
<1> HIDE DEF rb
<1>16. /\ b \in E /\ f[b] = rb
       /\ nn # Null => nn \in E /\ f[nn] = rn
       /\ \A c \in E \ {b, nn} : f[c] = h1.blk[c]
  BY <1>9, <1>11, <1>13, Zenon
<1>17. f \in [E -> Blocks]
  <2>1. \A c \in E : f[c] \in Blocks
    BY <1>7, <1>13, <1>14, <1>15, <1>16, Zenon
  <2> QED BY <1>13, <2>1, Zenon
<1> HIDE DEF f, g, rn
<1>18. g \in HeapOn(E) /\ g.list = h1.list /\ g.first = h.first /\ g.blk = f
  <2>1. g = [h1 EXCEPT !.blk = f]
    BY Zenon DEF g
  <2> HIDE DEF E
  <2> QED BY <1>12, <1>17, <2>1, Zenon DEF HeapOn
<1>19. g.blk[b].size = zb + Header + zn /\ g.blk[b].next_phys = nn
       /\ g.blk[b].prev_phys = h.blk[b].prev_phys
  BY <1>6, <1>14, <1>16, <1>18, Zenon DEF SameBlocks
<1>20. \A c \in E \ {b} : /\ g.blk[c].next_phys = h.blk[c].next_phys
                          /\ g.blk[c].size = h.blk[c].size
                          /\ g.blk[c].prev_phys = IF c = nn THEN b ELSE h.blk[c].prev_phys
  <2> TAKE c \in E \ {b}
  <2>1. c # Null /\ /\ h1.blk[c].next_phys = h.blk[c].next_phys
                    /\ h1.blk[c].size = h.blk[c].size
                    /\ h1.blk[c].prev_phys = h.blk[c].prev_phys
    BY <1>6, <1>7, Zenon DEF SameBlocks
  <2>2. CASE c = nn
    BY <1>15, <1>16, <1>18, <2>1, <2>2, Zenon
  <2>3. CASE c # nn
    BY <1>16, <1>18, <2>1, <2>3, Zenon
  <2> QED BY <2>2, <2>3, Zenon
<1>21. \A c \in E : /\ g.blk[c].free = h.blk[c].free
                    /\ g.blk[c].next_free = h1.blk[c].next_free
                    /\ g.blk[c].prev_free = h1.blk[c].prev_free
  <2> TAKE c \in E
  <2>1. h1.blk[c].free = h.blk[c].free /\ c # Null
    BY <1>6, <1>7, Zenon
  <2>2. CASE c = b
    BY <1>14, <1>16, <1>18, <2>1, <2>2, Zenon
  <2>3. CASE c = nn
    BY <1>15, <1>16, <1>18, <2>1, <2>3, Zenon
  <2>4. CASE c # b /\ c # nn
    BY <1>16, <1>18, <2>1, <2>4, Zenon
  <2> QED BY <2>2, <2>3, <2>4, Zenon
<1>22. Listed(g, FreeOf(g, E))
  <2>1. FreeOf(g, E) = F \ {n} /\ F \ {n} \subseteq E
    BY <1>21, Zenon DEF FreeOf, F
  <2>2. DOMAIN g.blk = E /\ DOMAIN h1.blk = D
    BY <1>12, <1>18, Zenon DEF HeapOn
  <2>3. g.list = h1.list
    BY <1>18, Zenon
  <2>4. \A c \in E \ (F \ {n}) : g.blk[c].next_free = Null
    BY <1>6, <1>21, <2>2, Zenon DEF Listed
  <2>5. /\ After(F \ {n}, Null, g.list)
        /\ \A c \in F \ {n} : /\ After(F \ {n}, c, g.blk[c].next_free)
                              /\ Preceding(F \ {n}, c, g.blk[c].prev_free)
    BY <1>6, <1>21, <2>1, <2>3, Zenon DEF Listed
  <2> HIDE DEF E
  <2> QED BY <2>1, <2>2, <2>4, <2>5, Zenon DEF Listed
<1>23. Tiled(g, E)
  <2>1. Start \in E /\ g.first = Start
    <3>1. Start # n /\ Start \in D
      BY <1>2, <1>5, HeapNumbers DEF Tiled
    <3> QED BY <1>18, <3>1, Zenon DEF Tiled
  <2>2. /\ g.blk[b].size % Align = 0
        /\ After(E, b, g.blk[b].next_phys)
        /\ Preceding(E, b, g.blk[b].prev_phys)
        /\ End(g, b) = IF g.blk[b].next_phys = Null THEN HeapEnd ELSE g.blk[b].next_phys
    <3>1. zb \in Int /\ zn \in Int /\ Header \in Int /\ zb + Header \in Int
      BY <1>5, HeapNumbers
    <3>2. (zb + Header) % Align = 0
      BY <1>5, <3>1, HeapNumbers, Aligned, Zenon
    <3>3. (zb + Header + zn) % Align = 0
      BY <1>5, <3>1, <3>2, Aligned, Zenon
    <3>4. Preceding(E, b, h.blk[b].prev_phys)
      <4>1. Preceding(D, b, h.blk[b].prev_phys)
        BY Zenon DEF Tiled
      <4> QED BY <1>9, <1>11, <4>1, Zenon
    <3>5. End(g, b) = b + Header + (zb + Header + zn)
      BY <1>19, Zenon DEF End, Payload
    <3>6. End(g, b) = n + Header + zn
      BY <1>5, <3>5, HeapNumbers
    <3> QED BY <1>5, <1>9, <1>19, <3>3, <3>4, <3>6, Zenon
  <2>3. ASSUME NEW c \in E \ {b}
        PROVE  /\ g.blk[c].size % Align = 0
               /\ After(E, c, g.blk[c].next_phys)
               /\ Preceding(E, c, g.blk[c].prev_phys)
               /\ End(g, c) = IF g.blk[c].next_phys = Null THEN HeapEnd
                              ELSE g.blk[c].next_phys
    <3>1. /\ h.blk[c].size % Align = 0
          /\ After(D, c, h.blk[c].next_phys)
          /\ Preceding(D, c, h.blk[c].prev_phys)
          /\ End(h, c) = IF h.blk[c].next_phys = Null THEN HeapEnd ELSE h.blk[c].next_phys
      BY Zenon DEF Tiled
    <3>2. End(g, c) = End(h, c)
      BY <1>20, Zenon DEF End
    <3>3. Preceding(E, c, g.blk[c].prev_phys)
      BY <1>7, <1>9, <1>20, <3>1, Zenon
    <3>4. After(E, c, g.blk[c].next_phys)
      BY <1>9, <1>20, <3>1, Zenon
    <3> QED BY <1>20, <3>1, <3>2, <3>3, <3>4, Zenon
  <2>4. \A c \in E : /\ g.blk[c].size % Align = 0
                     /\ After(E, c, g.blk[c].next_phys)
                     /\ Preceding(E, c, g.blk[c].prev_phys)
                     /\ End(g, c) = IF g.blk[c].next_phys = Null THEN HeapEnd
                                    ELSE g.blk[c].next_phys
    BY <2>2, <2>3, Zenon
  <2> HIDE DEF E
  <2> QED BY <2>1, <2>4, Zenon DEF Tiled
<1>24. IsMerged(h, D, b, n, g)
  <2> HIDE DEF g
  <2> QED BY <1>1, <1>2, <1>3, <1>18, <1>19, <1>20, <1>21, <1>22, <1>23, Zenon DEF nn, IsMerged
<1> QED BY <1>4, <1>24, Zenon DEF n

\* All of Good but that free blocks may touch.
Base(h, D) ==
    /\ D \subseteq Addr
    /\ h \in HeapOn(D)
    /\ Tiled(h, D)
    /\ Listed(h, FreeOf(h, D))

\* The used blocks of h are in g as they were.
Kept(h, D, g, E) ==
    \A c \in D : ~h.blk[c].free =>
        c \in E /\ ~g.blk[c].free /\ g.blk[c].size = h.blk[c].size

\* A heap is in order when its region is tiled, its free list complete, and no
\* free block is followed by another.
LEMMA GoodIs ==
    ASSUME NEW h, NEW D
    PROVE  Good(h, D) <=> Base(h, D) /\ \A c \in D : ~Mergeable(h, c)
BY Zenon DEF Good, Base, Apart, Mergeable

\* One call of heap_try_coalesce_with_next
LEMMA TryIs ==
    ASSUME NEW D, NEW h, Base(h, D), NEW a \in D, Mergeable(h, a)
    PROVE  LET n == h.blk[a].next_phys
               g == TryCoalesce(h, a)
           IN  /\ ~BadNeighbour(h, a) /\ Base(g, D \ {n}) /\ DOMAIN g.blk = D \ {n}
               /\ Kept(h, D, g, D \ {n})
               /\ a \in D \ {n} /\ n \in D
               /\ \A c \in (D \ {n}) \ {a} : Mergeable(g, c) => Mergeable(h, c)
               /\ Mergeable(g, a) => Mergeable(h, n)
<1> DEFINE n == h.blk[a].next_phys
           g == TryCoalesce(h, a)
           E == D \ {n}
<1>1. D \subseteq Addr /\ h \in HeapOn(D) /\ Tiled(h, D) /\ Listed(h, FreeOf(h, D))
  BY Zenon DEF Base
<1>2. /\ ~BadNeighbour(h, a)
      /\ n \in D /\ a < n /\ h.blk[n].free
      /\ g \in HeapOn(E) /\ Tiled(g, E) /\ Listed(g, FreeOf(g, E))
      /\ \A c \in E : g.blk[c].free = h.blk[c].free
      /\ \A c \in E \ {a} : /\ g.blk[c].next_phys = h.blk[c].next_phys
                            /\ g.blk[c].size = h.blk[c].size
      /\ g.blk[a].next_phys = h.blk[n].next_phys
  <2>1. IsMerged(h, D, a, n, g)
    BY <1>1, MergeTiled, Zenon
  <2> QED BY <2>1, Zenon DEF IsMerged
<1> HIDE DEF g, n
<1>3. a \in E
  <2>1. a \in Nat /\ n \in Nat
    BY <1>1, <1>2, AddrIs, Zenon
  <2>2. a # n
    BY <1>2, <2>1
  <2> QED BY <2>2, Zenon DEF E
<1>4. Base(g, E) /\ DOMAIN g.blk = E
  BY <1>1, <1>2, Zenon DEF Base, HeapOn
<1>5. Kept(h, D, g, E)
  <2>1. h.blk[a].free
    BY Zenon DEF Mergeable
  <2> QED BY <1>2, <2>1, Zenon DEF Kept
<1>6. \A c \in E : g.blk[c].next_phys \in E \cup {Null}
  BY <1>2, Zenon DEF Tiled, After
<1>7. ASSUME NEW c \in E \ {a}, Mergeable(g, c) PROVE Mergeable(h, c)
  <2>1. g.blk[c].free /\ g.blk[c].next_phys # Null /\ g.blk[g.blk[c].next_phys].free
    BY <1>7, Zenon DEF Mergeable
  <2> QED BY <1>2, <1>6, <2>1, Zenon DEF Mergeable
<1>8. ASSUME Mergeable(g, a) PROVE Mergeable(h, n)
  <2>1. g.blk[a].next_phys # Null /\ g.blk[g.blk[a].next_phys].free
    BY <1>8, Zenon DEF Mergeable
  <2> QED BY <1>2, <1>3, <1>6, <2>1, Zenon DEF Mergeable
<1> QED BY <1>2, <1>3, <1>4, <1>5, <1>7, <1>8, Zenon DEF g, n

\* heap_try_coalesce_next leaves a block alone that has no free successor.
LEMMA TryNothing ==
    ASSUME NEW h, NEW a, ~Mergeable(h, a)
    PROVE  TryCoalesce(h, a) = h /\ ~BadNeighbour(h, a)
BY Zenon DEF TryCoalesce, BadNeighbour

\* A call at the only place where free blocks touch leaves none that do.
LEMMA TryApart ==
    ASSUME NEW D, NEW h, Base(h, D), NEW a \in D,
           \A c \in D : Mergeable(h, c) => c = a
    PROVE  LET g == TryCoalesce(h, a)
           IN  /\ ~BadNeighbour(h, a) /\ Good(g, DOMAIN g.blk)
               /\ Kept(h, D, g, DOMAIN g.blk) /\ a \in DOMAIN g.blk
<1> DEFINE g == TryCoalesce(h, a)
<1>1. CASE Mergeable(h, a)
  <2> DEFINE n == h.blk[a].next_phys
  <2>1. /\ ~BadNeighbour(h, a) /\ Base(g, D \ {n}) /\ DOMAIN g.blk = D \ {n}
        /\ Kept(h, D, g, D \ {n})
        /\ a \in D \ {n} /\ n \in D
        /\ \A c \in (D \ {n}) \ {a} : Mergeable(g, c) => Mergeable(h, c)
        /\ Mergeable(g, a) => Mergeable(h, n)
    BY <1>1, TryIs, Zenon
  <2> HIDE DEF g, n
  <2>2. \A c \in D \ {n} : ~Mergeable(g, c)
    BY <2>1, Zenon
  <2>3. Good(g, D \ {n})
    BY <2>1, <2>2, GoodIs, Zenon
  <2> QED BY <2>1, <2>3, Zenon DEF g
<1>2. CASE ~Mergeable(h, a)
  <2>1. g = h /\ ~BadNeighbour(h, a)
    BY <1>2, TryNothing, Zenon
  <2>2. DOMAIN h.blk = D
    BY Zenon DEF Base, HeapOn
  <2>3. Good(h, D) /\ Kept(h, D, h, D)
    BY <1>2, GoodIs, Zenon DEF Kept
  <2> QED BY <2>1, <2>2, <2>3, Zenon
<1> QED BY <1>1, <1>2, Zenon

\* What two calls in a row leave alone
LEMMA KeptTrans ==
    ASSUME NEW h, NEW D, NEW g, NEW E, NEW k, NEW G, Kept(h, D, g, E), Kept(g, E, k, G)
    PROVE  Kept(h, D, k, G)
BY Zenon DEF Kept

\* heap_coalesce joins the freed block with its free neighbours.
LEMMA CoalesceIs ==
    ASSUME NEW D, NEW h, Base(h, D), NEW b \in D, h.blk[b].free,
           \A c \in D : Mergeable(h, c) => c = b \/ h.blk[c].next_phys = b
    PROVE  LET r == Coalesce(h, b)
           IN  /\ r.bad = FALSE
               /\ Good(r.heap, DOMAIN r.heap.blk)
               /\ Kept(h, D, r.heap, DOMAIN r.heap.blk)
<1> DEFINE p  == h.blk[b].prev_phys
           a  == IF p # Null /\ h.blk[p].free THEN p ELSE b
           h1 == TryCoalesce(h, a)
           h2 == TryCoalesce(h1, a)
<1>1. /\ Coalesce(h, b).heap = h2
      /\ Coalesce(h, b).bad = (BadNeighbour(h, a) \/ BadNeighbour(h1, a))
  BY Zenon DEF Coalesce
<1>2. D \subseteq Addr /\ h \in HeapOn(D) /\ Tiled(h, D)
  BY Zenon DEF Base
<1>3. D \subseteq Nat \ {0} /\ b \in Nat /\ \A c \in D : c \in Nat
  BY <1>2, AddrIs, Zenon
<1>4. Preceding(D, b, p) /\ \A c \in D : After(D, c, h.blk[c].next_phys)
  BY <1>2, Zenon DEF Tiled
<1>5. ASSUME NEW c \in D, h.blk[c].next_phys = b PROVE c = p
  <2>1. Preceding(D, b, c)
    <3>1. After(D, c, b) /\ c \in Nat /\ b # Null
      BY <1>3, <1>4, <1>5, Zenon DEF Null
    <3> QED BY <1>3, <3>1, OrderUnique, Zenon
  <2> HIDE DEF p
  <2> QED BY <1>3, <1>4, <2>1, OrderUnique, Zenon
<1>6. p # Null => p \in D
  BY <1>4, Zenon DEF Preceding
<1>7. p # Null => h.blk[p].next_phys = b
  <2> SUFFICES ASSUME p # Null PROVE h.blk[p].next_phys = b
    BY Zenon
  <2> HIDE DEF p
  <2>1. p \in D /\ p \in Nat
    BY <1>3, <1>6, Zenon
  <2>2. After(D, p, h.blk[p].next_phys)
    BY <1>4, <2>1, Zenon
  <2>3. After(D, p, b)
    BY <1>3, <1>4, OrderUnique, Zenon
  <2> DEFINE m == h.blk[p].next_phys
  <2>4. After(D, p, m)
    BY <2>2, Zenon
  <2> HIDE DEF m
  <2>5. m = b
    BY <1>3, <2>1, <2>3, <2>4, OrderUnique, Zenon
  <2> QED BY <2>5, Zenon DEF m
<1> HIDE DEF p
<1>8. CASE p # Null /\ h.blk[p].free
  <2>1. a = p /\ p \in D /\ h.blk[p].next_phys = b /\ p # b
    <3>1. p # b
      BY <1>4, <1>8, <1>3, <1>6 DEF Preceding
    <3> QED BY <1>6, <1>7, <1>8, <3>1, Zenon
  <2>2. Mergeable(h, p)
    BY <1>3, <1>8, <2>1, Zenon DEF Mergeable, Null
  <2> HIDE DEF h2
  <2>3. /\ ~BadNeighbour(h, p) /\ Base(h1, D \ {b}) /\ DOMAIN h1.blk = D \ {b}
        /\ Kept(h, D, h1, D \ {b})
        /\ p \in D \ {b}
        /\ \A c \in (D \ {b}) \ {p} : Mergeable(h1, c) => Mergeable(h, c)
    BY <2>1, <2>2, TryIs, Zenon
  <2> HIDE DEF h1, a
  <2>4. \A c \in D \ {b} : Mergeable(h1, c) => c = p
    BY <1>5, <2>3, Zenon
  <2>5. /\ ~BadNeighbour(h1, p) /\ Good(h2, DOMAIN h2.blk)
        /\ Kept(h1, D \ {b}, h2, DOMAIN h2.blk)
    BY <2>1, <2>3, <2>4, TryApart, Zenon DEF h2
  <2>6. Kept(h, D, h2, DOMAIN h2.blk)
    BY <2>3, <2>5, KeptTrans, Zenon
  <2> QED BY <1>1, <2>1, <2>3, <2>5, <2>6, Zenon
<1>9. CASE ~(p # Null /\ h.blk[p].free)
  <2>1. a = b
    BY <1>9, Zenon
  <2>2. \A c \in D : Mergeable(h, c) => c = b
    BY <1>3, <1>5, <1>9, Zenon DEF Mergeable, Null
  <2> HIDE DEF h2
  <2>3. /\ ~BadNeighbour(h, b) /\ Good(h1, DOMAIN h1.blk)
        /\ Kept(h, D, h1, DOMAIN h1.blk) /\ b \in DOMAIN h1.blk
    BY <2>1, <2>2, TryApart, Zenon
  <2> HIDE DEF h1, a
  <2>4. ~Mergeable(h1, b)
    BY <2>3, GoodIs, Zenon
  <2>5. h2 = h1 /\ ~BadNeighbour(h1, b)
    BY <2>1, <2>4, TryNothing, Zenon DEF h2
  <2> QED BY <1>1, <2>1, <2>3, <2>5, Zenon
<1> QED BY <1>8, <1>9, Zenon
=============================================================================
