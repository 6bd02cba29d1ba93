------------------------------- MODULE Heap -------------------------------
(***************************************************************************)
(* The kernel heap (core/heap.c): one region tiled by blocks, each with a  *)
(* header that links it to its physical neighbours and, while it is free,  *)
(* into an address-ordered free list.  kmalloc takes the first block that  *)
(* fits and splits it; kfree finds the block by walking the region, links  *)
(* it in and merges it with its neighbours.                                *)
(*                                                                         *)
(* The functions run to completion (no interrupt handler allocates), so    *)
(* each call is one action built from the source's helpers, which take a   *)
(* heap and give a heap; the self-test is a sequence of calls.  A header   *)
(* is a record under its address; the header of a merged block is never    *)
(* reached again and is dropped.                                           *)
(***************************************************************************)
EXTENDS Integers, Sequences, Functions

CONSTANTS
    Word,      \* size_t: 2^32 in the code
    Align,     \* TERMOB_HEAP_ALIGNMENT: 16
    Header,    \* TERMOB_HEAP_HEADER_SIZE: 32
    Start,     \* heap_start_ptr: the aligned end of the kernel
    HeapSize,  \* TERMOB_HEAP_SIZE_BYTES: 1 MiB
    Sizes,     \* bound: the sizes callers ask for
    TestSizes  \* the sizes of heap_run_self_test: 64, 128, 16 * 8, 80

\* No caller asks for so much that heap_align_up would wrap, nor calls kcalloc with
\* such a product.
ASSUME HeapAssumption ==
    /\ {Word, Align, Header, Start, HeapSize} \subseteq Nat \ {0}
    /\ \A n \in {Header, Start, HeapSize} : n % Align = 0
    /\ Header < HeapSize
    /\ Start + HeapSize < Word
    /\ Sizes \subseteq 0 .. (Word - Align)
    /\ \A n \in Sizes : 2 * n <= Word - Align \/ 2 * n >= Word
    /\ TestSizes \in [1 .. 4 -> 1 .. (Word - Align)]

VARIABLES
    ready,  \* heap_ready
    heap,   \* heap_first_block, heap_free_list and the headers
    errors, \* heap_diag_error_flags
    live,   \* what callers hold: payload address -> size asked for
    test    \* the self-test under way: what it has yet to do, its pointers,
            \* and the heap and flags it began with

vars == <<ready, heap, errors, live, test>>

Null    == 0
HeapEnd == Start + HeapSize
Addr    == {a \in Start .. (HeapEnd - 1) : a % Align = 0}
Links   == Addr \cup {Null}

\* heap_max_walks
MaxWalks == (HeapSize \div Align) + 1

\* Mutant: sizes are rounded down.
MutAlignDown(n) == (n \div Align) * Align

\* heap_align_up
AlignUp(n) == (((n + (Align - 1)) % Word) \div Align) * Align

\* heap_block_payload_address, heap_block_end_address
Payload(b) == b + Header
End(h, b)  == Payload(b) + h.blk[b].size

\* heap_block_is_sane; the magic number is the presence of a header
Sane(h, b) ==
    /\ b \in DOMAIN h.blk
    /\ b % Align = 0
    /\ b \in Start .. (HeapEnd - 1)
    /\ h.blk[b].size % Align = 0
    /\ End(h, b) <= HeapEnd

-----------------------------------------------------------------------------
(* The helpers. *)

\* heap_remove_free_block
RemoveFree(h, b) ==
    LET p  == h.blk[b].prev_free
        n  == h.blk[b].next_free
        h1 == IF p # Null THEN [h EXCEPT !.blk[p].next_free = n]
              ELSE IF h.list = b THEN [h EXCEPT !.list = n] ELSE h
        h2 == IF n # Null THEN [h1 EXCEPT !.blk[n].prev_free = p] ELSE h1
    IN  [h2 EXCEPT !.blk[b].prev_free = Null, !.blk[b].next_free = Null]

\* heap_insert_free_block: before the first block at a higher address.
InsertFree(h, b) ==
    LET last[c \in DOMAIN h.blk] ==
            LET n == h.blk[c].next_free
            IN  IF n # Null /\ n < b THEN last[n] ELSE c
        p  == IF h.list = Null \/ b < h.list THEN Null ELSE last[h.list]
        n  == IF p = Null THEN h.list ELSE h.blk[p].next_free
        h1 == [h EXCEPT !.blk[b].free = TRUE, !.blk[b].prev_free = p,
                        !.blk[b].next_free = n]
        h2 == IF p = Null THEN [h1 EXCEPT !.list = b]
              ELSE [h1 EXCEPT !.blk[p].next_free = b]
    IN  IF n # Null THEN [h2 EXCEPT !.blk[n].prev_free = b] ELSE h2

\* heap_initialize_block
NewBlock(size, prev, next, free) ==
    [size |-> size, free |-> free, prev_phys |-> prev, next_phys |-> next,
     prev_free |-> Null, next_free |-> Null]

\* heap_can_split_block
CanSplit(h, b, n) == n <= h.blk[b].size /\ h.blk[b].size - n >= Header + Align

\* heap_split_block, when it can be split
Split(h, b, n) ==
    LET s    == Payload(b) + n
        next == h.blk[b].next_phys
        new  == NewBlock(h.blk[b].size - n - Header, b, next, TRUE)
    IN  [h EXCEPT !.blk = [c \in DOMAIN @ \cup {s} |->
            CASE c = s    -> new
              [] c = b    -> [@[b] EXCEPT !.next_phys = s, !.size = n]
              [] c = next -> [@[c] EXCEPT !.prev_phys = s]
              [] OTHER    -> @[c]]]

\* heap_try_coalesce_with_next does something
Mergeable(h, b) ==
    LET n == h.blk[b].next_phys
    IN  h.blk[b].free /\ n # Null /\ h.blk[n].free

\* heap_try_coalesce_with_next finds the next header wrong
BadNeighbour(h, b) ==
    /\ Mergeable(h, b)
    /\ LET n == h.blk[b].next_phys IN ~Sane(h, n) \/ End(h, b) # n

TryCoalesce(h, b) ==
    LET n    == h.blk[b].next_phys
        nn   == h.blk[n].next_phys
        size == h.blk[b].size + Header + h.blk[n].size
    IN  IF ~Mergeable(h, b) \/ BadNeighbour(h, b) THEN h
        ELSE [RemoveFree(h, n) EXCEPT !.blk = [c \in DOMAIN @ \ {n} |->
                CASE c = b  -> [@[b] EXCEPT !.size = size, !.next_phys = nn]
                  [] c = nn -> [@[c] EXCEPT !.prev_phys = b]
                  [] OTHER  -> @[c]]]

\* Mutant: one merge, so a block freed between two free ones stays split.
MutCoalesceOnce(h, b) ==
    LET p == h.blk[b].prev_phys
        a == IF p # Null /\ h.blk[p].free THEN p ELSE b
    IN  [heap |-> TryCoalesce(h, a), bad |-> BadNeighbour(h, a)]

\* heap_coalesce, and whether it met a wrong header
Coalesce(h, b) ==
    LET p  == h.blk[b].prev_phys
        a  == IF p # Null /\ h.blk[p].free THEN p ELSE b
        h1 == TryCoalesce(h, a)
    IN  [heap |-> TryCoalesce(h1, a),
         bad  |-> BadNeighbour(h, a) \/ BadNeighbour(h1, a)]

-----------------------------------------------------------------------------
(* kmalloc and kfree, as functions of the heap. *)

\* Mutant: a block of exactly the size is passed over.
MutFirstFitStrict(h, n) ==
    LET seek[c \in Links] ==
            IF c = Null \/ ~Sane(h, c) THEN c
            ELSE IF ~h.blk[c].free \/ h.blk[c].size > n THEN c
            ELSE seek[h.blk[c].next_free]
    IN  seek[h.list]

\* The walk of kmalloc: it stops at a block that is wrong or large enough.
FirstFit(h, n) ==
    LET seek[c \in Links] ==
            IF c = Null \/ ~Sane(h, c) THEN c
            ELSE IF ~h.blk[c].free \/ h.blk[c].size >= n THEN c
            ELSE seek[h.blk[c].next_free]
    IN  seek[h.list]

\* kmalloc: the heap after it, the pointer, and the error flags it raises
Malloc(h, size) ==
    LET n  == AlignUp(size)
        b  == FirstFit(h, n)
        h1 == RemoveFree(h, b)
        h2 == IF CanSplit(h1, b, n)
              THEN InsertFree(Split(h1, b, n), Payload(b) + n) ELSE h1
    IN  IF size = 0 \/ b = Null
        THEN [heap |-> h, ptr |-> Null, errors |-> {}]
        ELSE IF ~Sane(h, b) \/ ~h.blk[b].free
        THEN [heap |-> h, ptr |-> Null, errors |-> {"corruption"}]
        ELSE [heap   |-> [h2 EXCEPT !.blk[b].free = FALSE],
              ptr    |-> Payload(b),
              errors |-> {}]

\* heap_find_block_by_payload: where the walk stops
FindByPayload(h, ptr) ==
    LET seek[c \in Links] ==
            IF c = Null \/ ~Sane(h, c) \/ Payload(c) = ptr THEN c
            ELSE seek[h.blk[c].next_phys]
    IN  seek[h.first]

\* kfree: the heap after it and the error flags it raises
Free(h, ptr) ==
    LET b == FindByPayload(h, ptr)
        c == Coalesce(InsertFree(h, b), b)
    IN  IF ptr = Null THEN [heap |-> h, errors |-> {}]
        ELSE IF b = Null THEN [heap |-> h, errors |-> {"invalid_free"}]
        ELSE IF ~Sane(h, b)
        THEN [heap |-> h, errors |-> {"corruption", "invalid_free"}]
        ELSE IF h.blk[b].free THEN [heap |-> h, errors |-> {"double_free"}]
        ELSE [heap   |-> c.heap,
              errors |-> IF c.bad THEN {"corruption"} ELSE {}]

-----------------------------------------------------------------------------
(* heap_check_integrity_internal. *)

\* The blocks met from b along next_phys or next_free, cut where the code gives
\* up.
Walk(h, b, next) ==
    LET w[k \in 0 .. MaxWalks] ==
            IF k = 0 THEN <<b>>
            ELSE LET s == w[k - 1]
                     c == s[Len(s)]
                 IN  IF c \notin DOMAIN h.blk THEN s ELSE Append(s, h.blk[c][next])
        full == w[MaxWalks]
    IN  IF full[Len(full)] = Null THEN SubSeq(full, 1, Len(full) - 1) ELSE full

Before(s, i) == IF i = 1 THEN Null ELSE s[i - 1]

Integrity(h) ==
    LET phys  == Walk(h, h.first, "next_phys")
        free  == Walk(h, h.list, "next_free")
        holes == {b \in Range(phys) : h.blk[b].free}
    IN  /\ h.first # Null
        /\ Len(phys) <= MaxWalks /\ Len(free) <= MaxWalks
        /\ \A i \in 1 .. Len(phys) :
              /\ Sane(h, phys[i])
              /\ phys[i] = IF i = 1 THEN Start ELSE End(h, phys[i - 1])
              /\ h.blk[phys[i]].prev_phys = Before(phys, i)
        /\ End(h, phys[Len(phys)]) = HeapEnd
        /\ \A i \in 1 .. (Len(phys) - 1) :
              ~(h.blk[phys[i]].free /\ h.blk[phys[i + 1]].free)
        /\ \A i \in 1 .. Len(free) :
              /\ Sane(h, free[i]) /\ h.blk[free[i]].free
              /\ h.blk[free[i]].prev_free = Before(free, i)
              /\ Before(free, i) < free[i]
        /\ ExistsBijection(DOMAIN free, holes)
        /\ holes \subseteq Range(free)

\* heap_bytes_free
BytesFree(h) ==
    LET free == Walk(h, h.list, "next_free")
    IN  FoldFunction(LAMBDA b, n : h.blk[b].size + n, 0, free)

-----------------------------------------------------------------------------
(* The calls. *)

NoTest == [todo |-> <<>>]

Init ==
    /\ ready = FALSE
    /\ heap = [first |-> Null, list |-> Null, blk |-> <<>>]
    /\ errors = {}
    /\ live = <<>>
    /\ test = NoTest

\* heap_init; the region is aligned, so the payload needs no rounding.
HeapInit ==
    /\ ~ready
    /\ ready' = TRUE
    /\ heap' = [first |-> Start, list |-> Start,
                blk |-> [b \in {Start} |->
                            NewBlock(HeapSize - Header, Null, Null, TRUE)]]
    /\ errors' = {}
    /\ UNCHANGED <<live, test>>

\* A caller's kmalloc with the result r, and its kfree
Take(size, r) ==
    /\ heap' = r.heap
    /\ live' = IF r.ptr = Null THEN live
               ELSE [p \in DOMAIN live \cup {r.ptr} |->
                        IF p = r.ptr THEN size ELSE live[p]]

GiveBack(ptr) ==
    LET r == Free(heap, ptr)
    IN  /\ heap' = r.heap
        /\ errors' = errors \cup r.errors
        /\ live' = Restrict(live, DOMAIN live \ {ptr})

\* A command runs to its end: nothing else is called during a self-test.
Idle == ready /\ test = NoTest

Kmalloc(size) ==
    LET r == Malloc(heap, size)
    IN  /\ Idle
        /\ Take(size, r)
        /\ errors' = errors \cup r.errors
        /\ UNCHANGED <<ready, test>>

\* kcalloc refuses a product that would overflow.
Kcalloc(count, size) ==
    /\ count # 0 /\ size # 0
    /\ count <= (Word - 1) \div size
    /\ Kmalloc(count * size)

\* kfree, of any pointer
Kfree(ptr) ==
    /\ Idle
    /\ GiveBack(ptr)
    /\ UNCHANGED <<ready, test>>

\* The heapcheck command
CheckIntegrity ==
    /\ Idle
    /\ errors' = errors \cup (IF Integrity(heap) THEN {} ELSE {"integrity"})
    /\ UNCHANGED <<ready, heap, live, test>>

-----------------------------------------------------------------------------
(* heap_run_self_test, the heaptest command, a call at a time.  Its three    *)
(* complaints share a flag in the code and are told apart here.              *)

TestNames == {"a", "b", "c", "d"}

TestSize == [a |-> TestSizes[1], b |-> TestSizes[2],
             c |-> TestSizes[3], d |-> TestSizes[4]]

Calls(op, names) == [i \in 1 .. Len(names) |-> <<op, names[i]>>]

\* The check before the test; a failed one ends it.
TestStart ==
    /\ Idle
    /\ IF Integrity(heap)
       THEN /\ test' = [todo |-> Calls("kmalloc", <<"a", "b", "c">>),
                        ptr  |-> [x \in TestNames |-> Null],
                        from |-> [heap |-> heap, errors |-> errors]]
            /\ UNCHANGED errors
       ELSE errors' = errors \cup {"integrity"} /\ UNCHANGED test
    /\ UNCHANGED <<ready, heap, live>>

\* Mutant: the failure path forgets the first block.
MutAfterMallocLeaks(x, ptr) ==
    CASE x = "c" /\ Null \in {ptr["a"], ptr["b"], ptr["c"]} ->
            Calls("kfree", SelectSeq(<<"b", "c">>, LAMBDA y : ptr[y] # Null))
      [] x = "c" /\ Null \notin {ptr["a"], ptr["b"], ptr["c"]} ->
            Calls("kfree", <<"b">>) \o Calls("kmalloc", <<"d">>)
      [] x = "d" /\ ptr["d"] = Null -> Calls("kfree", <<"a", "c">>)
      [] x = "d" /\ ptr["d"] # Null ->
            Calls("kfree", <<"d", "c", "a">>) \o << <<"check", "d">> >>
      [] OTHER -> Tail(test.todo)

\* What is to be done once kmalloc for x has returned
AfterMalloc(x, ptr) ==
    CASE x = "c" /\ Null \in {ptr["a"], ptr["b"], ptr["c"]} ->
            Calls("kfree", SelectSeq(<<"a", "b", "c">>, LAMBDA y : ptr[y] # Null))
      [] x = "c" /\ Null \notin {ptr["a"], ptr["b"], ptr["c"]} ->
            Calls("kfree", <<"b">>) \o Calls("kmalloc", <<"d">>)
      [] x = "d" /\ ptr["d"] = Null -> Calls("kfree", <<"a", "c">>)
      [] x = "d" /\ ptr["d"] # Null ->
            Calls("kfree", <<"d", "c", "a">>) \o << <<"check", "d">> >>
      [] OTHER -> Tail(test.todo)

\* The complaint about a failed kmalloc: after the third, and after the last
Complaint(x, ptr) ==
    CASE x = "c" /\ Null \in {ptr["a"], ptr["b"], ptr["c"]} -> {"selftest"}
      [] x = "d" /\ ptr["d"] = Null -> {"reuse"}
      [] OTHER -> {}

\* The test with the steps still to do; it is over when there are none.
Remaining(todo, ptr) ==
    IF todo = <<>> THEN NoTest ELSE [test EXCEPT !.todo = todo, !.ptr = ptr]

TestMalloc(x) ==
    LET r   == Malloc(heap, TestSize[x])
        ptr == [test.ptr EXCEPT ![x] = r.ptr]
    IN  /\ test # NoTest /\ Head(test.todo) = <<"kmalloc", x>>
        /\ Take(TestSize[x], r)
        /\ errors' = errors \cup r.errors \cup Complaint(x, ptr)
        /\ test' = Remaining(AfterMalloc(x, ptr), ptr)
        /\ UNCHANGED ready

TestFree(x) ==
    /\ test # NoTest /\ Head(test.todo) = <<"kfree", x>>
    /\ GiveBack(test.ptr[x])
    /\ test' = Remaining(Tail(test.todo), test.ptr)
    /\ UNCHANGED ready

\* The checks after the test
TestCheck ==
    /\ test # NoTest /\ Head(test.todo)[1] = "check"
    /\ errors' = errors \cup
          IF ~Integrity(heap) THEN {"integrity"}
          ELSE IF BytesFree(heap) # BytesFree(test.from.heap) THEN {"mismatch"}
          ELSE {}
    /\ test' = NoTest
    /\ UNCHANGED <<ready, heap, live>>

Next ==
    \/ HeapInit
    \/ \E n \in Sizes : Kmalloc(n)
    \/ \E n \in Sizes : Kcalloc(2, n)
    \/ \E p \in Links : Kfree(p)
    \/ CheckIntegrity
    \/ TestStart
    \/ \E x \in TestNames : TestMalloc(x)
    \/ \E x \in TestNames : TestFree(x)
    \/ TestCheck

Spec == Init /\ [][Next]_vars

-----------------------------------------------------------------------------
Blocks == [size : 0 .. HeapSize, free : BOOLEAN, prev_phys : Links,
           next_phys : Links, prev_free : Links, next_free : Links]

\* The types, a part of AlwaysIntact
TypeOK ==
    /\ ready \in BOOLEAN
    /\ heap.first \in Links /\ heap.list \in Links
    /\ DOMAIN heap.blk \subseteq Addr
    /\ \A b \in DOMAIN heap.blk : heap.blk[b] \in Blocks
    /\ errors \subseteq {"invalid_free", "double_free", "corruption",
                         "integrity", "selftest", "reuse", "mismatch"}
    /\ DOMAIN live \subseteq Addr
    /\ \A p \in DOMAIN live : live[p] \in 0 .. HeapSize
    /\ test # NoTest => /\ ready /\ test.todo # <<>>
                        /\ test.ptr \in [TestNames -> Addr \cup {Null}]

\* Whatever is allocated and freed, in whatever order, and whatever pointers
\* kfree is given, the region stays tiled by linked blocks, no two free blocks
\* touch, and the free list is exactly the free blocks by address: the checks
\* of heap_check_integrity.
AlwaysIntact == TypeOK /\ (ready => Integrity(heap))

\* A caller's memory is inside the heap, as large as asked for, and shared with
\* no other caller's memory, no free block and no block header.
LiveIsPrivate ==
    \A p \in DOMAIN live :
        /\ p - Header \in DOMAIN heap.blk
        /\ ~heap.blk[p - Header].free
        /\ live[p] <= heap.blk[p - Header].size
        /\ \A b \in DOMAIN heap.blk \ {p - Header} :
              End(heap, b) <= p - Header \/ p + live[p] <= b

\* kmalloc fails only when no stretch of the heap between the used blocks has
\* room for a header and the payload: merging leaves nothing unusable.
FailsOnlyWhenFull ==
    \A n \in Sizes \ {0} :
        ready /\ Malloc(heap, n).ptr = Null =>
            \A a \in Addr :
                \/ a + Header + AlignUp(n) > HeapEnd
                \/ \E b \in DOMAIN heap.blk :
                      /\ ~heap.blk[b].free
                      /\ b < a + Header + AlignUp(n)
                      /\ a < End(heap, b)

\* The self-test may fail for want of memory, but on whichever path it ends it
\* has not found the heap broken or bytes missing, and every header is as it was
\* when the test began.
SelfTestIsNeutral ==
    [][test # NoTest /\ test' = NoTest =>
          /\ heap' = test.from.heap
          /\ errors' \subseteq test.from.errors \cup {"selftest"}]_vars
=============================================================================
