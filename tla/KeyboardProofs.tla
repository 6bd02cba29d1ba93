--------------------------- MODULE KeyboardProofs ---------------------------
(***************************************************************************)
(* The ring implements a bounded FIFO, for every size of at least two and  *)
(* every set of bytes, and the decoder heals from losses, for every ring   *)
(* size and every set of keys.  The second argument looks ahead: the state *)
(* the decoder will be in when it has read all that waits is right about   *)
(* the keys at every moment.                                               *)
(***************************************************************************)
EXTENDS Keyboard, Arithmetic, SequenceTheorems

-----------------------------------------------------------------------------
(* The ring *)

\* The k-th waiting slot, without the remainder.
Index(k) == IF tail + k - 1 < Size THEN tail + k - 1 ELSE tail + k - 1 - Size

\* What the drain loop relies on between its steps.
LoopInv ==
    /\ pc \in {"load", "advance"} => tail # head
    /\ pc = "advance" => taken = queue[tail]
    /\ pc = "late" => tail = After(slot) /\ queue[slot] \in Byte
    /\ pc = "process" => taken \in Byte

\* The slots between tail and head hold bytes.
Filled == \A k \in 1 .. Count : queue[Index(k)] \in Byte

IInv == TypeOK /\ LoopInv /\ Filled

-----------------------------------------------------------------------------
\* A sequence one longer, with the same beginning, is an Append.
LEMMA AppendIs ==
    ASSUME NEW S, NEW n \in Nat, NEW b \in S, NEW old \in [1 .. n -> S],
           NEW new \in [1 .. (n + 1) -> S],
           \A k \in 1 .. n : new[k] = old[k], new[n + 1] = b
    PROVE  new = Append(old, b)
<1>1. old \in Seq(S) /\ Len(old) = n /\ new \in Seq(S) /\ Len(new) = n + 1
  OBVIOUS
<1>2. /\ Append(old, b) \in Seq(S)
      /\ Len(Append(old, b)) = n + 1
      /\ \A k \in 1 .. n : Append(old, b)[k] = old[k]
      /\ Append(old, b)[n + 1] = b
  BY <1>1, AppendProperties
<1>3. \A k \in 1 .. (n + 1) : new[k] = Append(old, b)[k]
  <2> TAKE k \in 1 .. (n + 1)
  <2>1. k \in 1 .. n \/ k = n + 1
    OBVIOUS
  <2> QED BY <1>2, <2>1, Zenon
<1> QED BY <1>1, <1>2, <1>3, SeqEqual, Zenon

\* A sequence one shorter, shifted by one, is a Tail.
LEMMA TailIs ==
    ASSUME NEW S, NEW n \in Nat \ {0}, NEW old \in [1 .. n -> S],
           NEW new \in [1 .. (n - 1) -> S],
           \A k \in 1 .. (n - 1) : new[k] = old[k + 1]
    PROVE  /\ old # <<>>
           /\ Head(old) = old[1]
           /\ new = Tail(old)
<1>1. old \in Seq(S) /\ Len(old) = n /\ new \in Seq(S) /\ Len(new) = n - 1
  OBVIOUS
<1>2. old # <<>> /\ Head(old) = old[1]
  BY <1>1
<1>3. /\ Tail(old) \in Seq(S)
      /\ Len(Tail(old)) = n - 1
      /\ \A k \in 1 .. (n - 1) : Tail(old)[k] = old[k + 1]
  BY <1>1, <1>2, HeadTailProperties, Zenon
<1>4. new = Tail(old)
  BY <1>1, <1>3, SeqEqual, Zenon
<1> QED BY <1>2, <1>4, Zenon

-----------------------------------------------------------------------------
\* Stepping an index goes to the next slot and from the last to the first.
LEMMA AfterIs ==
    ASSUME NEW i \in Slot
    PROVE  /\ After(i) = IF i = Size - 1 THEN 0 ELSE i + 1
           /\ After(i) \in Slot
<1> USE InputRingAssumption DEF Slot
<1>1. CASE i = Size - 1
  <2>1. 0 \in 0 .. (Size - 1) /\ i + 1 = 0 + Size
    BY <1>1
  <2>2. (0 + Size) % Size = 0
    BY <2>1, ModSmall, Zenon
  <2> QED BY <1>1, <2>1, <2>2, Zenon DEF After
<1>2. CASE i # Size - 1
  <2>1. i + 1 \in 0 .. (Size - 1)
    BY <1>2
  <2>2. (i + 1) % Size = i + 1
    BY <2>1, ModSmall, Zenon
  <2> QED BY <1>2, <2>1, <2>2, Zenon DEF After
<1> QED BY <1>1, <1>2, Zenon

\* The remainder in Waiting is Index.
LEMMA IndexIs ==
    ASSUME TypeOK, NEW k \in 1 .. Size
    PROVE  /\ (tail + k - 1) % Size = Index(k)
           /\ Index(k) \in Slot
<1> USE InputRingAssumption DEF Slot, TypeOK
<1>1. CASE tail + k - 1 < Size
  <2>1. tail + k - 1 \in 0 .. (Size - 1)
    BY <1>1
  <2>2. (tail + k - 1) % Size = tail + k - 1
    BY <2>1, ModSmall, Zenon
  <2> QED BY <1>1, <2>1, <2>2, Zenon DEF Index
<1>2. CASE ~(tail + k - 1 < Size)
  <2>1. /\ tail + k - 1 - Size \in 0 .. (Size - 1)
        /\ (tail + k - 1 - Size) + Size = tail + k - 1
    BY <1>2
  <2>2. ((tail + k - 1 - Size) + Size) % Size = tail + k - 1 - Size
    BY <2>1, ModSmall, Zenon
  <2> QED BY <1>2, <2>1, <2>2, Zenon DEF Index
<1> QED BY <1>1, <1>2, Zenon

\* At most Size - 1 bytes wait.
LEMMA CountRange ==
    ASSUME TypeOK
    PROVE  Count \in 0 .. (Size - 1)
BY InputRingAssumption DEF TypeOK, Slot, Count

\* The waiting bytes as a sequence.
LEMMA WaitingIs ==
    ASSUME IInv
    PROVE  /\ Waiting = [k \in 1 .. Count |-> queue[Index(k)]]
           /\ Waiting \in Seq(Byte)
           /\ Len(Waiting) = Count
<1>1. Count \in 0 .. (Size - 1)
  BY CountRange, Zenon DEF IInv
<1>2. \A k \in 1 .. Count : (tail + k - 1) % Size = Index(k)
  <2> TAKE k \in 1 .. Count
  <2>1. k \in 1 .. Size
    BY <1>1, InputRingAssumption
  <2> QED BY <2>1, IndexIs, Zenon DEF IInv
<1>3. Waiting = [k \in 1 .. Count |-> queue[Index(k)]]
  BY <1>2, Zenon DEF Waiting
<1>4. Waiting \in [1 .. Count -> Byte]
  BY <1>3, Zenon DEF IInv, Filled
<1> HIDE DEF Waiting
<1> QED BY <1>1, <1>3, <1>4, InputRingAssumption

-----------------------------------------------------------------------------
(* What the two ends do to the waiting slots. *)

\* The handler fills the slot after the last waiting one, and no waiting one.
LEMMA PutSlots ==
    ASSUME TypeOK, After(head) # tail, head' = After(head), tail' = tail
    PROVE  /\ Count' = Count + 1
           /\ Count < Size - 1
           /\ Index(Count + 1) = head
           /\ \A k \in 1 .. Size : Index(k)' = Index(k)
           /\ \A k \in 1 .. Count : Index(k) # head
<1>1. After(head) = IF head = Size - 1 THEN 0 ELSE head + 1
  BY AfterIs, Zenon DEF TypeOK
<1> QED BY <1>1, InputRingAssumption DEF TypeOK, Slot, Count, Index

\* The consumer gives the first waiting slot back.
LEMMA GetSlots ==
    ASSUME TypeOK, tail # head, tail' = After(tail), head' = head
    PROVE  /\ Count' = Count - 1
           /\ Count > 0
           /\ Index(1) = tail
           /\ \A k \in 1 .. Count' : Index(k)' = Index(k + 1)
<1>1. After(tail) = IF tail = Size - 1 THEN 0 ELSE tail + 1
  BY AfterIs, Zenon DEF TypeOK
<1> QED BY <1>1, InputRingAssumption DEF TypeOK, Slot, Count, Index

\* A full ring holds Size - 1 bytes.
LEMMA CountFull ==
    ASSUME TypeOK, After(head) = tail
    PROVE  Count = Size - 1
<1>1. After(head) = IF head = Size - 1 THEN 0 ELSE head + 1
  BY AfterIs, Zenon DEF TypeOK
<1> QED BY <1>1, InputRingAssumption DEF TypeOK, Slot, Count

\* The slot at tail holds a byte unless the ring is empty.
LEMMA FirstIsByte ==
    ASSUME IInv, tail # head
    PROVE  queue[tail] \in Byte
<1>1. Index(1) = tail /\ 1 \in 1 .. Count
  BY InputRingAssumption DEF IInv, TypeOK, Slot, Count, Index
<1> QED BY <1>1, Zenon DEF IInv, Filled

\* A handler that finds room appends its byte to the waiting ones.
LEMMA PutWaiting ==
    ASSUME IInv, NEW b \in Byte, After(head) # tail, head' = After(head),
           tail' = tail, queue' = [queue EXCEPT ![head] = b]
    PROVE  /\ Filled'
           /\ [k \in 1 .. Count |-> queue[Index(k)]]'
                = Append([k \in 1 .. Count |-> queue[Index(k)]], b)
<1> USE DEF IInv
<1>1. /\ Count' = Count + 1
      /\ Index(Count + 1) = head
      /\ \A k \in 1 .. Size : Index(k)' = Index(k)
      /\ \A k \in 1 .. Count : Index(k) # head
      /\ Count < Size - 1
  BY PutSlots, Zenon
<1>2. Count \in 0 .. (Size - 1) /\ Size \in Nat
  BY CountRange, InputRingAssumption, Zenon
<1>3. \A k \in 1 .. Size : Index(k) \in Slot
  BY IndexIs, Zenon
<1>4. PICK n \in 0 .. (Size - 2) : n = Count
  BY <1>1, <1>2
<1>5. \A k \in 1 .. n : queue'[Index(k)'] = queue[Index(k)]
  BY <1>1, <1>2, <1>3, <1>4 DEF TypeOK
<1>6. queue'[Index(n + 1)'] = b
  <2>1. n + 1 \in 1 .. Size
    BY <1>2, <1>4
  <2>2. Index(n + 1)' = head
    BY <1>1, <1>4, <2>1, Zenon
  <2> QED BY <2>2, Zenon DEF TypeOK
<1> DEFINE old == [k \in 1 .. n |-> queue[Index(k)]]
           new == [k \in 1 .. (n + 1) |-> queue'[Index(k)']]
<1>7. old \in [1 .. n -> Byte]
  BY <1>4, Zenon DEF Filled
<1>8. \A k \in 1 .. (n + 1) : queue'[Index(k)'] \in Byte
  <2> TAKE k \in 1 .. (n + 1)
  <2>1. k = n + 1 \/ k \in 1 .. n
    BY <1>4
  <2> QED BY <1>4, <1>5, <1>6, <2>1, Zenon DEF Filled
<1>9. new = Append(old, b)
  <2>1. new \in [1 .. (n + 1) -> Byte]
    BY <1>8, Zenon
  <2>2. (\A k \in 1 .. n : new[k] = old[k]) /\ new[n + 1] = b
    <3>1. n + 1 \in 1 .. (n + 1) /\ \A k \in 1 .. n : k \in 1 .. (n + 1)
      BY <1>4
    <3> QED BY <1>5, <1>6, <3>1, Zenon
  <2> HIDE DEF old, new
  <2>3. n \in Nat
    BY <1>2, <1>4
  <2> QED BY <1>7, <2>1, <2>2, <2>3, AppendIs
<1>10. Count' = n + 1
  BY <1>1, <1>4, Zenon
<1> QED BY <1>4, <1>8, <1>9, <1>10, Zenon DEF Filled

\* A consumer that advances tail removes the oldest waiting byte.
LEMMA GetWaiting ==
    ASSUME IInv, tail # head, tail' = After(tail), head' = head, queue' = queue
    PROVE  /\ Filled'
           /\ [k \in 1 .. Count |-> queue[Index(k)]] # <<>>
           /\ Head([k \in 1 .. Count |-> queue[Index(k)]]) = queue[tail]
           /\ [k \in 1 .. Count |-> queue[Index(k)]]'
                = Tail([k \in 1 .. Count |-> queue[Index(k)]])
<1> USE DEF IInv
<1>1. /\ Count' = Count - 1
      /\ Count > 0
      /\ Index(1) = tail
      /\ \A k \in 1 .. Count' : Index(k)' = Index(k + 1)
  BY GetSlots, Zenon
<1>2. Count \in 0 .. (Size - 1) /\ Size \in Nat
  BY CountRange, InputRingAssumption, Zenon
<1>3. Filled'
  <2> SUFFICES ASSUME NEW k \in 1 .. (Count - 1)
               PROVE  queue[Index(k)'] \in Byte
    BY <1>1, Zenon DEF Filled
  <2>1. k + 1 \in 1 .. Count
    BY <1>2
  <2> QED BY <1>1, <2>1, Zenon DEF Filled
<1>4. PICK n \in Nat \ {0} : n = Count
  BY <1>1, <1>2
<1> DEFINE old == [k \in 1 .. n |-> queue[Index(k)]]
           new == [k \in 1 .. (n - 1) |-> queue[Index(k)']]
<1>5. old \in [1 .. n -> Byte] /\ new \in [1 .. (n - 1) -> Byte]
  BY <1>1, <1>3, <1>4, Zenon DEF Filled
<1>6. old[1] = queue[tail]
  BY <1>1, <1>4
<1>7. \A k \in 1 .. (n - 1) : new[k] = old[k + 1]
  BY <1>1, <1>4
<1> HIDE DEF old, new
<1>8. old # <<>> /\ Head(old) = queue[tail] /\ new = Tail(old)
  BY <1>5, <1>6, <1>7, TailIs
<1> QED BY <1>1, <1>3, <1>4, <1>8, Zenon DEF old, new

-----------------------------------------------------------------------------
\* The empty ring satisfies the inductive invariant.
LEMMA InitInv == Init => IInv
<1> SUFFICES ASSUME Init PROVE IInv
  BY Zenon
<1> USE InputRingAssumption DEF Init
<1>1. TypeOK
  BY DEF TypeOK, Slot, Counters, PCs
<1>2. Count = 0
  BY DEF Count
<1>3. Filled
  BY <1>2 DEF Filled
<1>4. LoopInv
  BY Zenon DEF LoopInv
<1> QED BY <1>1, <1>3, <1>4, Zenon DEF IInv

\* The handler and every step of the drain loop keep it.
LEMMA StepInv == IInv /\ [Next]_vars => IInv'
<1> SUFFICES ASSUME IInv, [Next]_vars PROVE IInv'
  BY Zenon
<1> USE DEF IInv
<1>0. \A i \in Slot : After(i) \in Slot
  BY AfterIs, Zenon
<1>1. ASSUME UNCHANGED <<queue, head, tail>> PROVE Filled'
  BY <1>1, Zenon DEF Filled, Count, Index
<1>2. ASSUME NEW b \in Byte, Enqueue(b) PROVE IInv'
  <2>1. CASE After(head) = tail
    <3>1. (dropped + 1) % Word \in Counters
      BY InputRingAssumption, ModRange DEF TypeOK, Counters
    <3>2. UNCHANGED <<queue, head, tail, pc, taken, slot>>
          /\ dropped' = (dropped + 1) % Word
      BY <1>2, <2>1, Zenon DEF Enqueue
    <3> QED BY <1>1, <3>1, <3>2, Zenon DEF TypeOK, LoopInv
  <2>2. CASE After(head) # tail
    <3>1. /\ queue' = [queue EXCEPT ![head] = b]
          /\ head' = After(head)
          /\ UNCHANGED <<dropped, tail, pc, taken, slot>>
      BY <1>2, <2>2, Zenon DEF Enqueue
    <3>2. TypeOK'
      BY <1>0, <3>1, Zenon DEF TypeOK
    <3>3. Filled'
      BY <2>2, <3>1, PutWaiting, Zenon
    <3>4. LoopInv'
      BY <2>2, <3>1, Zenon DEF TypeOK, LoopInv
    <3> QED BY <3>2, <3>3, <3>4, Zenon
  <2> QED BY <2>1, <2>2, Zenon
<1>3. CASE BeginDrain
  BY <1>1, <1>3, Zenon DEF BeginDrain, TypeOK, PCs, LoopInv
<1>4. CASE DrainTest
  BY <1>1, <1>4, Zenon DEF DrainTest, TypeOK, PCs, LoopInv
<1>5. CASE LoadSlot
  BY <1>1, <1>5, Zenon DEF LoadSlot, TypeOK, PCs, LoopInv
<1>6. CASE AdvanceTail
  <2>1. tail # head /\ taken = queue[tail]
    BY <1>6, Zenon DEF AdvanceTail, LoopInv
  <2>2. Filled'
    BY <1>6, <2>1, GetWaiting, Zenon DEF AdvanceTail
  <2>3. queue[tail] \in Byte
    BY <2>1, FirstIsByte, Zenon
  <2> QED BY <1>0, <1>6, <2>1, <2>2, <2>3, Zenon DEF AdvanceTail, TypeOK, PCs, LoopInv
<1>7. CASE AdvanceFirst
  <2>1. tail # head
    BY <1>7, Zenon DEF AdvanceFirst, LoopInv
  <2>2. Filled'
    BY <1>7, <2>1, GetWaiting, Zenon DEF AdvanceFirst
  <2>3. queue[tail] \in Byte
    BY <2>1, FirstIsByte, Zenon
  <2> QED BY <1>0, <1>7, <2>2, <2>3, Zenon DEF AdvanceFirst, TypeOK, PCs, LoopInv
<1>8. CASE LoadLate
  <2>1. 0 \in Slot
    BY InputRingAssumption DEF Slot
  <2> QED BY <1>1, <1>8, <2>1, Zenon DEF LoadLate, TypeOK, PCs, LoopInv
<1>9. CASE Process
  BY <1>1, <1>9, Zenon DEF Process, TypeOK, PCs, LoopInv
<1>10. CASE UNCHANGED vars
  BY <1>1, <1>10, Zenon DEF vars, TypeOK, LoopInv
<1> QED BY <1>2, <1>3, <1>4, <1>5, <1>6, <1>7, <1>8, <1>9, <1>10, Zenon DEF Next, Drain

\* IInv is inductive.
LEMMA InvInductive == Spec => []IInv
BY InitInv, StepInv, PTL DEF Spec

\* Indices stay in the array whatever the interleaving.
THEOREM TypeCorrect == Spec => []TypeOK
<1>1. IInv => TypeOK
  BY Zenon DEF IInv
<1> QED BY InvInductive, <1>1, PTL

-----------------------------------------------------------------------------
(* The steps of the ring, seen as steps of the FIFO *)

\* What the waiting bytes depend on.
LEMMA WaitingSame ==
    ASSUME UNCHANGED <<queue, head, tail>>
    PROVE  UNCHANGED Waiting
BY Zenon DEF Waiting, Count

\* WaitingIs on both sides of a step.
LEMMA WaitingBoth ==
    IInv /\ IInv' =>
        /\ Waiting = [k \in 1 .. Count |-> queue[Index(k)]]
        /\ Waiting' = [k \in 1 .. Count |-> queue[Index(k)]]'
<1> DEFINE Indexed == Waiting = [k \in 1 .. Count |-> queue[Index(k)]]
<1>1. IInv => Indexed
  BY WaitingIs, Zenon
<1> HIDE DEF Indexed
<1>2. IInv' => Indexed'
  BY <1>1, PTL
<1> QED BY <1>1, <1>2, Zenon DEF Indexed

\* The handler puts its byte into the queue, or drops it if that is full.
LEMMA EnqueueIs ==
    ASSUME IInv, IInv', NEW b \in Byte, Enqueue(b)
    PROVE  IF After(head) = tail THEN Fifo!Drop ELSE Fifo!Put(b)
<1>1. CASE After(head) = tail
  <2>1. Len(Waiting) = Size - 1
    BY <1>1, CountFull, WaitingIs, Zenon DEF IInv
  <2> QED BY <1>1, <2>1, WaitingSame, Zenon DEF Enqueue, Fifo!Drop, InHand
<1>2. CASE After(head) # tail
  <2>1. /\ queue' = [queue EXCEPT ![head] = b]
        /\ head' = After(head)
        /\ UNCHANGED <<dropped, tail, pc, taken, slot>>
    BY <1>2, Zenon DEF Enqueue
  <2>2. Waiting' = Append(Waiting, b)
    BY <1>2, <2>1, PutWaiting, WaitingBoth, Zenon
  <2>3. Len(Waiting) < Size - 1
    BY <1>2, <2>1, PutSlots, WaitingIs, Zenon DEF IInv
  <2>4. InHand' = InHand
    <3>1. CASE pc = "late"
      <4>1. slot # head /\ slot \in Slot
        BY <1>2, <3>1, Zenon DEF IInv, LoopInv, TypeOK
      <4> QED BY <2>1, <3>1, <4>1, Zenon DEF InHand, IInv, TypeOK
    <3>2. CASE pc # "late"
      BY <2>1, <3>2, Zenon DEF InHand
    <3> QED BY <3>1, <3>2, Zenon
  <2> QED BY <1>2, <2>1, <2>2, <2>3, <2>4, Zenon DEF Fifo!Put
<1> QED BY <1>1, <1>2, Zenon

\* The drain loop gets a byte, or does nothing that the FIFO knows of.
LEMMA GettingIs ==
    ASSUME IInv, IInv', Drain, pc # "process"
    PROVE  Fifo!Get \/ UNCHANGED <<Waiting, InHand, dropped>>
<1>1. CASE BeginDrain \/ DrainTest \/ LoadSlot
  <2>1. UNCHANGED <<queue, head, tail, dropped>> /\ InHand = NoByte
        /\ InHand' = NoByte
    BY <1>1, Zenon DEF BeginDrain, DrainTest, LoadSlot, InHand
  <2> QED BY <2>1, WaitingSame, Zenon
<1>2. CASE AdvanceTail \/ AdvanceFirst
  <2>1. /\ tail # head
        /\ tail' = After(tail)
        /\ UNCHANGED <<queue, head, dropped>>
        /\ InHand = NoByte
        /\ InHand' = queue[tail]
    BY <1>2, Zenon DEF AdvanceTail, AdvanceFirst, IInv, LoopInv, InHand
  <2>2. /\ Waiting # <<>>
        /\ Head(Waiting) = queue[tail]
        /\ Waiting' = Tail(Waiting)
    BY <2>1, GetWaiting, WaitingBoth, Zenon
  <2> QED BY <2>1, <2>2, Zenon DEF Fifo!Get
<1>3. CASE LoadLate
  <2>1. UNCHANGED <<queue, head, tail, dropped>> /\ InHand' = InHand
    BY <1>3, Zenon DEF LoadLate, InHand
  <2> QED BY <2>1, WaitingSame, Zenon
<1> QED BY <1>1, <1>2, <1>3, Zenon DEF Drain, Process

\* It is done with the byte that it got.
LEMMA ProcessIs ==
    ASSUME IInv, Drain, pc = "process"
    PROVE  Fifo!Process /\ InHand = taken
<1>1. Process
  BY Zenon DEF Drain, BeginDrain, DrainTest, LoadSlot, AdvanceTail, AdvanceFirst, LoadLate
<1>2. /\ UNCHANGED <<queue, head, tail, dropped>>
      /\ InHand = taken
      /\ InHand # NoByte
      /\ InHand' = NoByte
  BY <1>1, InputRingAssumption, Zenon DEF Process, InHand, IInv, LoopInv
<1> QED BY <1>2, WaitingSame, Zenon DEF Fifo!Process

\* The ring shared by an input interrupt and the main loop is a bounded FIFO
\* of Size - 1 bytes, with the load of the slot before or after the store of
\* tail, for every ring size.
THEOREM RingIsFifo == Spec => ImplementsFifo
<1>1. Init => Fifo!Init
  <2> SUFFICES ASSUME Init PROVE Waiting = <<>> /\ InHand = NoByte /\ dropped = 0
    BY Zenon DEF Fifo!Init
  <2>1. Count = 0
    BY DEF Init, Count
  <2>2. Waiting = <<>>
    BY <2>1 DEF Waiting
  <2> QED BY <2>2, Zenon DEF Init, InHand
<1>2. IInv /\ IInv' /\ [Next]_vars => [Fifo!Next]_(Fifo!vars)
  <2> SUFFICES ASSUME IInv, IInv', [Next]_vars
               PROVE  Fifo!Next \/ UNCHANGED <<Waiting, InHand, dropped>>
    BY Zenon DEF Fifo!vars
  <2>1. ASSUME NEW b \in Byte, Enqueue(b) PROVE Fifo!Next
    BY <2>1, EnqueueIs, Zenon DEF Fifo!Next
  <2>2. CASE Drain
    BY <2>2, GettingIs, ProcessIs, Zenon DEF Fifo!Next
  <2>3. CASE UNCHANGED vars
    BY <2>3, WaitingSame, Zenon DEF vars, InHand
  <2> QED BY <2>1, <2>2, <2>3, Zenon DEF Next
<1> QED BY <1>1, <1>2, InvInductive, PTL DEF Spec, ImplementsFifo, Fifo!Spec

-----------------------------------------------------------------------------
(* The decoder *)

Decoders == [down : SUBSET Modifiers, caps : BOOLEAN, prefix : BOOLEAN,
             last : Plain \cup Extended \cup {NoKey}]

\* The decoder's variables as one value
Decoder == [down |-> modifiers_down, caps |-> caps_lock_on,
            prefix |-> extended_prefix_pending, last |-> last_pressed_scancode]

\* What it makes of a byte
Read(s, b) ==
    IF b = PrefixByte THEN [s EXCEPT !.prefix = TRUE]
    ELSE IF s.prefix THEN [s EXCEPT !.prefix = FALSE]
    ELSE IF b.up
    THEN [s EXCEPT !.down = s.down \ {b.code},
                   !.last = IF b.code = s.last THEN NoKey ELSE s.last]
    ELSE [s EXCEPT !.down = s.down \cup ({b.code} \cap Modifiers),
                   !.last = b.code,
                   !.caps = IF b.code = CapsLock /\ b.code # s.last
                            THEN ~s.caps ELSE s.caps]

\* From s it comes to t by reading the bytes of w.
Reads(s, w, t) ==
    \E f \in [1 .. Len(w) + 1 -> Decoders] :
        /\ f[1] = s
        /\ \A i \in 1 .. Len(w) : f[i + 1] = Read(f[i], w[i])
        /\ f[Len(w) + 1] = t

\* The decoder once it is done with the byte in hand
Now == IF InHand = NoByte THEN Decoder ELSE Read(Decoder, InHand)

\* The bytes of an event that are still to be sent: those of a key that is down
\* and repeats, or of one that is up.
Half(k, up) == <<[byte |-> [code |-> k.code, up |-> up], ext |-> k.ext]>>
WireOk ==
    wire # <<>> =>
        \E k \in Keys, up \in BOOLEAN :
            /\ wire = Sent(k, up) \/ wire = Half(k, up)
            /\ IF up THEN k \notin held ELSE typematic = {k}

KeysOk ==
    /\ held \subseteq Keys
    /\ typematic \subseteq held
    /\ \A j, k \in typematic : j = k
    /\ missed \subseteq Plain \cup Extended
    /\ framed \in BOOLEAN
    /\ caps \in {"on", "off", "unknown"}
    /\ caps # "unknown" => CapsLock \notin missed

\* w is the byte of a plain key.
Carries(w, c, up) == w = Half(Key(c, FALSE), up)

\* s is right about the keys whose last byte was not missed and is not still
\* on the wire.
Right(s) ==
    /\ s.prefix = framed
    /\ \A c \in Plain \ missed :
          ~Carries(wire, c, TRUE) /\ ~Carries(wire, c, FALSE) =>
              /\ c \in Modifiers => (c \in s.down <=> Key(c, FALSE) \in held)
              /\ Key(c, FALSE) \notin held => s.last # c
              /\ Key(c, FALSE) \in typematic => s.last = c
    /\ caps # "unknown" =>
          IF Carries(wire, CapsLock, FALSE) /\ s.last # CapsLock
          THEN s.caps <=> caps = "off"
          ELSE s.caps <=> caps = "on"

KInv ==
    /\ IInv
    /\ WireOk
    /\ KeysOk
    /\ Decoder \in Decoders
    /\ \E s \in Decoders : Reads(Now, Waiting, s) /\ Right(s)

-----------------------------------------------------------------------------
(* Reading ahead *)

\* A byte is a key's or the prefix, and reading it gives a state.
LEMMA ReadType ==
    ASSUME NEW s \in Decoders, NEW b \in Byte
    PROVE  Read(s, b) \in Decoders
BY ZenonT(60), KeyboardAssumption DEF Decoders, Read, Scancodes, PrefixByte

\* With nothing to read the state stays.
LEMMA ReadsNothing ==
    ASSUME NEW s \in Decoders
    PROVE  /\ Reads(s, <<>>, s)
           /\ \A t : Reads(s, <<>>, t) => t = s
<1>1. Len(<<>>) = 0
  BY Zenon
<1>2. Reads(s, <<>>, s)
  <2> DEFINE f == [i \in 1 .. 1 |-> s]
  <2>1. f \in [1 .. Len(<<>>) + 1 -> Decoders] /\ f[1] = s /\ f[Len(<<>>) + 1] = s
    BY <1>1
  <2>2. 1 .. Len(<<>>) = {}
    BY <1>1
  <2> HIDE DEF f
  <2> QED BY <2>1, <2>2, Zenon DEF Reads
<1> QED BY <1>1, <1>2 DEF Reads

\* A byte more is read from where the others lead.
LEMMA ReadsAppend ==
    ASSUME NEW s, NEW w \in Seq(Byte), NEW t \in Decoders, NEW b \in Byte,
           Reads(s, w, t)
    PROVE  Reads(s, Append(w, b), Read(t, b))
<1> DEFINE n == Len(w)
           v == Append(w, b)
<1>1. PICK f \in [1 .. n + 1 -> Decoders] :
         /\ f[1] = s
         /\ \A i \in 1 .. n : f[i + 1] = Read(f[i], w[i])
         /\ f[n + 1] = t
  BY Zenon DEF Reads
<1>2. n \in Nat /\ Len(v) = n + 1 /\ v[n + 1] = b /\ \A i \in 1 .. n : v[i] = w[i]
  OBVIOUS
<1>3. Read(t, b) \in Decoders
  BY ReadType, Zenon
<1> DEFINE g == [i \in 1 .. n + 2 |-> IF i = n + 2 THEN Read(t, b) ELSE f[i]]
<1> HIDE DEF v
<1>4. g \in [1 .. Len(v) + 1 -> Decoders]
  BY <1>2, <1>3
<1>5. g[1] = s /\ g[Len(v) + 1] = Read(t, b)
  BY <1>1, <1>2
<1>6. ASSUME NEW i \in 1 .. Len(v) PROVE g[i + 1] = Read(g[i], v[i])
  <2>1. CASE i = n + 1
    BY <1>1, <1>2, <2>1
  <2>2. CASE i \in 1 .. n
    BY <1>1, <1>2, <2>2
  <2> QED BY <1>2, <2>1, <2>2
<1> HIDE DEF g
<1>7. Reads(s, v, Read(t, b))
  BY <1>4, <1>5, <1>6, Zenon DEF Reads
<1> QED BY <1>7, Zenon DEF v

\* The first byte may be read first.
LEMMA ReadsTail ==
    ASSUME NEW s, NEW w \in Seq(Byte), w # <<>>, NEW t, Reads(s, w, t)
    PROVE  Reads(Read(s, Head(w)), Tail(w), t)
<1> DEFINE n == Len(w)
           v == Tail(w)
<1>1. PICK f \in [1 .. n + 1 -> Decoders] :
         /\ f[1] = s
         /\ \A i \in 1 .. n : f[i + 1] = Read(f[i], w[i])
         /\ f[n + 1] = t
  BY Zenon DEF Reads
<1>2. /\ n \in Nat \ {0}
      /\ Len(v) = n - 1
      /\ Head(w) = w[1]
      /\ \A i \in 1 .. n - 1 : v[i] = w[i + 1]
  OBVIOUS
<1> DEFINE g == [i \in 1 .. n |-> f[i + 1]]
<1> HIDE DEF v
<1>3. g \in [1 .. Len(v) + 1 -> Decoders]
  BY <1>2
<1>4. g[1] = Read(s, Head(w)) /\ g[Len(v) + 1] = t
  BY <1>1, <1>2
<1>5. ASSUME NEW i \in 1 .. Len(v) PROVE g[i + 1] = Read(g[i], v[i])
  <2>1. i \in 1 .. n /\ i \in 1 .. n - 1 /\ i + 1 \in 1 .. n
    BY <1>2
  <2>2. g[i] = f[i + 1] /\ g[i + 1] = f[(i + 1) + 1]
    BY <2>1, Zenon
  <2>3. f[(i + 1) + 1] = Read(f[i + 1], w[i + 1]) /\ v[i] = w[i + 1]
    BY <1>1, <1>2, <2>1, Zenon
  <2> QED BY <2>2, <2>3, Zenon
<1> HIDE DEF g
<1>6. Reads(Read(s, Head(w)), v, t)
  BY Zenon, <1>3, <1>4, <1>5 DEF Reads
<1> QED BY <1>6, Zenon DEF v

-----------------------------------------------------------------------------
(* The keys *)

\* What an event puts on the wire
LEMMA SentIs ==
    ASSUME NEW k \in Keys, NEW up \in BOOLEAN
    PROVE  /\ Sent(k, up) = IF k.ext
                            THEN <<[byte |-> PrefixByte, ext |-> TRUE],
                                   [byte |-> [code |-> k.code, up |-> up], ext |-> TRUE]>>
                            ELSE Half(k, up)
           /\ Sent(k, up) # <<>>
           /\ k.code \in Plain \cup Extended
           /\ k.ext \in BOOLEAN
           /\ k = Key(k.code, k.ext)
           /\ ~k.ext => k.code \in Plain
<1>1. CASE k \in {Key(c, FALSE) : c \in Plain}
  <2>1. PICK c \in Plain : k = Key(c, FALSE)
    BY Zenon, <1>1
  <2>2. k.code = c /\ k.ext = FALSE
    BY <2>1, Zenon DEF Key
  <2> QED BY Zenon, <2>1, <2>2 DEF Sent, Half
<1>2. CASE k \in {Key(c, TRUE) : c \in Extended}
  <2>1. PICK c \in Extended : k = Key(c, TRUE)
    BY Zenon, <1>2
  <2>2. k.code = c /\ k.ext = TRUE
    BY <2>1, Zenon DEF Key
  <2> QED BY Zenon, <2>1, <2>2 DEF Sent
<1> QED BY Zenon, <1>1, <1>2 DEF Keys

\* Only a plain key's own byte counts as on the wire.
LEMMA CarriesIs ==
    ASSUME NEW k \in Keys, NEW up \in BOOLEAN, NEW c, NEW u \in BOOLEAN
    PROVE  /\ Carries(Sent(k, up), c, u) <=> ~k.ext /\ c = k.code /\ u = up
           /\ Carries(Half(k, up), c, u) <=> ~k.ext /\ c = k.code /\ u = up
           /\ ~Carries(<<>>, c, u)
<1>1. Half(k, up) = Half(Key(c, FALSE), u) <=> ~k.ext /\ c = k.code /\ u = up
  BY Zenon, SentIs DEF Half, Key
<1>2. Half(Key(c, FALSE), u) # <<>>
  BY Zenon DEF Half
<1>3. ASSUME k.ext PROVE Sent(k, up) # Half(Key(c, FALSE), u)
  <2>1. Half(Key(c, FALSE), u)[1].ext = FALSE
    BY Zenon DEF Half, Key
  <2>2. Sent(k, up)[1].ext = TRUE
    BY <1>3, SentIs
  <2> QED BY Zenon, <2>1, <2>2
<1> QED BY Zenon, <1>1, <1>2, <1>3, SentIs DEF Carries

\* An event of a key: what the decoder will think stays right, but for the key
\* whose byte is now on the wire.
LEMMA EventRight ==
    ASSUME NEW k \in Keys, NEW up \in BOOLEAN, NEW s, Right(s),
           wire = <<>>, wire' = Sent(k, up), UNCHANGED <<framed, missed>>,
           \A q \in Keys \ {k} : (q \in held <=> q \in held')
                                 /\ (q \in typematic' => q \in typematic),
           caps' # "unknown" =>
               /\ caps # "unknown"
               /\ IF k = Key(CapsLock, FALSE) /\ ~up /\ s.last # CapsLock
                  THEN s.caps <=> caps' = "off"
                  ELSE s.caps <=> caps' = "on"
    PROVE  Right(s)'
<1>1. s.prefix = framed'
  BY Zenon DEF Right
<1>2. ASSUME NEW c \in Plain \ missed', ~Carries(wire', c, TRUE), ~Carries(wire', c, FALSE)
      PROVE  /\ c \in Modifiers => (c \in s.down <=> Key(c, FALSE) \in held')
             /\ Key(c, FALSE) \notin held' => s.last # c
             /\ Key(c, FALSE) \in typematic' => s.last = c
  <2>1. Key(c, FALSE) \in Keys \ {k}
    <3>1. ~(~k.ext /\ c = k.code)
      BY Zenon, <1>2, CarriesIs
    <3>2. Key(c, FALSE) \in Keys
      BY Zenon DEF Keys
    <3>3. Key(c, FALSE).code = c /\ Key(c, FALSE).ext = FALSE
      BY Zenon DEF Key
    <3> QED BY Zenon, <3>1, <3>2, <3>3
  <2>2. ~Carries(wire, c, TRUE) /\ ~Carries(wire, c, FALSE)
    BY Zenon, CarriesIs
  <2> QED BY Zenon, <1>2, <2>1, <2>2 DEF Right
<1>3. Carries(wire', CapsLock, FALSE) <=> k = Key(CapsLock, FALSE) /\ ~up
  <2>1. k = Key(CapsLock, FALSE) <=> ~k.ext /\ CapsLock = k.code
    BY SentIs DEF Key
  <2>2. Carries(wire', CapsLock, FALSE) <=> ~k.ext /\ CapsLock = k.code /\ FALSE = up
    BY Zenon, CarriesIs
  <2> QED BY Zenon, <2>1, <2>2
<1> QED BY Zenon, <1>1, <1>2, <1>3 DEF Right

\* The bytes on the wire are those of the event.
LEMMA EventWire ==
    ASSUME NEW k \in Keys, NEW up \in BOOLEAN, wire' = Sent(k, up),
           IF up THEN k \notin held' ELSE typematic' = {k}
    PROVE  WireOk'
BY Zenon DEF WireOk

\* A press, a repetition and a release
LEMMA KeyboardStep ==
    ASSUME WireOk, KeysOk, NEW s, Right(s), NEW k \in Keys,
           Press(k) \/ Release(k) \/ Repeat
    PROVE  WireOk' /\ KeysOk' /\ Right(s)'
<1>1. CASE Press(k)
  <2>1. /\ wire = <<>> /\ wire' = Sent(k, FALSE)
        /\ k \notin held /\ held' = held \cup {k} /\ typematic' = {k}
        /\ UNCHANGED <<framed, missed>>
        /\ caps' = IF k = Key(CapsLock, FALSE) THEN Turned ELSE caps
    BY <1>1, Zenon DEF Press
  <2>2. /\ caps' \in {"on", "off", "unknown"}
        /\ caps' # "unknown" => caps # "unknown"
        /\ caps' = "on" => caps = IF k = Key(CapsLock, FALSE) THEN "off" ELSE "on"
        /\ caps' = "off" => caps = IF k = Key(CapsLock, FALSE) THEN "on" ELSE "off"
    BY Zenon, <2>1 DEF KeysOk, Turned
  <2>3. KeysOk'
    BY Zenon, <2>1, <2>2 DEF KeysOk
  <2>4. ~Carries(wire, CapsLock, TRUE) /\ ~Carries(wire, CapsLock, FALSE)
    BY Zenon, <2>1, CarriesIs
  <2>5. caps # "unknown" /\ k = Key(CapsLock, FALSE) => s.last # CapsLock
    BY Zenon, <2>1, <2>4 DEF Right, KeysOk, Plain
  <2>6. caps' # "unknown" =>
            IF k = Key(CapsLock, FALSE) /\ s.last # CapsLock
            THEN s.caps <=> caps' = "off"
            ELSE s.caps <=> caps' = "on"
    BY Zenon, <2>2, <2>4, <2>5 DEF Right, KeysOk
  <2>7. Right(s)'
    BY Zenon, <2>1, <2>2, <2>6, EventRight
  <2> QED BY Zenon, <2>1, <2>3, <2>7, EventWire
<1>2. CASE Release(k)
  <2>1. /\ wire = <<>> /\ wire' = Sent(k, TRUE)
        /\ held' = held \ {k} /\ typematic' = typematic \ {k}
        /\ UNCHANGED <<framed, missed, caps>>
    BY <1>2, Zenon DEF Release, history
  <2>2. KeysOk'
    BY <2>1, Zenon DEF KeysOk
  <2>3. ~Carries(wire, CapsLock, FALSE)
    BY Zenon, <2>1, CarriesIs
  <2>4. Right(s)'
    BY Zenon, <2>1, <2>3, EventRight DEF Right
  <2> QED BY Zenon, <2>1, <2>2, <2>4, EventWire
<1>3. CASE Repeat
  <2>1. PICK j \in typematic : wire' = Sent(j, FALSE)
    BY Zenon, <1>3 DEF Repeat
  <2>2. j \in Keys /\ typematic = {j}
    BY <2>1, Zenon DEF KeysOk
  <2>3. wire = <<>> /\ UNCHANGED <<held, typematic, framed, missed, caps>>
    BY <1>3, Zenon DEF Repeat, history
  <2>4. KeysOk'
    BY <2>3, Zenon DEF KeysOk
  <2>5. ~Carries(wire, CapsLock, TRUE) /\ ~Carries(wire, CapsLock, FALSE)
    BY Zenon, <2>3, CarriesIs
  <2>6. caps # "unknown" /\ j = Key(CapsLock, FALSE) => s.last = CapsLock
    BY Zenon, <2>2, <2>5 DEF Right, KeysOk, Plain
  <2>7. Right(s)'
    BY ZenonT(60), <2>1, <2>2, <2>3, <2>5, <2>6, EventRight DEF Right
  <2> QED BY Zenon, <2>1, <2>2, <2>3, <2>4, <2>7, EventWire
<1> QED BY <1>1, <1>2, <1>3, Zenon

-----------------------------------------------------------------------------
(* A byte arrives *)

KeyByte(k, up) == [code |-> k.code, up |-> up]

\* A key's byte is not the prefix.
LEMMA KeyByteIs ==
    ASSUME NEW k \in Keys, NEW up \in BOOLEAN
    PROVE  /\ KeyByte(k, up) \in Byte
           /\ PrefixByte \in Byte
           /\ KeyByte(k, up) # PrefixByte
           /\ KeyByte(k, up).code = k.code
           /\ KeyByte(k, up).up = up
<1>1. k.code \in Plain \cup Extended /\ k.code # Prefix
  BY SentIs, KeyboardAssumption, Zenon
<1> QED BY <1>1, KeyboardAssumption, Zenon DEF KeyByte, PrefixByte, Scancodes

\* The parts of a pair
LEMMA PairIs ==
    ASSUME NEW x, NEW y
    PROVE  Head(<<x, y>>) = x /\ Tail(<<x, y>>) = <<y>>
OBVIOUS

\* The byte that is sent next, and what is left after it
LEMMA NextByte ==
    ASSUME WireOk, wire # <<>>, NEW b, b = Head(wire)
    PROVE  \E k \in Keys, up \in BOOLEAN :
              /\ IF up THEN k \notin held ELSE typematic = {k}
              /\ wire = Sent(k, up) \/ wire = Half(k, up)
              /\ \/ /\ k.ext
                    /\ b.byte = PrefixByte /\ b.ext = TRUE
                    /\ Tail(wire) = Half(k, up)
                 \/ /\ b.byte = KeyByte(k, up) /\ b.ext = k.ext
                    /\ Tail(wire) = <<>>
<1>1. PICK k \in Keys, up \in BOOLEAN :
         /\ wire = Sent(k, up) \/ wire = Half(k, up)
         /\ IF up THEN k \notin held ELSE typematic = {k}
  BY Zenon DEF WireOk
<1>2. CASE wire = Half(k, up)
  <2>1. b.byte = KeyByte(k, up) /\ b.ext = k.ext /\ Tail(wire) = <<>>
    BY <1>2 DEF Half, KeyByte
  <2> QED BY <1>1, <2>1, Zenon
<1>3. CASE wire = Sent(k, up) /\ k.ext
  <2>1. wire = <<[byte |-> PrefixByte, ext |-> TRUE],
                 [byte |-> [code |-> k.code, up |-> up], ext |-> TRUE]>>
    BY <1>3, SentIs, Zenon
  <2>2. /\ Head(wire) = [byte |-> PrefixByte, ext |-> TRUE]
        /\ Tail(wire) = <<[byte |-> [code |-> k.code, up |-> up], ext |-> TRUE]>>
    BY Zenon, <2>1, PairIs
  <2>3. b.byte = PrefixByte /\ b.ext = TRUE
    BY <2>2
  <2>4. k.ext = TRUE
    BY <1>3, SentIs, Zenon
  <2>5. Tail(wire) = Half(k, up)
    BY Zenon, <2>2, <2>4 DEF Half
  <2> QED BY <1>1, <1>3, <2>3, <2>5, Zenon
<1> QED BY Zenon, <1>1, <1>2, <1>3, SentIs

\* Only the key whose byte was on the wire is affected when it is gone.
LEMMA ArrivalRight ==
    ASSUME NEW k \in Keys, NEW up \in BOOLEAN, NEW s \in Decoders, NEW t \in Decoders,
           Right(s), KeysOk, wire = Sent(k, up) \/ wire = Half(k, up),
           wire' = <<>>, UNCHANGED <<held, typematic>>,
           t.prefix = framed',
           missed \ {k.code} \subseteq missed',
           \* about the other keys t is as right as s
           \A c \in Plain \ {k.code} :
              /\ c \in t.down <=> c \in s.down
              /\ s.last # c => t.last # c
              /\ Key(c, FALSE) \in typematic /\ s.last = c => t.last = c,
           \* and about this one it is right or excused
           k.code \in Plain \ missed' =>
              /\ k.code \in Modifiers => (k.code \in t.down <=> Key(k.code, FALSE) \in held)
              /\ Key(k.code, FALSE) \notin held => t.last # k.code
              /\ Key(k.code, FALSE) \in typematic => t.last = k.code,
           caps' # "unknown" => (t.caps <=> caps' = "on")
    PROVE  Right(t)'
<1>1. ASSUME NEW c \in Plain \ missed'
      PROVE  /\ c \in Modifiers => (c \in t.down <=> Key(c, FALSE) \in held)
             /\ Key(c, FALSE) \notin held => t.last # c
             /\ Key(c, FALSE) \in typematic => t.last = c
  <2>1. CASE c = k.code
    BY Zenon, <1>1, <2>1
  <2>2. CASE c # k.code
    <3>1. c \in Plain \ missed
      BY <1>1, <2>2, Zenon
    <3>2. ~Carries(wire, c, TRUE) /\ ~Carries(wire, c, FALSE)
      BY ZenonT(60), <2>2, CarriesIs
    <3>3. /\ c \in Modifiers => (c \in s.down <=> Key(c, FALSE) \in held)
          /\ Key(c, FALSE) \notin held => s.last # c
          /\ Key(c, FALSE) \in typematic => s.last = c
      BY Zenon, <3>1, <3>2 DEF Right
    <3> QED BY Zenon, <2>2, <3>1, <3>3
  <2> QED BY Zenon, <2>1, <2>2
<1>2. ~Carries(wire', CapsLock, FALSE)
  BY Zenon, CarriesIs
<1> QED BY Zenon, <1>1, <1>2 DEF Right

\* A byte that the ring takes is read as Note says it will be, and one that it
\* drops leaves the decoder wrong about no key but its own.
LEMMA ArrivalStep ==
    ASSUME WireOk, KeysOk, NEW s \in Decoders, Right(s), wire # <<>>,
           NEW b, b = Head(wire), Note(b), wire' = Tail(wire),
           UNCHANGED <<held, typematic>>,
           NEW t, t = IF After(head) = tail THEN s ELSE Read(s, b.byte)
    PROVE  b.byte \in Byte /\ WireOk' /\ KeysOk' /\ Right(t)'
<1>1. PICK k \in Keys, up \in BOOLEAN :
         /\ IF up THEN k \notin held ELSE typematic = {k}
         /\ wire = Sent(k, up) \/ wire = Half(k, up)
         /\ \/ /\ k.ext
               /\ b.byte = PrefixByte /\ b.ext = TRUE
               /\ Tail(wire) = Half(k, up)
            \/ /\ b.byte = KeyByte(k, up) /\ b.ext = k.ext
               /\ Tail(wire) = <<>>
  BY Zenon, NextByte
<1>2. b.byte \in Byte
  BY <1>1, KeyByteIs
<1>3. WireOk'
  BY <1>1, Zenon DEF WireOk
<1> DEFINE full == After(head) = tail
<1>4. t \in Decoders
  BY <1>2, ReadType, Zenon
<1>5. k.code \in Plain \cup Extended /\ k.ext \in BOOLEAN /\ k = Key(k.code, k.ext)
  BY SentIs, Zenon
<1>6. CASE b.byte = PrefixByte
  <2>1. b.byte # KeyByte(k, up)
    BY <1>6, KeyByteIs, Zenon
  <2>2. k.ext /\ wire' = Half(k, up)
    BY <1>1, <2>1, Zenon
  <2>3. UNCHANGED <<missed, caps>> /\ framed' = IF full THEN framed ELSE TRUE
    BY Zenon, <1>6 DEF Note
  <2>4. KeysOk'
    BY Zenon, <2>3 DEF KeysOk
  <2>5. /\ t.down = s.down /\ t.last = s.last /\ t.caps = s.caps
        /\ t.prefix = framed'
    BY Zenon, <1>6, <2>3 DEF Read, Decoders, Right
  <2>6. ASSUME NEW c, NEW u \in BOOLEAN
        PROVE  ~Carries(wire, c, u) /\ ~Carries(wire', c, u)
    BY ZenonT(60), <1>1, <2>2, CarriesIs
  <2>7. Right(t)'
    BY Zenon, <2>3, <2>5, <2>6 DEF Right
  <2> QED BY <1>2, <1>3, <2>4, <2>7, Zenon
<1>7. CASE b.byte # PrefixByte
  <2>1. /\ b.byte = KeyByte(k, up) /\ b.byte.code = k.code /\ b.byte.up = up
        /\ b.ext = k.ext /\ wire' = <<>>
    BY <1>1, <1>7, KeyByteIs
  <2> DEFINE wrong == IF full THEN ~k.ext ELSE framed # k.ext
             right == ~full /\ ~k.ext /\ ~framed
  <2>2. /\ framed' = IF full THEN framed ELSE FALSE
        /\ missed' = IF wrong THEN missed \cup {k.code}
                     ELSE IF right THEN missed \ {k.code} ELSE missed
        /\ caps' = IF wrong /\ k.code = CapsLock THEN "unknown" ELSE caps
    BY Zenon, <1>7, <2>1 DEF Note
  <2>3. KeysOk'
    BY Zenon, <1>5, <2>2 DEF KeysOk
  <2>4. s.prefix = framed /\ framed \in BOOLEAN
    BY Zenon DEF Right, KeysOk
  <2>5. typematic \subseteq held /\ (up => k \notin held) /\ (~up => typematic = {k})
    BY <1>1, Zenon DEF KeysOk
  <2>6. missed \ {k.code} \subseteq missed'
    BY <2>2, Zenon
  <2>7. NoKey \notin Plain /\ CapsLock \in Plain
    BY KeyboardAssumption, Zenon DEF Plain
  <2>8. CASE full \/ framed
    \* The decoder does not act on the byte.
    <3>1. t.down = s.down /\ t.last = s.last /\ t.caps = s.caps /\ t.prefix = framed'
      BY Zenon, <1>7, <2>2, <2>4, <2>8 DEF Read, Decoders
    <3>2. k.code \in Plain \ missed' => k.ext /\ k.code \notin missed
      BY <1>5, <2>2, <2>4, <2>8, Zenon
    <3>3. k.ext => ~Carries(wire, k.code, TRUE) /\ ~Carries(wire, k.code, FALSE)
      BY ZenonT(60), <1>1, CarriesIs
    <3>4. k.code \in Plain \ missed' =>
             /\ k.code \in Modifiers => (k.code \in t.down <=> Key(k.code, FALSE) \in held)
             /\ Key(k.code, FALSE) \notin held => t.last # k.code
             /\ Key(k.code, FALSE) \in typematic => t.last = k.code
      BY Zenon, <3>1, <3>2, <3>3 DEF Right
    <3>5. caps' # "unknown" => caps' = caps /\ ~Carries(wire, CapsLock, FALSE)
      <4>1. CASE k.code = CapsLock
        <5>1. caps' # "unknown" => k.ext /\ caps' = caps
          BY <1>5, <2>2, <2>4, <2>8, <4>1, Zenon
        <5> QED BY Zenon, <1>1, <5>1, CarriesIs
      <4>2. CASE k.code # CapsLock
        BY ZenonT(60), <1>1, <2>2, <4>2, CarriesIs
      <4> QED BY Zenon, <4>1, <4>2
    <3>6. caps' # "unknown" => (t.caps <=> caps' = "on")
      BY <3>1, <3>5, Zenon DEF Right
    <3>7. Right(t)'
      BY ZenonT(60), <1>1, <1>4, <2>1, <2>6, <3>1, <3>4, <3>6, ArrivalRight
    <3> QED BY <1>2, <1>3, <2>3, <3>7, Zenon
  <2>9. CASE ~full /\ ~framed
    \* It acts on the byte as on a plain key's.
    <3>1. /\ t.prefix = framed'
          /\ t.down = IF up THEN s.down \ {k.code}
                      ELSE s.down \cup ({k.code} \cap Modifiers)
          /\ t.last = IF up THEN IF k.code = s.last THEN NoKey ELSE s.last
                      ELSE k.code
          /\ t.caps = IF ~up /\ k.code = CapsLock /\ k.code # s.last
                      THEN ~s.caps ELSE s.caps
      BY Zenon, <1>7, <2>1, <2>2, <2>4, <2>9 DEF Read, Decoders
    <3>2. ASSUME NEW c \in Plain \ {k.code}
          PROVE  /\ c \in t.down <=> c \in s.down
                 /\ s.last # c => t.last # c
                 /\ Key(c, FALSE) \in typematic /\ s.last = c => t.last = c
      <4>1. c # NoKey /\ c # k.code /\ Key(c, FALSE) # k
        BY <2>7 DEF Key
      <4> QED BY Zenon, <2>5, <3>1, <4>1
    <3>3. k.code \in Plain \ missed' => k = Key(k.code, FALSE)
      BY Zenon, <1>5, <2>2, <2>9
    <3>4. k.code \in Plain \ missed' =>
             /\ k.code \in Modifiers => (k.code \in t.down <=> Key(k.code, FALSE) \in held)
             /\ Key(k.code, FALSE) \notin held => t.last # k.code
             /\ Key(k.code, FALSE) \in typematic => t.last = k.code
      BY Zenon, <2>5, <2>7, <3>1, <3>3
    <3>5. caps' # "unknown" => (t.caps <=> caps' = "on")
      <4> SUFFICES ASSUME caps' # "unknown" PROVE t.caps <=> caps = "on"
        BY <2>2, Zenon
      <4>1. CASE k.code # CapsLock
        <5>1. ~Carries(wire, CapsLock, FALSE)
          BY ZenonT(60), <1>1, <4>1, CarriesIs
        <5> QED BY <2>2, <3>1, <4>1, <5>1, Zenon DEF Right
      <4>2. CASE k.code = CapsLock
        <5>1. ~k.ext /\ caps # "unknown" /\ caps \in {"on", "off"}
          BY <1>5, <2>2, <2>9, <4>2, Zenon DEF KeysOk
        <5>2. Carries(wire, CapsLock, FALSE) <=> ~up
          BY ZenonT(60), <1>1, <4>2, <5>1, CarriesIs
        <5>3. s.caps \in BOOLEAN
          BY Zenon DEF Decoders
        <5> QED BY Zenon, <3>1, <4>2, <5>1, <5>2, <5>3 DEF Right
      <4> QED BY <4>1, <4>2, Zenon
    <3>6. Right(t)'
      <4>1. \A c \in Plain \ {k.code} :
               /\ c \in t.down <=> c \in s.down
               /\ s.last # c => t.last # c
               /\ Key(c, FALSE) \in typematic /\ s.last = c => t.last = c
        BY Zenon, <3>2
      <4>2. t.prefix = framed'
        BY <3>1, Zenon
      <4>3. (wire = Sent(k, up) \/ wire = Half(k, up)) /\ wire' = <<>>
        BY <1>1, <2>1, Zenon
      <4> HIDE DEF full, wrong, right
      <4> QED BY ZenonT(60), <1>4, <2>6, <3>4, <3>5, <4>1, <4>2, <4>3, ArrivalRight
    <3> QED BY <1>2, <1>3, <2>3, <3>6, Zenon
  <2> QED BY <2>8, <2>9, Zenon
<1> QED BY <1>6, <1>7, Zenon

-----------------------------------------------------------------------------
(* The whole *)

\* keyboard_process_scancode, seen as a function from state to state
LEMMA ProcessReads ==
    ASSUME Decoder \in Decoders, NEW b \in Byte, ProcessScancode(b)
    PROVE  Decoder' = Read(Decoder, b)
<1>1. CASE b = PrefixByte
  BY Zenon, <1>1 DEF ProcessScancode, Decoder, Read
<1>2. CASE b # PrefixByte /\ extended_prefix_pending
  BY Zenon, <1>2 DEF ProcessScancode, Decoder, Decoders, Read
<1>3. CASE b # PrefixByte /\ ~extended_prefix_pending
  <2>1. CASE b.up
    BY Zenon, <1>3, <2>1 DEF ProcessScancode, Released, Decoder, Decoders, Read
  <2>2. CASE ~b.up
    BY Zenon, <1>3, <2>2 DEF ProcessScancode, Pressed, Decoder, Decoders, Read
  <2> QED BY <2>1, <2>2, Zenon
<1> QED BY <1>1, <1>2, <1>3, Zenon

\* What is on the wire is a byte.
LEMMA WireByte ==
    ASSUME WireOk, wire # <<>>
    PROVE  Head(wire).byte \in Byte
<1>1. PICK b : b = Head(wire)
  BY Zenon
<1>2. \E k \in Keys, up \in BOOLEAN : b.byte = PrefixByte \/ b.byte = KeyByte(k, up)
  BY Zenon, <1>1, NextByte
<1> QED BY <1>1, <1>2, KeyByteIs

\* The keyboard makes only the steps of the ring.
LEMMA StepsOfRing ==
    ASSUME WireOk, [KNext]_kvars
    PROVE  [Next]_vars
<1>1. CASE Irq1
  BY <1>1, WireByte, Zenon DEF Irq1, Next
<1>2. CASE DrainPending
  BY <1>2, Zenon DEF DrainPending, Next
<1>3. ASSUME NEW k \in Keys, Press(k) \/ Release(k) PROVE UNCHANGED vars
  BY Zenon, <1>3 DEF Press, Release, vars
<1>4. CASE Repeat
  BY <1>4, Zenon DEF Repeat, vars
<1>5. CASE UNCHANGED kvars
  BY <1>5, Zenon DEF kvars, vars
<1> QED BY <1>1, <1>2, <1>3, <1>4, <1>5, Zenon DEF KNext

\* Before the first key the decoder is right.
LEMMA KInitInv == KInit => KInv
<1> SUFFICES ASSUME KInit PROVE KInv
  BY Zenon
<1>1. IInv
  BY InitInv, Zenon DEF KInit
<1>2. Waiting = <<>> /\ InHand = NoByte
  <2>1. Count = 0
    BY DEF KInit, Init, Count
  <2>2. Waiting = <<>>
    BY <2>1 DEF Waiting
  <2> QED BY <2>2, Zenon DEF KInit, Init, InHand
<1>3. Decoder \in Decoders
  BY Zenon DEF KInit, Decoder, Decoders
<1>4. Reads(Now, Waiting, Decoder)
  BY <1>2, <1>3, ReadsNothing, Zenon DEF Now
<1>5. KeysOk /\ WireOk
  BY Zenon DEF KInit, KeysOk, WireOk
<1>6. Right(Decoder)
  <2>1. ~Carries(wire, CapsLock, FALSE)
    BY Zenon DEF KInit, Carries, Half
  <2>2. \A c \in Plain : c # NoKey
    BY KeyboardAssumption, Zenon
  <2> QED BY Zenon, <2>1, <2>2 DEF KInit, Right, Decoder
<1> QED BY <1>1, <1>3, <1>4, <1>5, <1>6, Zenon DEF KInv

\* KInv is inductive.
LEMMA KStepInv == KInv /\ [KNext]_kvars => KInv'
<1> SUFFICES ASSUME KInv, [KNext]_kvars PROVE KInv'
  BY Zenon
<1>1. IInv /\ WireOk /\ KeysOk /\ Decoder \in Decoders
  BY Zenon DEF KInv
<1>2. IInv'
  BY <1>1, StepsOfRing, StepInv, Zenon
<1>3. PICK s \in Decoders : Reads(Now, Waiting, s) /\ Right(s)
  BY Zenon DEF KInv
<1>4. Waiting \in Seq(Byte)
  BY <1>1, WaitingIs, Zenon
<1>5. ASSUME UNCHANGED <<vars, decoder>> PROVE UNCHANGED <<Decoder, Now, Waiting>>
  BY <1>5, Zenon DEF vars, decoder, Decoder, Now, InHand, Waiting, Count
<1>6. ASSUME UNCHANGED <<keyboard, history>> PROVE WireOk' /\ KeysOk' /\ Right(s)'
  BY Zenon, <1>1, <1>3, <1>6 DEF keyboard, history, WireOk, KeysOk, Right
<1>7. CASE (\E k \in Keys : Press(k) \/ Release(k)) \/ Repeat
  <2>1. UNCHANGED <<vars, decoder>>
    BY Zenon, <1>7 DEF Press, Release, Repeat, vars, decoder
  <2>2. \E k \in Keys : Press(k) \/ Release(k) \/ Repeat
    BY Zenon, <1>1, <1>7 DEF Repeat, KeysOk
  <2>3. WireOk' /\ KeysOk' /\ Right(s)'
    BY <1>1, <1>3, <2>2, KeyboardStep, Zenon
  <2>4. Decoder' \in Decoders /\ Reads(Now', Waiting', s)
    BY <1>1, <1>3, <1>5, <2>1, Zenon
  <2> QED BY <1>2, <2>3, <2>4, Zenon DEF KInv
<1>8. CASE Irq1
  <2> DEFINE b == Head(wire)
  <2>1. /\ wire # <<>> /\ wire' = Tail(wire)
        /\ Enqueue(b.byte) /\ Note(b)
        /\ UNCHANGED <<held, typematic>> /\ UNCHANGED decoder
    BY <1>8, Zenon DEF Irq1
  <2>2. b.byte \in Byte
    BY <1>1, <2>1, WireByte, Zenon
  <2>3. PICK t : t = IF After(head) = tail THEN s ELSE Read(s, b.byte)
    BY Zenon
  <2>4. t \in Decoders
    BY <2>2, <2>3, ReadType, Zenon
  <2>5. WireOk' /\ KeysOk' /\ Right(t)'
    BY <1>1, <1>3, <2>1, <2>3, ArrivalStep, Zenon
  <2>6. InHand' = InHand /\ Waiting' = IF After(head) = tail THEN Waiting
                                       ELSE Append(Waiting, b.byte)
    BY <1>1, <1>2, <2>1, <2>2, EnqueueIs, Zenon DEF Fifo!Drop, Fifo!Put
  <2>7. Decoder' = Decoder
    BY <2>1, Zenon DEF decoder, Decoder
  <2>8. Now' = Now
    BY <2>6, <2>7, Zenon DEF Now
  <2>9. Reads(Now', Waiting', t)
    BY <1>3, <1>4, <2>2, <2>3, <2>6, <2>8, ReadsAppend, Zenon
  <2> QED BY <1>1, <1>2, <2>4, <2>5, <2>7, <2>9, Zenon DEF KInv
<1>9. CASE DrainPending
  <2>1. Drain /\ UNCHANGED <<keyboard, history>>
    BY <1>9, Zenon DEF DrainPending
  <2>2. WireOk' /\ KeysOk' /\ Right(s)'
    BY <1>6, <2>1, Zenon
  <2>3. CASE pc = "process"
    <3>1. ProcessScancode(taken) /\ taken \in Byte
      BY <1>1, <1>9, <2>3, Zenon DEF DrainPending, IInv, LoopInv
    <3>2. InHand = taken /\ InHand # NoByte /\ InHand' = NoByte /\ Waiting' = Waiting
      BY <1>1, <2>1, <2>3, ProcessIs, Zenon DEF Fifo!Process
    <3>3. Decoder' = Read(Decoder, taken)
      BY <1>1, <3>1, ProcessReads, Zenon
    <3>4. Now' = Now /\ Decoder' \in Decoders
      BY <1>1, <3>1, <3>2, <3>3, ReadType, Zenon DEF Now
    <3> QED BY <1>2, <1>3, <2>2, <3>2, <3>4, Zenon DEF KInv
  <2>4. CASE pc # "process"
    <3>1. Decoder' = Decoder
      BY <1>9, <2>4, Zenon DEF DrainPending, decoder, Decoder
    <3>2. CASE UNCHANGED <<Waiting, InHand>>
      BY <1>1, <1>2, <1>3, <2>2, <3>1, <3>2, Zenon DEF KInv, Now
    <3>3. CASE Fifo!Get
      <4>1. /\ Waiting # <<>> /\ InHand = NoByte
            /\ InHand' = Head(Waiting) /\ Waiting' = Tail(Waiting)
        BY <3>3, Zenon DEF Fifo!Get
      <4>2. Head(Waiting) \in Byte
        BY <1>4, <4>1
      <4>3. Now = Decoder /\ Now' = Read(Decoder, Head(Waiting))
        BY <3>1, <4>1, <4>2, InputRingAssumption, Zenon DEF Now
      <4>4. Reads(Now', Waiting', s)
        BY <1>3, <1>4, <4>1, <4>3, ReadsTail, Zenon
      <4> QED BY <1>1, <1>2, <1>3, <2>2, <3>1, <4>4, Zenon DEF KInv
    <3> QED BY <1>1, <1>2, <2>1, <2>4, <3>2, <3>3, GettingIs, Zenon
  <2> QED BY <2>3, <2>4, Zenon
<1>10. CASE UNCHANGED kvars
  <2>1. UNCHANGED <<vars, decoder>> /\ UNCHANGED <<keyboard, history>>
    BY <1>10, Zenon DEF kvars, decoder, keyboard, history
  <2> QED BY <1>1, <1>2, <1>3, <1>5, <1>6, <2>1, Zenon DEF KInv
<1> QED BY <1>7, <1>8, <1>9, <1>10, Zenon DEF KNext

\* Whatever bytes the full ring drops, and for every ring size, the decoder is
\* wrong about a key only until the next byte of that key comes through.
THEOREM DecoderHeals == KSpec => []LossesHeal
<1>1. KInv => LossesHeal
  <2> SUFFICES ASSUME KInv, CaughtUp
               PROVE  /\ \A c \in Plain \ missed :
                            /\ c \in Modifiers =>
                                  (c \in modifiers_down <=> Key(c, FALSE) \in held)
                            /\ Key(c, FALSE) \notin held => last_pressed_scancode # c
                            /\ Key(c, FALSE) \in typematic => last_pressed_scancode = c
                      /\ caps # "unknown" => (caps_lock_on <=> caps = "on")
    BY Zenon DEF LossesHeal
  <2>1. PICK s \in Decoders : Reads(Now, Waiting, s) /\ Right(s)
    BY Zenon DEF KInv
  <2>2. Waiting = <<>>
    <3>1. Count = 0
      BY DEF CaughtUp, Count, KInv, IInv, TypeOK, Slot
    <3> QED BY <3>1 DEF Waiting
  <2>3. InHand = NoByte
    BY Zenon DEF CaughtUp, InHand
  <2>4. Decoder \in Decoders /\ Now = Decoder
    BY <2>3, Zenon DEF KInv, Now
  <2>5. s = Decoder
    BY <2>1, <2>2, <2>4, ReadsNothing, Zenon
  <2>6. Right(Decoder)
    BY <2>1, <2>5, Zenon
  <2>7. \A c, u : ~Carries(wire, c, u)
    BY Zenon DEF CaughtUp, Carries, Half
  <2> QED BY Zenon, <2>6, <2>7 DEF Right, Decoder
<1> QED BY <1>1, KInitInv, KStepInv, PTL DEF KSpec

\* Through the interrupt and the decoder the ring is used as it should be, so
\* the scancodes reach the decoder in their order, none twice and none torn.
THEOREM ScancodesInOrder == KSpec => ImplementsFifo
<1>1. KInit => Init
  BY Zenon DEF KInit
<1>2. KInv /\ [KNext]_kvars => [Next]_vars
  BY StepsOfRing, Zenon DEF KInv
<1>3. KSpec => Spec
  BY <1>1, <1>2, KInitInv, KStepInv, PTL DEF KSpec, Spec
<1> QED BY <1>3, RingIsFifo, PTL
=============================================================================
