----------------------------- MODULE InputRing -----------------------------
(***************************************************************************)
(* The byte ring between an input interrupt and the main loop.  Keyboard   *)
(* (IRQ 1, keyboard_enqueue_scancode / keyboard_drain_pending) and mouse   *)
(* (IRQ 12, mouse_enqueue_byte / mouse_drain_pending) each have one, with  *)
(* the same code.  The handler runs with interrupts off and is one step;   *)
(* it may come between any two steps of the drain loop.                    *)
(*                                                                         *)
(* head and tail are volatile, the array is not: the compiler may load the *)
(* slot before or after it stores the new tail.  Both orders are modelled. *)
(***************************************************************************)
EXTENDS Integers, Sequences

CONSTANTS
    Size,     \* KEYBOARD_SCANCODE_QUEUE_SIZE, MOUSE_QUEUE_SIZE (128 in the code)
    Byte,     \* the bytes the device sends
    NoByte,   \* no byte
    Word      \* the drop counter is a uint32_t: 2^32 in the code

ASSUME InputRingAssumption ==
    /\ Size \in Nat \ {0, 1}
    /\ Word \in Nat \ {0}
    /\ NoByte \notin Byte

VARIABLES
    queue,    \* keyboard_scancode_queue
    head,     \* keyboard_scancode_head
    tail,     \* keyboard_scancode_tail
    dropped,  \* keyboard_scancode_dropped
    pc,       \* where the drain loop is
    taken,    \* its local scancode
    slot      \* the index it loads late, if the load was moved down

vars == <<queue, head, tail, dropped, pc, taken, slot>>

Slot     == 0 .. (Size - 1)
Counters == 0 .. (Word - 1)
PCs      == {"out", "test", "load", "advance", "late", "process"}

\* The array is zeroed bss; what it holds outside tail .. head never matters.
Init ==
    /\ queue = [i \in Slot |-> NoByte]
    /\ head = 0
    /\ tail = 0
    /\ dropped = 0
    /\ pc = "out"
    /\ taken = NoByte
    /\ slot = 0

After(i) == (i + 1) % Size

\* keyboard_enqueue_scancode, mouse_enqueue_byte
Enqueue(b) ==
    /\ IF After(head) = tail
       THEN /\ dropped' = (dropped + 1) % Word
            /\ UNCHANGED <<queue, head>>
       ELSE /\ queue' = [queue EXCEPT ![head] = b]
            /\ head' = After(head)
            /\ UNCHANGED dropped
    /\ UNCHANGED <<tail, pc, taken, slot>>

\* The main loop calls the drain function.
BeginDrain ==
    /\ pc = "out"
    /\ pc' = "test"
    /\ UNCHANGED <<queue, head, tail, dropped, taken, slot>>

\* Mutant: the loop ends with one byte still waiting.
MutDrainTestLeavesOne ==
    /\ pc = "test"
    /\ pc' = IF tail = head \/ After(tail) = head THEN "out" ELSE "load"
    /\ UNCHANGED <<queue, head, tail, dropped, taken, slot>>

\* while (tail != head)
DrainTest ==
    /\ pc = "test"
    /\ pc' = IF tail = head THEN "out" ELSE "load"
    /\ UNCHANGED <<queue, head, tail, dropped, taken, slot>>

LoadSlot ==
    /\ pc = "load"
    /\ taken' = queue[tail]
    /\ pc' = "advance"
    /\ UNCHANGED <<queue, head, tail, dropped, slot>>

AdvanceTail ==
    /\ pc = "advance"
    /\ tail' = After(tail)
    /\ pc' = "process"
    /\ UNCHANGED <<queue, head, dropped, taken, slot>>

\* The load moved below the store of tail.
AdvanceFirst ==
    /\ pc = "load"
    /\ slot' = tail
    /\ tail' = After(tail)
    /\ pc' = "late"
    /\ UNCHANGED <<queue, head, dropped, taken>>

LoadLate ==
    /\ pc = "late"
    /\ taken' = queue[slot]
    /\ slot' = 0
    /\ pc' = "process"
    /\ UNCHANGED <<queue, head, tail, dropped>>

\* keyboard_process_scancode, or the packet step of mouse_drain_pending.
Process ==
    /\ pc = "process"
    /\ taken' = NoByte
    /\ pc' = "test"
    /\ UNCHANGED <<queue, head, tail, dropped, slot>>

Drain ==
    \/ BeginDrain \/ DrainTest \/ LoadSlot \/ AdvanceTail
    \/ AdvanceFirst \/ LoadLate \/ Process

Next == (\E b \in Byte : Enqueue(b)) \/ Drain

Spec == Init /\ [][Next]_vars

-----------------------------------------------------------------------------
\* Every variable has its type; head, tail and slot are indices of the array.
TypeOK ==
    /\ queue \in [Slot -> Byte \cup {NoByte}]
    /\ head \in Slot
    /\ tail \in Slot
    /\ dropped \in Counters
    /\ pc \in PCs
    /\ taken \in Byte \cup {NoByte}
    /\ slot \in Slot

\* How many bytes wait between tail and head.
Count == IF head >= tail THEN head - tail ELSE head - tail + Size

\* The waiting bytes, oldest first.
Waiting == [i \in 1 .. Count |-> queue[(tail + i - 1) % Size]]

\* The byte in the consumer's hand: from the store of tail on it is out of the
\* queue, even if the array is read only afterwards.
InHand ==
    CASE pc = "late"    -> queue[slot]
      [] pc = "process" -> taken
      [] OTHER          -> NoByte

Fifo == INSTANCE BoundedFifo
          WITH Capacity <- Size - 1, fifo <- Waiting, hand <- InHand

\* The ring is a bounded FIFO of Size - 1 bytes: no byte is lost, repeated,
\* reordered or torn by an interrupt inside the drain loop, whichever order the
\* compiler gives the load of the slot and the store of tail, and a byte is
\* dropped only while Size - 1 bytes wait.
ImplementsFifo == Fifo!Spec

\* And every byte the ring accepted is processed in the end.
ImplementsFairFifo == Fifo!FairSpec
=============================================================================
