---------------------------- MODULE BoundedFifo ----------------------------
(***************************************************************************)
(* What an input queue promises: bytes come out in the order they came in, *)
(* none twice, and one is dropped only while Capacity bytes wait.          *)
(***************************************************************************)
EXTENDS Integers, Sequences

CONSTANTS Byte, Capacity, Word, NoByte
VARIABLES
    fifo,     \* the waiting bytes, oldest first
    hand,     \* the byte the consumer has taken and not processed yet
    dropped   \* how many bytes found the queue full

vars == <<fifo, hand, dropped>>

Init == fifo = <<>> /\ hand = NoByte /\ dropped = 0

Put(b) ==
    /\ Len(fifo) < Capacity
    /\ fifo' = Append(fifo, b)
    /\ UNCHANGED <<hand, dropped>>

Drop ==
    /\ Len(fifo) = Capacity
    /\ dropped' = (dropped + 1) % Word
    /\ UNCHANGED <<fifo, hand>>

Get ==
    /\ fifo # <<>>
    /\ hand = NoByte
    /\ hand' = Head(fifo)
    /\ fifo' = Tail(fifo)
    /\ UNCHANGED dropped

Process ==
    /\ hand # NoByte
    /\ hand' = NoByte
    /\ UNCHANGED <<fifo, dropped>>

Next == (\E b \in Byte : Put(b)) \/ Drop \/ Get \/ Process

Spec == Init /\ [][Next]_vars
FairSpec == Spec /\ WF_vars(Get) /\ WF_vars(Process)
=============================================================================
