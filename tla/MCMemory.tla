------------------------------ MODULE MCMemory ------------------------------
(***************************************************************************)
(* Memory on 16 frames of 4 bytes: the kernel in frames 1 and 2, the heap  *)
(* from 11 to 18, the boot information in frame 8.  The map entries        *)
(* overlap, are empty, are not aligned to frames, and reach or pass the    *)
(* end of the address space.                                               *)
(***************************************************************************)
EXTENDS Memory

Entry(a, n, ok) == [addr |-> a, len |-> n, available |-> ok]

MCEntries ==
    {Entry(0, 35, TRUE), Entry(30, 27, TRUE), Entry(50, 14, TRUE),
     Entry(49, 40, TRUE), Entry(0, 64, TRUE), Entry(40, 8, FALSE),
     Entry(70, 8, TRUE), Entry(12, 0, TRUE), Entry(1, 2, TRUE)}
=============================================================================
