------------------------------ MODULE MCFatDir ------------------------------
(***************************************************************************)
(* Volumes for FatDir.  The first family tries every content of a fixed    *)
(* root of two sectors with two entries each; its directory b is a chain   *)
(* with a long name across the cluster boundary.  The second tries every   *)
(* table of a FAT32 root of up to three clusters.  The third tries boot    *)
(* sectors and places.                                                     *)
(***************************************************************************)
EXTENDS FatCheck

Lfn(order, last, sum, text, good) ==
    [tag |-> "lfn", order |-> order, last |-> last, sum |-> sum,
     text |-> text, good |-> good]
Short(name, sum, kind, first) ==
    [tag |-> "entry", name |-> <<name>>, sum |-> sum, kind |-> kind,
     first |-> first]

End     == [tag |-> "end"]
Deleted == [tag |-> "deleted"]
Only    == Lfn(1, TRUE, 1, "c", TRUE)    \* a name of one part, for A
Upper   == Lfn(2, TRUE, 1, "c", TRUE)    \* the second of two parts, for A
Lower   == Lfn(1, FALSE, 1, "F", TRUE)   \* the first of two parts, for A
Other   == Lfn(1, FALSE, 2, "F", TRUE)   \* a part for B
FileA   == Short("a", 1, "file", 2)
DirB    == Short("b", 2, "directory", 3)

Roots == {<<<<e[1], e[2]>>, <<e[3], e[4]>>>> :
            e \in [1 .. 4 -> {End, Deleted, Only, Upper, Lower, Other,
                              FileA, DirB}]}

Boot(perCluster, entries, total, perFat16, root) ==
    [signed |-> TRUE, bytes |-> 512, perCluster |-> perCluster, reserved |-> 1,
     fats |-> 1, entries |-> entries, total16 |-> 0, total32 |-> total,
     perFat16 |-> perFat16, perFat32 |-> 1, root |-> root,
     label |-> "none"]

FixedVolumes ==
    {[lba |-> 1, boot |-> Boot(1, 32, 7, 1, 0), root |-> r,
      sectors |-> (2 :> <<<<>>>> @@
                   3 :> <<<<Short("u", 3, "directory", 0), Upper>>>> @@
                   4 :> <<<<Lower, FileA>>>>),
      table   |-> (2 :> EndMark @@ 3 :> 4 @@ 4 :> EndMark)] : r \in Roots}

\* What the clusters of a FAT32 root hold
Contents == {
    <<Upper, Lower, FileA, Deleted, Only, FileA>>,
    <<DirB, Only, Deleted, FileA, Lfn(1, TRUE, 2, "a", TRUE), DirB>>,
    <<Short("x", 2, "reserved", 0), Short("a", 1, "directory", 9),
      Upper, Lfn(1, FALSE, 1, "F", FALSE), FileA, End>>,
    <<Short("c", 1, "volume", 0), Only, FileA, End, DirB, FileA>>}

ChainVolumes ==
    {[lba |-> 1, boot |-> Boot(2, 0, 10, 0, start), root |-> <<>>,
      sectors |-> [n \in 2 .. 5 |->
                     IF n = 5 THEN <<<<>>, <<>>>>
                     ELSE <<<<c[2 * n - 3]>>, <<c[2 * n - 2]>>>>],
      table   |-> t @@ (5 :> EndMark)] :
        c \in Contents, start \in {0, 2},
        t \in [2 .. 4 -> {0, 2, 3, 4, EndMark, BadMark}]}

\* Boot sectors right and wrong, and some whose sizes do not fit in Word
Boots ==
    [signed : {TRUE}, bytes : {512}, perCluster : {0, 1, 2, 3},
     reserved : {0, 1}, fats : {0, 1, 2}, entries : {0, 17},
     total16 : {0, 8}, total32 : {0, 9}, perFat16 : {0, 1},
     perFat32 : {0, 2, 32767, 32768}, root : {1, 2},
     label : {"none"}]

BadBoots == {[Boot(1, 32, 7, 1, 0) EXCEPT !.signed = FALSE],
             [Boot(1, 32, 7, 1, 0) EXCEPT !.bytes = 1024],
             [Boot(1, 32, 7, 1, 0) EXCEPT !.bytes = 0]}

\* Boot sectors in which a formatter has named the type
NamedBoots ==
    [signed : {TRUE}, bytes : {512}, perCluster : {1}, reserved : {1},
     fats : {1, 2}, entries : {0, 17}, total16 : {0}, total32 : {5, 6, 7, 9},
     perFat16 : {0, 1}, perFat32 : {1}, root : {0, 2, 9},
     label : {"none", "FAT12", "FAT16", "FAT32"}]

\* The last sector that a volume of 9 sectors can start at is 65527.
BootVolumes ==
    {[lba |-> b[1], boot |-> b[2], root |-> <<<<DirB>>, <<>>>>,
      sectors |-> [n \in 2 .. 9 |-> <<<<>>, <<>>>>],
      table   |-> [n \in 2 .. 9 |-> IF n = 9 THEN EndMark ELSE n + 1]] :
        b \in ({0, 1, 65527, 65531} \X Boots)
             \cup ({1} \X (NamedBoots \cup BadBoots))}

MCVolumes == FixedVolumes \cup ChainVolumes \cup BootVolumes

MCPaths == {<<>>, <<<<"a">>>>, <<<<"c">>>>, <<<<"F", "c">>>>, <<<<"b">>>>,
            <<<<"b">>, <<"a">>>>, <<<<"b">>, <<"u">>, <<"a">>>>,
            <<<<"a">>, <<"a">>>>}
=============================================================================
