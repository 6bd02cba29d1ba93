------------------------------ MODULE FatProofs -----------------------------
(***************************************************************************)
(* Reading files of a FAT volume and the shell commands on top, for every  *)
(* geometry, every table however damaged, every file size and every        *)
(* sequence of calls and failures.                                         *)
(***************************************************************************)
EXTENDS FatShell, Arithmetic, SequenceTheorems, FunctionTheorems, TLAPS

\* The volume; it never changes.
DiskOk == table \in [Used -> Values] /\ size \in Nat /\ first \in Nat

\* The cursor has gone along the chain, from the first cluster on: it never came
\* twice to one, and base is where its cluster begins in the file.
OnChain(c) ==
    /\ c.seen \in 1 .. Needed
    /\ c.seen <= MaxVisited
    /\ c.visited \in [1 .. c.seen -> Valid]
    /\ \A i \in 1 .. c.seen : c.visited[i] = Chain[i - 1]
    /\ \A i, j \in 1 .. c.seen : i # j => c.visited[i] # c.visited[j]
    /\ c.cluster = Chain[c.seen - 1]
    /\ c.base = ClusterSize * (c.seen - 1)

Cursors == [position : Nat, cluster : Nat, base : Nat, seen : Nat,
            visited : Seq(Nat)]

CursorInv ==
    /\ cursor \in Cursors
    /\ cursor.position <= size
    /\ pc = "closed" => cursor = Rewound
    /\ pc # "closed" /\ size = 0 => cursor = Rewound
    /\ pc # "closed" /\ size # 0 => OnChain(cursor)

\* A call under way: a seek has so many clusters to go, a read has copied all from
\* where it began to where it is.
CallInv ==
    /\ pc \in {"closed", "open", "seek", "read"}
    /\ status \in {"none", "ok", "corrupt", "io", "invalid"}
    /\ failed \in BOOLEAN
    /\ left \in Int /\ goal \in Nat /\ from \in Nat
    /\ out \in Seq(Nat \X Nat)
    /\ pc = "seek" => /\ size # 0
                      /\ cursor.position = 0
                      /\ goal \in 1 .. size
                      /\ left \in Nat
                      /\ left + (cursor.seen - 1) = goal \div ClusterSize
    /\ pc = "read" => /\ left > 0
                      /\ cursor.position + left <= size
                      /\ cursor.position = from + Len(out)

BytesOk == \A i \in 1 .. Len(out) : out[i] = FileByte(from + i - 1)

\* Nothing has gone wrong on a healthy volume, and the cursor is in its cluster
\* or at the end of the file.
Intact == Healthy /\ ~TakenForMark
Fine == Intact /\ ~failed /\ ~SeeksPastLast
InPlace(c) ==
    c.position = size \/ (c.base <= c.position /\ c.position < c.base + ClusterSize)

FineInv ==
    Fine => /\ status # "corrupt"
            /\ pc \in {"open", "read"} /\ size # 0 => InPlace(cursor)

FileInv == DiskOk /\ CursorInv /\ CallInv /\ BytesOk /\ FineInv

\* No cluster is listed twice, and each that the table knows leads to the one after
\* it, the last to a.
Distinct(s) == \A i, j \in 1 .. Len(s) : i # j => s[i] # s[j]
Follows(s, a) ==
    \A i \in 1 .. Len(s) :
        Known(s[i]) => Link(s[i]) = IF i < Len(s) THEN s[i + 1] ELSE a

\* fatchain has listed a stretch of a chain, and at is what follows it.
ChainInv ==
    cmd = "chain" =>
        /\ pc = "closed" /\ shown = <<>> /\ bps \in VolumeSizes
        /\ Len(chain) <= MaxPreview
        /\ Distinct(chain)
        /\ bps = BytesPerSector => Follows(chain, at)
        /\ chain # <<>> => Meaning(at) = "next"

\* fatcat has printed what lies before the cursor, but for the chunk in hand.
CatInv ==
    cmd \in {"cat", "print", "end"} =>
        /\ chain = <<>>
        /\ Len(shown) <= CatMax
        /\ \A i \in 1 .. Len(shown) : shown[i] = FileByte(i - 1)
        /\ cmd # "print" => pc = "open" /\ cursor.position = Len(shown)
        /\ cmd = "print" =>
              /\ pc \in {"open", "read"}
              /\ from = Len(shown)
              /\ cursor.position = from + Len(out)
              /\ pc = "open" => Len(shown) + Len(out) <= CatMax
              /\ pc = "read" => Len(shown) + Len(out) + left <= CatMax
              /\ pc = "open" /\ status = "ok" /\ out = <<>> => cursor.position = size
        /\ cmd = "end" => cursor.position = size

ShellInv ==
    /\ cmd \in {"none", "chain", "cat", "print", "end", "done"}
    /\ chain \in Seq(Nat) /\ at \in Nat /\ shown \in Seq(Nat \X Nat)
    /\ cmd = "none" => chain = <<>> /\ shown = <<>>
    /\ cmd = "done" => pc \in {"open", "closed"}
    /\ ChainInv /\ CatInv /\ ChainIsTrue /\ CatIsPrefix

IInv == FileInv /\ ShellInv

-----------------------------------------------------------------------------
(* Sizes and the chain *)

\* The volume's numbers.
LEMMA Geometry ==
    /\ ClusterCount \in Nat \ {0} /\ BytesPerSector \in Nat \ {0}
    /\ SectorsPerCluster \in Nat \ {0} /\ MaxVisited \in Nat \ {0}
    /\ ClusterSize \in Nat \ {0}
    /\ ClusterSize = BytesPerSector * SectorsPerCluster
<1>1. /\ ClusterCount \in Nat \ {0} /\ BytesPerSector \in Nat \ {0}
      /\ SectorsPerCluster \in Nat \ {0} /\ MaxVisited \in Nat \ {0}
  BY FatFileAssumption, Zenon
<1>2. BytesPerSector * SectorsPerCluster \in Nat \ {0}
  BY <1>1, Z3
<1> QED BY <1>1, <1>2, Zenon DEF ClusterSize

\* The chain is the function its definition asks for.
LEMMA ChainIs ==
    ASSUME DiskOk
    PROVE  /\ Chain \in [Nat -> Valid \cup {0}]
           /\ Chain[0] = IF IsValid(first) THEN first ELSE 0
           /\ \A k \in Nat : Chain[k + 1] = IF Chain[k] \in Valid /\ Entry(Chain[k]) \in Valid
                                            THEN Entry(Chain[k]) ELSE 0
<1> DEFINE S == Valid \cup {0}
           s == IF IsValid(first) THEN first ELSE 0
           F == [c \in S |-> IF c \in Valid /\ Entry(c) \in Valid THEN Entry(c) ELSE 0]
<1>1. s \in S /\ F \in [S -> S]
  BY Geometry DEF DiskOk, IsValid, Valid
<1>2. PICK f \in [Nat -> S] : f[0] = s /\ \A n \in Nat : f[n + 1] = F[f[n]]
  <2> HIDE DEF S, s, F
  <2> QED BY <1>1, Iteration
<1>3. \A n \in Nat \ {0} : f[n] = F[f[n - 1]]
  <2> TAKE n \in Nat \ {0}
  <2>1. n - 1 \in Nat /\ (n - 1) + 1 = n
    OBVIOUS
  <2> QED BY <1>2, <2>1, Zenon
<1>4. 0 \notin Valid
  BY Geometry DEF Valid
<1> DEFINE Body(g, k) == IF k = 0 THEN (IF IsValid(first) THEN first ELSE 0)
                         ELSE LET c == g[k - 1]
                              IN  IF c = 0 \/ Entry(c) \notin Valid THEN 0
                                  ELSE Entry(c)
           Def(g) == [k \in Nat |-> Body(g, k)]
<1>5. f = Def(f)
  <2>1. ASSUME NEW k \in Nat PROVE f[k] = Def(f)[k]
    <3>1. CASE k = 0
      BY <1>2, <3>1, Zenon
    <3>2. CASE k # 0
      <4>1. f[k] = F[f[k - 1]] /\ f[k - 1] \in S
        BY <1>2, <1>3, <3>2
      <4> QED BY <1>4, <3>2, <4>1, Zenon
    <3> QED BY <3>1, <3>2, Zenon
  <2> QED BY <1>2, <2>1
<1>6. Chain = Def(Chain)
  BY <1>5, Zenon DEF Chain
<1>7. Chain[0] = s
  BY <1>6, Zenon
<1>8. ASSUME NEW k \in Nat, Chain[k] \in S
      PROVE  Chain[k + 1] = F[Chain[k]] /\ Chain[k + 1] \in S
  <2>1. k + 1 \in Nat /\ k + 1 # 0 /\ (k + 1) - 1 = k
    OBVIOUS
  <2>2. Chain[k + 1] = IF Chain[k] = 0 \/ Entry(Chain[k]) \notin Valid THEN 0
                       ELSE Entry(Chain[k])
    BY <1>6, <2>1, Zenon
  <2> QED BY <1>1, <1>4, <1>8, <2>2, Zenon
<1>9. \A k \in Nat : Chain[k] \in S
  <2> DEFINE T == {k \in Nat : Chain[k] \in S}
  <2>1. 0 \in T /\ \A k \in Nat : k \in T => k + 1 \in T
    <3> HIDE DEF S, s, F
    <3> QED BY <1>1, <1>7, <1>8
  <2>2. Nat \subseteq T
    <3> HIDE DEF T
    <3> QED BY <2>1, SetInduction, Zenon
  <2> QED BY <2>2, Zenon
<1>10. Chain \in [Nat -> S]
  <2>1. Chain = [k \in Nat |-> Body(Chain, k)]
    BY <1>6, Zenon
  <2>2. \A k \in Nat : Body(Chain, k) \in S
    BY <1>6, <1>9, Zenon
  <2> HIDE DEF Body, S
  <2> QED BY <2>1, <2>2, Zenon
<1> QED BY <1>7, <1>8, <1>9, <1>10, Zenon

\* It stays as it is.
LEMMA ChainSame ==
    ASSUME table' = table, first' = first
    PROVE  Chain' = Chain
BY Zenon DEF Chain, Entry, IsValid, Valid

\* So does all that is read off the disk.
LEMMA DiskSame ==
    ASSUME UNCHANGED disk
    PROVE  /\ DiskOk => DiskOk'
           /\ Needed' = Needed
           /\ Rewound' = Rewound
           /\ Chain' = Chain
           /\ Intact' = Intact
           /\ \A c : Entry(c)' = Entry(c)
<1>1. table' = table /\ size' = size /\ first' = first
  BY Zenon DEF disk
<1>2. Chain' = Chain
  BY <1>1, ChainSame, Zenon
<1>3. Needed' = Needed
  BY <1>1, Zenon DEF Needed
<1>4. Intact' = Intact
  BY <1>2, <1>3, Zenon DEF Intact, Healthy, TakenForMark
<1>5. \A c : Entry(c)' = Entry(c)
  BY <1>1, Zenon DEF Entry
<1> QED BY <1>1, <1>2, <1>3, <1>4, <1>5, Zenon DEF DiskOk, Rewound

\* The clusters that a file of this size has: as many as hold it, and no more.
LEMMA NeededIs ==
    ASSUME DiskOk
    PROVE  /\ Needed \in Nat
           /\ size <= ClusterSize * Needed
           /\ size # 0 => /\ Needed >= 1
                          /\ ClusterSize * (Needed - 1) < size
<1> DEFINE a == size + ClusterSize - 1
           m == Needed
<1>1. a \in Nat /\ size \in Nat
  BY Geometry DEF DiskOk
<1>2. /\ m \in Nat
      /\ ClusterSize * m <= a
      /\ a < ClusterSize * m + ClusterSize
  BY <1>1, Geometry, DivIs, Zenon DEF Needed
<1> HIDE DEF m
<1>3. ClusterSize * m \in Nat /\ ClusterSize * (m - 1) = ClusterSize * m - ClusterSize
  BY <1>2, Geometry, Z3
<1>4. size <= ClusterSize * m
  BY <1>1, <1>2, <1>3, Geometry
<1>5. ASSUME size # 0 PROVE m >= 1 /\ ClusterSize * (m - 1) < size
  <2>1. ClusterSize * m # 0
    BY <1>1, <1>3, <1>4, <1>5
  <2>2. m # 0
    BY <2>1, Geometry
  <2> QED BY <1>1, <1>2, <1>3, <2>2, Geometry
<1> QED BY <1>2, <1>4, <1>5, Zenon DEF m

\* fat_file_max_clusters gives as many, or fewer where the sum wraps; for a file
\* that the list of visited clusters can hold it gives as many.
LEMMA MaxClustersIs ==
    ASSUME DiskOk
    PROVE  /\ MaxClusters \in Nat /\ MaxClusters <= Needed
           /\ Needed <= MaxVisited => MaxClusters = Needed
<1> DEFINE a == size + ClusterSize - 1
           w == a % Word
           m == MaxClusters
           n == Needed
<1>1. a \in Nat /\ Word \in Nat \ {0} /\ (MaxVisited + 1) * ClusterSize <= Word
  <2>1. a \in Nat
    BY Geometry DEF DiskOk
  <2>2. Word \in Nat \ {0} /\ (MaxVisited + 1) * ClusterSize <= Word
    BY FatFileAssumption, Zenon DEF ClusterSize
  <2> QED BY <2>1, <2>2, Zenon
<1>2. w \in Nat /\ w <= a /\ (a < Word => w = a)
  <2> HIDE DEF a
  <2> QED BY <1>1
<1>3. /\ m \in Nat /\ ClusterSize * m <= w
      /\ n \in Nat /\ a < ClusterSize * n + ClusterSize
  BY <1>1, <1>2, Geometry, DivIs, Zenon DEF MaxClusters, Needed
<1>4. w = a => m = n
  BY Zenon DEF MaxClusters, Needed
<1> HIDE DEF a, w, m, n
<1>5. m <= n
  <2>1. ClusterSize * m < ClusterSize * (n + 1)
    BY <1>1, <1>2, <1>3, Geometry, Z3
  <2> QED BY <1>3, <2>1, Geometry, Z3
<1>6. ASSUME n <= MaxVisited PROVE m = n
  <2>1. ClusterSize * n + ClusterSize <= (MaxVisited + 1) * ClusterSize
    BY <1>3, <1>6, Geometry, Z3
  <2>2. ClusterSize * n \in Nat /\ (MaxVisited + 1) * ClusterSize \in Nat
    BY <1>3, Geometry, Z3
  <2>3. a < Word
    BY <1>1, <1>3, <2>1, <2>2, Geometry
  <2> QED BY <1>2, <1>4, <2>3, Zenon
<1> QED BY <1>3, <1>5, <1>6, Zenon DEF m, n

\* An entry is a number.
LEMMA EntryIsNat ==
    ASSUME DiskOk, NEW c
    PROVE  Entry(c) \in Nat
BY FatFileAssumption, Zenon DEF DiskOk, Entry

\* A position lies in the k-th cluster when it lies between its ends.
LEMMA PlaceIs ==
    ASSUME NEW k \in Nat, NEW p \in Nat, ClusterSize * k <= p,
           p < ClusterSize * k + ClusterSize
    PROVE  p \div ClusterSize = k /\ p % ClusterSize = p - ClusterSize * k
<1>1. ClusterSize * k \in Nat
  BY Geometry
<1>2. /\ p - ClusterSize * k \in 0 .. (ClusterSize - 1)
      /\ p = ClusterSize * k + (p - ClusterSize * k)
  BY <1>1, Geometry
<1> QED BY <1>1, <1>2, Geometry, DivUnique

-----------------------------------------------------------------------------
(* The cursor *)

\* fat_file_reset_state puts it at the head of the chain.
LEMMA RewoundIs ==
    ASSUME DiskOk
    PROVE  /\ Rewound \in Cursors
           /\ Rewound.position = 0
           /\ size # 0 => Rewound.seen = 1 /\ Rewound.base = 0
           /\ size # 0 /\ IsValid(first) => OnChain(Rewound)
<1>1. size \in Nat /\ first \in Nat
  BY Zenon DEF DiskOk
<1>2. <<>> \in Seq(Nat) /\ <<first>> \in Seq(Nat)
  BY <1>1
<1>3. Rewound \in Cursors /\ Rewound.position = 0
  BY <1>1, <1>2, Zenon DEF Rewound, Cursors
<1>4. ASSUME size # 0
      PROVE  /\ Rewound.seen = 1 /\ Rewound.base = 0
             /\ Rewound.visited = <<first>> /\ Rewound.cluster = first
  BY <1>4, Zenon DEF Rewound
<1>5. ASSUME size # 0, IsValid(first) PROVE OnChain(Rewound)
  <2>1. Needed \in Nat /\ Needed >= 1
    BY <1>5, NeededIs, Zenon
  <2>2. first \in Valid /\ Chain[0] = first
    BY <1>1, <1>5, Geometry, ChainIs DEF IsValid, Valid
  <2>3. ClusterSize * 0 = 0
    BY Geometry
  <2>4. 1 \in 1 .. Needed /\ 1 <= MaxVisited
    BY <2>1, Geometry
  <2>5. /\ <<first>> \in [1 .. 1 -> Valid]
        /\ \A i \in 1 .. 1 : <<first>>[i] = Chain[i - 1]
        /\ \A i, j \in 1 .. 1 : i # j => <<first>>[i] # <<first>>[j]
    BY <2>2
  <2>6. 1 - 1 = 0
    OBVIOUS
  <2> QED BY <1>4, <1>5, <2>2, <2>3, <2>4, <2>5, <2>6, Zenon DEF OnChain
<1> QED BY <1>3, <1>4, <1>5, Zenon

\* A cursor on the chain is at a cluster of it.
LEMMA OnChainIs ==
    ASSUME DiskOk, NEW c \in Cursors, OnChain(c)
    PROVE  /\ c.seen \in Nat /\ c.seen >= 1 /\ c.seen <= Needed
           /\ c.visited \in Seq(Valid) /\ Len(c.visited) = c.seen
           /\ c.cluster \in Valid /\ IsValid(c.cluster) /\ c.cluster # 0
           /\ c.base \in Nat
           /\ c.cluster = Chain[c.seen - 1]
           /\ c.base = ClusterSize * (c.seen - 1)
<1>1. Needed \in Nat
  BY NeededIs, Zenon
<1>2. c.seen \in Nat /\ c.seen >= 1 /\ c.seen <= Needed
  BY <1>1 DEF OnChain
<1>3. c.visited \in Seq(Valid) /\ Len(c.visited) = c.seen
  BY <1>2, LenProperties, IsASeq DEF OnChain
<1>4. c.visited[c.seen] = Chain[c.seen - 1] /\ c.visited[c.seen] \in Valid
  BY <1>2 DEF OnChain
<1>5. c.cluster \in Valid
  BY <1>4, Zenon DEF OnChain
<1>6. IsValid(c.cluster) /\ c.cluster # 0
  BY <1>5, Geometry DEF IsValid, Valid
<1>7. c.base \in Nat
  BY Zenon DEF Cursors
<1> QED BY <1>2, <1>3, <1>5, <1>6, <1>7, Zenon DEF OnChain

\* fat_file_advance_cluster, when it succeeds, goes one cluster along the chain.
LEMMA AdvanceOk ==
    ASSUME DiskOk, NEW c \in Cursors, OnChain(c), NEW r \in BOOLEAN,
           AdvanceStatus(c, r) = "ok"
    PROVE  /\ Advance(c) \in Cursors
           /\ OnChain(Advance(c))
           /\ Advance(c).position = c.position
           /\ Advance(c).seen = c.seen + 1
           /\ Advance(c).base = c.base + ClusterSize
<1> DEFINE d == Advance(c)
           next == Entry(c.cluster)
<1>1. /\ c.seen \in Nat /\ c.seen >= 1 /\ c.seen <= Needed
      /\ c.visited \in Seq(Valid) /\ Len(c.visited) = c.seen
      /\ c.cluster \in Valid /\ c.base \in Nat
      /\ c.cluster = Chain[c.seen - 1]
      /\ c.base = ClusterSize * (c.seen - 1)
  BY OnChainIs, Zenon
<1>2. Needed \in Nat
  BY NeededIs, Zenon
<1>3. /\ ~(c.seen >= MaxClusters)
      /\ ~Unusable(next) /\ ~Visited(c, next)
      /\ ~(Len(c.visited) >= MaxVisited)
  BY Zenon DEF AdvanceStatus
<1>4. next \in Valid
  <2>1. next \in Nat /\ IsValid(next)
    BY <1>3, EntryIsNat, Zenon DEF Unusable
  <2> QED BY <2>1, Geometry DEF IsValid, Valid
<1>5. /\ d.position = c.position /\ d.cluster = next /\ d.base = c.base + ClusterSize
      /\ d.seen = c.seen + 1 /\ d.visited = Append(c.visited, next)
      /\ d \in Cursors
  <2> DEFINE b == c.base + ClusterSize
             n == c.seen + 1
             v == Append(c.visited, next)
  <2>1. d = [c EXCEPT !.cluster = next, !.base = b, !.seen = n, !.visited = v]
    BY Zenon DEF Advance
  <2>2. c.visited \in Seq(Nat) /\ next \in Nat
    BY <1>4, Geometry DEF Cursors, Valid
  <2>3. b \in Nat /\ n \in Nat /\ v \in Seq(Nat)
    <3>1. b \in Nat /\ n \in Nat
      BY <1>1, Geometry
    <3>2. v \in Seq(Nat)
      BY <2>2, AppendProperties, Zenon
    <3> QED BY <3>1, <3>2, Zenon
  <2> HIDE DEF b, n, v, d, next
  <2>4. /\ d \in Cursors
        /\ d.position = c.position /\ d.cluster = next /\ d.base = b
        /\ d.seen = n /\ d.visited = v
    BY <2>1, <2>2, <2>3, Zenon DEF Cursors
  <2> QED BY <2>4, Zenon DEF b, n, v
<1>7. /\ d.visited \in Seq(Valid) /\ Len(d.visited) = c.seen + 1
      /\ \A i \in 1 .. c.seen : d.visited[i] = c.visited[i]
      /\ d.visited[c.seen + 1] = next
  BY <1>1, <1>4, <1>5, AppendProperties
<1>8. d.visited \in [1 .. d.seen -> Valid]
  BY <1>5, <1>7, LenProperties, Zenon
<1>9. Chain[c.seen] = next
  <2>1. c.seen - 1 \in Nat /\ (c.seen - 1) + 1 = c.seen
    BY <1>1
  <2>2. Chain[(c.seen - 1) + 1] = IF Chain[c.seen - 1] \in Valid
                                        /\ Entry(Chain[c.seen - 1]) \in Valid
                                  THEN Entry(Chain[c.seen - 1]) ELSE 0
    BY <2>1, ChainIs, Zenon
  <2> QED BY <1>1, <1>4, <2>1, <2>2, Zenon
<1> HIDE DEF d, next
<1>10. \A i \in 1 .. d.seen : d.visited[i] = Chain[i - 1]
  <2> TAKE i \in 1 .. d.seen
  <2>1. CASE i = c.seen + 1
    BY <1>1, <1>7, <1>9, <2>1
  <2>2. CASE i # c.seen + 1
    <3>1. i \in 1 .. c.seen
      BY <1>1, <1>5, <2>2
    <3> QED BY <1>7, <3>1, Zenon DEF OnChain
  <2> QED BY <2>1, <2>2, Zenon
<1>11. \A i \in 1 .. c.seen : c.visited[i] # next
  BY <1>1, <1>3, Zenon DEF Visited
<1>12. \A i, j \in 1 .. d.seen : i # j => d.visited[i] # d.visited[j]
  <2> TAKE i, j \in 1 .. d.seen
  <2> HAVE i # j
  <2>1. i = c.seen + 1 \/ i \in 1 .. c.seen
    BY <1>1, <1>5
  <2>2. j = c.seen + 1 \/ j \in 1 .. c.seen
    BY <1>1, <1>5
  <2>3. CASE i \in 1 .. c.seen /\ j \in 1 .. c.seen
    BY <1>7, <2>3, Zenon DEF OnChain
  <2>4. CASE i \in 1 .. c.seen /\ j = c.seen + 1
    BY <1>7, <1>11, <2>4, Zenon
  <2>5. CASE i = c.seen + 1 /\ j \in 1 .. c.seen
    BY <1>7, <1>11, <2>5, Zenon
  <2> QED BY <2>1, <2>2, <2>3, <2>4, <2>5, Zenon
<1>13. d.base = ClusterSize * (d.seen - 1)
  <2>1. ClusterSize * (c.seen - 1) + ClusterSize = ClusterSize * ((c.seen + 1) - 1)
    BY <1>1, Geometry, Z3
  <2> QED BY <1>1, <1>5, <2>1, Zenon
<1>14. d.cluster = Chain[d.seen - 1]
  BY <1>1, <1>5, <1>9
<1>15. d.seen \in 1 .. Needed /\ d.seen <= MaxVisited
  <2>1. c.seen < Needed /\ c.seen < MaxVisited /\ MaxVisited \in Nat
    BY <1>1, <1>2, <1>3, Geometry, MaxClustersIs
  <2> QED BY <1>1, <1>2, <1>5, <2>1
<1>16. OnChain(d)
  BY <1>8, <1>10, <1>12, <1>13, <1>14, <1>15, Zenon DEF OnChain
<1> QED BY <1>5, <1>16, Zenon DEF d

\* On a healthy volume it succeeds as long as the file has another cluster.
LEMMA AdvanceFine ==
    ASSUME DiskOk, Intact, NEW c \in Cursors, OnChain(c), c.seen < Needed
    PROVE  AdvanceStatus(c, TRUE) = "ok"
<1> DEFINE next == Entry(c.cluster)
<1>1. /\ c.seen \in Nat /\ c.seen >= 1
      /\ Len(c.visited) = c.seen
      /\ c.cluster \in Valid /\ IsValid(c.cluster) /\ c.cluster # 0
      /\ c.cluster = Chain[c.seen - 1]
  BY OnChainIs, Zenon
<1>2. Needed \in Nat
  BY NeededIs, Zenon
<1>3. c.seen \in 0 .. (Needed - 1)
  BY <1>1, <1>2
<1>4. Chain[c.seen] # 0
  BY <1>3, Zenon DEF Intact, Healthy
<1>5. next \in Valid /\ Chain[c.seen] = next
  <2>1. c.seen - 1 \in Nat /\ (c.seen - 1) + 1 = c.seen
    BY <1>1
  <2>2. Chain[(c.seen - 1) + 1] = IF Chain[c.seen - 1] \in Valid
                                        /\ Entry(Chain[c.seen - 1]) \in Valid
                                  THEN Entry(Chain[c.seen - 1]) ELSE 0
    BY <2>1, ChainIs, Zenon
  <2> QED BY <1>1, <1>4, <2>1, <2>2, Zenon
<1> HIDE DEF next
<1>6. ~IsEnd(next) /\ ~Unusable(next)
  <2>1. c.seen \in 1 .. (Needed - 1)
    BY <1>1, <1>3
  <2>2. ~(next >= MarkFrom) /\ MarkFrom \in Nat
    BY <1>5, <2>1, FatFileAssumption, Zenon DEF Intact, TakenForMark
  <2> QED BY <1>5, <2>2, Geometry DEF Unusable, IsEnd, IsBad, IsReserved, Valid, IsValid
<1>7. ~Visited(c, next)
  <2>1. ASSUME NEW i \in 1 .. c.seen PROVE c.visited[i] # next
    <3>1. c.visited[i] = Chain[i - 1]
      BY Zenon DEF OnChain
    <3>2. i - 1 \in 0 .. (Needed - 1) /\ i - 1 # c.seen
      BY <1>1, <1>2, <1>3
    <3>3. Chain[i - 1] # Chain[c.seen]
      BY <1>3, <3>2, Zenon DEF Intact, Healthy
    <3> QED BY <1>5, <3>1, <3>3, Zenon
  <2> QED BY <1>1, <2>1, Zenon DEF Visited
<1>8. Len(c.visited) < MaxVisited
  BY <1>1, <1>2, Geometry DEF Intact, Healthy
<1>9. ~(c.seen >= MaxClusters) /\ ~(Len(c.visited) >= MaxVisited)
  <2>1. MaxClusters = Needed
    BY MaxClustersIs, Zenon DEF Intact, Healthy
  <2> QED BY <1>1, <1>2, <1>8, <2>1, Geometry
<1> QED BY <1>1, <1>6, <1>7, <1>9, Zenon DEF AdvanceStatus, next

\* A cursor on the chain has not seen more clusters than there are.
LEMMA SeenBound ==
    ASSUME DiskOk, NEW c \in Cursors, OnChain(c)
    PROVE  c.seen <= ClusterCount /\ c.base \in 0 .. (ClusterSize * ClusterCount)
<1>1. c.seen \in Nat /\ c.seen >= 1 /\ c.base = ClusterSize * (c.seen - 1)
  BY OnChainIs, Zenon
<1> DEFINE n == c.seen
           f == [i \in 1 .. n |-> c.visited[i] - 1]
<1>2. \A i \in 1 .. n : c.visited[i] \in Int /\ f[i] = c.visited[i] - 1
                       /\ f[i] \in 1 .. ClusterCount
  <2> TAKE i \in 1 .. n
  <2>1. c.visited[i] \in Valid
    BY Zenon DEF OnChain
  <2>2. c.visited[i] \in Int /\ c.visited[i] - 1 \in 1 .. ClusterCount
    BY <2>1, Geometry DEF Valid
  <2>3. f[i] = c.visited[i] - 1
    BY Zenon
  <2> QED BY <2>2, <2>3, Zenon
<1>3. f \in [1 .. n -> 1 .. ClusterCount]
  BY <1>2, Zenon
<1>4. \A i, j \in 1 .. n : f[i] = f[j] => i = j
  <2> TAKE i, j \in 1 .. n
  <2> HAVE f[i] = f[j]
  <2>1. c.visited[i] = c.visited[j]
    <3> HIDE DEF f, n
    <3> QED BY <1>2
  <2> QED BY <2>1, Zenon DEF OnChain
<1>5. n <= ClusterCount
  <2> HIDE DEF f
  <2>1. f \in Injection(1 .. n, 1 .. ClusterCount)
    BY <1>3, <1>4, Zenon DEF Injection, IsInjective
  <2>2. ExistsInjection(1 .. n, 1 .. ClusterCount)
    BY <2>1, Zenon DEF ExistsInjection
  <2> QED BY <1>1, <2>2, Geometry, Fun_NatInjLeq, Zenon
<1>6. ClusterSize * (n - 1) \in Nat /\ ClusterSize * (n - 1) <= ClusterSize * ClusterCount
  BY <1>1, <1>5, Geometry, Z3
<1>7. ClusterSize * ClusterCount \in Nat
  BY Geometry
<1> QED BY <1>1, <1>5, <1>6, <1>7

\* Once the cursor is on the chain, the file can be reopened.
LEMMA FirstValid ==
    ASSUME DiskOk, NEW c \in Cursors, OnChain(c)
    PROVE  IsValid(first)
<1>1. c.seen \in Nat /\ c.seen >= 1
  BY OnChainIs, Zenon
<1>2. c.visited[1] \in Valid /\ c.visited[1] = Chain[1 - 1]
  BY <1>1 DEF OnChain
<1>3. Chain[0] \in Valid
  BY <1>2
<1> QED BY <1>3, ChainIs, Geometry DEF Valid

\* Where the cursor is, but not on which cluster, may change freely.
LEMMA Moved ==
    ASSUME NEW c \in Cursors, NEW p \in Nat, NEW d, d = [c EXCEPT !.position = p]
    PROVE  /\ d \in Cursors
           /\ d.position = p /\ d.cluster = c.cluster /\ d.base = c.base
           /\ d.seen = c.seen /\ d.visited = c.visited
           /\ OnChain(c) => OnChain(d)
<1>1. /\ d \in Cursors
      /\ d.position = p /\ d.cluster = c.cluster /\ d.base = c.base
      /\ d.seen = c.seen /\ d.visited = c.visited
  BY Zenon DEF Cursors
<1>2. OnChain(c) => OnChain(d)
  BY <1>1 DEF OnChain
<1> QED BY <1>1, <1>2, Zenon

-----------------------------------------------------------------------------
(* What has to be shown of a step that leaves the volume alone *)

\* What a step has to show of the cursor.
LEMMA StepOk ==
    ASSUME DiskOk, UNCHANGED disk,
           cursor' \in Cursors, cursor'.position <= size,
           pc' = "closed" \/ size = 0 => cursor' = Rewound,
           pc' # "closed" /\ size # 0 => OnChain(cursor')
    PROVE  DiskOk' /\ CursorInv'
<1>1. /\ DiskOk' /\ Rewound' = Rewound /\ Chain' = Chain /\ Needed' = Needed
      /\ size' = size
  BY DiskSame, Zenon DEF disk
<1>2. OnChain(cursor') => OnChain(cursor)'
  BY <1>1, Zenon DEF OnChain
<1> QED BY <1>1, <1>2, Zenon DEF CursorInv

\* What a step has to show of the bytes handed out.
LEMMA BytesStepOk ==
    ASSUME UNCHANGED disk,
           \A i \in 1 .. Len(out') : out'[i] = FileByte(from' + i - 1)
    PROVE  BytesOk'
BY DiskSame, Zenon DEF BytesOk, FileByte

\* What a step has to show of a healthy file.
LEMMA FineStepOk ==
    ASSUME UNCHANGED disk,
           Intact /\ ~failed' /\ ~(goal' = size /\ size % ClusterSize = 0 /\ size # 0)
               => /\ status' # "corrupt"
                  /\ pc' \in {"open", "read"} /\ size # 0 => InPlace(cursor')
    PROVE  FineInv'
<1>1. Intact' = Intact /\ size' = size
  BY DiskSame, Zenon DEF disk
<1> QED BY <1>1, Zenon DEF FineInv, Fine, InPlace, SeeksPastLast

-----------------------------------------------------------------------------
(* The calls of the file code *)

\* fat_file_open preserves the invariant.
LEMMA OpenOk == FileInv /\ Open => FileInv'
<1> SUFFICES ASSUME FileInv, Open PROVE FileInv'
  BY Zenon
<1>1. DiskOk /\ CursorInv /\ CallInv /\ BytesOk /\ FineInv
  BY Zenon DEF FileInv
<1>2. /\ pc = "closed" /\ cursor' = Rewound /\ UNCHANGED disk
      /\ left' = left /\ goal' = goal /\ out' = out /\ from' = from /\ failed' = failed
      /\ size # 0 /\ ~IsValid(first) => pc' = "closed" /\ status' = "corrupt"
      /\ size = 0 \/ IsValid(first) => pc' = "open" /\ status' = "ok"
  BY Zenon DEF Open
<1>3. /\ Rewound \in Cursors /\ Rewound.position = 0 /\ size \in Nat
      /\ size # 0 => Rewound.base = 0
      /\ size # 0 /\ IsValid(first) => OnChain(Rewound)
  BY <1>1, RewoundIs, Zenon DEF DiskOk
<1>4. DiskOk' /\ CursorInv'
  <2>1. Rewound.position <= size
    BY <1>3
  <2>2. pc' # "closed" /\ size # 0 => OnChain(cursor')
    BY <1>2, <1>3, Zenon
  <2> QED BY <1>1, <1>2, <1>3, <2>1, <2>2, StepOk, Zenon
<1>5. CallInv'
  BY <1>1, <1>2, Zenon DEF CallInv
<1>6. BytesOk'
  BY <1>1, <1>2, BytesStepOk, Zenon DEF BytesOk
<1>7. ASSUME Intact, size # 0 PROVE IsValid(first)
  <2>1. Needed \in Nat /\ Needed >= 1
    BY <1>1, <1>7, NeededIs, Zenon
  <2>2. 0 \in 0 .. (Needed - 1)
    BY <2>1
  <2>3. Chain[0] # 0
    BY <1>7, <2>2, Zenon DEF Intact, Healthy
  <2> QED BY <1>1, <2>3, ChainIs, Zenon
<1>8. size # 0 => InPlace(Rewound)
  BY <1>3, Geometry DEF InPlace
<1>9. FineInv'
  BY <1>2, <1>7, <1>8, FineStepOk, Zenon
<1> QED BY <1>4, <1>5, <1>6, <1>9, Zenon DEF FileInv

\* fat_file_seek preserves the invariant.
LEMMA SeekOk == FileInv /\ (\E o \in Offsets : Seek(o)) => FileInv'
<1> SUFFICES ASSUME FileInv, NEW o \in Offsets, Seek(o) PROVE FileInv'
  BY Zenon
<1>1. DiskOk /\ CursorInv /\ CallInv /\ BytesOk /\ FineInv /\ o \in Nat /\ size \in Nat
  BY FatFileAssumption, Zenon DEF FileInv, DiskOk
<1>2. pc = "open" /\ UNCHANGED disk /\ out' = <<>> /\ from' = 0 /\ failed' = failed
  BY Zenon DEF Seek
<1>3. BytesOk'
  BY <1>2, BytesStepOk
<1>4. CASE o > size
  <2>1. /\ status' = "invalid" /\ cursor' = cursor /\ pc' = pc
        /\ left' = left /\ goal' = goal
    BY <1>4, Zenon DEF Seek
  <2>2. DiskOk' /\ CursorInv'
    BY <1>1, <1>2, <2>1, StepOk, Zenon DEF CursorInv
  <2>3. CallInv'
    BY <1>1, <1>2, <2>1 DEF CallInv
  <2>4. FineInv'
    BY <1>1, <1>2, <2>1, FineStepOk, Zenon DEF FineInv, Fine, SeeksPastLast
  <2> QED BY <1>3, <2>2, <2>3, <2>4, Zenon DEF FileInv
<1>5. CASE ~(o > size)
  <2>1. cursor' = Rewound
    BY <1>5, Zenon DEF Seek
  <2>2. /\ Rewound \in Cursors /\ Rewound.position = 0
        /\ size # 0 => Rewound.seen = 1 /\ Rewound.base = 0
        /\ size # 0 => OnChain(Rewound)
    <3>1. size # 0 => IsValid(first)
      BY <1>1, <1>2, FirstValid, Zenon DEF CursorInv
    <3> QED BY <1>1, <3>1, RewoundIs, Zenon
  <2>3. size # 0 => InPlace(Rewound)
    BY <2>2, Geometry DEF InPlace
  <2>4. /\ pc' \in {"open", "seek"} /\ status' \in {"ok", "none"}
        /\ left' \in Int /\ goal' \in Nat
        /\ pc' = "seek" => /\ o # 0 /\ size # 0 /\ goal' = o
                           /\ left' = o \div ClusterSize
    <3>1. CASE o = 0 \/ size = 0
      BY <1>1, <1>2, <1>5, <3>1, Zenon DEF Seek, CallInv
    <3>2. CASE ~(o = 0 \/ size = 0)
      <4>1. o \div ClusterSize \in Nat
        BY <1>1, Geometry, DivIs, Zenon
      <4> QED BY <1>1, <1>5, <3>2, <4>1 DEF Seek
    <3> QED BY <3>1, <3>2, Zenon
  <2>5. DiskOk' /\ CursorInv'
    <3>1. Rewound.position <= size
      BY <1>1, <2>2
    <3> QED BY <1>1, <1>2, <2>1, <2>2, <2>4, <3>1, StepOk, Zenon
  <2>6. CallInv'
    <3>1. /\ pc' \in {"closed", "open", "seek", "read"}
          /\ status' \in {"none", "ok", "corrupt", "io", "invalid"}
          /\ failed' \in BOOLEAN
          /\ left' \in Int /\ goal' \in Nat /\ from' \in Nat
          /\ out' \in Seq(Nat \X Nat)
          /\ pc' # "read"
      BY <1>1, <1>2, <2>4 DEF CallInv
    <3>2. ASSUME pc' = "seek"
          PROVE  /\ size' # 0
                 /\ cursor'.position = 0
                 /\ goal' \in 1 .. size'
                 /\ left' \in Nat
                 /\ left' + (cursor'.seen - 1) = goal' \div ClusterSize
      <4>1. o \div ClusterSize \in Nat /\ o \in 1 .. size /\ size' = size
        BY <1>1, <1>2, <1>5, <2>4, <3>2, Geometry, DivIs DEF disk
      <4> HIDE DEF Rewound
      <4>2. cursor'.seen = 1 /\ cursor'.position = 0
        BY <2>1, <2>2, <2>4, <3>2, Zenon
      <4> QED BY <2>4, <3>2, <4>1, <4>2
    <3> QED BY <3>1, <3>2, Zenon DEF CallInv
  <2>7. FineInv'
    BY <1>2, <2>1, <2>3, <2>4, FineStepOk, Zenon
  <2> QED BY <1>3, <2>5, <2>6, <2>7, Zenon DEF FileInv
<1> QED BY <1>4, <1>5, Zenon

\* fat_file_read preserves the invariant.
LEMMA ReadOk == ASSUME FileInv, NEW n \in Nat, Read(n) PROVE FileInv'
<1>1. DiskOk /\ CursorInv /\ CallInv /\ BytesOk /\ FineInv /\ size \in Nat
  BY Zenon DEF FileInv, DiskOk
<1>2. /\ pc = "open" /\ out' = <<>> /\ from' = cursor.position
      /\ UNCHANGED disk /\ cursor' = cursor /\ goal' = goal /\ failed' = failed
      /\ size' = size
  BY Zenon DEF Read, disk
<1>3. cursor \in Cursors /\ cursor.position \in Nat /\ cursor.position <= size
  BY <1>1, Zenon DEF CursorInv, Cursors
<1>4. \/ status' = "ok" /\ pc' = "open" /\ left' = left
      \/ /\ pc' = "read" /\ status' = "none"
         /\ left' \in Int /\ left' > 0 /\ cursor.position + left' <= size
  BY <1>1, <1>2, <1>3 DEF Read, Smaller
<1>5. BytesOk'
  BY <1>2, BytesStepOk
<1>6. DiskOk' /\ CursorInv'
  BY <1>1, <1>2, <1>4, StepOk, Zenon DEF CursorInv
<1>7. CallInv'
  <2>1. /\ pc' \in {"open", "read"}
        /\ status' \in {"none", "ok"} /\ failed' \in BOOLEAN
        /\ left' \in Int /\ goal' \in Nat /\ from' \in Nat
        /\ out' \in Seq(Nat \X Nat) /\ Len(out') = 0
    BY <1>1, <1>2, <1>3, <1>4 DEF CallInv
  <2>2. pc' = "read" => /\ left' > 0
                        /\ cursor'.position + left' <= size'
                        /\ cursor'.position = from' + Len(out')
    BY <1>2, <1>3, <1>4, <2>1
  <2> QED BY <2>1, <2>2, Zenon DEF CallInv
<1>8. FineInv'
  BY <1>1, <1>2, <1>4, FineStepOk, Zenon DEF FineInv, Fine, SeeksPastLast
<1> QED BY <1>5, <1>6, <1>7, <1>8, Zenon DEF FileInv

-----------------------------------------------------------------------------
(* The rounds of their loops *)

\* A seek that has clusters to go, and not past the last one, is at one that has a
\* successor in the file.
LEMMA SeekInFile ==
    ASSUME DiskOk, NEW g \in 1 .. size, NEW k \in Nat, k <= g \div ClusterSize,
           ~(g = size /\ size % ClusterSize = 0)
    PROVE  k < Needed
<1> DEFINE q == g \div ClusterSize
<1>1. size \in Nat /\ g \in Nat /\ g <= size
  BY DEF DiskOk
<1>2. q \in Nat /\ ClusterSize * q <= g
  BY <1>1, Geometry, DivIs, Zenon
<1>3. Needed \in Nat /\ size <= ClusterSize * Needed
  BY NeededIs, Zenon
<1>4. ClusterSize * q \in Nat /\ ClusterSize * Needed \in Nat
  BY <1>2, <1>3, Geometry
<1>5. ClusterSize * q < size
  <2>1. CASE g # size
    <3> HIDE DEF q
    <3> QED BY <1>1, <1>2, <1>4, <2>1
  <2>2. CASE g = size
    <3>1. ClusterSize * q = size => size % ClusterSize = 0
      <4>1. ASSUME ClusterSize * q = size PROVE size % ClusterSize = 0
        <5> HIDE DEF q
        <5>1. size = ClusterSize * q + 0 /\ 0 \in 0 .. (ClusterSize - 1)
          BY <1>1, <4>1, Geometry
        <5>2. size \in Int /\ q \in Int /\ ClusterSize \in Nat \ {0}
          BY <1>1, <1>2, Geometry
        <5> QED BY <5>1, <5>2, ModUnique, Zenon
      <4> QED BY <4>1, Zenon
    <3> HIDE DEF q
    <3> QED BY <1>1, <1>2, <1>4, <2>2, <3>1
  <2> QED BY <2>1, <2>2, Zenon
<1>6. q < Needed
  <2> HIDE DEF q
  <2>1. ClusterSize * q < ClusterSize * Needed
    BY <1>1, <1>3, <1>4, <1>5
  <2> QED BY <1>2, <1>3, <2>1, Geometry, MulLess
<1> HIDE DEF q
<1>7. k <= q
  BY Zenon DEF q
<1> QED BY <1>2, <1>3, <1>6, <1>7

\* What an advance that does not succeed answers
LEMMA AdvanceRange ==
    ASSUME NEW c, NEW r \in BOOLEAN
    PROVE  AdvanceStatus(c, r) \in {"ok", "corrupt", "io"}
BY Zenon DEF AdvanceStatus

\* A turn of the loop of fat_file_seek preserves the invariant.
LEMMA SeekAdvanceOk ==
    FileInv /\ (\E readable \in BOOLEAN : SeekAdvance(readable)) => FileInv'
<1> SUFFICES ASSUME FileInv, NEW r \in BOOLEAN, SeekAdvance(r) PROVE FileInv'
  BY Zenon
<1> DEFINE s == AdvanceStatus(cursor, r)
<1>1. DiskOk /\ CursorInv /\ CallInv /\ BytesOk /\ FineInv /\ size \in Nat
  BY Zenon DEF FileInv, DiskOk
<1>2. /\ pc = "seek" /\ left > 0
      /\ UNCHANGED disk /\ goal' = goal /\ out' = out /\ from' = from
      /\ failed' = (failed \/ ~r)
      /\ size' = size
      /\ s = "ok" => /\ cursor' = Advance(cursor) /\ left' = left - 1
                     /\ pc' = pc /\ status' = status
      /\ s # "ok" => /\ status' = s /\ pc' = "open" /\ cursor' = cursor /\ left' = left
  BY Zenon DEF SeekAdvance, disk
<1>3. /\ cursor \in Cursors /\ OnChain(cursor) /\ cursor.seen \in Nat
      /\ cursor.position = 0 /\ goal \in 1 .. size /\ size # 0
      /\ left \in Nat /\ left + (cursor.seen - 1) = goal \div ClusterSize
  <2>1. cursor \in Cursors /\ OnChain(cursor)
    BY <1>1, <1>2, Zenon DEF CursorInv, CallInv
  <2> QED BY <1>1, <1>2, <2>1, Zenon DEF CallInv, Cursors
<1>4. s \in {"ok", "corrupt", "io"}
  BY AdvanceRange, Zenon
<1>5. s = "ok" => /\ cursor' \in Cursors /\ OnChain(cursor') /\ cursor'.position = 0
                  /\ cursor'.seen = cursor.seen + 1
  BY <1>1, <1>2, <1>3, AdvanceOk, Zenon
<1> HIDE DEF s
<1>6. DiskOk' /\ CursorInv'
  <2>1. cursor' \in Cursors /\ cursor'.position = 0 /\ OnChain(cursor')
    BY <1>2, <1>3, <1>5, Zenon
  <2>2. cursor'.position <= size /\ pc' # "closed"
    BY <1>1, <1>2, <2>1
  <2> QED BY <1>1, <1>2, <1>3, <2>1, <2>2, StepOk, Zenon
<1>7. CallInv'
  <2>1. /\ pc' \in {"open", "seek"}
        /\ status' \in {"none", "ok", "corrupt", "io", "invalid"}
        /\ failed' \in BOOLEAN
        /\ goal' \in Nat /\ from' \in Nat /\ out' \in Seq(Nat \X Nat)
    BY <1>1, <1>2, <1>4, Zenon DEF CallInv
  <2>2. left' \in Nat
    BY <1>2, <1>3
  <2>3. ASSUME pc' = "seek"
        PROVE  /\ size' # 0 /\ cursor'.position = 0 /\ goal' \in 1 .. size'
               /\ left' + (cursor'.seen - 1) = goal' \div ClusterSize
    <3>1. s = "ok"
      BY <1>2, <2>3, Zenon
    <3>2. goal \div ClusterSize = (left - 1) + ((cursor.seen + 1) - 1)
      BY <1>3
    <3> QED BY <1>2, <1>3, <1>5, <3>1, <3>2, Zenon
  <2> QED BY <2>1, <2>2, <2>3 DEF CallInv
<1>8. BytesOk'
  BY <1>1, <1>2, BytesStepOk, Zenon DEF BytesOk
<1>9. FineInv'
  <2>1. ASSUME Intact, ~failed', ~(goal' = size /\ size % ClusterSize = 0 /\ size # 0)
        PROVE  status' # "corrupt" /\ pc' = "seek"
    <3>1. r = TRUE /\ ~failed
      BY <1>1, <1>2, <2>1, Zenon DEF CallInv
    <3>2. cursor.seen <= goal \div ClusterSize
      <4> DEFINE q == goal \div ClusterSize
      <4>1. left + (cursor.seen - 1) = q
        BY <1>3, Zenon
      <4> HIDE DEF q
      <4>2. cursor.seen <= q
        BY <1>2, <1>3, <4>1
      <4> QED BY <4>2, Zenon DEF q
    <3>3. cursor.seen < Needed
      BY <1>1, <1>2, <1>3, <2>1, <3>2, SeekInFile, Zenon
    <3>4. s = "ok"
      BY <1>1, <1>3, <2>1, <3>1, <3>3, AdvanceFine, Zenon DEF s
    <3>5. Fine
      BY <1>2, <1>3, <2>1, <3>1, Zenon DEF Fine, SeeksPastLast
    <3> QED BY <1>1, <1>2, <3>4, <3>5, Zenon DEF FineInv
  <2> QED BY <1>2, <2>1, FineStepOk, Zenon
<1> QED BY <1>6, <1>7, <1>8, <1>9, Zenon DEF FileInv

\* The end of fat_file_seek preserves the invariant.
LEMMA SeekDoneOk == FileInv /\ SeekDone => FileInv'
<1> SUFFICES ASSUME FileInv, SeekDone PROVE FileInv'
  BY Zenon
<1> DEFINE q == goal \div ClusterSize
<1>1. DiskOk /\ CursorInv /\ CallInv /\ BytesOk /\ FineInv /\ size \in Nat
  BY Zenon DEF FileInv, DiskOk
<1>2. /\ pc = "seek" /\ left = 0
      /\ cursor' = [cursor EXCEPT !.position = goal, !.base = q * ClusterSize]
      /\ status' = "ok" /\ pc' = "open"
      /\ UNCHANGED disk /\ goal' = goal /\ out' = out /\ from' = from /\ left' = left
      /\ failed' = failed
  BY Zenon DEF SeekDone
<1>3. /\ cursor \in Cursors /\ OnChain(cursor) /\ cursor.seen \in Nat
      /\ goal \in 1 .. size /\ size # 0 /\ goal \in Nat
      /\ left + (cursor.seen - 1) = q
  <2>1. cursor \in Cursors /\ OnChain(cursor)
    BY <1>1, <1>2, Zenon DEF CursorInv, CallInv
  <2> QED BY <1>1, <1>2, <2>1, Zenon DEF CallInv, Cursors
<1>4. q \in Nat /\ ClusterSize * q <= goal /\ goal < ClusterSize * q + ClusterSize
  BY <1>3, Geometry, DivIs, Zenon
<1> HIDE DEF q
<1>5. cursor.base = q * ClusterSize /\ cursor.base = ClusterSize * q
  <2>1. cursor.seen - 1 = q
    BY <1>2, <1>3, <1>4
  <2>2. q * ClusterSize = ClusterSize * q
    BY <1>4, Geometry
  <2> QED BY <1>3, <2>1, <2>2, Zenon DEF OnChain
<1>6. /\ cursor' \in Cursors /\ OnChain(cursor') /\ cursor'.position = goal
      /\ cursor'.base = cursor.base
  <2>1. cursor' = [cursor EXCEPT !.position = goal]
    BY <1>2, <1>3, <1>5, Zenon DEF Cursors
  <2> QED BY <1>3, <2>1, Moved
<1>7. DiskOk' /\ CursorInv'
  BY <1>1, <1>2, <1>3, <1>6, StepOk
<1>8. CallInv'
  BY <1>1, <1>2, Zenon DEF CallInv
<1>9. BytesOk'
  BY <1>1, <1>2, BytesStepOk, Zenon DEF BytesOk
<1>10. InPlace(cursor')
  BY <1>4, <1>5, <1>6, Zenon DEF InPlace
<1>11. FineInv'
  BY <1>2, <1>10, FineStepOk, Zenon
<1> QED BY <1>7, <1>8, <1>9, <1>11, Zenon DEF FileInv

\* A cursor that is being read through is on the chain.
LEMMA Reading ==
    ASSUME FileInv, pc = "read"
    PROVE  /\ DiskOk /\ size \in Nat /\ size # 0
           /\ cursor \in Cursors /\ OnChain(cursor) /\ IsValid(cursor.cluster)
           /\ cursor.position \in Nat /\ cursor.base \in Nat
           /\ left \in Nat /\ left > 0 /\ cursor.position + left <= size
           /\ from \in Nat /\ out \in Seq(Nat \X Nat)
           /\ cursor.position = from + Len(out)
<1>1. DiskOk /\ CursorInv /\ CallInv /\ size \in Nat
  BY Zenon DEF FileInv, DiskOk
<1>2. cursor \in Cursors /\ cursor.position \in Nat /\ cursor.base \in Nat
  BY <1>1, Zenon DEF CursorInv, Cursors
<1>3. /\ left \in Nat /\ left > 0 /\ cursor.position + left <= size
      /\ from \in Nat /\ out \in Seq(Nat \X Nat)
      /\ cursor.position = from + Len(out)
  BY <1>1 DEF CallInv
<1>4. size # 0
  BY <1>1, <1>2, <1>3
<1>5. OnChain(cursor)
  BY <1>1, <1>4, Zenon DEF CursorInv
<1> QED BY <1>1, <1>2, <1>3, <1>4, <1>5, OnChainIs, Zenon

\* A read that has lost its place preserves the invariant.
LEMMA ReadLostOk == FileInv /\ ReadLost => FileInv'
<1> SUFFICES ASSUME FileInv, ReadLost PROVE FileInv'
  BY Zenon
<1>1. DiskOk /\ CursorInv /\ CallInv /\ BytesOk /\ FineInv
  BY Zenon DEF FileInv
<1>2. /\ pc = "read" /\ ~InCluster /\ status' = "corrupt" /\ pc' = "open"
      /\ UNCHANGED disk /\ cursor' = cursor /\ left' = left /\ goal' = goal
      /\ out' = out /\ from' = from /\ failed' = failed
  BY Zenon DEF ReadLost
<1>3. /\ size \in Nat /\ size # 0 /\ IsValid(cursor.cluster)
      /\ cursor.position \in Nat /\ cursor.base \in Nat
      /\ left \in Nat /\ left > 0 /\ cursor.position + left <= size
  BY <1>2, Reading, Zenon
<1>4. DiskOk' /\ CursorInv'
  BY <1>1, <1>2, StepOk, Zenon DEF CursorInv
<1>5. CallInv'
  BY <1>1, <1>2, Zenon DEF CallInv
<1>6. BytesOk'
  BY <1>1, <1>2, BytesStepOk, Zenon DEF BytesOk
<1>7. ~Fine
  <2> SUFFICES ASSUME Fine PROVE FALSE
    BY Zenon
  <2>1. InPlace(cursor)
    BY <1>1, <1>2, <1>3, Zenon DEF FineInv
  <2>2. cursor.base <= cursor.position /\ cursor.position < cursor.base + ClusterSize
    BY <1>3, <2>1 DEF InPlace
  <2> QED BY <1>2, <1>3, <2>2, Geometry DEF InCluster
<1>8. FineInv'
  BY <1>2, <1>7, FineStepOk, Zenon DEF Fine, SeeksPastLast
<1> QED BY <1>4, <1>5, <1>6, <1>8, Zenon DEF FileInv

\* A sector that cannot be read preserves the invariant.
LEMMA ReadDataFailsOk == FileInv /\ ReadDataFails => FileInv'
<1> SUFFICES ASSUME FileInv, ReadDataFails PROVE FileInv'
  BY Zenon
<1>1. DiskOk /\ CursorInv /\ CallInv /\ BytesOk /\ FineInv
  BY Zenon DEF FileInv
<1>2. /\ pc = "read" /\ status' = "io" /\ pc' = "open" /\ failed' = TRUE
      /\ UNCHANGED disk /\ cursor' = cursor /\ left' = left /\ goal' = goal
      /\ out' = out /\ from' = from
  BY Zenon DEF ReadDataFails
<1>3. DiskOk' /\ CursorInv'
  BY <1>1, <1>2, StepOk, Zenon DEF CursorInv
<1>4. CallInv'
  BY <1>1, <1>2, Zenon DEF CallInv
<1>5. BytesOk'
  BY <1>1, <1>2, BytesStepOk, Zenon DEF BytesOk
<1>6. FineInv'
  BY <1>2, FineStepOk, Zenon
<1> QED BY <1>3, <1>4, <1>5, <1>6, Zenon DEF FileInv

\* A round stays within the sector, the cluster and what is wanted.
LEMMA RoundIs ==
    ASSUME FileInv, pc = "read", InCluster
    PROVE  /\ Offset \in Nat
           /\ ThisRound \in 1 .. left
           /\ Offset + ThisRound <= ClusterSize
           /\ (Offset \div BytesPerSector) * BytesPerSector + (Offset % BytesPerSector)
                 = Offset
<1> DEFINE B == BytesPerSector
           o == Offset
           q == o \div B
           m == o % B
<1>1. left \in Nat /\ left > 0 /\ cursor.position \in Nat /\ cursor.base \in Nat
  BY Reading, Zenon
<1>2. o \in Nat /\ o < ClusterSize
  BY <1>1, Geometry DEF InCluster, Offset
<1>3. B \in Nat \ {0} /\ SectorsPerCluster \in Nat /\ ClusterSize = B * SectorsPerCluster
  BY Geometry, Zenon
<1> HIDE DEF B, o
<1>4. q \in Nat /\ m \in 0 .. (B - 1) /\ o = B * q + m /\ q * B = B * q
  BY <1>2, <1>3, Z3
<1> HIDE DEF q, m
<1>5. q < SectorsPerCluster
  <2>1. B * q \in Nat /\ B * SectorsPerCluster \in Nat
    BY <1>3, <1>4
  <2>2. B * q < B * SectorsPerCluster
    BY <1>2, <1>3, <1>4, <2>1
  <2> QED BY <1>3, <1>4, <2>2, MulLess
<1>6. B * q + B <= ClusterSize
  <2>1. B * q + B = B * (q + 1)
    BY <1>3, <1>4, Z3
  <2>2. B * (q + 1) <= B * SectorsPerCluster
    BY <1>3, <1>4, <1>5, MulLess
  <2> QED BY <1>3, <2>1, <2>2, Zenon
<1>7. ThisRound = IF B - m < left THEN B - m ELSE left
  BY Zenon DEF ThisRound, Smaller, B, m, o
<1>8. ThisRound \in 1 .. left /\ ThisRound <= B - m
  BY <1>1, <1>3, <1>4, <1>7
<1>9. o + ThisRound <= ClusterSize
  <2>1. B * q \in Nat /\ ClusterSize \in Nat
    BY <1>3, <1>4, Geometry
  <2> QED BY <1>1, <1>3, <1>4, <1>6, <1>8, <2>1
<1> QED BY <1>2, <1>4, <1>8, <1>9, Zenon DEF B, q, m, o

\* What a round copies is the file at the position.
LEMMA CopiedIs ==
    ASSUME FileInv, pc = "read", InCluster
    PROVE  /\ Copied \in Seq(Nat \X Nat)
           /\ Len(Copied) = ThisRound
           /\ \A i \in 1 .. ThisRound : Copied[i] = FileByte(cursor.position + i - 1)
<1> DEFINE n == ThisRound
           p == cursor.position
           o == Offset
           k == cursor.seen - 1
           w == (o \div BytesPerSector) * BytesPerSector + (o % BytesPerSector)
<1>1. /\ o \in Nat /\ n \in 1 .. left /\ o + n <= ClusterSize /\ w = o
  BY RoundIs, Zenon
<1>2. /\ DiskOk /\ cursor \in Cursors /\ OnChain(cursor) /\ left \in Nat
      /\ p \in Nat /\ cursor.base \in Nat
  BY Reading, Zenon
<1>3. /\ k \in Nat /\ cursor.base = ClusterSize * k /\ cursor.cluster = Chain[k]
      /\ cursor.cluster \in Nat
  BY <1>2, OnChainIs DEF Cursors
<1>4. p = cursor.base + o
  BY <1>2 DEF Offset
<1>5. Copied = [i \in 1 .. n |-> <<cursor.cluster, w + i - 1>>]
  BY Zenon DEF Copied
<1> HIDE DEF n, p, o, k, w
<1>6. n \in Nat
  BY <1>1, <1>2
<1>7. \A i \in 1 .. n : <<cursor.cluster, w + i - 1>> \in Nat \X Nat
  BY <1>1, <1>3, <1>6
<1>8. Copied \in [1 .. n -> Nat \X Nat]
  BY <1>5, <1>7, Zenon
<1>9. Copied \in Seq(Nat \X Nat) /\ Len(Copied) = n
  BY <1>6, <1>8, IsASeq, LenProperties
<1>10. ASSUME NEW i \in 1 .. n PROVE Copied[i] = FileByte(p + i - 1)
  <2>1. /\ p + i - 1 \in Nat
        /\ ClusterSize * k <= p + i - 1
        /\ p + i - 1 < ClusterSize * k + ClusterSize
        /\ (p + i - 1) - ClusterSize * k = o + i - 1
    BY <1>1, <1>2, <1>3, <1>4, <1>6, Geometry
  <2>2. (p + i - 1) \div ClusterSize = k /\ (p + i - 1) % ClusterSize = o + i - 1
    BY <1>3, <2>1, PlaceIs, Zenon
  <2>3. FileByte(p + i - 1) = <<cursor.cluster, o + i - 1>>
    BY <1>3, <2>2, Zenon DEF FileByte
  <2> QED BY <1>1, <1>5, <2>3, Zenon
<1> QED BY <1>9, <1>10, Zenon DEF n, p

\* A round of fat_read_file, with the failure or the end it may come to.
LEMMA ReadRoundIs ==
    ASSUME FileInv, NEW r \in BOOLEAN, ReadRound(r)
    PROVE  /\ pc = "read" /\ InCluster /\ UNCHANGED disk
           /\ goal' = goal /\ from' = from /\ failed' = (failed \/ ~r)
           /\ out' = out \o Copied /\ left' = left - ThisRound
           /\ cursor' \in Cursors /\ OnChain(cursor')
           /\ cursor'.position = cursor.position + ThisRound
           /\ \/ pc' = "read" /\ status' = status /\ left' > 0
              \/ pc' = "open" /\ status' = "ok" /\ left' = 0
              \/ pc' = "open" /\ status' \in {"corrupt", "io"}
           /\ Fine /\ r => InPlace(cursor') /\ status' # "corrupt"
<1> DEFINE moved  == [cursor EXCEPT !.position = @ + ThisRound]
           onward == moved.position < size /\ moved.position - moved.base >= ClusterSize
           adv    == AdvanceStatus(moved, r)
           s      == IF onward THEN adv ELSE "ok"
           done   == left = ThisRound \/ moved.position >= size
<1>1. /\ pc = "read" /\ InCluster /\ UNCHANGED disk
      /\ goal' = goal /\ from' = from /\ failed' = (failed \/ ~r)
      /\ out' = out \o Copied /\ left' = left - ThisRound
      /\ cursor' = IF onward /\ s = "ok" THEN Advance(moved) ELSE moved
      /\ done \/ s # "ok" => pc' = "open" /\ status' = s
      /\ ~(done \/ s # "ok") => pc' = pc /\ status' = status
  BY Zenon DEF ReadRound
<1>2. /\ DiskOk /\ size \in Nat /\ size # 0
      /\ cursor \in Cursors /\ OnChain(cursor)
      /\ cursor.position \in Nat /\ cursor.base \in Nat
      /\ left \in Nat /\ left > 0 /\ cursor.position + left <= size
  BY <1>1, Reading, Zenon
<1>3. /\ Offset \in Nat /\ ThisRound \in 1 .. left /\ ThisRound \in Nat
      /\ Offset + ThisRound <= ClusterSize
  BY <1>1, <1>2, RoundIs
<1>4. cursor.position = cursor.base + Offset
  BY <1>2 DEF Offset
<1>5. /\ moved \in Cursors /\ OnChain(moved)
      /\ moved.position = cursor.position + ThisRound
      /\ moved.base = cursor.base /\ moved.seen = cursor.seen
  <2> DEFINE p == cursor.position + ThisRound
  <2>1. p \in Nat /\ moved = [cursor EXCEPT !.position = p]
    BY <1>2, <1>3
  <2> HIDE DEF moved, p
  <2>2. /\ moved \in Cursors /\ OnChain(moved) /\ moved.position = p
        /\ moved.base = cursor.base /\ moved.seen = cursor.seen
    BY <1>2, <2>1, Moved
  <2> QED BY <2>2, Zenon DEF p
<1>6. adv \in {"ok", "corrupt", "io"}
  BY AdvanceRange, Zenon
<1>7. adv = "ok" => /\ Advance(moved) \in Cursors /\ OnChain(Advance(moved))
                    /\ Advance(moved).position = moved.position
                    /\ Advance(moved).base = moved.base + ClusterSize
  <2> HIDE DEF moved
  <2> QED BY <1>2, <1>5, AdvanceOk, Zenon
<1> HIDE DEF moved, adv
<1>8. /\ cursor' \in Cursors /\ OnChain(cursor')
      /\ cursor'.position = cursor.position + ThisRound
  <2>1. CASE onward /\ s = "ok"
    BY <1>1, <1>5, <1>7, <2>1, Zenon
  <2>2. CASE ~(onward /\ s = "ok")
    BY <1>1, <1>5, <2>2, Zenon
  <2> QED BY <2>1, <2>2, Zenon
<1>9. done => left' = 0
  BY <1>1, <1>2, <1>3, <1>5
<1>10. ~done => left' > 0
  BY <1>1, <1>2, <1>3, <1>5
<1>11. s \in {"ok", "corrupt", "io"}
  BY <1>6, Zenon
<1>12. \/ pc' = "read" /\ status' = status /\ left' > 0
       \/ pc' = "open" /\ status' = "ok" /\ left' = 0
       \/ pc' = "open" /\ status' \in {"corrupt", "io"}
  <2> HIDE DEF done, s
  <2> QED BY <1>1, <1>9, <1>10, <1>11, Zenon
<1>13. onward => moved.position = cursor.base + ClusterSize
  BY <1>2, <1>3, <1>4, <1>5, Geometry
<1>14. ASSUME Fine, r PROVE InPlace(cursor') /\ status' # "corrupt"
  <2>1. CASE onward
    <3>1. moved.seen < Needed
      <4>1. /\ cursor.base = ClusterSize * (cursor.seen - 1) /\ cursor.seen \in Nat
            /\ cursor.seen >= 1
        BY <1>2, OnChainIs, Zenon
      <4>2. ClusterSize * (cursor.seen - 1) + ClusterSize = ClusterSize * cursor.seen
        BY <4>1, Geometry, Z3
      <4>3. Needed \in Nat /\ size <= ClusterSize * Needed
        BY <1>2, NeededIs, Zenon
      <4>4. ClusterSize * cursor.seen < ClusterSize * Needed
        <5>1. ClusterSize * cursor.seen \in Nat /\ ClusterSize * Needed \in Nat
          BY <4>1, <4>3, Geometry
        <5>2. ClusterSize * cursor.seen < size
          BY <1>13, <2>1, <4>1, <4>2, Zenon
        <5> QED BY <1>2, <4>3, <5>1, <5>2
      <4> QED BY <1>5, <4>1, <4>3, <4>4, Geometry, MulLess
    <3>2. adv = "ok"
      <4>1. Intact /\ r = TRUE
        BY <1>14, Zenon DEF Fine
      <4> QED BY <1>2, <1>5, <3>1, <4>1, AdvanceFine, Zenon DEF adv
    <3>3. cursor' = Advance(moved) /\ s = "ok"
      BY <1>1, <2>1, <3>2, Zenon
    <3>4. InPlace(cursor')
      <4>1. /\ cursor'.position = cursor.base + ClusterSize
            /\ cursor'.base = cursor.base + ClusterSize
        BY <1>5, <1>7, <1>13, <2>1, <3>2, <3>3, Zenon
      <4> QED BY <1>2, <4>1, Geometry DEF InPlace
    <3>5. status # "corrupt"
      BY <1>14, Zenon DEF FileInv, FineInv
    <3> QED BY <1>1, <3>3, <3>4, <3>5, Zenon
  <2>2. CASE ~onward
    <3>1. cursor' = moved /\ s = "ok"
      BY <1>1, <2>2, Zenon
    <3>2. InPlace(moved)
      <4>1. /\ moved.position \in Nat /\ moved.position <= size
            /\ moved.base <= moved.position
        BY <1>2, <1>3, <1>4, <1>5
      <4> QED BY <1>2, <1>5, <2>2, <4>1, Geometry DEF InPlace
    <3>3. status # "corrupt"
      BY <1>14, Zenon DEF FileInv, FineInv
    <3> QED BY <1>1, <3>1, <3>2, <3>3, Zenon
  <2> QED BY <2>1, <2>2, Zenon
<1> QED BY <1>1, <1>8, <1>12, <1>14, Zenon

\* A turn of the loop of fat_file_read preserves the invariant.
LEMMA ReadRoundOk ==
    FileInv /\ (\E readable \in BOOLEAN : ReadRound(readable)) => FileInv'
<1> SUFFICES ASSUME FileInv, NEW r \in BOOLEAN, ReadRound(r) PROVE FileInv'
  BY Zenon
<1>1. /\ pc = "read" /\ InCluster /\ UNCHANGED disk
      /\ goal' = goal /\ from' = from /\ failed' = (failed \/ ~r)
      /\ out' = out \o Copied /\ left' = left - ThisRound
      /\ cursor' \in Cursors /\ OnChain(cursor')
      /\ cursor'.position = cursor.position + ThisRound
      /\ \/ pc' = "read" /\ status' = status /\ left' > 0
         \/ pc' = "open" /\ status' = "ok" /\ left' = 0
         \/ pc' = "open" /\ status' \in {"corrupt", "io"}
      /\ Fine /\ r => InPlace(cursor') /\ status' # "corrupt"
  BY ReadRoundIs, Zenon
<1>2. /\ DiskOk /\ size \in Nat /\ size # 0
      /\ cursor.position \in Nat
      /\ left \in Nat /\ cursor.position + left <= size
      /\ from \in Nat /\ out \in Seq(Nat \X Nat)
      /\ cursor.position = from + Len(out)
  BY <1>1, Reading, Zenon
<1>3. ThisRound \in 1 .. left /\ ThisRound \in Nat
  BY <1>1, <1>2, RoundIs
<1>4. /\ Copied \in Seq(Nat \X Nat) /\ Len(Copied) = ThisRound
      /\ \A i \in 1 .. ThisRound : Copied[i] = FileByte(cursor.position + i - 1)
  BY <1>1, CopiedIs, Zenon
<1>5. /\ out' \in Seq(Nat \X Nat) /\ Len(out') = Len(out) + ThisRound
      /\ \A i \in 1 .. Len(out') : out'[i] = IF i <= Len(out) THEN out[i]
                                             ELSE Copied[i - Len(out)]
  BY <1>1, <1>2, <1>4, ConcatProperties, Zenon
<1>6. Len(out) \in Nat
  BY <1>2, LenProperties, Zenon
<1>7. DiskOk' /\ CursorInv'
  <2>1. cursor'.position <= size /\ pc' # "closed"
    BY <1>1, <1>2, <1>3
  <2> QED BY <1>1, <1>2, <2>1, StepOk, Zenon
<1>8. CallInv'
  <2>1. /\ status' \in {"none", "ok", "corrupt", "io", "invalid"}
        /\ failed' \in BOOLEAN /\ goal' \in Nat
    BY <1>1, Zenon DEF FileInv, CallInv
  <2>2. /\ left' \in Int
        /\ cursor'.position + left' <= size
        /\ cursor'.position = from + Len(out')
    BY <1>1, <1>2, <1>3, <1>5, <1>6
  <2>3. size' = size /\ pc' \in {"open", "read"}
    BY <1>1, Zenon DEF disk
  <2> QED BY <1>1, <1>2, <1>5, <2>1, <2>2, <2>3, Zenon DEF CallInv
<1>9. BytesOk'
  <2>1. ASSUME NEW i \in 1 .. Len(out') PROVE out'[i] = FileByte(from' + i - 1)
    <3>1. CASE i <= Len(out)
      <4>1. i \in 1 .. Len(out)
        BY <1>6, <3>1
      <4> QED BY <1>1, <1>5, <3>1, <4>1, Zenon DEF FileInv, BytesOk
    <3>2. CASE ~(i <= Len(out))
      <4>1. /\ i - Len(out) \in 1 .. ThisRound
            /\ cursor.position + (i - Len(out)) - 1 = from + i - 1
        <5>1. i \in 1 .. (Len(out) + ThisRound)
          BY <1>5, Zenon
        <5> QED BY <1>2, <1>3, <1>6, <3>2, <5>1
      <4> QED BY <1>1, <1>4, <1>5, <3>2, <4>1, Zenon
    <3> QED BY <3>1, <3>2, Zenon
  <2> QED BY <1>1, <2>1, BytesStepOk, Zenon
<1>10. FineInv'
  <2>1. ASSUME Intact, ~failed', ~(goal' = size /\ size % ClusterSize = 0 /\ size # 0)
        PROVE  Fine /\ r
    BY <1>1, <2>1, Zenon DEF Fine, SeeksPastLast
  <2> QED BY <1>1, <2>1, FineStepOk, Zenon
<1> QED BY <1>7, <1>8, <1>9, <1>10, Zenon DEF FileInv

\* All of the file code keeps it.
LEMMA StepsOk == FileInv /\ Steps => FileInv'
BY SeekAdvanceOk, SeekDoneOk, ReadLostOk, ReadDataFailsOk, ReadRoundOk, Zenon DEF Steps

\* Every call preserves the invariant.
LEMMA CallsOk == FileInv /\ Calls => FileInv'
<1>1. ASSUME FileInv, NEW n \in Lengths, Read(n) PROVE FileInv'
  BY <1>1, FatFileAssumption, ReadOk, Zenon
<1> QED BY <1>1, OpenOk, SeekOk, Zenon DEF Calls

-----------------------------------------------------------------------------
(* Decoding an entry of the table *)

Types == {12, 16, 32}

\* What is stored is a number of the type's width.
LEMMA RawIs ==
    ASSUME DiskOk, NEW t \in Types, Fits(t), NEW c \in Nat
    PROVE  Raw(t, c) \in 0 .. Top(t) /\ Raw(t, c) \in Nat
<1>1. Top(t) \in Nat
  BY DEF Types, Top
<1>2. Entry(c) \in Values \cup {0}
  BY Zenon DEF DiskOk, Entry
<1>3. Values \subseteq 0 .. Top(t)
  BY Zenon DEF Fits
<1> HIDE DEF Types
<1>4. Entry(c) \in 0 .. Top(t) /\ Top(t) \in 0 .. Top(t)
  <2>1. 0 \in 0 .. Top(t) /\ Top(t) \in 0 .. Top(t)
    BY <1>1
  <2> QED BY <1>2, <1>3, <2>1, Zenon
<1>5. Raw(t, c) \in 0 .. Top(t)
  BY <1>4, Zenon DEF Raw
<1> QED BY <1>1, <1>5

\* The digits of the entry of c lie where the format puts them.
LEMMA NibbleIs ==
    ASSUME NEW c \in Nat
    PROVE  /\ \A k \in 0 .. 2 : Nibble(12, 3 * c + k) = (Raw(12, c) \div 16^k) % 16
           /\ \A k \in 0 .. 3 : Nibble(16, 4 * c + k) = (Raw(16, c) \div 16^k) % 16
           /\ \A k \in 0 .. 6 : Nibble(32, 8 * c + k) = (Raw(32, c) \div 16^k) % 16
           /\ Nibble(32, 8 * c + 7) = c % 16
<1>1. 12 \div 4 = 3 /\ 16 \div 4 = 4 /\ 32 \div 4 = 8
  OBVIOUS
<1>2. \A k \in 0 .. 2 : (3 * c + k) \div 3 = c /\ (3 * c + k) % 3 = k
  OBVIOUS
<1>3. \A k \in 0 .. 3 : (4 * c + k) \div 4 = c /\ (4 * c + k) % 4 = k
  OBVIOUS
<1>4. \A k \in 0 .. 7 : (8 * c + k) \div 8 = c /\ (8 * c + k) % 8 = k
  OBVIOUS
<1>5. \A k \in 0 .. 2 : Nibble(12, 3 * c + k) = (Raw(12, c) \div 16^k) % 16
  BY <1>1, <1>2 DEF Nibble
<1>6. \A k \in 0 .. 3 : Nibble(16, 4 * c + k) = (Raw(16, c) \div 16^k) % 16
  BY <1>1, <1>3 DEF Nibble
<1>7. \A k \in 0 .. 7 : Nibble(32, 8 * c + k) = IF k = 7 THEN c % 16
                                                ELSE (Raw(32, c) \div 16^k) % 16
  BY <1>1, <1>4, Zenon DEF Nibble
<1> QED BY <1>5, <1>6, <1>7

\* A byte of the table is a number.
LEMMA ByteIsNat ==
    ASSUME DiskOk, NEW t \in Types, Fits(t), NEW p \in Nat
    PROVE  DiskByte(t, p) \in Nat
<1>1. ASSUME NEW n \in Nat PROVE Nibble(t, n) \in Nat
  <2> DEFINE w == t \div 4
             c == n \div w
             k == n % w
  <2>1. w \in {3, 4, 8}
    BY DEF Types
  <2>2. c \in Nat /\ k \in 0 .. 7
    <3> HIDE DEF w
    <3> QED BY <2>1
  <2> HIDE DEF w, c, k
  <2>3. CASE k = 7
    <3>1. Nibble(t, n) = c % 16
      BY <2>3, Zenon DEF Nibble, k, c, w
    <3> QED BY <2>2, <3>1
  <2>4. CASE k # 7
    <3> DEFINE r == Raw(t, c)
               q == 16^k
    <3>1. Nibble(t, n) = (r \div q) % 16
      BY <2>4, Zenon DEF Nibble, k, c, w
    <3>2. r \in Nat
      BY <2>2, RawIs, Zenon
    <3>3. q \in Nat \ {0}
      <4>1. k \in {0, 1, 2, 3, 4, 5, 6}
        BY <2>2, <2>4
      <4>2. q \in {16^0, 16^1, 16^2, 16^3, 16^4, 16^5, 16^6}
        BY <4>1, Zenon
      <4> HIDE DEF q
      <4> QED BY <4>2, Sixteens, SMT
    <3> HIDE DEF r, q
    <3>4. r \div q \in Nat
      BY <3>2, <3>3, DivIs, Zenon
    <3> QED BY <3>1, <3>4
  <2> QED BY <2>3, <2>4, Zenon
<1>2. 2 * p \in Nat /\ 2 * p + 1 \in Nat
  OBVIOUS
<1>3. Nibble(t, 2 * p) \in Nat /\ Nibble(t, 2 * p + 1) \in Nat
  BY <1>1, <1>2, Zenon
<1> QED BY <1>3 DEF DiskByte

\* The entry's offset, where it does not wrap: it is a number anyway.
LEMMA OffsetIs ==
    ASSUME NEW t \in Types, NEW c \in Nat
    PROVE  /\ FatOffset(t, c) \in Nat
           /\ 4 * c < Word =>
                FatOffset(t, c) = CASE t = 12 -> c + (c \div 2)
                                    [] t = 16 -> c * 2
                                    [] t = 32 -> c * 4
<1> DEFINE o == CASE t = 12 -> c + (c \div 2)
                  [] t = 16 -> c * 2
                  [] t = 32 -> c * 4
<1>1. Word \in Nat \ {0}
  BY FatFileAssumption, Zenon
<1>2. o \in Nat /\ o <= 4 * c
  BY DEF Types
<1>3. FatOffset(t, c) = o % Word
  BY Zenon DEF FatOffset
<1> HIDE DEF o, Types
<1>4. FatOffset(t, c) \in Nat
  BY <1>1, <1>2, <1>3, ModRange
<1>5. 4 * c < Word => FatOffset(t, c) = o
  BY <1>1, <1>2, <1>3
<1> QED BY <1>4, <1>5, Zenon DEF o

\* Twelve bits: three digits, that begin or end in the middle of a byte.
LEMMA Unpacked12 ==
    ASSUME DiskOk, Fits(12), NEW c \in Nat, 4 * c < Word, NEW b2, NEW b3
    PROVE  LET o == FatOffset(12, c)
           IN  Unpacked(12, c, DiskByte(12, o), DiskByte(12, o + 1), b2, b3) = Raw(12, c)
<1> DEFINE m == c \div 2
           o == c + m
           r == Raw(12, c)
           x == DiskByte(12, o) + 256 * DiskByte(12, o + 1)
           D(a, k) == (Raw(12, a) \div 16^k) % 16
<1>1. m \in Nat /\ o \in Nat /\ (c = 2 * m \/ c = 2 * m + 1)
  OBVIOUS
<1>2. ASSUME NEW a \in Nat PROVE Raw(12, a) \in Nat /\ Raw(12, a) < 4096
  <2>1. Raw(12, a) \in 0 .. Top(12) /\ 12 \in Types
    BY RawIs DEF Types
  <2>2. Top(12) = 4095
    BY DEF Top
  <2> QED BY <2>1, <2>2
<1>3. r \in Nat /\ r < 4096
  BY <1>2
<1>4. ASSUME NEW a \in Nat
      PROVE  /\ Nibble(12, 3 * a + 0) = D(a, 0) /\ Nibble(12, 3 * a + 1) = D(a, 1)
             /\ Nibble(12, 3 * a + 2) = D(a, 2)
  <2>1. \A k \in 0 .. 2 : Nibble(12, 3 * a + k) = D(a, k)
    BY NibbleIs, Zenon
  <2> HIDE DEF D
  <2> QED BY <2>1
<1>5. ASSUME NEW a \in Nat
      PROVE  D(a, 0) \in Nat /\ D(a, 2) \in Nat /\ D(a, 2) < 16
  BY <1>2, Sixteens, SMT
<1>6. r = D(c, 0) + 16 * D(c, 1) + 256 * D(c, 2) /\ D(c, 1) \in Nat
  <2>1. D(c, 0) = r % 16 /\ D(c, 1) = (r \div 16) % 16 /\ D(c, 2) = (r \div 256) % 16
    BY <1>3, Sixteens, SMT
  <2>2. r < 268435456
    BY <1>3, SMT
  <2>3. r = (r % 16) + 16 * ((r \div 16) % 16) + 256 * ((r \div 256) % 16)
    <3> HIDE DEF r
    <3> QED BY <1>3, <2>2, Digits, SMT
  <2>4. (r \div 16) % 16 \in Nat
    BY <1>3
  <2> QED BY <2>1, <2>3, <2>4
<1> HIDE DEF D
<1>7. FatOffset(12, c) = o
  BY OffsetIs DEF Types
<1>8. \A i \in Nat : DiskByte(12, i) = Nibble(12, 2 * i) + 16 * Nibble(12, 2 * i + 1)
  BY DEF DiskByte
<1>9. CASE c = 2 * m
  <2>1. c % 2 = 0
    BY <1>1, <1>9
  <2>2. /\ 2 * o = 3 * c + 0 /\ 2 * o + 1 = 3 * c + 1
        /\ 2 * (o + 1) = 3 * c + 2 /\ 2 * (o + 1) + 1 = 3 * (c + 1) + 0
    BY <1>1, <1>9
  <2>3. /\ DiskByte(12, o) = D(c, 0) + 16 * D(c, 1)
        /\ DiskByte(12, o + 1) = D(c, 2) + 16 * D(c + 1, 0)
    <3> HIDE DEF o
    <3>1. o + 1 \in Nat /\ c + 1 \in Nat
      BY <1>1
    <3>2. /\ Nibble(12, 3 * c + 0) = D(c, 0) /\ Nibble(12, 3 * c + 1) = D(c, 1)
          /\ Nibble(12, 3 * c + 2) = D(c, 2) /\ Nibble(12, 3 * (c + 1) + 0) = D(c + 1, 0)
      BY <1>4, <3>1, Zenon
    <3> QED BY <1>1, <1>8, <2>2, <3>1, <3>2, Zenon
  <2>4. x = r + 4096 * D(c + 1, 0)
    <3>1. D(c, 0) \in Nat /\ D(c, 2) \in Nat /\ D(c + 1, 0) \in Nat
      BY <1>5
    <3> HIDE DEF r, o
    <3> QED BY <1>6, <2>3, <3>1
  <2>5. x % 4096 = r
    <3>1. D(c + 1, 0) \in Nat
      BY <1>5
    <3> HIDE DEF x, r
    <3> QED BY <1>3, <2>4, <3>1
  <2> QED BY <1>7, <2>1, <2>5 DEF Unpacked
<1>10. CASE c = 2 * m + 1
  <2>1. c % 2 # 0 /\ c - 1 \in Nat
    BY <1>1, <1>10
  <2>2. /\ 2 * o = 3 * (c - 1) + 2 /\ 2 * o + 1 = 3 * c + 0
        /\ 2 * (o + 1) = 3 * c + 1 /\ 2 * (o + 1) + 1 = 3 * c + 2
    BY <1>1, <1>10
  <2>3. /\ DiskByte(12, o) = D(c - 1, 2) + 16 * D(c, 0)
        /\ DiskByte(12, o + 1) = D(c, 1) + 16 * D(c, 2)
    <3> HIDE DEF o
    <3>1. o + 1 \in Nat
      BY <1>1
    <3>2. /\ Nibble(12, 3 * (c - 1) + 2) = D(c - 1, 2) /\ Nibble(12, 3 * c + 0) = D(c, 0)
          /\ Nibble(12, 3 * c + 1) = D(c, 1) /\ Nibble(12, 3 * c + 2) = D(c, 2)
      BY <1>4, <2>1, Zenon
    <3> QED BY <1>1, <1>8, <2>2, <3>1, <3>2, Zenon
  <2>4. x = D(c - 1, 2) + 16 * r /\ D(c - 1, 2) \in Nat /\ D(c - 1, 2) < 16
    <3>1. /\ D(c, 0) \in Nat /\ D(c, 2) \in Nat
          /\ D(c - 1, 2) \in Nat /\ D(c - 1, 2) < 16
      BY <1>5, <2>1
    <3> HIDE DEF r, o
    <3> QED BY <1>6, <2>3, <3>1
  <2>5. (x \div 16) % 4096 = r
    <3> HIDE DEF x, r
    <3>1. x \div 16 = r
      BY <1>3, <2>4
    <3> QED BY <1>3, <3>1
  <2> QED BY <1>7, <2>1, <2>5 DEF Unpacked
<1> QED BY <1>1, <1>9, <1>10

\* Sixteen bits
LEMMA Unpacked16 ==
    ASSUME DiskOk, Fits(16), NEW c \in Nat, 4 * c < Word, NEW b2, NEW b3
    PROVE  LET o == FatOffset(16, c)
           IN  Unpacked(16, c, DiskByte(16, o), DiskByte(16, o + 1), b2, b3) = Raw(16, c)
<1> DEFINE r == Raw(16, c)
           D(k) == (r \div 16^k) % 16
<1>1. r \in Nat /\ r < 65536
  <2>1. r \in 0 .. Top(16) /\ Top(16) = 65535
    BY RawIs DEF Types, Top
  <2> HIDE DEF r
  <2> QED BY <2>1
<1>2. \A k \in 0 .. 3 : Nibble(16, 4 * c + k) = D(k)
  BY NibbleIs, Zenon
<1>3. /\ r = D(0) + 16 * D(1) + 256 * D(2) + 4096 * D(3)
      /\ D(0) \in Nat /\ D(1) \in Nat /\ D(2) \in Nat /\ D(3) \in Nat
  <2> HIDE DEF r
  <2>1. /\ D(0) = r % 16 /\ D(1) = (r \div 16) % 16 /\ D(2) = (r \div 256) % 16
        /\ D(3) = (r \div 4096) % 16
    BY <1>1, Sixteens, SMT
  <2>2. r < 268435456
    BY <1>1, SMT
  <2>3. r = (r % 16) + 16 * ((r \div 16) % 16) + 256 * ((r \div 256) % 16)
              + 4096 * ((r \div 4096) % 16)
    BY <1>1, <2>2, Digits, SMT
  <2>4. /\ r % 16 \in Nat /\ (r \div 16) % 16 \in Nat /\ (r \div 256) % 16 \in Nat
        /\ (r \div 4096) % 16 \in Nat
    BY <1>1
  <2> QED BY <2>1, <2>3, <2>4
<1> HIDE DEF D
<1>4. /\ DiskByte(16, c * 2) = D(0) + 16 * D(1)
      /\ DiskByte(16, c * 2 + 1) = D(2) + 16 * D(3)
  <2>1. /\ 2 * (c * 2) = 4 * c + 0 /\ 2 * (c * 2) + 1 = 4 * c + 1
        /\ 2 * (c * 2 + 1) = 4 * c + 2 /\ 2 * (c * 2 + 1) + 1 = 4 * c + 3
    OBVIOUS
  <2>2. /\ Nibble(16, 4 * c + 0) = D(0) /\ Nibble(16, 4 * c + 1) = D(1)
        /\ Nibble(16, 4 * c + 2) = D(2) /\ Nibble(16, 4 * c + 3) = D(3)
    BY <1>2
  <2> QED BY <2>1, <2>2 DEF DiskByte
<1>5. FatOffset(16, c) = c * 2
  BY OffsetIs DEF Types
<1>6. DiskByte(16, c * 2) + 256 * DiskByte(16, c * 2 + 1) = r
  <2> HIDE DEF r
  <2> QED BY <1>3, <1>4
<1> QED BY <1>5, <1>6 DEF Unpacked

\* Thirty-two bits, the four highest of which are not the entry's
LEMMA Unpacked32 ==
    ASSUME DiskOk, Fits(32), NEW c \in Nat, 4 * c < Word
    PROVE  LET o == FatOffset(32, c)
           IN  Unpacked(32, c, DiskByte(32, o), DiskByte(32, o + 1),
                        DiskByte(32, o + 2), DiskByte(32, o + 3)) = Raw(32, c)
<1> DEFINE r == Raw(32, c)
           D(k) == (r \div 16^k) % 16
           h == c % 16
<1>1. r \in Nat /\ r < 268435456
  <2>1. r \in 0 .. Top(32) /\ Top(32) = 268435455
    <3>1. r \in 0 .. Top(32)
      BY RawIs DEF Types
    <3> QED BY <3>1, SMT DEF Top
  <2>2. Top(32) \in Nat /\ r \in Int
    BY <2>1, SMT
  <2> HIDE DEF r
  <2>3. r \in Nat /\ r <= Top(32)
    BY <2>1, <2>2
  <2> QED BY <2>1, <2>3, SMT
<1>2. /\ \A k \in 0 .. 6 : Nibble(32, 8 * c + k) = D(k)
      /\ Nibble(32, 8 * c + 7) = h
  BY NibbleIs, Zenon
<1>3. /\ r = D(0) + 16 * D(1) + 256 * D(2) + 4096 * D(3) + 65536 * D(4)
             + 1048576 * D(5) + 16777216 * D(6)
      /\ D(0) \in Nat /\ D(1) \in Nat /\ D(2) \in Nat /\ D(3) \in Nat
      /\ D(4) \in Nat /\ D(5) \in Nat /\ D(6) \in 0 .. 15
  <2> HIDE DEF r
  <2>1. /\ D(0) = r % 16 /\ D(1) = (r \div 16) % 16 /\ D(2) = (r \div 256) % 16
        /\ D(3) = (r \div 4096) % 16 /\ D(4) = (r \div 65536) % 16
        /\ D(5) = (r \div 1048576) % 16 /\ D(6) = (r \div 16777216) % 16
    BY <1>1, Sixteens, SMT
  <2>2. r = (r % 16) + 16 * ((r \div 16) % 16) + 256 * ((r \div 256) % 16)
              + 4096 * ((r \div 4096) % 16) + 65536 * ((r \div 65536) % 16)
              + 1048576 * ((r \div 1048576) % 16) + 16777216 * ((r \div 16777216) % 16)
    BY <1>1, Digits, SMT
  <2>3. /\ r % 16 \in Nat /\ (r \div 16) % 16 \in Nat /\ (r \div 256) % 16 \in Nat
        /\ (r \div 4096) % 16 \in Nat /\ (r \div 65536) % 16 \in Nat
        /\ (r \div 1048576) % 16 \in Nat /\ (r \div 16777216) % 16 \in 0 .. 15
    BY <1>1, SMT
  <2> HIDE DEF D
  <2> QED BY <2>1, <2>2, <2>3, SMT
<1>4. h \in 0 .. 15
  OBVIOUS
<1> HIDE DEF D, h, r
<1>5. /\ DiskByte(32, c * 4) = D(0) + 16 * D(1)
      /\ DiskByte(32, c * 4 + 1) = D(2) + 16 * D(3)
      /\ DiskByte(32, c * 4 + 2) = D(4) + 16 * D(5)
      /\ DiskByte(32, c * 4 + 3) = D(6) + 16 * h
  <2>1. /\ 2 * (c * 4) = 8 * c + 0 /\ 2 * (c * 4) + 1 = 8 * c + 1
        /\ 2 * (c * 4 + 1) = 8 * c + 2 /\ 2 * (c * 4 + 1) + 1 = 8 * c + 3
        /\ 2 * (c * 4 + 2) = 8 * c + 4 /\ 2 * (c * 4 + 2) + 1 = 8 * c + 5
        /\ 2 * (c * 4 + 3) = 8 * c + 6 /\ 2 * (c * 4 + 3) + 1 = 8 * c + 7
    OBVIOUS
  <2>2. /\ Nibble(32, 8 * c + 0) = D(0) /\ Nibble(32, 8 * c + 1) = D(1)
        /\ Nibble(32, 8 * c + 2) = D(2) /\ Nibble(32, 8 * c + 3) = D(3)
        /\ Nibble(32, 8 * c + 4) = D(4) /\ Nibble(32, 8 * c + 5) = D(5)
        /\ Nibble(32, 8 * c + 6) = D(6)
    BY <1>2
  <2> QED BY <1>2, <2>1, <2>2 DEF DiskByte
<1>6. DiskByte(32, c * 4 + 3) % 16 = D(6)
  BY <1>3, <1>4, <1>5, SMT
<1>7. DiskByte(32, c * 4) + 256 * DiskByte(32, c * 4 + 1)
        + 65536 * DiskByte(32, c * 4 + 2)
        + 16777216 * (DiskByte(32, c * 4 + 3) % 16) = r
  BY <1>3, <1>5, <1>6, SMT
<1>8. FatOffset(32, c) = c * 4
  BY OffsetIs DEF Types
<1> QED BY <1>7, <1>8, SMT DEF Unpacked, r

\* Where the sectors have one size, the code looks at the byte it is after.
LEMMA TablePlaceIs ==
    ASSUME NEW b \in Nat \ {0}, NEW o \in Nat, NEW i \in Nat
    PROVE  TablePlace(b, b, o, i) = o + i
<1> DEFINE q == o \div b
           m == o % b
           R == Reserved
<1>1. R \in Nat
  BY FatShellAssumption, Zenon
<1>2. q \in Nat /\ m \in 0 .. (b - 1) /\ o = b * q + m
  <2>1. m \in 0 .. (b - 1)
    BY ModRange
  <2>2. q \in Nat /\ o = b * q + m
    BY Z3
  <2> QED BY <2>1, <2>2, Zenon
<1>3. TablePlace(b, b, o, i) = (R + q) * b + m + i - R * b
  BY Zenon DEF TablePlace
<1> HIDE DEF q, m, R
<1>4. (R + q) * b + m + i - R * b = b * q + m + i
  BY <1>1, <1>2, Z3
<1> QED BY <1>2, <1>3, <1>4

\* The bytes of an entry are in the table.
LEMMA EntryInTable ==
    ASSUME NEW t \in Types, NEW c \in Nat, Known(c), NEW i \in 0 .. (Width(t) - 1)
    PROVE  InTable(t, FatOffset(t, c) + i)
<1> DEFINE o == FatOffset(t, c)
           N == ClusterCount + 2
<1>1. c < N /\ 4 * c < Word /\ N \in Nat
  BY Geometry DEF Known
<1>2. o \in Nat /\ o = CASE t = 12 -> c + (c \div 2)
                         [] t = 16 -> c * 2
                         [] t = 32 -> c * 4
  BY <1>1, OffsetIs, Zenon
<1> HIDE DEF o, N
<1>3. i >= 0 /\ o + i >= 0 /\ 2 * (o + i) < N * (t \div 4)
  <2>1. CASE t = 12
    <3>1. 2 * o <= 3 * c /\ i \in {0, 1} /\ 12 \div 4 = 3
      BY <1>2, <2>1 DEF Width
    <3> QED BY <1>1, <1>2, <2>1, <3>1
  <2>2. CASE t = 16
    <3>1. o = c * 2 /\ i \in {0, 1} /\ 16 \div 4 = 4
      BY <1>2, <2>2 DEF Width
    <3> QED BY <1>1, <2>2, <3>1
  <2>3. CASE t = 32
    <3>1. o = c * 4 /\ i \in {0, 1, 2, 3} /\ 32 \div 4 = 8
      BY <1>2, <2>3 DEF Width
    <3> QED BY <1>1, <2>3, <3>1
  <2> QED BY <2>1, <2>2, <2>3, Zenon DEF Types
<1> QED BY <1>3, Zenon DEF InTable, o, N

\* Two sectors hold the entry, and one does when it lies in it.
LEMMA DecodedIs ==
    ASSUME DiskOk, NEW t \in Types, Fits(t), NEW c \in Nat, Known(c), NEW n \in {1, 2},
           LET m == FatOffset(t, c) % BytesPerSector
           IN  n = 1 => m + (Width(t) - 1) < BytesPerSector
    PROVE  Decoded(t, c, BytesPerSector, BytesPerSector, n) = {Raw(t, c)}
<1> DEFINE o == FatOffset(t, c)
           B == BytesPerSector
           m == o % B
           x(i) == DiskByte(t, TablePlace(B, B, o, i))
<1>1. o \in Nat /\ 4 * c < Word
  BY OffsetIs, Zenon DEF Known
<1>2. B \in Nat \ {0} /\ B % 4 = 0
  BY Geometry, FatShellAssumption, Zenon
<1>3. B \in Nat /\ B >= 4
  <2> HIDE DEF B
  <2> QED BY <1>2
<1>4. m \in 0 .. (B - 1)
  <2> HIDE DEF o, B
  <2> QED BY <1>1, <1>2, ModRange
<1>5. n * B = IF n = 1 THEN B ELSE B + B
  <2> HIDE DEF B
  <2> QED BY <1>2
<1>6. Width(t) \in {2, 4} /\ (t = 32 => Width(t) = 4)
  BY DEF Width
<1>7. ASSUME NEW i \in 0 .. (Width(t) - 1) PROVE InBuffer(t, B, B, n, o, i)
  <2>1. i \in Nat
    BY <1>6
  <2>2. m + i < n * B
    <3>1. n = 1 => m + (Width(t) - 1) < B
      BY Zenon
    <3> HIDE DEF m, B
    <3> QED BY <1>3, <1>4, <1>5, <1>6, <3>1
  <2>3. TablePlace(B, B, o, i) = o + i
    BY <1>1, <1>2, <2>1, TablePlaceIs, Zenon
  <2>4. InTable(t, o + i)
    BY EntryInTable, Zenon
  <2> QED BY <2>2, <2>3, <2>4, Zenon DEF InBuffer
<1>8. Decoded(t, c, B, B, n) = {Unpacked(t, c, x(0), x(1), x(2), x(3))}
  BY <1>7, Zenon DEF Decoded
<1>9. /\ x(0) = DiskByte(t, o) /\ x(1) = DiskByte(t, o + 1)
      /\ x(2) = DiskByte(t, o + 2) /\ x(3) = DiskByte(t, o + 3)
  <2>1. o + 0 = o /\ 0 \in Nat /\ 1 \in Nat /\ 2 \in Nat /\ 3 \in Nat
    BY <1>1
  <2> HIDE DEF o, B
  <2> QED BY <1>1, <1>2, <2>1, TablePlaceIs, Zenon
<1> HIDE DEF x
<1>10. CASE t = 12
  <2>1. Unpacked(t, c, x(0), x(1), x(2), x(3)) = Raw(t, c)
    BY <1>1, <1>9, <1>10, Unpacked12, Zenon DEF o
  <2> QED BY <1>8, <2>1, Zenon
<1>11. CASE t = 16
  <2>1. Unpacked(t, c, x(0), x(1), x(2), x(3)) = Raw(t, c)
    BY <1>1, <1>9, <1>11, Unpacked16, Zenon DEF o
  <2> QED BY <1>8, <2>1, Zenon
<1>12. CASE t = 32
  <2>1. Unpacked(t, c, x(0), x(1), x(2), x(3)) = Raw(t, c)
    BY <1>1, <1>9, <1>12, Unpacked32, Zenon DEF o
  <2> QED BY <1>8, <2>1, Zenon
<1> QED BY <1>10, <1>11, <1>12, Zenon DEF Types

\* Both pieces of code find what is stored, the shell's where the sectors have the
\* size it takes for granted.
LEMMA EntryIs ==
    ASSUME DiskOk, NEW t \in Types, Fits(t), NEW c \in Nat, Known(c)
    PROVE  /\ FatEntry(t, c) = {Raw(t, c)}
           /\ BytesPerSector = ShellSector =>
                 ShellEntry(t, BytesPerSector, c) = {Raw(t, c)}
<1> DEFINE B == BytesPerSector
           m == FatOffset(t, c) % B
<1>1. FatOffset(t, c) \in Nat
  BY OffsetIs, Zenon
<1>2. B \in Nat /\ m \in 0 .. (B - 1)
  BY <1>1, Geometry, ModRange
<1> HIDE DEF m
<1>3. /\ Sectors(Straddles(t, m)) \in {1, 2}
      /\ Sectors(Straddles(t, m)) = 1 => m + (Width(t) - 1) < B
  BY <1>2 DEF Sectors, Straddles, Types, Width
<1>4. ASSUME B = ShellSector
      PROVE  /\ Sectors(ShellStraddles(t, m)) \in {1, 2}
             /\ Sectors(ShellStraddles(t, m)) = 1 => m + (Width(t) - 1) < B
  BY <1>2, <1>4 DEF Sectors, ShellStraddles, Types, Width
<1>5. FatEntry(t, c) = {Raw(t, c)}
  <2>1. FatEntry(t, c) = Decoded(t, c, B, B, Sectors(Straddles(t, m)))
    BY Zenon DEF FatEntry, m
  <2> QED BY <1>3, <2>1, DecodedIs, Zenon DEF m
<1>6. ASSUME B = ShellSector PROVE ShellEntry(t, B, c) = {Raw(t, c)}
  <2>1. ShellEntry(t, B, c) = Decoded(t, c, B, B, Sectors(ShellStraddles(t, m)))
    BY <1>6, Zenon DEF ShellEntry, m
  <2> QED BY <1>4, <1>6, <2>1, DecodedIs, Zenon DEF m
<1> QED BY <1>5, <1>6, Zenon

\* Whatever the shell comes to, it is a number.
LEMMA ShellEntryNat ==
    ASSUME DiskOk, NEW t \in Types, Fits(t), NEW c \in Nat, NEW b \in Nat \ {0},
           NEW v \in ShellEntry(t, b, c)
    PROVE  v \in Nat
<1> DEFINE d == ShellSector
           n == Sectors(ShellStraddles(t, FatOffset(t, c) % b))
           o == FatOffset(t, c)
           x(i) == DiskByte(t, TablePlace(b, d, o, i))
           held == \A i \in 0 .. (Width(t) - 1) : InBuffer(t, b, d, n, o, i)
<1>1. v \in IF held THEN {Unpacked(t, c, x(0), x(1), x(2), x(3))} ELSE Strays
  BY Zenon DEF ShellEntry, Decoded
<1>2. CASE ~held
  <2>1. v \in Strays /\ Strays \subseteq Nat
    BY <1>1, <1>2, FatShellAssumption, Zenon
  <2> QED BY <2>1, Zenon
<1>3. CASE held
  <2>1. v = Unpacked(t, c, x(0), x(1), x(2), x(3))
    BY <1>1, <1>3, Zenon
  <2>2. ASSUME NEW i \in 0 .. (Width(t) - 1) PROVE x(i) \in Nat
    <3> DEFINE p == TablePlace(b, d, o, i)
    <3>1. p >= 0
      BY <1>3, Zenon DEF InBuffer, InTable
    <3>2. p \in Int
      <4>1. o \in Nat /\ Reserved \in Nat /\ d \in Nat /\ i \in Int
        BY OffsetIs, FatShellAssumption DEF Width
      <4>2. o \div b \in Nat /\ o % b \in Nat
        BY <4>1, DivIs, ModRange
      <4> HIDE DEF o, d
      <4> QED BY <4>1, <4>2 DEF TablePlace
    <3>3. p \in Nat
      <4> HIDE DEF p
      <4> QED BY <3>1, <3>2
    <3> QED BY <3>3, ByteIsNat, Zenon
  <2>3. 0 \in 0 .. (Width(t) - 1) /\ 1 \in 0 .. (Width(t) - 1)
        /\ (t = 32 => 2 \in 0 .. (Width(t) - 1) /\ 3 \in 0 .. (Width(t) - 1))
    BY DEF Width
  <2>4. x(0) \in Nat /\ x(1) \in Nat /\ (t = 32 => x(2) \in Nat /\ x(3) \in Nat)
    BY <2>2, <2>3, Zenon
  <2> HIDE DEF x
  <2> QED BY <2>1, <2>4, SMT DEF Unpacked, Types
<1> QED BY <1>2, <1>3, Zenon

\* What fatentry and fatchain make of the entry of a cluster.
LEMMA ShellEntryIs ==
    ASSUME DiskOk, NEW c \in Nat, NEW b \in VolumeSizes, NEW v \in ShellEntry(FatType, b, c)
    PROVE  /\ v \in Nat
           /\ Meaning(v) \in {"free", "bad", "end", "reserved", "next"}
           /\ Meaning(v) = "free" => v = 0
           /\ Meaning(v) = "bad" => IsBad(v)
           /\ Meaning(v) = "end" => IsEnd(v)
           /\ Meaning(v) = "reserved" => IsReserved(v)
           /\ b = BytesPerSector /\ b = ShellSector /\ Known(c) => v = Link(c)
<1>1. FatType \in Types /\ Fits(FatType) /\ b \in Nat \ {0}
  BY FatShellAssumption, MarkersAssumption, Zenon DEF Types
<1>2. v \in Nat
  BY <1>1, ShellEntryNat, Zenon
<1>3. /\ Meaning(v) \in {"free", "bad", "end", "reserved", "next"}
      /\ Meaning(v) = "free" => v = 0
      /\ Meaning(v) = "bad" => IsBad(v)
      /\ Meaning(v) = "end" => IsEnd(v)
      /\ Meaning(v) = "reserved" => IsReserved(v)
  BY Zenon DEF Meaning
<1>4. ASSUME b = BytesPerSector, b = ShellSector, Known(c) PROVE v = Link(c)
  <2>1. ShellEntry(FatType, b, c) = {Raw(FatType, c)}
    BY <1>1, <1>4, EntryIs, Zenon
  <2> QED BY <2>1, Zenon DEF Raw, Link
<1> QED BY <1>2, <1>3, <1>4, Zenon

-----------------------------------------------------------------------------
(* The commands *)

\* A step that leaves the file alone preserves its invariant.
LEMMA FileSame == FileInv /\ UNCHANGED vars => FileInv'
<1> SUFFICES ASSUME FileInv, UNCHANGED vars PROVE FileInv'
  BY Zenon
<1>1. DiskOk /\ CursorInv /\ CallInv /\ BytesOk /\ FineInv
  BY Zenon DEF FileInv
<1>2. /\ UNCHANGED disk /\ cursor' = cursor /\ pc' = pc /\ left' = left /\ goal' = goal
      /\ out' = out /\ from' = from /\ status' = status /\ failed' = failed
      /\ size' = size
  BY Zenon DEF vars, disk
<1>3. DiskOk' /\ CursorInv'
  BY <1>1, <1>2, StepOk, Zenon DEF CursorInv
<1>4. CallInv'
  BY <1>1, <1>2, Zenon DEF CallInv
<1>5. BytesOk'
  BY <1>1, <1>2, BytesStepOk, Zenon DEF BytesOk
<1>6. FineInv'
  BY <1>1, <1>2, FineStepOk, Zenon DEF FineInv, Fine, SeeksPastLast
<1> QED BY <1>3, <1>4, <1>5, <1>6, Zenon DEF FileInv

\* The beginning of the file.
Prefix(s) == \A i \in 1 .. Len(s) : s[i] = FileByte(i - 1)

\* What the disk holds is the same after a step.
LEMMA ReadSame ==
    ASSUME UNCHANGED disk
    PROVE  /\ \A p : FileByte(p)' = FileByte(p)
           /\ \A c : Link(c)' = Link(c)
           /\ Follows(chain, at)' <=> Follows(chain', at')
           /\ Prefix(shown)' <=> Prefix(shown')
<1>1. table' = table /\ Chain' = Chain
  BY DiskSame, Zenon DEF disk
<1>2. \A p : FileByte(p)' = FileByte(p)
  BY <1>1, Zenon DEF FileByte
<1>3. \A c : Link(c)' = Link(c)
  BY <1>1, Zenon DEF Link, Entry
<1>4. Follows(chain, at)' <=> Follows(chain', at')
  BY <1>1, Zenon DEF Follows, Link, Entry, Known
<1>5. Prefix(shown)' <=> Prefix(shown')
  BY <1>1, Zenon DEF Prefix, FileByte
<1> QED BY <1>2, <1>3, <1>4, <1>5, Zenon

\* At the prompt, and while others use the file code, there is nothing to show.
LEMMA OtherCallsOk == IInv /\ OtherCalls => IInv'
<1> SUFFICES ASSUME IInv, OtherCalls PROVE IInv'
  BY Zenon
<1>1. /\ cmd = "none" /\ Calls /\ cmd' = cmd /\ chain' = chain /\ at' = at
      /\ shown' = shown /\ report' = report
  BY Zenon DEF OtherCalls, shellVars
<1>2. FileInv'
  BY <1>1, CallsOk, Zenon DEF IInv
<1>3. ShellInv'
  BY <1>1, Zenon DEF IInv, ShellInv, ChainInv, CatInv, ChainIsTrue, CatIsPrefix
<1> QED BY <1>2, <1>3, Zenon DEF IInv

\* A step of the file code on behalf of fatcat, or of another caller.
LEMMA FileStepOk == IInv /\ Steps /\ UNCHANGED shellVars => IInv'
<1> SUFFICES ASSUME IInv, Steps, UNCHANGED shellVars PROVE IInv'
  BY Zenon
<1>1. FileInv /\ ShellInv /\ FileInv'
  BY StepsOk, Zenon DEF IInv
<1>2. /\ cmd' = cmd /\ chain' = chain /\ at' = at /\ shown' = shown /\ report' = report
  BY Zenon DEF shellVars
<1>3. pc \in {"seek", "read"} /\ UNCHANGED disk
  BY Zenon DEF Steps, SeekAdvance, SeekDone, ReadLost, ReadDataFails, ReadRound
<1>4. cmd = "none" \/ (cmd = "print" /\ pc = "read")
  BY <1>1, <1>3, Zenon DEF ShellInv, ChainInv, CatInv
<1>5. CASE cmd = "none"
  <2>1. ShellInv'
    BY <1>1, <1>2, <1>5, Zenon DEF ShellInv, ChainInv, CatInv, ChainIsTrue, CatIsPrefix
  <2> QED BY <1>1, <2>1, Zenon DEF IInv
<1>6. CASE cmd = "print" /\ pc = "read"
  <2>1. /\ chain = <<>> /\ Prefix(shown) /\ from = Len(shown) /\ Len(shown) <= CatMax
        /\ cursor.position = from + Len(out)
        /\ Len(shown) + Len(out) + left <= CatMax
    BY <1>1, <1>6, Zenon DEF ShellInv, CatInv, Prefix
  <2>2. /\ left \in Nat /\ left > 0 /\ out \in Seq(Nat \X Nat) /\ from \in Nat
        /\ cursor.position \in Nat
    BY <1>1, <1>6, Reading, Zenon
  <2>3. Len(out) \in Nat /\ Len(shown) \in Nat /\ CatMax \in Nat
    BY <1>1, <2>2, LenProperties, FatShellAssumption, Zenon DEF ShellInv
  <2>4. /\ from' = from /\ pc' \in {"open", "read"}
        /\ cursor'.position = from + Len(out')
        /\ pc' = "open" => Len(shown) + Len(out') <= CatMax
        /\ pc' = "read" => Len(shown) + Len(out') + left' <= CatMax
        /\ pc' = "open" /\ status' = "ok" => out' # <<>>
    <3>1. CASE ReadLost \/ ReadDataFails
      <4>1. /\ pc' = "open" /\ status' # "ok" /\ from' = from /\ out' = out
            /\ cursor' = cursor
        BY <3>1, Zenon DEF ReadLost, ReadDataFails
      <4>2. Len(shown) + Len(out) <= CatMax
        BY <2>1, <2>2, <2>3
      <4> QED BY <2>1, <4>1, <4>2, Zenon
    <3>2. ASSUME NEW r \in BOOLEAN, ReadRound(r)
          PROVE  /\ from' = from /\ pc' \in {"open", "read"}
                 /\ cursor'.position = from + Len(out')
                 /\ pc' = "open" => Len(shown) + Len(out') <= CatMax
                 /\ pc' = "read" => Len(shown) + Len(out') + left' <= CatMax
                 /\ pc' = "open" /\ status' = "ok" => out' # <<>>
      <4>1. /\ InCluster /\ from' = from /\ pc' \in {"open", "read"}
            /\ out' = out \o Copied /\ left' = left - ThisRound
            /\ cursor'.position = cursor.position + ThisRound
        BY <1>1, <3>2, ReadRoundIs, Zenon
      <4>2. ThisRound \in 1 .. left /\ ThisRound \in Nat
        BY <1>1, <1>6, <2>2, <4>1, RoundIs
      <4>3. Copied \in Seq(Nat \X Nat) /\ Len(Copied) = ThisRound
        BY <1>1, <1>6, <4>1, CopiedIs, Zenon
      <4>4. Len(out') = Len(out) + ThisRound
        BY <2>2, <4>1, <4>3, ConcatProperties, Zenon
      <4>5. out' # <<>>
        BY <2>3, <4>2, <4>4
      <4> QED BY <2>1, <2>2, <2>3, <4>1, <4>2, <4>4, <4>5
    <3>3. pc # "seek"
      BY <1>6, Zenon
    <3> QED BY <3>1, <3>2, <3>3, Zenon DEF Steps, SeekAdvance, SeekDone
  <2>5. Prefix(shown)'
    BY <1>2, <1>3, <2>1, ReadSame, Zenon
  <2>6. CatInv'
    BY <1>2, <1>6, <2>1, <2>4, <2>5, Zenon DEF CatInv, Prefix
  <2>7. ShellInv'
    BY <1>1, <1>2, <1>6, <2>6, Zenon DEF ShellInv, ChainInv, ChainIsTrue, CatIsPrefix
  <2> QED BY <1>1, <2>7, Zenon DEF IInv
<1> QED BY <1>4, <1>5, <1>6, Zenon

\* The commands that only look.
LEMMA CommandsOk == IInv /\ Commands => IInv'
<1> SUFFICES ASSUME IInv, Commands PROVE IInv'
  BY Zenon
<1>1. FileInv /\ ShellInv
  BY Zenon DEF IInv
<1>2. AtPrompt /\ cmd = "none" /\ pc = "closed" /\ chain = <<>> /\ shown = <<>>
  BY <1>1, Zenon DEF Commands, FatChain, FatEntryDump, FatCat, AtPrompt, ShellInv
<1>3. Firsts \cup {1} \subseteq Nat
  BY FatFileAssumption
<1>4. /\ chain \in Seq(Nat) /\ shown \in Seq(Nat \X Nat) /\ at \in Nat
      /\ Len(chain) = 0 /\ Len(shown) = 0
  BY <1>1, <1>2, Zenon DEF ShellInv
<1>5. MaxPreview \in Nat \ {0} /\ CatMax \in Nat \ {0}
  BY FatShellAssumption, Zenon
<1>6. ASSUME NEW c \in Firsts \cup {1}, NEW b \in VolumeSizes, FatChain(c, b) PROVE IInv'
  <2>1. /\ UNCHANGED vars /\ chain' = chain /\ shown' = shown /\ at' = c /\ pc' = pc
        /\ bps' = b
        /\ \/ cmd' = "done" /\ report' = "refused"
           \/ cmd' = "chain"
    BY <1>6, Zenon DEF FatChain, Reports, vars
  <2>2. FileInv'
    BY <1>1, <2>1, FileSame, Zenon
  <2>3. c \in Nat
    BY <1>3, Zenon
  <2>4. ChainInv'
    <3>1. Len(chain') = 0 /\ Len(chain') <= MaxPreview
      BY <1>4, <1>5, <2>1
    <3>2. Distinct(chain)' /\ Follows(chain, at)'
      BY <3>1 DEF Distinct, Follows
    <3> QED BY <1>2, <2>1, <3>1, <3>2, Zenon DEF ChainInv
  <2>5. ShellInv'
    BY <1>2, <1>4, <2>1, <2>3, <2>4 DEF ShellInv, CatInv, ChainIsTrue, CatIsPrefix
  <2> QED BY <2>2, <2>5, Zenon DEF IInv
<1>7. ASSUME NEW c \in Firsts \cup {1}, NEW b \in VolumeSizes, NEW r \in BOOLEAN,
             FatEntryDump(c, b, r)
      PROVE  IInv'
  <2>1. c \in Nat /\ DiskOk
    BY <1>1, <1>3, Zenon DEF FileInv
  <2>2. /\ UNCHANGED vars /\ chain' = chain /\ shown' = shown /\ at' = c /\ pc' = pc
        /\ cmd' = "done"
        /\ report' \in {"free", "bad", "end", "reserved", "next", "unavailable"}
    <3>1. \A v \in ShellEntry(FatType, b, c) :
            Meaning(v) \in {"free", "bad", "end", "reserved", "next"}
      BY <2>1, ShellEntryIs, Zenon
    <3> QED BY <1>7, <3>1, Zenon DEF FatEntryDump, Reports, vars
  <2>3. FileInv'
    BY <1>1, <2>2, FileSame, Zenon
  <2>4. ShellInv'
    BY <1>2, <1>4, <2>1, <2>2 DEF ShellInv, ChainInv, CatInv, ChainIsTrue, CatIsPrefix
  <2> QED BY <2>3, <2>4, Zenon DEF IInv
<1>8. CASE FatCat
  <2>1. FileInv'
    BY <1>1, <1>8, OpenOk, Zenon DEF FatCat
  <2>2. /\ chain' = chain /\ shown' = shown /\ at' = at /\ cursor' = Rewound
        /\ \/ cmd' = "done" /\ report' = "corrupt" /\ pc' = "closed"
           \/ cmd' = "cat" /\ pc' = "open"
    BY <1>8, Zenon DEF FatCat, Open, Reports
  <2>3. cursor'.position = 0
    BY <1>1, <2>2, RewoundIs, Zenon DEF FileInv
  <2>4. CatInv'
    BY <1>2, <1>4, <1>5, <2>2, <2>3 DEF CatInv
  <2>5. CatIsPrefix'
    BY <1>2, <1>4, <2>2, <2>3 DEF CatIsPrefix
  <2>6. ShellInv'
    BY <1>2, <1>4, <2>2, <2>4, <2>5, Zenon DEF ShellInv, ChainInv, ChainIsTrue
  <2> QED BY <2>1, <2>6, Zenon DEF IInv
<1> QED BY <1>6, <1>7, <1>8, Zenon DEF Commands

\* What has to be shown of the list.
LEMMA ChainTrueIf ==
    ASSUME UNCHANGED disk, Distinct(chain'),
           bps' = BytesPerSector =>
               \A i \in 1 .. Len(chain') : Known(chain'[i]) =>
                   IF i < Len(chain') THEN Link(chain'[i]) = chain'[i + 1]
                   ELSE TrueReport(report', chain', Link(chain'[i]))
    PROVE  ChainIsTrue'
<1>1. table' = table
  BY Zenon DEF disk
<1>2. \A i : (Link(chain[i]))' = Link(chain'[i])
  BY <1>1, Zenon DEF Link, Entry
<1> QED BY <1>2, Zenon DEF ChainIsTrue, Distinct

\* A round of fatchain
LEMMA ChainRoundOk ==
    IInv /\ (\E readable \in BOOLEAN : ChainRound(readable)) => IInv'
<1> SUFFICES ASSUME IInv, NEW r \in BOOLEAN, ChainRound(r) PROVE IInv'
  BY Zenon
<1> DEFINE n == Len(chain)
<1>1. FileInv /\ ShellInv /\ DiskOk
  BY Zenon DEF IInv, FileInv
<1>2. /\ cmd = "chain" /\ UNCHANGED vars /\ UNCHANGED disk /\ shown' = shown
      /\ pc' = pc /\ bps' = bps
  BY Zenon DEF ChainRound, vars
<1>3. FileInv'
  BY <1>1, <1>2, FileSame, Zenon
<1>4. /\ pc = "closed" /\ shown = <<>> /\ bps \in VolumeSizes /\ at \in Nat
      /\ n <= MaxPreview /\ Distinct(chain) /\ chain \in Seq(Nat) /\ n \in Nat
      /\ bps = BytesPerSector => Follows(chain, at)
      /\ chain # <<>> => Meaning(at) = "next"
  <2>1. chain \in Seq(Nat) /\ at \in Nat
    BY <1>1, Zenon DEF ShellInv
  <2>2. n \in Nat
    BY <2>1, LenProperties, Zenon
  <2> QED BY <1>1, <1>2, <2>1, <2>2, Zenon DEF ShellInv, ChainInv
<1>5. MaxPreview \in Nat \ {0}
  BY FatShellAssumption, Zenon
<1>6. chain = <<>> <=> n = 0
  BY <1>4, EmptySeq, Zenon
<1>7. /\ Follows(chain, at)' <=> Follows(chain', at')
      /\ \A c : Link(c)' = Link(c)
  BY <1>2, ReadSame, Zenon
<1>8. CASE n >= MaxPreview \/ Listed(at)
  <2>1. chain' = chain /\ at' = at /\ cmd' = "done"
    BY <1>8, Zenon DEF ChainRound, Reports
  <2>2. \/ report' = "too long" /\ n >= MaxPreview
        \/ report' = "loop" /\ Listed(at)
    BY <1>8, Zenon DEF ChainRound, Reports
  <2>3. chain # <<>>
    BY <1>4, <1>5, <1>6, <1>8 DEF Listed
  <2>4. n >= MaxPreview => n = MaxPreview
    <3> HIDE DEF n
    <3> QED BY <1>4, <1>5
  <2>5. ChainIsTrue'
    <3>1. bps = BytesPerSector =>
            \A i \in 1 .. Len(chain) : Known(chain[i]) =>
                IF i < Len(chain) THEN Link(chain[i]) = chain[i + 1]
                ELSE Link(chain[i]) = at
      BY <1>4, Zenon DEF Follows
    <3>2. TrueReport(report', chain, at)
      BY <1>4, <2>2, <2>3, <2>4, Zenon DEF TrueReport, Listed
    <3> QED BY <1>2, <1>4, <2>1, <3>1, <3>2, ChainTrueIf, Zenon
  <2>6. ShellInv'
    BY <1>1, <1>2, <1>4, <2>1, <2>3, <2>5, Zenon DEF ShellInv, ChainInv, CatInv, CatIsPrefix
  <2> QED BY <1>3, <2>6, Zenon DEF IInv
<1>9. CASE ~(n >= MaxPreview) /\ ~Listed(at)
  <2> DEFINE ch == Append(chain, at)
  <2>1. chain' = ch
    BY <1>9, Zenon DEF ChainRound
  <2>2. \/ cmd' = "done" /\ report' = "unavailable" /\ at' = at
        \/ \E v \in ShellEntry(FatType, bps, at) :
              /\ BytesPerSector = ShellSector
              /\ \/ cmd' = "done" /\ report' = Meaning(v) /\ Meaning(v) # "next" /\ at' = at
                 \/ cmd' = cmd /\ at' = v /\ Meaning(v) = "next"
    BY <1>9, Zenon DEF ChainRound, Reports, Reads
  <2>3. /\ ch \in Seq(Nat) /\ Len(ch) = n + 1 /\ ch # <<>>
        /\ \A i \in 1 .. n : ch[i] = chain[i]
        /\ ch[n + 1] = at
    <3>1. /\ ch \in Seq(Nat) /\ Len(ch) = n + 1
          /\ \A i \in 1 .. n : ch[i] = chain[i]
          /\ ch[n + 1] = at
      BY <1>4, AppendProperties
    <3> QED BY <1>4, <3>1, EmptySeq
  <2> HIDE DEF ch, n
  <2>4. Distinct(ch)
    <3> SUFFICES ASSUME NEW i \in 1 .. Len(ch), NEW j \in 1 .. Len(ch), i # j
                 PROVE  ch[i] # ch[j]
      BY Zenon DEF Distinct
    <3>1. (i \in 1 .. n \/ i = n + 1) /\ (j \in 1 .. n \/ j = n + 1)
      BY <1>4, <2>3
    <3>2. \A k \in 1 .. n : chain[k] # at
      BY <1>9, Zenon DEF Listed, n
    <3> QED BY <1>4, <2>3, <3>1, <3>2, Zenon DEF Distinct, n
  <2>5. ASSUME bps = BytesPerSector, NEW i \in 1 .. n, Known(ch[i])
        PROVE  i < Len(ch) /\ Link(ch[i]) = ch[i + 1]
    <3>1. i < Len(ch) /\ (i = n \/ i + 1 \in 1 .. n)
      BY <1>4, <2>3
    <3>2. Known(chain[i]) /\ Link(ch[i]) = Link(chain[i])
      BY <2>3, <2>5, Zenon
    <3>3. Link(chain[i]) = IF i < n THEN chain[i + 1] ELSE at
      BY <1>4, <2>5, <3>2, Zenon DEF Follows, n
    <3>4. CASE i = n
      BY <1>4, <2>3, <3>1, <3>2, <3>3, <3>4
    <3>5. CASE i + 1 \in 1 .. n
      <4>1. i < n
        BY <1>4, <3>5
      <4> QED BY <2>3, <3>1, <3>2, <3>3, <3>5, <4>1, Zenon
    <3> QED BY <3>1, <3>4, <3>5, Zenon
  <2>6. \A i \in 1 .. Len(ch) : i \in 1 .. n \/ (i = n + 1 /\ ~(i < Len(ch)))
    BY <1>4, <2>3
  <2>7. Len(chain') <= MaxPreview
    BY <1>4, <1>5, <1>9, <2>1, <2>3
  <2>8. CASE cmd' = "done" /\ report' = "unavailable" /\ at' = at
    <3>1. ChainIsTrue'
      <4>1. TrueReport(report', ch, Link(at))
        BY <2>8, Zenon DEF TrueReport
      <4>2. ASSUME NEW i \in 1 .. Len(ch), bps = BytesPerSector, Known(ch[i])
            PROVE  IF i < Len(ch) THEN Link(ch[i]) = ch[i + 1]
                   ELSE TrueReport(report', ch, Link(ch[i]))
        BY <2>3, <2>5, <2>6, <4>1, <4>2, Zenon
      <4> QED BY <1>2, <2>1, <2>4, <4>2, ChainTrueIf, Zenon
    <3>2. ShellInv'
      BY <1>1, <1>2, <1>4, <2>1, <2>3, <2>8, <3>1, Zenon
         DEF ShellInv, ChainInv, CatInv, CatIsPrefix
    <3> QED BY <1>3, <3>2, Zenon DEF IInv
  <2>9. ASSUME NEW v \in ShellEntry(FatType, bps, at), BytesPerSector = ShellSector,
               cmd' = "done", report' = Meaning(v), Meaning(v) # "next", at' = at
        PROVE  IInv'
    <3>1. /\ Meaning(v) \in {"free", "bad", "end", "reserved"}
          /\ Meaning(v) = "free" => v = 0
          /\ Meaning(v) = "bad" => IsBad(v)
          /\ Meaning(v) = "end" => IsEnd(v)
          /\ Meaning(v) = "reserved" => IsReserved(v)
          /\ bps = BytesPerSector /\ Known(at) => v = Link(at)
      BY <1>1, <1>4, <2>9, ShellEntryIs, Zenon
    <3>2. ChainIsTrue'
      <4>1. TrueReport(report', ch, v)
        BY <2>9, <3>1, Zenon DEF TrueReport
      <4>2. ASSUME NEW i \in 1 .. Len(ch), bps = BytesPerSector, Known(ch[i])
            PROVE  IF i < Len(ch) THEN Link(ch[i]) = ch[i + 1]
                   ELSE TrueReport(report', ch, Link(ch[i]))
        BY <2>3, <2>5, <2>6, <3>1, <4>1, <4>2, Zenon
      <4> QED BY <1>2, <2>1, <2>4, <4>2, ChainTrueIf, Zenon
    <3>3. ShellInv'
      BY <1>1, <1>2, <1>4, <2>1, <2>3, <2>9, <3>2, Zenon
         DEF ShellInv, ChainInv, CatInv, CatIsPrefix
    <3> QED BY <1>3, <3>3, Zenon DEF IInv
  <2>10. ASSUME NEW v \in ShellEntry(FatType, bps, at), BytesPerSector = ShellSector,
                cmd' = cmd, at' = v, Meaning(v) = "next"
         PROVE  IInv'
    <3>1. v \in Nat /\ (bps = BytesPerSector /\ Known(at) => v = Link(at))
      BY <1>1, <1>4, <2>10, ShellEntryIs, Zenon
    <3>2. bps = BytesPerSector => Follows(ch, v)
      BY <2>3, <2>5, <2>6, <3>1, Zenon DEF Follows
    <3>3. Meaning(at)' = "next"
      BY <2>10, Zenon DEF Meaning, IsEnd, IsBad, IsReserved
    <3>4. ChainInv'
      BY <1>2, <1>4, <1>7, <2>1, <2>4, <2>7, <2>10, <3>2, <3>3, Zenon
         DEF ChainInv, Distinct
    <3>5. ShellInv'
      BY <1>1, <1>2, <2>1, <2>3, <2>10, <3>1, <3>4, Zenon
         DEF ShellInv, CatInv, ChainIsTrue, CatIsPrefix
    <3> QED BY <1>3, <3>5, Zenon DEF IInv
  <2> QED BY <2>2, <2>8, <2>9, <2>10, Zenon
<1> QED BY <1>8, <1>9, Zenon

\* fatcat asks for a chunk.
LEMMA CatAskOk == IInv /\ CatAsk => IInv'
<1> SUFFICES ASSUME IInv, CatAsk PROVE IInv'
  BY Zenon
<1> DEFINE n == Smaller(CatMax - Len(shown), CatChunk)
<1>1. FileInv /\ ShellInv
  BY Zenon DEF IInv
<1>2. /\ cmd = "cat" /\ Len(shown) < CatMax /\ Read(n) /\ cmd' = "print"
      /\ chain' = chain /\ at' = at /\ shown' = shown /\ report' = report
  BY Zenon DEF CatAsk
<1>3. /\ chain = <<>> /\ Prefix(shown) /\ pc = "open" /\ cursor.position = Len(shown)
      /\ chain \in Seq(Nat) /\ at \in Nat /\ shown \in Seq(Nat \X Nat)
  BY <1>1, <1>2, Zenon DEF ShellInv, CatInv, Prefix
<1>4. Len(shown) \in Nat /\ CatMax \in Nat /\ CatChunk \in Nat \ {0}
  BY <1>3, LenProperties, FatShellAssumption, Zenon
<1>5. n \in Nat /\ n # 0 /\ n <= CatMax - Len(shown)
  BY <1>2, <1>4 DEF Smaller
<1> HIDE DEF n
<1>6. FileInv'
  BY <1>1, <1>2, <1>5, ReadOk, Zenon
<1>7. size \in Nat /\ cursor.position <= size
  BY <1>1, Zenon DEF FileInv, DiskOk, CursorInv
<1>8. /\ UNCHANGED disk /\ cursor' = cursor /\ from' = cursor.position /\ out' = <<>>
      /\ size' = size
      /\ \/ pc' = "open" /\ cursor.position = size
         \/ pc' = "read" /\ left' \in Int /\ left' <= n
  BY <1>2, <1>3, <1>4, <1>5, <1>7 DEF Read, Smaller, disk
<1>9. Len(out') = 0
  BY <1>8, Zenon
<1>10. Prefix(shown)'
  BY <1>2, <1>3, <1>8, ReadSame, Zenon
<1>11. /\ from' = Len(shown') /\ cursor'.position = from' + Len(out')
       /\ pc' \in {"open", "read"}
       /\ Len(shown') <= CatMax
       /\ pc' = "open" => Len(shown') + Len(out') <= CatMax
       /\ pc' = "read" => Len(shown') + Len(out') + left' <= CatMax
       /\ pc' = "open" => cursor'.position = size'
  BY <1>2, <1>3, <1>4, <1>5, <1>8, <1>9
<1>12. CatInv'
  BY <1>2, <1>3, <1>10, <1>11, Zenon DEF CatInv, Prefix
<1>13. ShellInv'
  BY <1>2, <1>3, <1>12, Zenon DEF ShellInv, ChainInv, ChainIsTrue, CatIsPrefix
<1> QED BY <1>6, <1>13, Zenon DEF IInv

\* It prints what came.
LEMMA CatPrintOk == IInv /\ (\E text \in BOOLEAN : CatPrint(text)) => IInv'
<1> SUFFICES ASSUME IInv, NEW text \in BOOLEAN, CatPrint(text) PROVE IInv'
  BY Zenon
<1>1. FileInv /\ ShellInv
  BY Zenon DEF IInv
<1>2. /\ cmd = "print" /\ pc = "open" /\ UNCHANGED vars /\ UNCHANGED disk
      /\ chain' = chain /\ at' = at /\ cursor' = cursor /\ pc' = pc /\ size' = size
      /\ from' = from /\ out' = out
  BY Zenon DEF CatPrint, vars, disk
<1>3. FileInv'
  BY <1>1, <1>2, FileSame, Zenon
<1>4. /\ chain = <<>> /\ Prefix(shown) /\ from = Len(shown)
      /\ cursor.position = from + Len(out)
      /\ Len(shown) + Len(out) <= CatMax /\ Len(shown) <= CatMax
      /\ status = "ok" /\ out = <<>> => cursor.position = size
      /\ chain \in Seq(Nat) /\ at \in Nat /\ shown \in Seq(Nat \X Nat)
  BY <1>1, <1>2, Zenon DEF ShellInv, CatInv, Prefix
<1>5. /\ out \in Seq(Nat \X Nat)
      /\ \A i \in 1 .. Len(out) : out[i] = FileByte(from + i - 1)
      /\ status \in {"none", "ok", "corrupt", "io", "invalid"}
  BY <1>1, Zenon DEF FileInv, CallInv, BytesOk
<1>6. Len(out) \in Nat /\ Len(shown) \in Nat /\ CatMax \in Nat
  BY <1>4, <1>5, LenProperties, FatShellAssumption, Zenon
<1>7. CASE ~text
  <2>1. cmd' = "done" /\ report' = "binary" /\ shown' = shown
    BY <1>7, Zenon DEF CatPrint, Reports
  <2>2. Prefix(shown)'
    BY <1>2, <1>4, <2>1, ReadSame, Zenon
  <2>3. CatIsPrefix'
    BY <2>1, <2>2, Zenon DEF CatIsPrefix, Prefix
  <2>4. ShellInv'
    BY <1>2, <1>4, <2>1, <2>3, Zenon DEF ShellInv, ChainInv, CatInv, ChainIsTrue
  <2> QED BY <1>3, <2>4, Zenon DEF IInv
<1>8. CASE text
  <2>1. /\ shown' = shown \o out
        /\ \/ cmd' = "done" /\ report' = status /\ status # "ok"
           \/ cmd' = "end" /\ status = "ok" /\ out = <<>>
           \/ cmd' = "cat" /\ status = "ok"
    BY <1>8, Zenon DEF CatPrint, Reports
  <2>2. /\ shown' \in Seq(Nat \X Nat) /\ Len(shown') = Len(shown) + Len(out)
        /\ \A i \in 1 .. Len(shown') : shown'[i] = IF i <= Len(shown) THEN shown[i]
                                                   ELSE out[i - Len(shown)]
    BY <1>4, <1>5, <2>1, ConcatProperties, Zenon
  <2>3. Prefix(shown')
    <3> SUFFICES ASSUME NEW i \in 1 .. Len(shown') PROVE shown'[i] = FileByte(i - 1)
      BY Zenon DEF Prefix
    <3>1. i \in 1 .. (Len(shown) + Len(out))
      BY <2>2, Zenon
    <3>2. CASE i <= Len(shown)
      <4>1. i \in 1 .. Len(shown)
        BY <1>6, <3>1, <3>2
      <4> QED BY <1>4, <2>2, <3>2, <4>1, Zenon DEF Prefix
    <3>3. CASE ~(i <= Len(shown))
      <4>1. /\ i - Len(shown) \in 1 .. Len(out)
            /\ from + (i - Len(shown)) - 1 = i - 1
        BY <1>4, <1>6, <3>1, <3>3
      <4> QED BY <1>5, <2>2, <3>3, <4>1, Zenon
    <3> QED BY <3>2, <3>3, Zenon
  <2>4. Prefix(shown)'
    BY <1>2, <2>3, ReadSame, Zenon
  <2>5. Len(shown') = cursor'.position /\ Len(shown') <= CatMax
    BY <1>2, <1>4, <1>6, <2>2, Zenon
  <2>6. CatIsPrefix'
    BY <1>5, <2>1, <2>4, <2>5, Zenon DEF CatIsPrefix, Prefix
  <2>7. CatInv'
    BY <1>2, <1>4, <2>1, <2>4, <2>5, Zenon DEF CatInv, Prefix
  <2>8. ShellInv'
    BY <1>2, <1>4, <2>1, <2>2, <2>6, <2>7, Zenon DEF ShellInv, ChainInv, ChainIsTrue
  <2> QED BY <1>3, <2>8, Zenon DEF IInv
<1> QED BY <1>7, <1>8, Zenon

\* It says how far it came.
LEMMA CatEndOk == IInv /\ CatEnd => IInv'
<1> SUFFICES ASSUME IInv, CatEnd PROVE IInv'
  BY Zenon
<1>1. FileInv /\ ShellInv
  BY Zenon DEF IInv
<1>2. /\ cmd = "end" \/ (cmd = "cat" /\ Len(shown) >= CatMax)
      /\ cmd' = "done" /\ report' = IF cursor.position < size THEN "truncated" ELSE "whole"
      /\ UNCHANGED vars /\ UNCHANGED disk /\ cursor' = cursor /\ pc' = pc /\ size' = size
      /\ chain' = chain /\ at' = at /\ shown' = shown
  BY Zenon DEF CatEnd, Reports, vars, disk
<1>3. FileInv'
  BY <1>1, <1>2, FileSame, Zenon
<1>4. /\ chain = <<>> /\ Prefix(shown) /\ pc = "open" /\ Len(shown) <= CatMax
      /\ cursor.position = Len(shown)
      /\ cmd = "end" => cursor.position = size
      /\ chain \in Seq(Nat) /\ at \in Nat /\ shown \in Seq(Nat \X Nat)
  BY <1>1, <1>2, Zenon DEF ShellInv, CatInv, Prefix
<1>5. /\ size \in Nat /\ cursor.position <= size /\ Len(shown) \in Nat /\ CatMax \in Nat
  BY <1>1, <1>4, LenProperties, FatShellAssumption, Zenon DEF FileInv, DiskOk, CursorInv
<1>6. Prefix(shown)'
  BY <1>2, <1>4, ReadSame, Zenon
<1>7. /\ report' \in {"whole", "truncated"}
      /\ report' = "whole" => Len(shown') = size'
      /\ report' = "truncated" => Len(shown') = CatMax /\ CatMax < size'
  BY <1>2, <1>4, <1>5
<1>8. CatIsPrefix'
  BY <1>6, <1>7, Zenon DEF CatIsPrefix, Prefix
<1>9. ShellInv'
  BY <1>2, <1>4, <1>8, Zenon DEF ShellInv, ChainInv, CatInv, ChainIsTrue
<1> QED BY <1>3, <1>9, Zenon DEF IInv

\* A command given at the prompt preserves the invariant.
LEMMA PromptOk == IInv /\ Prompt => IInv'
<1> SUFFICES ASSUME IInv, Prompt PROVE IInv'
  BY Zenon
<1>1. DiskOk /\ size \in Nat
  BY Zenon DEF IInv, FileInv, DiskOk
<1>2. /\ cmd' = "none" /\ chain' = <<>> /\ at' = 0 /\ shown' = <<>>
      /\ cursor' = Rewound /\ pc' = "closed" /\ left' = 0 /\ goal' = 0
      /\ out' = <<>> /\ from' = 0 /\ status' = "none" /\ failed' = FALSE
      /\ UNCHANGED disk
  BY Zenon DEF Prompt
<1>3. DiskOk' /\ CursorInv'
  <2>1. Rewound \in Cursors /\ Rewound.position = 0
    BY <1>1, RewoundIs, Zenon
  <2>2. Rewound.position <= size
    BY <1>1, <2>1
  <2> QED BY <1>1, <1>2, <2>1, <2>2, StepOk, Zenon
<1>4. CallInv'
  <2>1. out' \in Seq(Nat \X Nat) /\ left' \in Int /\ goal' \in Nat /\ from' \in Nat
    BY <1>2
  <2>2. failed' \in BOOLEAN
    BY <1>2, Zenon
  <2> QED BY <1>2, <2>1, <2>2, Zenon DEF CallInv
<1>5. BytesOk'
  BY <1>2, BytesStepOk
<1>6. FineInv'
  BY <1>2, FineStepOk, Zenon
<1>7. ShellInv'
  BY <1>2 DEF ShellInv, ChainInv, CatInv, ChainIsTrue, CatIsPrefix
<1> QED BY <1>3, <1>4, <1>5, <1>6, <1>7, Zenon DEF IInv, FileInv

-----------------------------------------------------------------------------
(* The theorems *)

\* The initial states satisfy the invariant.
LEMMA InitOk == SInit => IInv
<1> SUFFICES ASSUME SInit PROVE IInv
  BY Zenon
<1>1. /\ table \in [Used -> Values] /\ size \in FileSizes /\ first \in Firsts
      /\ cursor = Rewound /\ pc = "closed" /\ left = 0 /\ goal = 0 /\ out = <<>>
      /\ from = 0 /\ status = "none" /\ failed = FALSE
      /\ cmd = "none" /\ chain = <<>> /\ at = 0 /\ shown = <<>>
  BY Zenon DEF SInit, Init
<1>2. DiskOk /\ size \in Nat
  BY <1>1, FatFileAssumption, Zenon DEF DiskOk
<1>3. CursorInv
  <2>1. Rewound \in Cursors /\ Rewound.position = 0
    BY <1>2, RewoundIs, Zenon
  <2>2. Rewound.position <= size
    BY <1>2, <2>1
  <2> QED BY <1>1, <2>1, <2>2, Zenon DEF CursorInv
<1>4. out \in Seq(Nat \X Nat) /\ chain \in Seq(Nat) /\ shown \in Seq(Nat \X Nat)
  BY <1>1
<1>5. CallInv
  <2>1. left \in Int /\ goal \in Nat /\ from \in Nat
    BY <1>1
  <2>2. failed \in BOOLEAN
    BY <1>1, Zenon
  <2> QED BY <1>1, <1>4, <2>1, <2>2, Zenon DEF CallInv
<1>6. BytesOk /\ FineInv
  BY <1>1 DEF BytesOk, FineInv
<1>7. ShellInv
  BY <1>1, <1>4, Zenon DEF ShellInv, ChainInv, CatInv, ChainIsTrue, CatIsPrefix
<1> QED BY <1>2, <1>3, <1>5, <1>6, <1>7, Zenon DEF IInv, FileInv

\* A stuttering step preserves the invariant.
LEMMA StutterOk == IInv /\ UNCHANGED allVars => IInv'
<1> SUFFICES ASSUME IInv, UNCHANGED allVars PROVE IInv'
  BY Zenon
<1>1. /\ UNCHANGED vars /\ UNCHANGED disk
      /\ cmd' = cmd /\ chain' = chain /\ at' = at /\ shown' = shown /\ report' = report
      /\ pc' = pc /\ cursor' = cursor /\ size' = size /\ from' = from /\ out' = out
      /\ left' = left /\ status' = status /\ table' = table /\ bps' = bps
  BY Zenon DEF allVars, vars, shellVars, disk
<1>2. FileInv'
  BY <1>1, FileSame, Zenon DEF IInv
<1>3. ShellInv
  BY Zenon DEF IInv
<1>4. Chain' = Chain
  BY <1>1, DiskSame, Zenon
<1>5. ChainInv' /\ ChainIsTrue'
  <2>1. ChainInv'
    BY <1>1, <1>3, Zenon DEF ShellInv, ChainInv, Distinct, Follows, Link, Entry, Known,
       Meaning, IsEnd, IsBad, IsReserved
  <2>2. ChainIsTrue'
    <3>1. CASE cmd = "done" /\ chain # <<>>
      BY <1>1, <1>3, <3>1, ChainTrueIf, Zenon DEF ShellInv, ChainIsTrue, Distinct
    <3>2. CASE ~(cmd = "done" /\ chain # <<>>)
      BY <1>1, <3>2, Zenon DEF ChainIsTrue
    <3> QED BY <3>1, <3>2, Zenon
  <2> QED BY <2>1, <2>2, Zenon
<1>6. CatInv' /\ CatIsPrefix'
  BY <1>1, <1>3, <1>4, Zenon DEF ShellInv, CatInv, CatIsPrefix, FileByte
<1>7. ShellInv'
  BY <1>1, <1>3, <1>5, <1>6, Zenon DEF ShellInv
<1> QED BY <1>2, <1>7, Zenon DEF IInv

\* Every step preserves the invariant.
LEMMA NextOk == IInv /\ [SNext]_allVars => IInv'
BY OtherCallsOk, FileStepOk, CommandsOk, ChainRoundOk, CatAskOk, CatPrintOk, CatEndOk,
   PromptOk, StutterOk, Zenon DEF SNext, CommandSteps

\* The invariant holds in every reachable state.
LEMMA Inductive == SSpec => []IInv
BY InitOk, NextOk, PTL DEF SSpec

\* Every byte that fat_read_file hands out is the file's byte at that position,
\* on any volume, however damaged, and after any calls and failures; and the list
\* of visited clusters stays within its array.
THEOREM BytesAlwaysFile == SSpec => []BytesAreFile
<1>1. IInv => BytesAreFile
  <2> SUFFICES ASSUME IInv PROVE BytesAreFile
    BY Zenon
  <2>1. DiskOk /\ CursorInv /\ CallInv /\ BytesOk /\ size \in Nat
    BY Zenon DEF IInv, FileInv, DiskOk
  <2>2. /\ cursor \in Cursors /\ cursor.position \in Nat /\ cursor.position <= size
        /\ cursor.cluster \in Nat
    BY <2>1, Zenon DEF CursorInv, Cursors
  <2>3. Needed \in Nat /\ (size # 0 => Needed >= 1)
    BY <2>1, NeededIs, Zenon
  <2>4. /\ cursor.base \in 0 .. (ClusterSize * ClusterCount)
        /\ cursor.seen \in 0 .. Needed
        /\ Len(cursor.visited) <= MaxVisited
    <3>1. CASE pc # "closed" /\ size # 0
      <4>1. OnChain(cursor)
        BY <2>1, <3>1, Zenon DEF CursorInv
      <4>2. /\ cursor.seen \in Nat /\ cursor.seen <= Needed
            /\ Len(cursor.visited) = cursor.seen
        BY <2>1, <2>2, <4>1, OnChainIs, Zenon
      <4>3. cursor.base \in 0 .. (ClusterSize * ClusterCount)
        BY <2>1, <2>2, <4>1, SeenBound, Zenon
      <4>4. Len(cursor.visited) <= MaxVisited
        BY <4>1, <4>2, Zenon DEF OnChain
      <4>5. cursor.seen \in 0 .. Needed
        BY <2>3, <4>2
      <4> QED BY <4>3, <4>4, <4>5, Zenon
    <3>2. CASE ~(pc # "closed" /\ size # 0)
      <4>1. cursor = Rewound
        BY <2>1, <3>2, Zenon DEF CursorInv
      <4>2. /\ Rewound.base = 0 /\ Rewound.seen = IF size = 0 THEN 0 ELSE 1
            /\ Rewound.visited = IF size = 0 THEN <<>> ELSE <<first>>
        BY Zenon DEF Rewound
      <4>3. ClusterSize * ClusterCount \in Nat
        BY Geometry
      <4>4. Len(Rewound.visited) <= 1 /\ 1 <= MaxVisited /\ Len(Rewound.visited) \in Nat
        BY <4>2, Geometry
      <4>5. Len(Rewound.visited) <= MaxVisited
        BY <4>4, Geometry
      <4> QED BY <2>3, <4>1, <4>2, <4>3, <4>5
    <3> QED BY <3>1, <3>2, Zenon
  <2>5. TypeOK
    BY <2>1, <2>2, <2>4 DEF TypeOK, CallInv
  <2> QED BY <2>1, <2>5, Zenon DEF BytesAreFile, BytesOk
<1> QED BY <1>1, Inductive, PTL

\* The file code calls a file corrupt only if its chain is not that of its size,
\* a block read failed, the very end of whole clusters was sought, or the number of
\* one of its clusters is that of a marker.
THEOREM CorruptAlwaysReal == SSpec => []CorruptIsReal
<1>1. IInv => CorruptIsReal
  BY Zenon DEF IInv, FileInv, CallInv, FineInv, Fine, Intact, CorruptIsReal
<1> QED BY <1>1, Inductive, PTL

\* Both decoders of the table give the number that the format stores, for every
\* cluster, with the numbers of markers or not, and in each of the formats that the
\* numbers fit in: fat_read_fat_entry for every size of a sector, the shell's in
\* volumes whose sectors have the size it takes for granted.
THEOREM EntriesAlwaysDecoded == SSpec => []EntriesDecoded
<1>1. IInv => EntriesDecoded
  <2> SUFFICES ASSUME IInv, NEW t \in {12, 16, 32}, NEW c \in Used, Fits(t), Known(c)
               PROVE  /\ FatEntry(t, c) = {table[c]}
                      /\ BytesPerSector = ShellSector =>
                            ShellEntry(t, BytesPerSector, c) = {table[c]}
    BY Zenon DEF EntriesDecoded
  <2>1. DiskOk /\ t \in Types
    BY Zenon DEF IInv, FileInv, Types
  <2>2. c \in Nat /\ ~(c < 2)
    BY Geometry, FatFileAssumption DEF Valid
  <2>3. Raw(t, c) = table[c]
    BY <2>2, Zenon DEF Raw, Entry
  <2> QED BY <2>1, <2>2, <2>3, EntryIs, Zenon
<1> QED BY <1>1, Inductive, PTL

\* fatchain lists each cluster once; where the volume's sectors have the device's
\* size, in the order of the table, and what it says of the end is so.
THEOREM ChainAlwaysTrue == SSpec => []ChainIsTrue
<1>1. IInv => ChainIsTrue
  BY Zenon DEF IInv, ShellInv
<1> QED BY <1>1, Inductive, PTL

\* What fatcat prints is the file from its beginning, and what it says of how far
\* it came is so.
THEOREM CatAlwaysPrefix == SSpec => []CatIsPrefix
<1>1. IInv => CatIsPrefix
  BY Zenon DEF IInv, ShellInv
<1> QED BY <1>1, Inductive, PTL

\* A fat_read_file that returns success has copied all that was asked for and is
\* there.
THEOREM OkAlwaysComplete == SSpec => OkIsComplete
<1>1. IInv /\ [SNext]_allVars =>
        [pc = "read" /\ pc' = "open" /\ status' = "ok" => left' = 0]_vars
  <2> SUFFICES ASSUME IInv, SNext, pc = "read", pc' = "open", status' = "ok"
               PROVE  left' = 0
    BY Zenon DEF allVars, vars
  <2>1. ASSUME NEW r \in BOOLEAN, ReadRound(r) PROVE left' = 0
    BY <2>1, ReadRoundIs, Zenon DEF IInv
  <2>2. ~OtherCalls
    BY Zenon DEF OtherCalls, Calls, Open, Seek, Read
  <2>3. ~Commands
    BY Zenon DEF Commands, FatChain, FatEntryDump, FatCat, AtPrompt
  <2>4. ~CommandSteps
    BY Zenon DEF CommandSteps, ChainRound, CatAsk, Read, CatPrint, CatEnd, Prompt, vars
  <2>5. CASE Steps
    BY <2>1, <2>5, Zenon DEF Steps, SeekAdvance, SeekDone, ReadLost, ReadDataFails
  <2> QED BY <2>2, <2>3, <2>4, <2>5, Zenon DEF SNext
<1> QED BY <1>1, Inductive, PTL DEF SSpec, OkIsComplete
=============================================================================
