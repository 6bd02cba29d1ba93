------------------------------ MODULE FatShell -----------------------------
(***************************************************************************)
(* The shell commands that look into a FAT volume, on top of FatFile: the  *)
(* table as bytes on the disk and the two pieces of code that decode an    *)
(* entry of it (fat_read_fat_entry for the file code,                      *)
(* keyboard_fat_entry_read for the shell), the walks of fatentry and       *)
(* fatchain, and fatcat, which prints a file through fat_open_file and     *)
(* fat_read_file in chunks.                                                *)
(*                                                                         *)
(* A command runs while no other caller has a file open, and what it       *)
(* leaves behind is its report.  fatcat mounts the volume; fatentry and    *)
(* fatchain read its boot sector themselves and may be pointed at a volume *)
(* that fat_mount refuses, with the table of this one but sectors of       *)
(* another size than the device's.                                         *)
(***************************************************************************)
EXTENDS FatFile

CONSTANTS
    FatType,      \* 12, 16 or 32: the type of the volume the commands find
    Reserved,     \* reserved sectors: the table starts after so many
    ShellSector,  \* the size of a sector that the shell takes for granted: 512
    VolumeSizes,  \* the sizes of a sector by the boot sectors considered
    Strays,       \* bound: the numbers met where the code reads no table
    MaxPreview,   \* length of the array chain: 64
    CatChunk,     \* KEYBOARD_FAT_CAT_CHUNK_BYTES: 256
    CatMax        \* KEYBOARD_FAT_CAT_MAX_BYTES: 4096

ASSUME FatShellAssumption ==
    /\ FatType \in {12, 16, 32}
    /\ BytesPerSector % 4 = 0
    /\ Reserved \in Nat /\ ShellSector \in Nat \ {0}
    /\ VolumeSizes \subseteq Nat \ {0}
    /\ Strays \subseteq Nat /\ Strays # {}
    /\ {MaxPreview, CatChunk, CatMax} \subseteq Nat \ {0}

VARIABLES
    cmd,     \* the command at work, or "none"; "done" when it has reported
    chain,   \* fatchain: the clusters listed
    at,      \* fatchain: cluster
    bps,     \* fatchain: info.bytes_per_sector
    shown,   \* fatcat: the bytes printed
    report   \* the last line of the command

shellVars == <<cmd, chain, at, bps, shown, report>>
allVars   == <<vars, shellVars>>

-----------------------------------------------------------------------------
(* The table on the disk, by the format *)

\* The largest value of an entry; the markers are the sixteen largest.
Top(t) == CASE t = 12 -> 4095 [] t = 16 -> 65535 [] t = 32 -> 268435455

\* The values fit into entries of type t.
Fits(t) == Values \subseteq 0 .. Top(t)

ASSUME MarkersAssumption == Fits(FatType) /\ MarkFrom = Top(FatType) - 15

\* The number an entry is stored as.  Clusters 0 and 1 hold markers.
Raw(t, c) == IF c < 2 THEN Top(t) ELSE Entry(c)

\* Entries lie one after the other, the low four bits first.  The top four bits
\* of an entry of 32 bits are not part of its value.
Nibble(t, n) ==
    LET c == n \div (t \div 4)
        k == n % (t \div 4)
    IN  IF k = 7 THEN c % 16 ELSE (Raw(t, c) \div 16^k) % 16

\* Byte i of the table, and whether it is one
InTable(t, i)  == i >= 0 /\ 2 * i < (ClusterCount + 2) * (t \div 4)
DiskByte(t, i) == Nibble(t, 2 * i) + 16 * Nibble(t, 2 * i + 1)

-----------------------------------------------------------------------------
(* Decoding an entry *)

\* fat_offset; it wraps.
FatOffset(t, c) ==
    (CASE t = 12 -> c + (c \div 2)
       [] t = 16 -> c * 2
       [] t = 32 -> c * 4) % Word

\* Mutant: an entry that ends in the next sector is read from one.
MutStraddlesNever(t, o) == FALSE

\* fat_read_fat_entry: sectors_to_read is 2.
Straddles(t, o) ==
    \/ t = 12 /\ o = BytesPerSector - 1
    \/ t = 16 /\ o > BytesPerSector - 2
    \/ t = 32 /\ o > BytesPerSector - 4

\* keyboard_fat_entry_read: the offsets are 511 and 509, whatever the volume says.
ShellStraddles(t, o) ==
    \/ t \in {12, 16} /\ o >= ShellSector - 1
    \/ t = 32 /\ o >= ShellSector - 3

\* The code looks for offset o of the table in a volume with sectors of b bytes, on
\* a device with sectors of d, and reads n of these into its buffer.  Where the
\* table starts, the volume says: what the code takes for the byte i places on is
\* this byte of the table.
TablePlace(b, d, o, i) == (Reserved + (o \div b)) * d + (o % b) + i - Reserved * b

\* It is one of the buffer's, and of the table's.  If not, it may be anything.
InBuffer(t, b, d, n, o, i) ==
    (o % b) + i < n * d /\ InTable(t, TablePlace(b, d, o, i))

\* The value in the buffer's bytes b0, b1, b2, b3.
Unpacked(t, c, b0, b1, b2, b3) ==
    CASE t = 12 -> IF c % 2 = 0 THEN (b0 + 256 * b1) % 4096
                   ELSE ((b0 + 256 * b1) \div 16) % 4096
      [] t = 16 -> b0 + 256 * b1
      [] t = 32 -> b0 + 256 * b1 + 65536 * b2 + 16777216 * (b3 % 16)

Width(t) == IF t = 32 THEN 4 ELSE 2

\* The numbers that the code may come to.
Decoded(t, c, b, d, n) ==
    LET o    == FatOffset(t, c)
        x(i) == DiskByte(t, TablePlace(b, d, o, i))
    IN  IF \A i \in 0 .. (Width(t) - 1) : InBuffer(t, b, d, n, o, i)
        THEN {Unpacked(t, c, x(0), x(1), x(2), x(3))} ELSE Strays

Sectors(two) == IF two THEN 2 ELSE 1

\* fat_read_fat_entry: fat_mount has made sure that the volume's sectors are the
\* device's.
FatEntry(t, c) ==
    Decoded(t, c, BytesPerSector, BytesPerSector,
            Sectors(Straddles(t, FatOffset(t, c) % BytesPerSector)))

\* keyboard_fat_entry_read: the device's sectors have 512 bytes, and the volume's
\* as many as its boot sector says.
ShellEntry(t, b, c) ==
    Decoded(t, c, b, ShellSector,
            Sectors(ShellStraddles(t, FatOffset(t, c) % b)))

-----------------------------------------------------------------------------
(* The commands *)

SInit ==
    /\ Init
    /\ cmd = "none" /\ chain = <<>> /\ at = 0 /\ bps = 0 /\ shown = <<>>
    /\ report = "none"

\* At the prompt, with no file open.
AtPrompt == cmd = "none" /\ pc = "closed" /\ status = "none"

\* The command ends with line r.
Reports(r) == cmd' = "done" /\ report' = r

\* What fatentry and fatchain say of an entry's value.
Meaning(v) ==
    CASE v = 0         -> "free"
      [] IsBad(v)      -> "bad"
      [] IsEnd(v)      -> "end"
      [] IsReserved(v) -> "reserved"
      [] OTHER         -> "next"

\* keyboard_read_block_sector_512: the block reads work and the device's sectors
\* have 512 bytes.
Reads(readable) == readable /\ BytesPerSector = ShellSector

\* keyboard_fat_entry_dump
FatEntryDump(c, b, readable) ==
    /\ AtPrompt
    /\ at' = c
    /\ IF Reads(readable)
       THEN \E v \in ShellEntry(FatType, b, c) : Reports(Meaning(v))
       ELSE Reports("unavailable")
    /\ UNCHANGED <<vars, chain, bps, shown>>

\* keyboard_fat_chain_dump
FatChain(start, b) ==
    /\ AtPrompt
    /\ at' = start
    /\ bps' = b
    /\ IF start < 2 THEN Reports("refused")
       ELSE cmd' = "chain" /\ UNCHANGED report
    /\ UNCHANGED <<vars, chain, shown>>

\* Mutant: a cluster that was listed already is not noticed.
MutListedNever(c) == FALSE

Listed(c) == \E i \in 1 .. Len(chain) : chain[i] = c

\* A round of its loop; readable: the block reads work
ChainRound(readable) ==
    /\ cmd = "chain"
    /\ IF Len(chain) >= MaxPreview
       THEN readable /\ Reports("too long") /\ UNCHANGED <<chain, at>>
       ELSE IF Listed(at)
       THEN readable /\ Reports("loop") /\ UNCHANGED <<chain, at>>
       ELSE /\ chain' = Append(chain, at)
            /\ IF ~Reads(readable) THEN Reports("unavailable") /\ UNCHANGED at
               ELSE \E v \in ShellEntry(FatType, bps, at) :
                        IF Meaning(v) # "next" THEN Reports(Meaning(v)) /\ UNCHANGED at
                        ELSE at' = v /\ UNCHANGED <<cmd, report>>
    /\ UNCHANGED <<vars, bps, shown>>

\* keyboard_fat_cat_command, up to the open file
FatCat ==
    /\ AtPrompt
    /\ Open
    /\ IF status' # "ok" THEN Reports(status') ELSE cmd' = "cat" /\ UNCHANGED report
    /\ UNCHANGED <<chain, at, bps, shown>>

\* The loop asks for the next chunk.
CatAsk ==
    /\ cmd = "cat"
    /\ Len(shown) < CatMax
    /\ Read(Smaller(CatMax - Len(shown), CatChunk))
    /\ cmd' = "print"
    /\ UNCHANGED <<chain, at, bps, shown, report>>

\* Mutant: the loop does not end where a read gives nothing more.
MutCatPrintGoesOn(text) ==
    /\ cmd = "print"
    /\ pc = "open"
    /\ out = <<>> => text
    /\ IF ~text THEN Reports("binary") /\ UNCHANGED shown
       ELSE /\ shown' = shown \o out
            /\ IF status # "ok" THEN Reports(status)
               ELSE cmd' = "cat" /\ UNCHANGED report
    /\ UNCHANGED <<vars, chain, at, bps>>

\* Mutant: what came with an error is not printed.
MutCatPrintDropsRest(text) ==
    /\ cmd = "print"
    /\ pc = "open"
    /\ out = <<>> => text
    /\ IF ~text THEN Reports("binary") /\ UNCHANGED shown
       ELSE /\ shown' = IF status = "ok" THEN shown \o out ELSE shown
            /\ IF status # "ok" THEN Reports(status)
               ELSE cmd' = (IF out = <<>> THEN "end" ELSE "cat") /\ UNCHANGED report
    /\ UNCHANGED <<vars, chain, at, bps>>

\* The chunk, and what came of it before an error, is printed, if it looks like
\* text.
CatPrint(text) ==
    /\ cmd = "print"
    /\ pc = "open"
    /\ out = <<>> => text
    /\ IF ~text THEN Reports("binary") /\ UNCHANGED shown
       ELSE /\ shown' = shown \o out
            /\ IF status # "ok" THEN Reports(status)
               ELSE cmd' = (IF out = <<>> THEN "end" ELSE "cat") /\ UNCHANGED report
    /\ UNCHANGED <<vars, chain, at, bps>>

\* After the loop.
CatEnd ==
    /\ cmd = "end" \/ (cmd = "cat" /\ Len(shown) >= CatMax)
    /\ Reports(IF cursor.position < size THEN "truncated" ELSE "whole")
    /\ UNCHANGED <<vars, chain, at, bps, shown>>

\* Back to the prompt: the command's file and buffers were on its stack.
Prompt ==
    /\ cmd = "done"
    /\ cmd' = "none" /\ chain' = <<>> /\ at' = 0 /\ bps' = 0 /\ shown' = <<>>
    /\ report' = "none"
    /\ cursor' = Rewound /\ pc' = "closed" /\ left' = 0 /\ goal' = 0
    /\ out' = <<>> /\ from' = 0 /\ status' = "none" /\ failed' = FALSE
    /\ UNCHANGED disk

\* Any other caller of the file code.
OtherCalls == cmd = "none" /\ Calls /\ UNCHANGED shellVars

Commands ==
    \/ \E c \in Firsts \cup {1}, b \in VolumeSizes : FatChain(c, b)
    \/ \E c \in Firsts \cup {1}, b \in VolumeSizes, readable \in BOOLEAN :
          FatEntryDump(c, b, readable)
    \/ FatCat

CommandSteps ==
    \/ \E readable \in BOOLEAN : ChainRound(readable)
    \/ CatAsk
    \/ \E text \in BOOLEAN : CatPrint(text)
    \/ CatEnd
    \/ Prompt

SNext ==
    \/ OtherCalls
    \/ Steps /\ UNCHANGED shellVars
    \/ Commands
    \/ CommandSteps

SSpec == SInit /\ [][SNext]_allVars

\* A command that has begun goes on, as the calls of FatFile do.
ShellWorking ==
    \/ Working /\ UNCHANGED shellVars
    \/ ChainRound(TRUE) \/ CatAsk \/ CatPrint(TRUE) \/ CatEnd

SFairSpec == SSpec /\ WF_allVars(ShellWorking)

-----------------------------------------------------------------------------
\* The entry of c is in the table, and its offset does not wrap.
Known(c) == c < ClusterCount + 2 /\ 4 * c < Word

\* Both pieces of code find in the bytes of the table, of whatever type its
\* numbers fit in, the number the format puts there, also one that begins in one
\* sector and ends in the next: fat_read_fat_entry in every volume that is
\* mounted, the shell in every one that could be and that it can read, whose
\* sectors have the device's size and 512 bytes.
EntriesDecoded ==
    AtPrompt => \A t \in {12, 16, 32}, c \in Used : Fits(t) /\ Known(c) =>
                   /\ FatEntry(t, c) = {table[c]}
                   /\ \A b \in VolumeSizes : b = BytesPerSector /\ b = ShellSector =>
                        ShellEntry(t, b, c) = {table[c]}

\* What follows cluster c by the table.
Link(c) == IF c < 2 THEN Top(FatType) ELSE Entry(c)

\* Line r is true of the list s, when next follows its last cluster.
TrueReport(r, s, next) ==
    CASE r = "end"      -> IsEnd(next)
      [] r = "bad"      -> IsBad(next)
      [] r = "reserved" -> IsReserved(next)
      [] r = "free"     -> next = 0
      [] r = "loop"     -> \E i \in 1 .. Len(s) : s[i] = next
      [] r = "too long" -> Len(s) = MaxPreview /\ Meaning(next) = "next"
      [] OTHER          -> r = "unavailable"

\* fatchain lists no cluster twice.  In a volume whose sectors have the device's
\* size it lists the clusters of the chain in their order and says truly how it
\* ends: with the marker that is there, with a cluster it has listed already, or
\* beyond what it can list.
ChainIsTrue ==
    cmd = "done" /\ chain # <<>> =>
        /\ \A i, j \in 1 .. Len(chain) : i # j => chain[i] # chain[j]
        /\ bps = BytesPerSector =>
              \A i \in 1 .. Len(chain) : Known(chain[i]) =>
                  IF i < Len(chain) THEN Link(chain[i]) = chain[i + 1]
                  ELSE TrueReport(report, chain, Link(chain[i]))

\* fatcat prints the file from its beginning, without a gap, and says truly how
\* far it came: a report of the whole file means all of it, a truncated one the
\* first CatMax bytes, and on an error all that was read before it is shown.
CatIsPrefix ==
    cmd = "done" /\ chain = <<>> =>
        /\ \A i \in 1 .. Len(shown) : shown[i] = FileByte(i - 1)
        /\ report = "whole" => Len(shown) = size
        /\ report = "truncated" => Len(shown) = CatMax /\ CatMax < size
        /\ report \in {"corrupt", "io"} => Len(shown) = cursor.position

\* A call or a command has begun and not come back.
Busy == pc \in {"seek", "read"} \/ cmd \in {"chain", "cat", "print", "end"}

\* Every call of the file code returns and every command comes back to the
\* prompt, whatever loops the table holds.
CommandsReturn == Busy ~> ~Busy
=============================================================================
