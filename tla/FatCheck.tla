------------------------------ MODULE FatCheck ------------------------------
(***************************************************************************)
(* What the shell says about a boot sector (drivers/keyboard.c): fatinfo   *)
(* prints the layout of the volume and fatcheck gives a verdict on it.     *)
(* Both go by keyboard_parse_fat_info, which was written apart from the    *)
(* fat_mount of FatDir, and neither changes anything; so they are          *)
(* functions of the boot sector.  TotalSectors, SectorsPerFat and          *)
(* RootDirSectors are the same expressions in both.                        *)
(***************************************************************************)
EXTENDS FatDir

-----------------------------------------------------------------------------
(* keyboard_parse_fat_info *)

ShellRootStart(b) == (b.reserved + b.fats * SectorsPerFat(b)) % Word
ShellDataStart(b) == (ShellRootStart(b) + RootDirSectors(b)) % Word

ShellClusters(b) ==
    IF TotalSectors(b) > ShellDataStart(b) /\ b.perCluster # 0
    THEN (TotalSectors(b) - ShellDataStart(b)) \div b.perCluster ELSE 0

\* The type by the name the formatter wrote into the boot sector and by the shape
\* of a FAT32 boot sector, and only then by the number of clusters; 0 if none.
ShellType(b) ==
    CASE \/ b.label = "FAT32"
         \/ b.entries = 0 /\ b.perFat16 = 0 /\ b.perFat32 # 0 -> 32
      [] b.label = "FAT12"    -> 12
      [] b.label = "FAT16"    -> 16
      [] OTHER -> IF ShellClusters(b) = 0 THEN 0 ELSE FatType(ShellClusters(b))

\* The result of keyboard_parse_fat_info
IsDetected(b) == b.bytes # 0 /\ ShellType(b) # 0

-----------------------------------------------------------------------------
(* fatinfo *)

\* The sector of the root directory that keyboard_fat_info_dump prints
ShownRoot(b) ==
    IF ShellType(b) = 32
    THEN (ShellDataStart(b)
          + (IF b.root >= 2 THEN b.root - 2 ELSE 0) * b.perCluster) % Word
    ELSE ShellRootStart(b)

-----------------------------------------------------------------------------
(* fatcheck *)

\* Mutant: the number of FATs is not looked at.
MutHasZeroNotFats(b) == 0 \in {b.reserved, SectorsPerFat(b), TotalSectors(b)}

\* The fields that must not be 0
HasZero(b) == 0 \in {b.reserved, b.fats, SectorsPerFat(b), TotalSectors(b)}

\* The issues that keyboard_fat_check reports; the zero fields count as one here.
Issues(b) ==
    {i \in {"signature", "bytes", "perCluster", "zero", "start", "clusters",
            "rootEntries", "rootCluster"} :
        CASE i = "signature"   -> ~b.signed
          [] i = "bytes"       -> b.bytes \notin {512, 1024, 2048, 4096}
          [] i = "perCluster"  -> b.perCluster \notin {2^k : k \in 0 .. 7}
          [] i = "zero"        -> HasZero(b)
          [] i = "start"       -> ShellDataStart(b) >= TotalSectors(b)
          [] i = "clusters"    -> ShellClusters(b) = 0
          [] i = "rootEntries" -> (ShellType(b) = 32) # (b.entries = 0)
          [] i = "rootCluster" -> ShellType(b) = 32 /\ b.root < 2}

\* "FAT layout looks consistent"
LooksConsistent(b) == IsDetected(b) /\ Issues(b) = {}

-----------------------------------------------------------------------------
SameType(b) == ShellType(b) = FatType(ClusterCount(b))

\* The two readings of a boot sector agree.  What looks consistent to fatcheck,
\* has the sectors of the device and the type that its clusters make it, and a root
\* cluster it can have, is mounted; what is mounted is recognised, and no issue but
\* one of the root directory is found with it; and then fatinfo shows the layout
\* that fat_mount goes by.  The types differ only if the boot sector names another,
\* or is of FAT32 shape with too few clusters; a volume of the latter kind looks
\* consistent and is mounted with an empty root directory.
CheckAgrees ==
    LET b == vol.boot
    IN  pc = "unmounted" =>
        /\ LooksConsistent(b) /\ b.bytes = DeviceSector =>
              /\ FieldsOk(b) /\ LayoutOk(b)
              /\ \/ Accepted(b)
                 \/ /\ FatType(ClusterCount(b)) = 32
                    /\ ~SameType(b) \/ b.perFat16 # 0 \/ b.root > ClusterCount(b) + 1
        /\ Accepted(b) =>
              /\ IsDetected(b)
              /\ Issues(b) \subseteq {"rootEntries", "rootCluster"}
              /\ ShellClusters(b) = ClusterCount(b)
              /\ (BootLba + ShellDataStart(b)) % Word = Layout(b).first_data_lba
              /\ SameType(b) =>
                    (BootLba + ShownRoot(b)) % Word =
                        IF ShellType(b) = 32
                        THEN (Layout(b).first_data_lba
                              + (RootCluster(b) - 2) * b.perCluster) % Word
                        ELSE Layout(b).first_root_dir_lba
              /\ \/ SameType(b)
                 \/ b.label # "none"
                 \/ b.entries = 0 /\ b.perFat16 = 0
=============================================================================
