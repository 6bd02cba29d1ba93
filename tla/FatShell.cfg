SPECIFICATION SFairSpec
CONSTANTS
    ClusterCount = 4084
    BytesPerSector = 4
    SectorsPerCluster = 2
    MaxVisited = 2
    Word = 65536
    MarkFrom = 4080
    Used = {2, 3, 4085}
    Values = {0, 1, 2, 3, 4085, 4087, 4088}
    FileSizes = {0, 12, 16, 17, 65530}
    Firsts = {2, 4085, 4086}
    Offsets = {0, 9, 16, 18}
    Lengths = {0, 7}
    FatType = 12
    Reserved = 1
    ShellSector = 4
    VolumeSizes = {4, 8}
    Strays = {3, 4087}
    MaxPreview = 3
    CatChunk = 7
    CatMax = 12
INVARIANTS
    BytesAreFile
    CorruptIsReal
    EntriesDecoded
    ChainIsTrue
    CatIsPrefix
PROPERTIES
    OkIsComplete
    CommandsReturn
