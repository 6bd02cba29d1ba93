CONSTANTS
    Volumes <- MCVolumes
    Paths <- MCPaths
    DeviceSector = 512
    Word = 65536
    Fat12Limit = 2
    Fat16Limit = 4
    MaxVisited = 2
    MaxSlots = 2
    FullTexts = {"F"}
SPECIFICATION Spec
INVARIANTS
    LookupIsFirstMatch
    ListingIsDirectory
    NamesAreOwn
    ReadsInItsArea
    CheckAgrees
