SPECIFICATION Spec
CONSTANTS
    Word = 64
    Frame = 4
    MaxRanges = 3
    Entries <- MCEntries
    MaxEntries = 4
    LoadAddress = 4
    KernelEnd = 11
    HeapStart = 11
    HeapEnd = 18
    BitmapAt = 13
    InfoAt = 33
    InfoSize = 3
    TableEntries = 2
    DirEntries = 5
    MinIdentity = 16
INVARIANTS
    SearchIsExact
    OnlyGoodFrames
    IdentityMapped
    FramesHaveOneOwner
