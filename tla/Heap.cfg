SPECIFICATION Spec
CONSTANTS
    Word = 128
    Align = 2
    Header = 4
    Start = 2
    HeapSize = 30
    Sizes = {0, 1, 5, 126}
    TestSizes <- MCTestSizes
INVARIANTS
    AlwaysIntact
    LiveIsPrivate
    FailsOnlyWhenFull
PROPERTIES
    SelfTestIsNeutral
