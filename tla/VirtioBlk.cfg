SPECIFICATION BlkFairSpec
CONSTANTS
    DiskSectors = 2
    MaxCount = 2
    IndexMod = 3
    Limit = 1
    Promptness = {TRUE, FALSE}
INVARIANTS
    PromptReadDelivers
    Quiescent
PROPERTIES
    ReadReturns
