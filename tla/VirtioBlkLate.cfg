SPECIFICATION BlkSpec
CONSTANTS
    DiskSectors = 2
    MaxCount = 1
    IndexMod = 4
    Limit = 1
    Promptness = {FALSE}
INVARIANTS
    ReadDelivers
