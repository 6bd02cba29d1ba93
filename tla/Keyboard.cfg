SPECIFICATION KFairSpec
CONSTANTS
    Size = 3
    Byte <- Scancodes
    NoByte = none
    Word = 1
    Modifiers = {ctrl}
    CapsLock = capslock
    Extended = {ctrl}
    Prefix = e0
    NoKey = nokey
    MaxHeld = 1
INVARIANTS
    LossesHeal
PROPERTIES
    ImplementsFairFifo
