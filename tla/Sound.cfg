SPECIFICATION SSpec
CONSTANTS
    Slots = 2
    Functions = 2
    Configs <- MCConfigs
    Hz = 100
    Word = 16
    StartTicks = {0, 14}
    BeepMs = 25
    Melody <- MCMelody
    Alert <- MCAlert
    ToneMs = 25
    MarginMs = 15
    GuardMs = 20
    PlayTimes = {10, 18, 40}
    MaxHeld = 40
CHECK_DEADLOCK FALSE
INVARIANTS
    BoundToFirstMatch
    RegistryAgrees
    Quiet
PROPERTIES
    SoundsAreWhole
    SoundsEnd
