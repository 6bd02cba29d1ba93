CONSTANTS
    QueueMax = 2
    MaxKeys = 1
    MaxLost = 1
SPECIFICATION Spec
INVARIANTS
    SetupAgrees
    FramingKept
PROPERTIES
    KeyboardServed
\* A set-up that fails after the mouse began to report leaves the mouse's bytes
\* in the controller for good.
CHECK_DEADLOCK FALSE
