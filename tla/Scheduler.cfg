SPECIFICATION FairSpec
CONSTANTS
    MaxThreads = 3
    Timeslice = 2
    Word = 2
INVARIANTS
    CurrentIsExecuting
    NoForgottenTask
    DispatchesMatched
PROPERTIES
    KernelComesBack
    ImplementsFairly
