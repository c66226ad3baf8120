SPECIFICATION FairSpec
CONSTANTS
    MaxAddr = 10
    Data <- OddData
    Fill = 30
    Sites <- OddSites
    InitMem <- OddInitMem
    Stores <- OddStores
    Symbols <- MCSymbols
    Slack = 1
    CallDepth = 3
    SbufDepth = 2
    SbufCap = 2
    IntLimit = 3
    FreshLists = FALSE
    StrayDecrypts = TRUE
    AllocFails = TRUE
INVARIANTS
    Concealment
PROPERTIES
    Transparent
    SyscallReturns
