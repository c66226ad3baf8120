SPECIFICATION Spec
CONSTANTS
    MaxAddr = 10
    Data <- OddData
    Fill = 30
    Sites <- ChainSites
    InitMem <- OddInitMem
    Stores = {}
    Symbols <- ChainSymbols
    Slack = 1
    CallDepth = 4
    SbufDepth = 1
    SbufCap = 2
    IntLimit = 3
    FreshLists = TRUE
    StrayDecrypts = FALSE
    AllocFails = FALSE
INVARIANTS
    DeclaredDepth
