SPECIFICATION FairSpec
CONSTANTS
    MaxAddr = 12
    Data <- MCData
    Fill = 30
    Sites <- MCSites
    InitMem <- MCInitMem
    Stores <- MCStores
    Symbols <- MCSymbols
    Slack = 1
    CallDepth = 3
    SbufDepth = 2
    SbufCap = 2
    IntLimit = 3
    FreshLists = TRUE
    StrayDecrypts = FALSE
    AllocFails = FALSE
INVARIANTS
    TypeOK
    Concealment
    GrantExact
    NoFault
PROPERTIES
    Transparent
    DecryptPopsOwn
    SyscallReturns
