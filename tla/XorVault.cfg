SPECIFICATION Spec
CONSTANTS
    MaxAddr = 6
    Word = 2
    Requests <- MCRequests
    AllocFails = TRUE
INVARIANTS
    XorTypeOK
    Masked
PROPERTIES
    CallsReturn
