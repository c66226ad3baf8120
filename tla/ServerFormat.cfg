SPECIFICATION Spec
CONSTANTS
    Keys = {1, 2, 3}
    Values = {"e", "d"}
    None = "none"
    Size = 2
    Bins <- MCBins
    Clients = {c1, c2, c3}
    Requests <- MCFormat
    Backlog = 2
    MayDie = FALSE
INVARIANTS
    EncryptCarriedOut
