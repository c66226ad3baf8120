SPECIFICATION BothSpec
CONSTANTS
    Executables <- MCExecutables
    Ips = {0, 1, 2, 3, 4}
    InitCap = 1
    AllocFails = TRUE
INVARIANTS
    SymbolTypeOK
    MapIsPrefix
    HeapOwned
    ListShowsMap
PROPERTIES
    Resolves
    Loads
    ListerEnds
