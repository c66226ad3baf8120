SPECIFICATION Spec
CONSTANTS
    Procs = {p1, p2}
    Levels = 2
    Cpus = 2
    CallDepth = 2
    SbufDepth = 2
    Fill = fill
SYMMETRY Symmetry
INVARIANTS
    SharedTypeOK
    Paired
    OwnFrame
ACTION_CONSTRAINT RaceBound
