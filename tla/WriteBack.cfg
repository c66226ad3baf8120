SPECIFICATION Spec
CONSTANTS
    PageSize = 2
    MaxAreas = 3
    Pages = 2
    Frames = {1, 2, 3}
INVARIANTS
    WriteBackHome
