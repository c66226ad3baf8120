SPECIFICATION Spec
CONSTANTS
    PageSize = 2
    MaxAreas = 3
    Pages = 4
    Frames = {1, 2, 3}
INVARIANTS
    AreasTypeOK
    RangeExact
PROPERTIES
    WalkEnds
