CONSTANTS
    Nodes <- MCNodes
    Inputs <- MCInputs
    Names <- MCNames
    Modules <- MCModules
SPECIFICATION MCSpec
INVARIANTS
    ToolsTypeOK
    AddedForCause
    NoneMissed
    ThirdLines
    Instrumented
    NoCrash
PROPERTIES
    ParserEnds
    PassEnds
