SPECIFICATION FairSpec
CONSTANTS
    Programs <- MCPrograms
    MaxAddr = 9
    Ra = 31
    Window = 4
    MaxCases = 3
INVARIANTS
    TypeOK
    GraphIsReachability
    EdgesAgreeWithCode
    BlocksOverlapOnlyInSlots
    FallsOutOnlyFromSlots
    OpenJumpsAreReported
PROPERTY
    Terminates
