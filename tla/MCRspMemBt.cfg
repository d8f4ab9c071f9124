SPECIFICATION Spec
CONSTANTS
    ByteMod = 32
    NumLanes = 2
    DmemSize = 8
    NumGprs = 2
    NumVecs = 2
    FixedSizes <- MCFixedSizes
    Offsets <- MCOffsets
    Values <- MCValues
    InitMems <- MCInitMems
    InitGprs <- MCInitGprs
    InitVecs <- MCInitVecs
    MaxSteps = 2
INVARIANTS
    TypeOK
    UnalignedRoundTrip
    PackedRoundTrip
PROPERTIES
    ImplementsCore
    ImemUntouched
