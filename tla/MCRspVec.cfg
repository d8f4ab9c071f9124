SPECIFICATION Spec
CONSTANTS
    ByteMod = 2
    BitAnd <- MCBitAnd
    NumVecs = 4
    NumGprs = 2
    GprMod = 131072
    VecInsns <- MCVecInsns
    Starts <- MCStarts
    MaxSteps = 1
INVARIANTS
    TypeOK
    DoubleAdd
    ProductChain
    VsarReadsWholeAccumulator
    FlagsRoundTrip
PROPERTIES
    ImplementsCore
