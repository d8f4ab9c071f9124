SPECIFICATION FairCallSpec
CONSTANTS
    Programs <- MCPrograms
    MaxAddr = 28
    Ra = 31
    Window = 4
    MaxCases = 3
    Regs = {0, 1, 2, 3, 31}
    Modulus = 32
    RamSize = 8
    StartRegs <- MCStartRegs
    StartRams <- MCStartRams
INVARIANTS
    TypeOK
    ConventionSuffices
    EarlyLinkIsDead
PROPERTIES
    ImplementsCore
    TaskEnds
