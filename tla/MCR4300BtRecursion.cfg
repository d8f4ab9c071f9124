SPECIFICATION FairCallSpec
CONSTANTS
    Programs <- Recursion
    MaxAddr = 28
    Ra = 31
    Window = 4
    MaxCases = 3
    Regs = {0, 1, 2, 3, 31}
    Modulus = 32
    RamSize = 8
    StartRegs <- MCStartRegs
    StartRams <- MCStartRams
PROPERTY
    ImplementsCore
