SPECIFICATION Spec
CONSTANTS
    BankSize = 6
    Grain = 2
    DramSize = 12
    MaxRows = 3
    GenMod = 4
    Signals = {0, 1}
    Byte <- MCByte
    MemAddrs = {3, 4, 6, 11}
    DramAddrs = {2, 5, 11}
    Lens = {0, 3, 4}
    Counts = {0, 1, 2}
    Skips = {0, 1, 2}
    InitMem <- MCInitMem
    InitDram <- MCInitDram
    MaxWrites = 3
INVARIANTS
    TypeOK
    ReportsReplacement
    KeepsToItsBank
    DeliversEveryRow
