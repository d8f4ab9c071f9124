SPECIFICATION FairSpec
CONSTANTS
    NumWords = 8
    MaxCallDepth = 1
    Images <- MCSlotImages
    NumRegs = 3
    NumVals = 8
    GenMod = 3
    ImemBank <- MCImemBank
    DmaImage <- MCSlotDmaImage
    DmaMem <- MCDmaMem
    DmaDram <- MCDmaDram
    DmaRows <- MCDmaRows
    HashOf <- MCSlotHashOf
    MaxTasks = 3
    Entries = {0, 2, 7}
    HintSets <- MCHintSets
PROPERTY
    ImplementsCore
