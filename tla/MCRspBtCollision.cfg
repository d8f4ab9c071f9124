SPECIFICATION FairSpec
CONSTANTS
    NumWords = 8
    MaxCallDepth = 1
    Images <- MCImages
    NumRegs = 3
    NumVals = 8
    GenMod = 3
    ImemBank <- MCImemBank
    DmaImage <- MCDmaImage
    DmaMem <- MCDmaMem
    DmaDram <- MCDmaDram
    DmaRows <- MCDmaRows
    HashOf <- MCCollidingHashOf
    MaxTasks = 3
    Entries = {0, 2, 7}
    HintSets <- MCHintSets
INVARIANT
    RunsCurrentImage
