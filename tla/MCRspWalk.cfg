SPECIFICATION FairSpec
CONSTANTS
    NumWords = 5
    MaxCallDepth = 2
    Images <- MCImages
    RootSets <- MCRootSets
INVARIANTS
    TypeOK
    CompileSucceeds
    WalkIsReachability
    DispatchIsComplete
    EmitsWhatItWalked
PROPERTY
    Terminates
