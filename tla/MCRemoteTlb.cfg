SPECIFICATION FairSpec
CONSTANTS
    s1 = s1
    HartCount = 2
    Spaces = {s1}
    Kernel = Kernel
    FlushOnActivate = TRUE
    Operations <- AllOperations
    MaxUpdates = 3
INVARIANTS NoStaleUser Inv
PROPERTY UpdateCompletes
