SPECIFICATION Spec
CONSTANTS
    s1 = s1
    HartCount = 2
    Spaces = {s1}
    Kernel = Kernel
    FlushOnActivate = FALSE
    Operations <- WithVma
    MaxUpdates = 1
INVARIANT NoStaleUser
