CONSTANTS
    None = None
    Tasks = {11, 21, 22}
    Procs = {1, 2}
    ProcOf <- Owner
    Initproc = 1
    Scenarios <- Early
SPECIFICATION Spec
INVARIANT ReapedAfterTeardown
CHECK_DEADLOCK FALSE
