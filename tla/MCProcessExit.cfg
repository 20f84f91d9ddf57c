CONSTANTS
    None = None
    Tasks = {11, 21, 22, 23, 31, 41}
    Procs = {1, 2, 3, 4}
    ProcOf <- Owner
    Initproc = 1
    Scenarios <- Passing
SPECIFICATION FairSpec
INVARIANTS TypeOK NoPanic TornDownWhenDead ExitIsFinished LinkedToParent ExitNotMissed
PROPERTY GroupDies
CHECK_DEADLOCK FALSE
