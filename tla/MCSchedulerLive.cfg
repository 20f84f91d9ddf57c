SPECIFICATION FairSpec
CONSTANTS
    HartCount = 2
    Tasks <- MCTasks3
    BootTasks <- MCBoot2
    Masks <- MCNoMasks
    Script <- MCCrowd
    NoTask = NoTask
    t1 = t1
    t2 = t2
    t3 = t3
INVARIANTS
    OneHartPerTask
    WorkConserving
PROPERTIES
    ReadyEventuallyRuns
