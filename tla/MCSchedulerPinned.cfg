SPECIFICATION Spec
CONSTANTS
    HartCount = 2
    Tasks <- MCTasks2
    BootTasks <- MCBoot1
    Masks <- MCPins
    Script <- MCFree
    NoTask = NoTask
    t1 = t1
    t2 = t2
    t3 = t3
INVARIANTS
    TypeOK
    QueueSound
    NoLostReady
    RunningIsHeld
