SPECIFICATION FairSpec
CONSTANTS
    t1 = t1
    t2 = t2
    t3 = t3
    k1 = k1
    Tasks = {t1, t2, t3}
    Keys = {k1, k2}
    Values <- OneValue
    Bitsets <- AnyBit
    NoKey = NoKey
    Timer = timer
    Mixes <- AllMixes
    MaxWaits = 2
INVARIANTS TypeOK WaiterIsQueued OneEntryPerWait TimeoutIsReal
PROPERTY TimedWaitEnds
