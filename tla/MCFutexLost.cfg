SPECIFICATION Spec
CONSTANTS
    t1 = t1
    t2 = t2
    t3 = t3
    k1 = k1
    Tasks = {t1, t2}
    Keys = {k1}
    Values <- TwoValues
    Bitsets <- AnyBit
    NoKey = NoKey
    Timer = timer
    Mixes <- Wakeups
    MaxWaits = 1
INVARIANT NoLostWakeup
