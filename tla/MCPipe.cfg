SPECIFICATION FairSpec
CONSTANTS
    Tasks = {1, 2, 3}
    Pipes = {1, 2}
    None = None
    SmallLength = 1
    Scenarios <- All
INVARIANTS TypeOK WithinCapacity BytesCounted NoMissedHangup NoLostWakeup
PROPERTIES PipeIsChannel Terminates
CHECK_DEADLOCK FALSE
