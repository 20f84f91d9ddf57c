SPECIFICATION FairSpec
CONSTANTS
    Tasks = {1, 2, 3}
    Resources = {1, 2}
    Inodes = {1}
    None = None
    Scenarios <- All
INVARIANTS TypeOK GuardComesWithToken SectionsExclude HeldAsEntered ExitClears NoLostWaiter
PROPERTIES FifoGrants AllServed
CHECK_DEADLOCK FALSE
