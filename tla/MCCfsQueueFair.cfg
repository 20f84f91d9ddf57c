SPECIFICATION Spec
CONSTANTS
    Tasks <- MCTasks
    Harts = {0, 1}
    NoTask = NoTask
    Weight <- MCWeight
    Affinity <- MCPinned
    MaxSlice = 3
    MaxVruntime = 8
INVARIANTS BoundedOvertaking BaseIsFloor Inv
