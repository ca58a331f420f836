CONSTANTS
    b1 = b1
    b2 = b2
    b3 = b3
    Operations = {b1, b2, b3}
    MaxActive = 1
    MaxWaiting = 2
    MaxDepth = 2
SPECIFICATION FairSpec
INVARIANTS SlotsFollowTasks NoLostWakeup CleanShutdown
PROPERTIES NoOvertaking CleanupUndisturbed OperationEnds
CHECK_DEADLOCK FALSE
