CONSTANTS
    NumObjects = 3
    Pair = {1}
    Finalizer = {2}
    Weakref = {3}
    NoClear = {1}
    NUM_GENERATIONS = 2
    Threshold0 = 1
    ThresholdOld = 1
SPECIFICATION FairSpec
INVARIANTS
    CollectorInvariant
    TrashIsOutOfReach
PROPERTIES
    TrashIsFreed
