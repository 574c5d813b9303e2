CONSTANTS
    MAX_ROOTS = 1
    HeapSize = 400
    Class = {0, 1}
    MaxRooted = 2
SPECIFICATION FairSpec
INVARIANTS
    TypeOK
    CountsExact
    HeldInUse
    OnlyCyclesLeak
PROPERTIES
    OperationsReturn
    ImplementsHeap
