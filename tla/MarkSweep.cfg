CONSTANTS
    MAX_ROOTS = 2
    HeapSize = 400
    Class = {0, 1}
SPECIFICATION FairSpec
INVARIANTS
    TypeOK
    NoDanglingReference
    CollectorInvariant
    RecursionBounded
    AbortOnlyWhenRestIsUsed
PROPERTIES
    CollectionExact
    CallsReturn
    ImplementsHeap
