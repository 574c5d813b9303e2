CONSTANTS
    Class <- TestClass
    MAX_ROOTS = 2
    MAX_HEAP_SIZE = 225
    HeapSize = 300
    MaxCollections = 2
    MaxObjects = 3
SPECIFICATION FairSpec
INVARIANTS
    TypeOK
    CopyInvariant
PROPERTIES
    CollectionExact
    CallsReturn
    ImplementsHeap
