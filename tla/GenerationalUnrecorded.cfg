CONSTANTS
    Class <- TestClass
    MAX_ROOTS = 2
    MAX_AGE = 1
    MAX_HEAP_SIZE = 10000
    NODE_SIZE = 2400
    HeapSize = 6000
    MaxCollections = 3
    MaxObjects = 3
SPECIFICATION Spec
INVARIANTS
    EveryOldToYoungIsRecorded
