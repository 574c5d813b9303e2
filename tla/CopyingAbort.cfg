CONSTANTS
    Class <- TestClass
    MAX_ROOTS = 2
    MAX_HEAP_SIZE = 225
    HeapSize = 300
    MaxCollections = 1
    MaxObjects = 3
SPECIFICATION Spec
INVARIANTS
    AbortOnlyWhenFull
