CONSTANTS
    Class <- TestClass
    MAX_ROOTS = 2
    MAX_HEAP_SIZE = 112
    HeapSize = 200
    MaxObjects = 3
SPECIFICATION Spec
INVARIANTS
    MovesEveryObject
