CONSTANTS
    Request = {10, 40, 60}
    TINY_HEAP_SIZE = 120
    HEAP_LIMIT = 2
    MaxCalls = 4
SPECIFICATION FairSpec
INVARIANTS
    BlocksExact
PROPERTIES
    CollectionExact
    CallsReturn
