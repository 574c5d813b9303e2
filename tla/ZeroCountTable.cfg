CONSTANTS
    Object = {o1, o2, o3}
    ZCT_SIZE = 2
    MaxCount = 2
SPECIFICATION FairSpec
INVARIANTS
    Sound
    NothingLost
PROPERTIES
    DeferredIsFreed
