SPECIFICATION Spec
CONSTANTS
    MaxSpace = 2
    Heap = 0
    Maps = 0
    MaxFrame = 4
    MaxRegions = 2
    RegionCalls = 1
    Value = {0, 1}
    MemOps = {"fork", "kernel", "readonly"}
CHECK_DEADLOCK FALSE
PROPERTY ImplementsPrivateMemory
