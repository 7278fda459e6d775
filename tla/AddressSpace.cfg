SPECIFICATION Spec
CONSTANTS
    MaxSpace = 2
    Heap = 1
    Maps = 1
    MaxFrame = 4
    MaxRegions = 4
    RegionCalls = 3
    Value = {0, 1}
    MemOps = {"fork", "exec", "mmap", "brk", "exit", "clone", "kernel"}
CHECK_DEADLOCK FALSE
INVARIANTS PagesSound
PROPERTIES ImplementsPrivateMemory
