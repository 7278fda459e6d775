SPECIFICATION Spec
CONSTANTS
    MaxTask = 4
    SliceUnit = 1
    Workload = {"block", "spawn", "exit", "kill", "nice"}
INVARIANTS TypeOK CpuOwned CursorListed
PROPERTIES BestLevelFirst ImplementsDispatch
