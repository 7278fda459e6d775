SPECIFICATION PipeSpec
CONSTANTS
    MaxTask = 4
    MaxSleep = 1
    Victims = {4}
    LifeOps = {"fork", "exit", "wait", "kill", "handler"}
    PipeSize = 2
    MaxBytes = 3
    MaxEnds = 2
    MayRead = {3}
    MayWrite = {4}
INVARIANTS EndsCounted NobodyStranded
