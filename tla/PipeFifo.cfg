SPECIFICATION PipeSpec
CONSTANTS
    MaxTask = 4
    MaxSleep = 1
    Victims = {}
    LifeOps = {"fork"}
    PipeSize = 1
    MaxBytes = 2
    MaxEnds = 1
    MayRead = {3}
    MayWrite = {4}
INVARIANT Fifo
