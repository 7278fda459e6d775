SPECIFICATION PthreadSpec
CONSTANTS
    MaxTask = 5
    MaxSleep = 1
    Victims = {4}
    LifeOps = {"fork", "exit", "kill"}
    Slots = 2
    Addr = {1, 2}
    MaxWord = 2
    MaxItems = 2
    Consumers = {4, 5}
INVARIANTS SlotsSound MutualExclusion NoLostWakeup
