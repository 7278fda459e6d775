SPECIFICATION SemSpec
CONSTANTS
    MaxTask = 5
    MaxSleep = 1
    Victims = {4}
    LifeOps = {"fork", "exit", "wait", "kill", "handler"}
    NSem = 1
    QueueMax = 2
    MaxValue = 2
INVARIANTS SemQueueSound NoStrandedUnit
