SPECIFICATION LifeFairSpec
CONSTANTS
    MaxTask = 4
    MaxSleep = 1
    Victims = {1, 2, 3, 4}
    LifeOps = {"fork", "exit", "wait", "sleep", "kill", "handler"}
INVARIANTS LifeSound ZombieNoticed SleepsRunTheirTime
PROPERTIES DeadStaysDead CallsEnd
