----------------------------- MODULE Scheduler ------------------------------
(***************************************************************************)
(* schedule() of kernel/process/task.c: time slices, ageing, three         *)
(* priority levels scanned round-robin from a cursor, and the idle task.   *)
(*                                                                         *)
(* The callers are the actions: the timer interrupt, task_yield, whatever  *)
(* parks or wakes a task, creation, exit, kill, reaping and sys_nice.  The *)
(* idle task only halts: it calls none of them, the timer interrupts it.   *)
(* Workload says which of them this run's programs use.                    *)
(***************************************************************************)
EXTENDS Integers, FiniteSetsExt

CONSTANTS
    MaxTask,          \* bound on the number of tasks ever created
    SliceUnit,        \* ticks per slice unit, 5 in the code
    Workload          \* subset of {"block", "spawn", "exit", "kill", "nice"}

ASSUME SliceUnitAssumption == SliceUnit \in Nat \ {0}
ASSUME MaxTaskPositive == MaxTask \in Nat /\ MaxTask >= 2

VARIABLES
    state, current, next_pid,   \* as in Dispatch
    priority,                   \* 0 idle, 1 high, 2 normal, 3 low
    ticks_left,                 \* what is left of the task's slice
    rr_cursor                   \* the last task the scan chose, 0 for none

vars == <<state, current, next_pid, priority, ticks_left, rr_cursor>>

Cpu == INSTANCE Dispatch

Task == Cpu!Task
Idle == Cpu!Idle
Main == Cpu!Main
Levels == 1 .. 3

------------------------------

\* The READY tasks of level p.
Level(st, pr, p) == {t \in Cpu!Ready(st) : pr[t] = p}

\* Wrong variant: the scan always starts at the head of the list, the
\* starvation the comment at task.c:450 reports as fixed.
NextAfterFromHead(S, c) == Min(S)

\* The scan of one level: from the cursor's successor to the end of the list,
\* then from the head up to the cursor.
NextAfter(S, c) ==
    LET later == {t \in S : t > c}
    IN  IF later # {} THEN Min(later) ELSE Min(S)

\* A cursor that was reaped meanwhile is forgotten.
ValidCursor(st) == IF rr_cursor \in Cpu!Listed(st) THEN rr_cursor ELSE 0

\* The occupied levels.
Occupied(st, pr) == {p \in Levels : Level(st, pr, p) # {}}

\* Wrong variant: the scan goes from the low level to the high one.
ChooseNextLowFirst(st, pr) ==
    IF Occupied(st, pr) # {}
    THEN NextAfter(Level(st, pr, Max(Occupied(st, pr))), ValidCursor(st))
    ELSE IF Cpu!Ready(st) # {} THEN Min(Cpu!Ready(st))
    ELSE Idle

\* The best occupied level decides; failing that the first READY task of the
\* list whatever its priority; failing that the idle task.
ChooseNext(st, pr) ==
    IF Occupied(st, pr) # {}
    THEN NextAfter(Level(st, pr, Min(Occupied(st, pr))), ValidCursor(st))
    ELSE IF Cpu!Ready(st) # {} THEN Min(Cpu!Ready(st))
    ELSE Idle

Slice(p) == (p + 1) * SliceUnit

\* The caller still runs and has more than this tick left of its slice.
SliceLeft(st, tl) == st[current] = "running" /\ tl[current] > 1

KeepRunning(st, pr, tl) ==
    /\ SliceLeft(st, tl)
    /\ state' = st
    /\ priority' = pr
    /\ ticks_left' = [tl EXCEPT ![current] = @ - 1]
    /\ UNCHANGED <<current, rr_cursor>>

\* The slice of a running caller is over: refilled for its old priority, and
\* the task is moved one level down.
SliceOver(st, tl) == st[current] = "running" /\ tl[current] = 1

\* Wrong variant: ageing does not stop at the lowest level.
AgedUncapped(st, pr, tl) ==
    IF SliceOver(st, tl) THEN [pr EXCEPT ![current] = @ + 1] ELSE pr

Aged(st, pr, tl) ==
    IF SliceOver(st, tl) /\ pr[current] < 3
    THEN [pr EXCEPT ![current] = @ + 1] ELSE pr

Refilled(st, pr, tl) ==
    IF SliceOver(st, tl) THEN [tl EXCEPT ![current] = Slice(pr[current])] ELSE tl

\* Wrong variant: the previous owner of the CPU stays RUNNING.
ResumeKeepingPrev(st, n) ==
    /\ current' = n
    /\ state' = [st EXCEPT ![n] = "running"]

\* The tail of schedule(): nothing changes hands when next is the caller.
Resume(st, n) ==
    /\ current' = n
    /\ state' = IF n = current THEN st
                ELSE [t \in Task |-> IF t = n THEN "running"
                                     ELSE IF t = current /\ st[t] = "running" THEN "ready"
                                     ELSE st[t]]

\* Wrong variant: the cursor remembers the task that is left, not the next one.
CursorAfterPrev(st, pr, n) ==
    IF Occupied(st, pr) # {} THEN current ELSE ValidCursor(st)

\* The cursor follows the scan of the levels, not the fallbacks behind it.
CursorAfter(st, pr, n) ==
    IF Occupied(st, pr) # {} THEN n ELSE ValidCursor(st)

PickNext(st, pr, tl) ==
    /\ ~SliceLeft(st, tl)
    /\ LET pr1  == Aged(st, pr, tl)
           tl1  == Refilled(st, pr, tl)
           next == ChooseNext(st, pr1)
       IN  /\ Resume(st, next)
           /\ rr_cursor' = CursorAfter(st, pr1, next)
           /\ priority' = pr1
           /\ ticks_left' = IF tl1[next] <= 0
                            THEN [tl1 EXCEPT ![next] = Slice(pr1[next])] ELSE tl1

schedule(st, pr, tl) == KeepRunning(st, pr, tl) \/ PickNext(st, pr, tl)

------------------------------

Init ==
    /\ Cpu!DispatchInit
    /\ priority = [t \in Task |-> IF t = Idle THEN 0 ELSE 2]
    /\ ticks_left = [t \in Task |-> 2 * SliceUnit]
    /\ rr_cursor = 0

Blocked == {t \in Task : state[t] = "blocked"}

\* timer_handler(): the sleepers in S are due, then timer_callback = schedule.
\* task_yield() and sys_yield() are the case S = {}.
Tick(S) ==
    /\ schedule([t \in Task |-> IF t \in S THEN "ready" ELSE state[t]],
                priority, ticks_left)
    /\ UNCHANGED next_pid

\* The caller parks itself: state = TASK_BLOCKED; schedule().
Block ==
    /\ "block" \in Workload
    /\ current # Idle
    /\ schedule([state EXCEPT ![current] = "blocked"], priority, ticks_left)
    /\ UNCHANGED next_pid

\* The caller makes a parked task READY; it does not give up the CPU for it.
Wake(t) ==
    /\ "block" \in Workload
    /\ current # Idle
    /\ state[t] = "blocked"
    /\ state' = [state EXCEPT ![t] = "ready"]
    /\ UNCHANGED <<current, next_pid, priority, ticks_left, rr_cursor>>

\* fork_task() and task_clone_thread() inherit priority and slice from the
\* caller; task_create() and task_create_user() start with the defaults.
Spawn(inherit) ==
    /\ "spawn" \in Workload
    /\ current # Idle
    /\ next_pid <= MaxTask
    /\ state' = [state EXCEPT ![next_pid] = "ready"]
    /\ priority' = [priority EXCEPT ![next_pid] =
                        IF inherit THEN priority[current] ELSE 2]
    /\ ticks_left' = [ticks_left EXCEPT ![next_pid] =
                        IF inherit THEN ticks_left[current] ELSE 2 * SliceUnit]
    /\ next_pid' = next_pid + 1
    /\ UNCHANGED <<current, rr_cursor>>

\* task_exit()
Exit ==
    /\ "exit" \in Workload
    /\ current # Idle
    /\ schedule([state EXCEPT ![current] = "dead"], priority, ticks_left)
    /\ UNCHANGED next_pid

\* signal_send() to another task that has no handler.
Kill(t) ==
    /\ "kill" \in Workload
    /\ current # Idle
    /\ t # current
    /\ t \in Cpu!Listed(state)
    /\ state[t] # "dead"
    /\ state' = [state EXCEPT ![t] = "dead"]
    /\ UNCHANGED <<current, next_pid, priority, ticks_left, rr_cursor>>

\* wait_task() frees a dead child; the cursor may be left pointing at it.
Reap(t) ==
    /\ current # Idle
    /\ t \notin {Main, Idle, current}
    /\ state[t] = "dead"
    /\ state' = [state EXCEPT ![t] = "freed"]
    /\ UNCHANGED <<current, next_pid, priority, ticks_left, rr_cursor>>

\* sys_nice(): clamped to the three levels, with a fresh slice.
Nice(inc) ==
    /\ "nice" \in Workload
    /\ current # Idle
    /\ LET p == Max({1, Min({3, priority[current] + inc})})
       IN  /\ priority' = [priority EXCEPT ![current] = p]
           /\ ticks_left' = [ticks_left EXCEPT ![current] = Slice(p)]
    /\ UNCHANGED <<state, current, next_pid, rr_cursor>>

Next ==
    \/ \E S \in SUBSET Blocked : Tick(S)
    \/ Block
    \/ Exit
    \/ \E inherit \in BOOLEAN : Spawn(inherit)
    \/ \E t \in Task : Wake(t) \/ Kill(t) \/ Reap(t)
    \/ \E inc \in {-1, 1} : Nice(inc)

Spec == Init /\ [][Next]_vars

\* The timer keeps interrupting: it is programmed once and never masked.
FairSpec == Spec /\ WF_vars(\E S \in SUBSET Blocked : Tick(S))

------------------------------

TypeOK ==
    /\ state \in [Task -> Cpu!States]
    /\ current \in Task
    /\ next_pid \in 3 .. MaxTask + 1
    /\ priority \in [Task -> 0 .. 3]
    /\ ticks_left \in [Task -> 1 .. 4 * SliceUnit]
    /\ rr_cursor \in {0} \cup Task

\* The CPU has exactly one owner and it is the task marked RUNNING, whatever
\* schedule() was called for.
CpuOwned == \A t \in Task : state[t] = "running" <=> t = current

\* The cursor, a pointer that outlives the calls of schedule(), never points at
\* a task that wait_task() has freed, not even between two calls: the check at
\* task.c:455 is never needed, because whoever reaps is itself the last choice.
CursorListed == rr_cursor \in {0} \cup Cpu!Listed(state)

\* When the CPU changes hands inside the three levels, no READY task of a
\* better level is passed over, although ageing, nice and wakeups change the
\* levels between two calls of schedule().
BestLevelFirst ==
    [][current' # current /\ priority'[current'] \in Levels =>
         \A t \in Task \ {current} :
             state'[t] = "ready" /\ priority'[t] \in Levels
                 => priority'[t] >= priority'[current']]_vars

\* Among tasks that only compute, nobody starves: the round-robin cursor and
\* the ageing together give every READY task the CPU (task.c:450-454).
StarvationFree ==
    \A t \in Task \ {Idle} : state[t] = "ready" ~> state[t] = "running"

\* "0 idle" is the lowest priority (task.c:66, task.c:424): the idle task
\* takes over only when no task other than the caller is READY.
IdleOnlyWhenNothingReady ==
    [][current # Idle /\ current' = Idle =>
         \A t \in Task \ {Idle, current} : state'[t] # "ready"]_vars

\* schedule() keeps the promise of Dispatch.
ImplementsDispatch == Cpu!DispatchSpec

==============================
