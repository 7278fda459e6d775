--------------------------- MODULE ProgressProofs ---------------------------
(***************************************************************************)
(* What modules Scheduler and UserShell guarantee: for any number of tasks *)
(* and any length of the time slice, and for any lines typed, programs,    *)
(* files and failures of pipe() and fork().                                *)
(***************************************************************************)
EXTENDS Progress, TLAPS, WellFoundedInduction, FiniteSetTheorems, SequenceTheorems

------------------------------

\* The least element of a non-empty set of numbers is one of its elements:
\* every search of task_list finds a task that is there.
LEMMA LeastIsThere ==
  ASSUME NEW S, S \subseteq Nat, S # {}
  PROVE  Min(S) \in S /\ \A y \in S : Min(S) <= y
<1>1. \E x \in S : \A y \in S : ~(<<y, x>> \in OpToRel(<, Nat))  BY NatLessThanWellFounded, WFMin
<1>2. PICK x \in S : \A y \in S : ~(<<y, x>> \in OpToRel(<, Nat))  BY <1>1
<1>3. \A y \in S : x <= y
  <2> TAKE y \in S
  <2>1. x \in Nat /\ y \in Nat  OBVIOUS
  <2>2. ~(<<y, x>> \in {ss \in Nat \X Nat : ss[1] < ss[2]})  BY <1>2 DEF OpToRel
  <2> QED BY <2>1, <2>2
<1> QED BY <1>3 DEF Min

\* A slice is never empty and never longer than the slice of the low
\* level.
LEMMA SliceBounds ==
  ASSUME NEW p \in 0 .. 3
  PROVE  Slice(p) \in 1 .. 4 * SliceUnit
<1>1. SliceUnit \in Nat /\ SliceUnit >= 1  BY SliceUnitAssumption
<1>2. CASE p = 0  BY <1>1, <1>2 DEF Slice
<1>3. CASE p = 1  BY <1>1, <1>3 DEF Slice
<1>4. CASE p = 2  BY <1>1, <1>4 DEF Slice
<1>5. CASE p = 3  BY <1>1, <1>5 DEF Slice
<1> QED BY <1>2, <1>3, <1>4, <1>5

\* sys_nice() clamps to the three levels.
LEMMA NiceClamps ==
  ASSUME NEW a \in 0 .. 3, NEW inc \in {-1, 1}
  PROVE  Max({1, Min({3, a + inc})}) \in 1 .. 3
<1>1. PICK q : q = a + inc /\ q \in -1 .. 4  OBVIOUS
<1>2. Min({3, q}) = IF q < 3 THEN q ELSE 3  BY <1>1 DEF Min
<1>3. PICK r : r = Min({3, q}) /\ r \in -1 .. 3  BY <1>1, <1>2
<1>4. Max({1, r}) = IF r > 1 THEN r ELSE 1  BY <1>3 DEF Max
<1> QED BY <1>1, <1>3, <1>4

\* The scan of one level from the cursor finds a task of that level.
LEMMA NextAfterIsThere ==
  ASSUME NEW L, L \subseteq Nat, L # {}, NEW c
  PROVE  NextAfter(L, c) \in L
<1>1. CASE {t \in L : t > c} # {}
  <2>1. {t \in L : t > c} \subseteq Nat  OBVIOUS
  <2>2. Min({t \in L : t > c}) \in {t \in L : t > c}  BY <1>1, <2>1, LeastIsThere
  <2> QED BY <1>1, <2>2 DEF NextAfter
<1>2. CASE {t \in L : t > c} = {}
  <2>1. Min(L) \in L  BY LeastIsThere
  <2> QED BY <1>2, <2>1 DEF NextAfter
<1> QED BY <1>1, <1>2

\* The two tasks of task_init exist.
LEMMA BootTasks == Main \in Task /\ Idle \in Task /\ Main # Idle /\ Task \subseteq Nat
BY MaxTaskPositive DEF Main, Idle, Task, Cpu!Main, Cpu!Idle, Cpu!Task

\* The scan of schedule() ends with a READY task, and with the idle task
\* only when nobody is READY.
LEMMA ChosenTask ==
  ASSUME NEW st, NEW pr
  PROVE  \/ ChooseNext(st, pr) \in Cpu!Ready(st)
         \/ Cpu!Ready(st) = {} /\ ChooseNext(st, pr) = Idle
<1> DEFINE R == Cpu!Ready(st)
           O == Occupied(st, pr)
<1>1. R \subseteq Nat  BY BootTasks DEF Cpu!Ready, Task
<1>2. CASE O # {}
  <2> DEFINE L == Level(st, pr, Min(O))
             c == ValidCursor(st)
  <2>1. O \subseteq Nat  BY DEF Occupied, Levels
  <2>2. Min(O) \in O  BY <1>2, <2>1, LeastIsThere
  <2>3. L # {} /\ L \subseteq R /\ L \subseteq Nat  BY <1>1, <2>2 DEF Occupied, Level
  <2>4. NextAfter(L, c) \in L  BY <2>3, NextAfterIsThere
  <2>5. ChooseNext(st, pr) = NextAfter(L, c)  BY <1>2 DEF ChooseNext
  <2> QED BY <2>3, <2>4, <2>5
<1>3. CASE O = {} /\ R # {}
  <2>1. Min(R) \in R  BY <1>1, <1>3, LeastIsThere
  <2> QED BY <1>3, <2>1 DEF ChooseNext
<1>4. CASE O = {} /\ R = {}  BY <1>4 DEF ChooseNext
<1> QED BY <1>2, <1>3, <1>4

------------------------------

\* schedule() keeps the types, whatever states, priorities and slices its
\* caller left.
LEMMA ScheduleTyped ==
  ASSUME TypeOK,
         NEW st \in [Task -> Cpu!States],
         schedule(st, priority, ticks_left)
  PROVE  /\ state' \in [Task -> Cpu!States]
         /\ current' \in Task
         /\ priority' \in [Task -> 0 .. 3]
         /\ ticks_left' \in [Task -> 1 .. 4 * SliceUnit]
         /\ rr_cursor' \in {0} \cup Task
<1> USE DEF TypeOK
<1>0. SliceUnit \in Nat /\ SliceUnit >= 1  BY SliceUnitAssumption
<1>1. CASE KeepRunning(st, priority, ticks_left)
  <2>1. ticks_left[current] \in 1 .. 4 * SliceUnit /\ ticks_left[current] > 1
    BY <1>1 DEF KeepRunning, SliceLeft
  <2>2. ticks_left[current] - 1 \in 1 .. 4 * SliceUnit  BY <1>0, <2>1
  <2>3. ticks_left' = [ticks_left EXCEPT ![current] = ticks_left[current] - 1]  BY <1>1 DEF KeepRunning
  <2> QED BY <1>1, <2>2, <2>3 DEF KeepRunning
<1>2. CASE PickNext(st, priority, ticks_left)
  <2> DEFINE pr1 == Aged(st, priority, ticks_left)
             tl1 == Refilled(st, priority, ticks_left)
             n   == ChooseNext(st, pr1)
  <2>1. pr1 \in [Task -> 0 .. 3]
    <3>1. CASE SliceOver(st, ticks_left) /\ priority[current] < 3
      <4>1. priority[current] + 1 \in 0 .. 3  BY <3>1
      <4>2. pr1 = [priority EXCEPT ![current] = priority[current] + 1]  BY <3>1 DEF Aged
      <4> QED BY <4>1, <4>2
    <3>2. CASE ~(SliceOver(st, ticks_left) /\ priority[current] < 3)  BY <3>2 DEF Aged
    <3> QED BY <3>1, <3>2
  <2>2. tl1 \in [Task -> 1 .. 4 * SliceUnit]
    <3>1. Slice(priority[current]) \in 1 .. 4 * SliceUnit  BY SliceBounds
    <3> QED BY <3>1 DEF Refilled
  <2>3. n \in Task  BY ChosenTask, BootTasks DEF Cpu!Ready, Task
  <2>4. Resume(st, n) /\ priority' = pr1  BY <1>2 DEF PickNext
  <2>5. state' \in [Task -> Cpu!States] /\ current' \in Task
    <3>1. "ready" \in Cpu!States /\ "running" \in Cpu!States  BY DEF Cpu!States
    <3>2. CASE n = current  BY <2>3, <2>4, <3>2 DEF Resume
    <3>3. CASE n # current
      <4>1. state' = [t \in Task |-> IF t = n THEN "running"
                                     ELSE IF t = current /\ st[t] = "running" THEN "ready"
                                     ELSE st[t]]
        BY <2>4, <3>3 DEF Resume
      <4> QED BY <2>3, <2>4, <3>1, <4>1 DEF Resume
    <3> QED BY <3>2, <3>3
  <2>6. ticks_left' = tl1
    <3>1. ~(tl1[n] <= 0)  BY <2>2, <2>3
    <3>2. ticks_left' = IF tl1[n] <= 0 THEN [tl1 EXCEPT ![n] = Slice(pr1[n])] ELSE tl1  BY <1>2 DEF PickNext
    <3> QED BY <3>1, <3>2
  <2>7. rr_cursor' \in {0} \cup Task
    <3>1. ValidCursor(st) \in {0} \cup Task  BY DEF ValidCursor
    <3>2. rr_cursor' = IF Occupied(st, pr1) # {} THEN n ELSE ValidCursor(st)  BY <1>2 DEF PickNext, CursorAfter
    <3> QED BY <2>3, <3>1, <3>2
  <2> QED BY <2>1, <2>2, <2>4, <2>5, <2>6, <2>7
<1> QED BY <1>1, <1>2 DEF schedule

\* schedule() makes one of the choices that Dispatch leaves open.
LEMMA ScheduleDispatches ==
  ASSUME NEW st, schedule(st, priority, ticks_left)
  PROVE  Cpu!Schedule(st)
<1>1. CASE KeepRunning(st, priority, ticks_left)  BY <1>1 DEF KeepRunning, SliceLeft, Cpu!Schedule, Cpu!Resume
<1>2. CASE PickNext(st, priority, ticks_left)
  <2> DEFINE n == ChooseNext(st, Aged(st, priority, ticks_left))
  <2>1. Resume(st, n)  BY <1>2 DEF PickNext
  <2>2. Cpu!Resume(st, n)  BY <2>1 DEF Resume, Cpu!Resume, Task
  <2>3. n \in Cpu!Ready(st) \/ (Cpu!Ready(st) = {} /\ n = Cpu!Idle)  BY ChosenTask DEF Idle
  <2> QED BY <2>2, <2>3 DEF Cpu!Schedule
<1> QED BY <1>1, <1>2 DEF schedule

\* The inductive invariant: a pid that was not given out yet belongs to no
\* task, so a new task cannot take the place of the one that runs.
UnusedAhead == \A t \in Task : t >= next_pid => state[t] = "unused"

IInv == TypeOK /\ CpuOwned /\ UnusedAhead

\* After schedule() the CPU has one owner and no unused pid came to life,
\* provided that the caller is RUNNING or has parked itself, which the
\* idle task never does.
LEMMA ScheduleOwned ==
  ASSUME IInv,
         NEW st \in [Task -> Cpu!States],
         \A t \in Task : t # current => st[t] # "running",
         \A t \in Task : t >= next_pid => st[t] = "unused",
         \/ st[current] = "running"
         \/ current # Idle /\ st[current] # "ready",
         schedule(st, priority, ticks_left),
         UNCHANGED next_pid
  PROVE  CpuOwned' /\ UnusedAhead'
<1> USE DEF IInv, TypeOK
<1>1. Idle < next_pid /\ Idle \in Task  BY BootTasks DEF Idle, Cpu!Idle
<1>2. Cpu!Schedule(st)  BY ScheduleDispatches
<1>3. ASSUME NEW n \in Task, Cpu!Resume(st, n),
             n = current => st[current] = "running",
             n < next_pid
      PROVE  CpuOwned' /\ UnusedAhead'
  <2>1. CASE n = current
    <3>1. current' = current /\ state' = st  BY <1>3, <2>1 DEF Cpu!Resume
    <3> QED BY <1>3, <2>1, <3>1 DEF CpuOwned, UnusedAhead
  <2>2. CASE n # current
    <3>1. current' = n /\ state' = [t \in Task |-> IF t = n THEN "running"
                                     ELSE IF t = current /\ st[t] = "running" THEN "ready"
                                     ELSE st[t]]
      BY <1>3, <2>2 DEF Cpu!Resume, Task
    <3>2. CpuOwned'  BY <3>1 DEF CpuOwned
    <3>3. UnusedAhead'
      <4> SUFFICES ASSUME NEW t \in Task, t >= next_pid
                   PROVE  state'[t] = "unused"
        BY DEF UnusedAhead
      <4>1. t # n  BY <1>3, BootTasks
      <4>2. st[t] = "unused"  OBVIOUS
      <4> QED BY <3>1, <4>1, <4>2
    <3> QED BY <3>2, <3>3
  <2> QED BY <2>1, <2>2
<1>4. CASE st[current] = "running" /\ Cpu!Resume(st, current)
  <2>1. current < next_pid  BY <1>4, BootTasks
  <2> QED BY <1>3, <1>4, <2>1
<1>5. CASE \E n \in Cpu!Ready(st) : Cpu!Resume(st, n)
  <2>1. PICK n \in Cpu!Ready(st) : Cpu!Resume(st, n)  BY <1>5
  <2>2. n \in Task /\ st[n] = "ready"  BY <2>1 DEF Cpu!Ready, Task
  <2>3. n < next_pid /\ n # current  BY <2>2, BootTasks
  <2> QED BY <1>3, <2>1, <2>2, <2>3
<1>6. CASE Cpu!Ready(st) = {} /\ Cpu!Resume(st, Cpu!Idle)
  <2>1. Idle = current => st[current] = "running"  OBVIOUS
  <2> QED BY <1>1, <1>3, <1>6, <2>1 DEF Idle
<1> QED BY <1>2, <1>4, <1>5, <1>6 DEF Cpu!Schedule

------------------------------

\* task_init() leaves the boot thread as the only owner of the CPU.
LEMMA InitIInv == Init => IInv
<1> SUFFICES ASSUME Init PROVE IInv  OBVIOUS
<1>1. /\ state = [t \in Task |-> IF t = Main THEN "running"
                                 ELSE IF t = Idle THEN "ready" ELSE "unused"]
      /\ current = Main /\ next_pid = 3
  BY DEF Init, Cpu!DispatchInit, Main, Idle, Task
<1>2. TypeOK
  <2>1. 2 * SliceUnit \in 1 .. 4 * SliceUnit  BY SliceUnitAssumption
  <2>2. 3 \in 3 .. MaxTask + 1  BY MaxTaskPositive
  <2> QED BY <1>1, <2>1, <2>2, BootTasks DEF Init, TypeOK, Cpu!States
<1>3. CpuOwned  BY <1>1, BootTasks DEF CpuOwned
<1>4. UnusedAhead  BY <1>1 DEF UnusedAhead, Main, Idle, Cpu!Main, Cpu!Idle
<1> QED BY <1>2, <1>3, <1>4 DEF IInv

\* The states the timer hands to schedule(): a due sleeper was parked, so
\* it is neither the owner of the CPU nor an unused pid.
LEMMA TickKeeps ==
  ASSUME IInv, NEW S \in SUBSET Blocked, Tick(S)
  PROVE  IInv'
<1> DEFINE st == [t \in Task |-> IF t \in S THEN "ready" ELSE state[t]]
<1> USE DEF IInv, TypeOK
<1>1. schedule(st, priority, ticks_left) /\ UNCHANGED next_pid  BY DEF Tick
<1>2. \A t \in S : t \in Task /\ state[t] = "blocked"  BY DEF Blocked
<1>3. st \in [Task -> Cpu!States]  BY DEF Cpu!States
<1>4. \A t \in Task : t # current => st[t] # "running"  BY DEF CpuOwned
<1>5. \A t \in Task : t >= next_pid => st[t] = "unused"  BY <1>2 DEF UnusedAhead
<1>6. st[current] = "running"  BY <1>2 DEF CpuOwned
<1>7. TypeOK'
  <2> HIDE DEF st
  <2> QED BY <1>1, <1>3, ScheduleTyped
<1>8. CpuOwned' /\ UnusedAhead'
  <2> HIDE DEF st
  <2> QED BY <1>1, <1>3, <1>4, <1>5, <1>6, ScheduleOwned
<1> QED BY <1>7, <1>8

\* A caller that parks itself or dies before it calls schedule().
LEMMA LeavingKeeps ==
  ASSUME IInv, current # Idle,
         NEW s \in {"blocked", "dead"},
         schedule([state EXCEPT ![current] = s], priority, ticks_left),
         UNCHANGED next_pid
  PROVE  IInv'
<1> DEFINE st == [state EXCEPT ![current] = s]
<1> USE DEF IInv, TypeOK
<1>1. st \in [Task -> Cpu!States]  BY DEF Cpu!States
<1>2. \A t \in Task : t # current => st[t] # "running"  BY DEF CpuOwned
<1>3. \A t \in Task : t >= next_pid => st[t] = "unused"  BY DEF CpuOwned, UnusedAhead
<1>4. st[current] # "ready"  OBVIOUS
<1>5. schedule(st, priority, ticks_left)  OBVIOUS
<1> HIDE DEF st
<1>6. TypeOK'  BY <1>1, <1>5, ScheduleTyped
<1>7. CpuOwned' /\ UnusedAhead'  BY <1>1, <1>2, <1>3, <1>4, <1>5, ScheduleOwned
<1> QED BY <1>6, <1>7

\* Every step of the kernel keeps the inductive invariant.
LEMMA NextIInv == IInv /\ [Next]_vars => IInv'
<1> SUFFICES ASSUME IInv, [Next]_vars PROVE IInv'  OBVIOUS
<1>1. CASE \E S \in SUBSET Blocked : Tick(S)  BY <1>1, TickKeeps
<1>2. CASE Block  BY <1>2, LeavingKeeps DEF Block
<1>3. CASE Exit  BY <1>3, LeavingKeeps DEF Exit
<1>4. ASSUME NEW inherit \in BOOLEAN, Spawn(inherit)
      PROVE  IInv'
  <2> USE DEF IInv, TypeOK
  <2>1. next_pid \in Task /\ next_pid' = next_pid + 1 /\ current' = current
    BY <1>4, MaxTaskPositive DEF Spawn, Task, Cpu!Task
  <2>2. state' = [state EXCEPT ![next_pid] = "ready"] /\ "ready" \in Cpu!States  BY <1>4 DEF Spawn, Cpu!States
  <2>3. 2 * SliceUnit \in 1 .. 4 * SliceUnit  BY SliceUnitAssumption
  <2>4. TypeOK'
    <3>1. priority' \in [Task -> 0 .. 3]  BY <1>4, <2>1 DEF Spawn
    <3>2. ticks_left' \in [Task -> 1 .. 4 * SliceUnit]  BY <1>4, <2>1, <2>3 DEF Spawn
    <3>3. next_pid' \in 3 .. MaxTask + 1  BY <1>4, <2>1, MaxTaskPositive DEF Spawn
    <3> QED BY <1>4, <2>1, <2>2, <3>1, <3>2, <3>3 DEF Spawn
  <2>5. CpuOwned'
    <3>1. state[next_pid] = "unused"  BY <2>1, BootTasks DEF UnusedAhead
    <3>2. next_pid # current  BY <2>1, <3>1 DEF CpuOwned
    <3> QED BY <2>1, <2>2, <3>2 DEF CpuOwned
  <2>6. UnusedAhead'  BY <2>1, <2>2, BootTasks DEF UnusedAhead
  <2> QED BY <2>4, <2>5, <2>6
<1>5. ASSUME NEW t \in Task, Wake(t) \/ Kill(t) \/ Reap(t)
      PROVE  IInv'
  <2> USE DEF IInv, TypeOK
  <2>1. PICK s \in {"ready", "dead", "freed"} : state' = [state EXCEPT ![t] = s]  BY <1>5 DEF Wake, Kill, Reap
  <2>2. t # current /\ state[t] # "unused"  BY <1>5 DEF Wake, Kill, Reap, CpuOwned, Cpu!Listed
  <2>3. UNCHANGED <<current, next_pid, priority, ticks_left, rr_cursor>>  BY <1>5 DEF Wake, Kill, Reap
  <2>4. TypeOK'  BY <2>1, <2>3 DEF Cpu!States
  <2>5. CpuOwned'  BY <2>1, <2>2, <2>3 DEF CpuOwned
  <2>6. UnusedAhead'  BY <2>1, <2>2, <2>3 DEF UnusedAhead
  <2> QED BY <2>4, <2>5, <2>6
<1>6. ASSUME NEW inc \in {-1, 1}, Nice(inc)
      PROVE  IInv'
  <2> USE DEF IInv, TypeOK
  <2> DEFINE p == Max({1, Min({3, priority[current] + inc})})
  <2>1. p \in 1 .. 3
    <3>1. priority[current] \in 0 .. 3  OBVIOUS
    <3> QED BY <3>1, NiceClamps
  <2>2. Slice(p) \in 1 .. 4 * SliceUnit
    <3> HIDE DEF p
    <3> QED BY <2>1, SliceBounds
  <2>3. /\ priority' = [priority EXCEPT ![current] = p]
        /\ ticks_left' = [ticks_left EXCEPT ![current] = Slice(p)]
        /\ UNCHANGED <<state, current, next_pid, rr_cursor>>
    BY <1>6 DEF Nice
  <2> HIDE DEF p
  <2>4. TypeOK'  BY <2>1, <2>2, <2>3
  <2>5. CpuOwned' /\ UnusedAhead'  BY <2>3 DEF CpuOwned, UnusedAhead
  <2> QED BY <2>4, <2>5
<1>7. CASE UNCHANGED vars  BY <1>7 DEF vars, IInv, TypeOK, CpuOwned, UnusedAhead
<1> QED BY <1>1, <1>2, <1>3, <1>4, <1>5, <1>6, <1>7 DEF Next

------------------------------

\* schedule(), its callers and sys_nice() keep every counter in its range,
\* whatever their order: in particular no task is ever left with an empty
\* slice or a priority outside 0 .. 3.
THEOREM TypeCorrect == Spec => []TypeOK
<1>1. IInv => TypeOK  BY DEF IInv
<1> QED BY <1>1, InitIInv, NextIInv, PTL DEF Spec

\* The CPU always has exactly one owner, current_task, and it is the only
\* task marked RUNNING.
THEOREM CpuHasOneOwner == Spec => []CpuOwned
<1>1. IInv => CpuOwned  BY DEF IInv
<1> QED BY <1>1, InitIInv, NextIInv, PTL DEF Spec

\* Every step of the scheduler is one that Dispatch allows, or changes
\* nothing that Dispatch sees.
LEMMA StepDispatches == [Next]_vars => [Cpu!DispatchNext]_(Cpu!cpuVars)
<1> SUFFICES ASSUME [Next]_vars PROVE [Cpu!DispatchNext]_(Cpu!cpuVars)  OBVIOUS
<1> USE DEF Task, Idle, Main
<1>1. ASSUME NEW S \in SUBSET Blocked, Tick(S)
      PROVE  Cpu!DispatchNext
  <2>1. S \in SUBSET {t \in Cpu!Task : state[t] = "blocked"}  BY DEF Blocked
  <2>2. Cpu!Schedule([t \in Task |-> IF t \in S THEN "ready" ELSE state[t]])
    BY <1>1, ScheduleDispatches DEF Tick
  <2>3. Cpu!Yield(S)  BY <1>1, <2>2 DEF Tick, Cpu!Yield
  <2> QED BY <2>1, <2>3 DEF Cpu!DispatchNext
<1>2. CASE Block
  <2>1. Cpu!Schedule([state EXCEPT ![current] = "blocked"])  BY <1>2, ScheduleDispatches DEF Block
  <2> QED BY <1>2, <2>1 DEF Block, Cpu!Block, Cpu!DispatchNext
<1>3. CASE Exit
  <2>1. Cpu!Schedule([state EXCEPT ![current] = "dead"])  BY <1>3, ScheduleDispatches DEF Exit
  <2> QED BY <1>3, <2>1 DEF Exit, Cpu!Exit, Cpu!DispatchNext
<1>4. ASSUME NEW inherit \in BOOLEAN, Spawn(inherit)
      PROVE  Cpu!DispatchNext
  BY <1>4 DEF Spawn, Cpu!Spawn, Cpu!DispatchNext
<1>5. ASSUME NEW t \in Task, Wake(t) \/ Kill(t) \/ Reap(t)
      PROVE  Cpu!DispatchNext
  <2>1. Cpu!Wake(t) \/ Cpu!Kill(t) \/ Cpu!Reap(t)  BY <1>5 DEF Wake, Kill, Reap, Cpu!Wake, Cpu!Kill, Cpu!Reap
  <2> QED BY <2>1 DEF Cpu!DispatchNext
<1>6. ASSUME NEW inc \in {-1, 1}, Nice(inc)
      PROVE  UNCHANGED Cpu!cpuVars
  BY <1>6 DEF Nice, Cpu!cpuVars
<1>7. CASE UNCHANGED vars  BY <1>7 DEF vars, Cpu!cpuVars
<1> QED BY <1>1, <1>2, <1>3, <1>4, <1>5, <1>6, <1>7 DEF Next

\* The policy of schedule() (levels, ageing, cursor, slices) implements
\* the promise of Dispatch: only a READY task, the caller, or with nobody
\* READY the idle task gets the CPU.
THEOREM SchedulerImplementsDispatch == Spec => ImplementsDispatch
<1>1. Init => Cpu!DispatchInit  BY DEF Init
<1> QED BY <1>1, StepDispatches, PTL DEF Spec, ImplementsDispatch, Cpu!DispatchSpec

------------------------------

\* Why the cursor never dangles: while a program runs the cursor is that
\* program or nothing, because only the idle task ever has a priority
\* outside the three levels and is chosen by a fallback.
CursorFollows ==
    /\ \A t \in Task \ {Idle} : priority[t] \in Levels
    /\ current # Idle => rr_cursor \in {0, current}

CInv == CursorListed /\ CursorFollows

\* With the levels empty only the idle task can be chosen.
LEMMA FallbackIsIdle ==
  ASSUME NEW st, NEW pr, Occupied(st, pr) = {},
         \A t \in Task \ {Idle} : pr[t] \in Levels
  PROVE  ChooseNext(st, pr) = Idle
<1> DEFINE n == ChooseNext(st, pr)
<1>1. CASE n \in Cpu!Ready(st)
  <2>1. n \in Task  BY <1>1 DEF Cpu!Ready, Task
  <2>2. pr[n] \notin Levels  BY <1>1 DEF Occupied, Level
  <2> QED BY <2>1, <2>2
<1> QED BY <1>1, ChosenTask

\* Whoever has the CPU is on task_list.
LEMMA CurrentListed == IInv => current \in Cpu!Listed(state)
BY DEF IInv, TypeOK, CpuOwned, Cpu!Listed, Task

\* schedule() keeps the cursor on the list, provided its caller took
\* nobody off it.
LEMMA ScheduleCursor ==
  ASSUME IInv, CInv,
         NEW st \in [Task -> Cpu!States],
         Cpu!Listed(state) \subseteq Cpu!Listed(st),
         schedule(st, priority, ticks_left)
  PROVE  CInv'
<1> USE DEF CInv
<1>1. CASE KeepRunning(st, priority, ticks_left)
  <2>1. state' = st /\ priority' = priority /\ UNCHANGED <<current, rr_cursor>>  BY <1>1 DEF KeepRunning
  <2>2. Cpu!Listed(state') = Cpu!Listed(st)  BY <2>1
  <2>3. CursorListed'  BY <2>1, <2>2 DEF CursorListed, Cpu!Listed
  <2>4. CursorFollows'  BY <2>1 DEF CursorFollows
  <2> QED BY <2>3, <2>4
<1>2. CASE PickNext(st, priority, ticks_left)
  <2> DEFINE pr1 == Aged(st, priority, ticks_left)
             n   == ChooseNext(st, pr1)
  <2>1. /\ Resume(st, n)
        /\ priority' = pr1
        /\ current' = n
        /\ rr_cursor' = CursorAfter(st, pr1, n)
    BY <1>2 DEF PickNext, Resume
  <2>2. n \in Task  BY ChosenTask, BootTasks DEF Cpu!Ready, Task
  <2>3. \A t \in Task \ {Idle} : pr1[t] \in Levels
    <3> SUFFICES ASSUME NEW t \in Task \ {Idle} PROVE pr1[t] \in Levels  OBVIOUS
    <3>1. priority[t] \in Levels /\ current \in Task /\ priority \in [Task -> 0 .. 3]
      BY DEF CursorFollows, IInv, TypeOK
    <3>2. CASE SliceOver(st, ticks_left) /\ priority[current] < 3
      <4>1. pr1 = [priority EXCEPT ![current] = priority[current] + 1]  BY <3>2 DEF Aged
      <4> QED BY <3>1, <3>2, <4>1 DEF Levels
    <3>3. CASE ~(SliceOver(st, ticks_left) /\ priority[current] < 3)  BY <3>1, <3>3 DEF Aged
    <3> QED BY <3>2, <3>3
  <2>4. \A t \in Task : t \in Cpu!Listed(st) \/ t = n => t \in Cpu!Listed(state')
    <3> SUFFICES ASSUME NEW t \in Task, t \in Cpu!Listed(st) \/ t = n
                 PROVE  state'[t] \notin {"unused", "freed"}
      BY DEF Cpu!Listed, Task
    <3>1. CASE n = current
      <4>1. state' = st  BY <2>1, <3>1 DEF Resume
      <4>2. n \in Cpu!Listed(st)  BY <3>1, CurrentListed
      <4> QED BY <4>1, <4>2 DEF Cpu!Listed
    <3>2. CASE n # current
      <4>1. state' = [u \in Task |-> IF u = n THEN "running"
                                     ELSE IF u = current /\ st[u] = "running" THEN "ready"
                                     ELSE st[u]]
        BY <2>1, <3>2 DEF Resume
      <4> QED BY <4>1 DEF Cpu!Listed
    <3> QED BY <3>1, <3>2
  <2>5. CASE Occupied(st, pr1) # {}
    <3>1. rr_cursor' = n  BY <2>1, <2>5 DEF CursorAfter
    <3>2. CursorListed'  BY <2>2, <2>4, <3>1 DEF CursorListed
    <3>3. CursorFollows'  BY <2>1, <2>3, <3>1 DEF CursorFollows
    <3> QED BY <3>2, <3>3
  <2>6. CASE Occupied(st, pr1) = {}
    <3>1. n = Idle  BY <2>3, <2>6, FallbackIsIdle
    <3>2. rr_cursor' = ValidCursor(st)  BY <2>1, <2>6 DEF CursorAfter
    <3>3. rr_cursor' \in {0} \cup Cpu!Listed(st)  BY <3>2 DEF ValidCursor
    <3>4. Cpu!Listed(st) \subseteq Task  BY DEF Cpu!Listed, Task
    <3>5. CursorListed'  BY <2>4, <3>3, <3>4 DEF CursorListed
    <3>6. CursorFollows'  BY <2>1, <2>3, <3>1 DEF CursorFollows
    <3> QED BY <3>5, <3>6
  <2> QED BY <2>5, <2>6
<1> QED BY <1>1, <1>2 DEF schedule

\* Every step keeps the cursor on the list.  Reaping is the step that
\* could leave it behind: its caller is a program, hence the cursor.
LEMMA NextCInv == IInv /\ CInv /\ [Next]_vars => CInv'
<1> SUFFICES ASSUME IInv, CInv, [Next]_vars PROVE CInv'  OBVIOUS
<1>0. state \in [Task -> Cpu!States] /\ current \in Task  BY DEF IInv, TypeOK
<1>1. ASSUME NEW S \in SUBSET Blocked, Tick(S)
      PROVE  CInv'
  <2> DEFINE st == [t \in Task |-> IF t \in S THEN "ready" ELSE state[t]]
  <2>1. st \in [Task -> Cpu!States]  BY <1>0 DEF Cpu!States
  <2>2. Cpu!Listed(state) \subseteq Cpu!Listed(st)  BY DEF Cpu!Listed, Task
  <2>3. schedule(st, priority, ticks_left)  BY <1>1 DEF Tick
  <2> HIDE DEF st
  <2> QED BY <2>1, <2>2, <2>3, ScheduleCursor
<1>2. ASSUME NEW s \in {"blocked", "dead"},
             schedule([state EXCEPT ![current] = s], priority, ticks_left)
      PROVE  CInv'
  <2> DEFINE st == [state EXCEPT ![current] = s]
  <2>1. st \in [Task -> Cpu!States]  BY <1>0 DEF Cpu!States
  <2>2. Cpu!Listed(state) \subseteq Cpu!Listed(st)  BY <1>0 DEF Cpu!Listed, Task
  <2>3. schedule(st, priority, ticks_left)  BY <1>2
  <2> HIDE DEF st
  <2> QED BY <2>1, <2>2, <2>3, ScheduleCursor
<1>3. CASE Block \/ Exit  BY <1>2, <1>3 DEF Block, Exit
<1>4. ASSUME NEW inherit \in BOOLEAN, Spawn(inherit)
      PROVE  CInv'
  <2>1. next_pid \in Task /\ next_pid # Idle
    BY <1>4, MaxTaskPositive DEF Spawn, IInv, TypeOK, Task, Cpu!Task, Idle, Cpu!Idle
  <2>2. UNCHANGED <<current, rr_cursor>> /\ current # Idle  BY <1>4 DEF Spawn
  <2>3. \A t \in Cpu!Listed(state) : t \in Cpu!Listed(state')  BY <1>0, <1>4 DEF Spawn, Cpu!Listed, Task
  <2>4. CursorListed'  BY <2>2, <2>3 DEF CInv, CursorListed
  <2>5. priority[current] \in Levels /\ 2 \in Levels /\ priority \in [Task -> 0 .. 3]
    BY <1>0, <2>2 DEF CInv, CursorFollows, Levels, IInv, TypeOK
  <2>6. \A t \in Task \ {Idle} : priority'[t] \in Levels  BY <1>4, <2>1, <2>5 DEF Spawn, CInv, CursorFollows
  <2> QED BY <2>2, <2>4, <2>6 DEF CInv, CursorFollows
<1>5. ASSUME NEW t \in Task, Wake(t) \/ Kill(t)
      PROVE  CInv'
  <2>1. PICK s \in {"ready", "dead"} : state' = [state EXCEPT ![t] = s]  BY <1>5 DEF Wake, Kill
  <2>2. UNCHANGED <<current, rr_cursor, priority>>  BY <1>5 DEF Wake, Kill
  <2>3. \A u \in Cpu!Listed(state) : u \in Cpu!Listed(state')  BY <1>0, <2>1 DEF Cpu!Listed, Task
  <2> QED BY <2>2, <2>3 DEF CInv, CursorListed, CursorFollows
<1>6. ASSUME NEW t \in Task, Reap(t)
      PROVE  CInv'
  <2>1. current # Idle /\ t # current /\ UNCHANGED <<current, rr_cursor, priority>>  BY <1>6 DEF Reap
  <2>2. rr_cursor \in {0, current}  BY <2>1 DEF CInv, CursorFollows
  <2>3. state'[current] = state[current]  BY <1>0, <1>6, <2>1 DEF Reap
  <2>4. current \in Cpu!Listed(state')  BY <2>3, CurrentListed DEF Cpu!Listed
  <2> QED BY <2>1, <2>2, <2>4 DEF CInv, CursorListed, CursorFollows
<1>7. ASSUME NEW inc \in {-1, 1}, Nice(inc)
      PROVE  CInv'
  <2> DEFINE p == Max({1, Min({3, priority[current] + inc})})
  <2>1. priority[current] \in 0 .. 3 /\ priority \in [Task -> 0 .. 3]  BY <1>0 DEF IInv, TypeOK
  <2>2. p \in Levels  BY <2>1, NiceClamps DEF Levels
  <2>3. /\ priority' = [priority EXCEPT ![current] = p]
        /\ UNCHANGED <<state, current, rr_cursor>>
    BY <1>7 DEF Nice
  <2> HIDE DEF p
  <2>4. \A t \in Task \ {Idle} : priority'[t] \in Levels  BY <2>1, <2>2, <2>3 DEF CInv, CursorFollows
  <2> QED BY <2>3, <2>4 DEF CInv, CursorListed, CursorFollows
<1>8. CASE UNCHANGED vars  BY <1>8 DEF vars, CInv, CursorListed, CursorFollows
<1> QED BY <1>1, <1>3, <1>4, <1>5, <1>6, <1>7, <1>8 DEF Next

\* The round-robin cursor of schedule() never points at a freed task.
THEOREM CursorNeverDangles == Spec => []CursorListed
<1>1. Init => CInv
  <2> SUFFICES ASSUME Init PROVE CInv  OBVIOUS
  <2> QED BY DEF Init, CInv, CursorListed, CursorFollows, Levels
<1>2. CInv => CursorListed  BY DEF CInv
<1> QED BY <1>1, <1>2, InitIInv, NextIInv, NextCInv, PTL DEF Spec

------------------------------

\* The levels: when schedule() hands the CPU to a task of a level, nobody
\* READY is left in a better one.
LEMMA ScheduleBest ==
  ASSUME NEW st, schedule(st, priority, ticks_left), current' # current,
         current' \in Task, priority'[current'] \in Levels,
         NEW t \in Task \ {current}, state'[t] = "ready", priority'[t] \in Levels
  PROVE  priority'[t] >= priority'[current']
<1> DEFINE pr1 == Aged(st, priority, ticks_left)
           n   == ChooseNext(st, pr1)
           O   == Occupied(st, pr1)
<1>1. PickNext(st, priority, ticks_left)  BY DEF schedule, KeepRunning
<1>2. Resume(st, n) /\ priority' = pr1 /\ current' = n  BY <1>1 DEF PickNext, Resume
<1>3. state' = [u \in Task |-> IF u = n THEN "running"
                               ELSE IF u = current /\ st[u] = "running" THEN "ready"
                               ELSE st[u]]
  BY <1>2 DEF Resume
<1>4. st[t] = "ready"  BY <1>3
<1>5. t \in Cpu!Ready(st)  BY <1>4 DEF Cpu!Ready, Task
<1>6. pr1[t] \in O  BY <1>2, <1>5 DEF Occupied, Level
<1>7. O \subseteq Nat  BY DEF Occupied, Levels
<1>8. Min(O) \in O /\ Min(O) <= pr1[t]  BY <1>6, <1>7, LeastIsThere
<1>9. n \in Level(st, pr1, Min(O))
  <2> DEFINE L == Level(st, pr1, Min(O))
  <2>1. L # {}  BY <1>8 DEF Occupied
  <2>2. L \subseteq Nat  BY BootTasks DEF Level, Cpu!Ready, Task
  <2>3. NextAfter(L, ValidCursor(st)) \in L  BY <2>1, <2>2, NextAfterIsThere
  <2>4. n = NextAfter(L, ValidCursor(st))  BY <1>6 DEF ChooseNext
  <2> QED BY <2>3, <2>4
<1>10. pr1[n] = Min(O)  BY <1>9 DEF Level
<1> QED BY <1>2, <1>8, <1>10

\* The multi-level queue is respected by every change of the CPU's owner,
\* for any number of tasks.
THEOREM LevelsRespected == Spec => BestLevelFirst
<1> DEFINE Best ==
      current' # current /\ priority'[current'] \in Levels =>
         \A t \in Task \ {current} :
             state'[t] = "ready" /\ priority'[t] \in Levels
                 => priority'[t] >= priority'[current']
<1>1. IInv /\ [Next]_vars => [Best]_vars
  <2> SUFFICES ASSUME IInv, Next, current' # current PROVE Best  BY DEF vars
  <2>1. IInv'  BY NextIInv
  <2>2. current' \in Task  BY <2>1 DEF IInv, TypeOK
  <2>3. ASSUME NEW st, schedule(st, priority, ticks_left) PROVE Best  BY <2>2, <2>3, ScheduleBest
  <2>4. \/ \E S \in SUBSET Blocked : Tick(S)
        \/ Block \/ Exit
    BY DEF Next, Spawn, Wake, Kill, Reap, Nice
  <2> HIDE DEF Best
  <2> QED BY <2>3, <2>4 DEF Tick, Block, Exit
<1> QED BY <1>1, InitIInv, NextIInv, PTL DEF Spec, BestLevelFirst

------------------------------
(* The shell.                                                              *)

\* A finite set of numbers has a k-th smallest member for every k up to
\* its size: a line has as many pieces as it has ends.
LEMMA NthIsThere ==
  ASSUME NEW S, S \subseteq Nat, IsFiniteSet(S), NEW k \in 1 .. Cardinality(S)
  PROVE  Nth(S, k) \in S
<1> DEFINE Upto(n) == {m \in S : m <= n}
           Missing == {j \in 1 .. Cardinality(S) : \A n \in S : Cardinality(Upto(n)) # j}
<1>1. Cardinality(S) \in Nat  BY FS_CardinalityType
<1>2. Missing = {}
  <2>1. SUFFICES ASSUME Missing # {} PROVE FALSE  OBVIOUS
  <2>2. Missing \subseteq Nat  BY <1>1
  <2>3. PICK j : j \in Missing /\ \A y \in Missing : j <= y
    <3> HIDE DEF Missing
    <3> QED BY <2>1, <2>2, LeastIsThere
  <2>4. j \in 1 .. Cardinality(S) /\ \A n \in S : Cardinality(Upto(n)) # j  BY <2>3
  <2> HIDE DEF Missing
  <2>5. PICK T \in SUBSET S : /\ Cardinality(T) = j - 1
                              /\ \A n \in S : n \notin T => \A m \in T : m < n
    <3>1. CASE j = 1  BY <3>1, FS_EmptySet
    <3>2. CASE j # 1
      <4>1. j - 1 \in 1 .. Cardinality(S) /\ ~(j <= j - 1)  BY <3>2, <2>4, <1>1
      <4>2. j - 1 \notin Missing  BY <4>1, <2>3
      <4>3. PICK n \in S : Cardinality(Upto(n)) = j - 1  BY <4>1, <4>2 DEF Missing
      <4>4. \A q \in S : q \notin Upto(n) => \A m \in Upto(n) : m < q
        <5> SUFFICES ASSUME NEW q \in S, q \notin Upto(n), NEW m \in Upto(n) PROVE m < q  OBVIOUS
        <5>1. q \in Nat /\ m \in Nat /\ n \in Nat /\ m <= n /\ ~(q <= n)  OBVIOUS
        <5> QED BY <5>1
      <4>5. Upto(n) \in SUBSET S  OBVIOUS
      <4> QED BY <4>3, <4>4, <4>5
    <3> QED BY <3>1, <3>2
  <2>6. IsFiniteSet(T)  BY FS_Subset
  <2>7. S \ T # {}
    <3>1. SUFFICES ASSUME S \ T = {} PROVE FALSE  OBVIOUS
    <3>2. S = T  BY <3>1
    <3> QED BY <3>2, <2>5, <2>4, <1>1
  <2>8. PICK n : n \in S \ T /\ \A y \in S \ T : n <= y  BY <2>7, LeastIsThere
  <2>9. Upto(n) = T \cup {n}
    <3>1. ASSUME NEW m \in Upto(n) PROVE m \in T \cup {n}
      <4>1. m \in Nat /\ n \in Nat /\ m <= n /\ m \in S  BY <2>8
      <4>2. CASE m \notin T  BY <4>1, <4>2, <2>8
      <4> QED BY <4>2
    <3>2. ASSUME NEW m \in T \cup {n} PROVE m \in Upto(n)
      <4>1. m \in Nat /\ n \in Nat /\ m \in S  BY <2>8
      <4>2. CASE m \in T  BY <4>1, <4>2, <2>5, <2>8
      <4> QED BY <4>1, <4>2
    <3> QED BY <3>1, <3>2
  <2>10. Cardinality(Upto(n)) = j
    <3>1. Cardinality(T \cup {n}) = Cardinality(T) + 1  BY <2>6, <2>8, FS_AddElement
    <3> QED BY <3>1, <2>9, <2>5, <2>4, <1>1
  <2> QED BY <2>10, <2>4, <2>8
<1>3. \E n \in S : Cardinality(Upto(n)) = k  BY <1>2
<1> QED BY <1>3 DEF Nth

\* What separates the pieces of a line; "end" stands for the end of the line.
Separators == {";", "&&", "||", "|", "end"}
Piece == [toks : Seq(STRING), op : Separators]

\* Cutting a line yields pieces: words, and the separator after them.
LEMMA SplitIsPieces ==
  ASSUME NEW toks \in Seq(STRING), NEW seps \in SUBSET Separators, NEW max \in Nat
  PROVE  Split(toks, seps, max) \in Seq(Piece)
<1> DEFINE cuts == {i \in 1 .. Len(toks) : toks[i] \in seps}
           ends == IF Len(toks) \in cuts \cup {0} THEN cuts ELSE cuts \cup {Len(toks) + 1}
           From(k) == IF k = 1 THEN 1 ELSE Nth(ends, k - 1) + 1
           count == Min({max, Cardinality(ends)})
           piece(k) == [toks |-> SubSeq(toks, From(k), Nth(ends, k) - 1),
                        op |-> IF Nth(ends, k) \in cuts THEN toks[Nth(ends, k)] ELSE "end"]
<1>1. Len(toks) \in Nat /\ \A i \in 1 .. Len(toks) : toks[i] \in STRING  BY LenProperties, ElementOfSeq
<1>2. ends \subseteq 1 .. Len(toks) + 1  BY <1>1
<1>3. IsFiniteSet(ends)
  <2> HIDE DEF ends
  <2>1. IsFiniteSet(1 .. Len(toks) + 1)  BY <1>1, FS_Interval
  <2> QED BY <2>1, <1>2, FS_Subset
<1>4. Cardinality(ends) \in Nat  BY <1>3, FS_CardinalityType
<1>5. count \in Nat /\ count <= Cardinality(ends)
  <2>1. {max, Cardinality(ends)} \subseteq Nat  BY <1>4
  <2>2. count \in {max, Cardinality(ends)} /\ count <= Cardinality(ends)  BY <2>1, LeastIsThere
  <2> QED BY <2>1, <2>2
<1>6. ASSUME NEW k \in 1 .. count PROVE piece(k) \in Piece
  <2> HIDE DEF count, ends
  <2>1. k \in 1 .. Cardinality(ends)  BY <1>5, <1>4
  <2>2. Nth(ends, k) \in 1 .. Len(toks) + 1
    <3>1. ends \subseteq Nat  BY <1>1, <1>2
    <3> QED BY <2>1, <3>1, <1>2, <1>3, NthIsThere
  <2>3. From(k) \in Int /\ From(k) >= 1
    <3>1. CASE k = 1  BY <3>1
    <3>2. CASE k # 1
      <4>1. k - 1 \in 1 .. Cardinality(ends)  BY <3>2, <2>1, <1>4
      <4>2. ends \subseteq Nat  BY <1>1, <1>2
      <4>3. Nth(ends, k - 1) \in 1 .. Len(toks) + 1  BY <4>1, <4>2, <1>2, <1>3, NthIsThere
      <4> QED BY <4>3, <3>2, <1>1
    <3> QED BY <3>1, <3>2
  <2>4. SubSeq(toks, From(k), Nth(ends, k) - 1) \in Seq(STRING)
    <3> HIDE DEF From
    <3>1. Nth(ends, k) - 1 \in Int /\ Nth(ends, k) - 1 <= Len(toks)  BY <2>2, <1>1
    <3>2. \A i \in From(k) .. Nth(ends, k) - 1 : toks[i] \in STRING  BY <3>1, <2>3, <1>1
    <3> QED BY <3>1, <3>2, <2>3, SubSeqProperties
  <2>5. (IF Nth(ends, k) \in cuts THEN toks[Nth(ends, k)] ELSE "end") \in Separators
    <3>1. Nth(ends, k) \in cuts => toks[Nth(ends, k)] \in Separators  OBVIOUS
    <3> HIDE DEF cuts
    <3> QED BY <3>1 DEF Separators
  <2>6. \A a \in Seq(STRING), b \in Separators : [toks |-> a, op |-> b] \in Piece  BY DEF Piece
  <2> HIDE DEF From, cuts
  <2> QED BY <2>4, <2>5, <2>6
<1>7. Split(toks, seps, max) = [k \in 1 .. count |-> piece(k)]  BY DEF Split
<1>8. [k \in 1 .. count |-> piece(k)] \in [1 .. count -> Piece]
  <2> HIDE DEF piece, count
  <2> QED BY <1>6
<1> QED
  <2> HIDE DEF count, piece
  <2>1. count \in Nat  BY <1>5
  <2> QED BY <1>7, <1>8, <2>1, SeqDef

\* The parts of a segment; the first has no && or || before it.
LEMMA ChainIsPieces ==
  ASSUME NEW toks \in Seq(STRING)
  PROVE  /\ Chain(toks) \in Seq(Piece)
         /\ Chain(toks) # <<>> => Head(Chain(toks)).op = "end"
<1> DEFINE split == Split(toks, {"&&", "||"}, 8)
           piece(k) == [toks |-> split[k].toks, op |-> IF k = 1 THEN "end" ELSE split[k - 1].op]
<1>1. split \in Seq(Piece)  BY SplitIsPieces DEF Separators
<1> HIDE DEF split
<1>2. Len(split) \in Nat /\ DOMAIN split = 1 .. Len(split)
      /\ \A k \in 1 .. Len(split) : split[k] \in Piece
  BY <1>1, LenProperties, ElementOfSeq
<1>3. ASSUME NEW k \in 1 .. Len(split) PROVE piece(k) \in Piece
  <2>1. split[k].toks \in Seq(STRING)  BY <1>2 DEF Piece
  <2>2. (IF k = 1 THEN "end" ELSE split[k - 1].op) \in Separators
    <3>1. k # 1 => split[k - 1].op \in Separators  BY <1>2 DEF Piece
    <3> QED BY <3>1 DEF Separators
  <2>3. \A t \in Seq(STRING), b \in Separators : [toks |-> t, op |-> b] \in Piece  BY DEF Piece
  <2> QED BY <2>1, <2>2, <2>3
<1>4. Chain(toks) = [k \in 1 .. Len(split) |-> piece(k)]  BY <1>2 DEF Chain, split
<1>5. Chain(toks) \in Seq(Piece)
  <2> HIDE DEF piece
  <2>1. [k \in 1 .. Len(split) |-> piece(k)] \in [1 .. Len(split) -> Piece]  BY <1>3
  <2> QED BY <2>1, <1>4, <1>2, SeqDef
<1>6. Chain(toks) # <<>> => Head(Chain(toks)).op = "end"
  <2>1. SUFFICES ASSUME Chain(toks) # <<>> PROVE Head(Chain(toks)).op = "end"  OBVIOUS
  <2>2. Len(Chain(toks)) \in Nat \ {0} /\ DOMAIN Chain(toks) = 1 .. Len(Chain(toks))
    BY <2>1, <1>5, EmptySeq, LenProperties
  <2>3. 1 \in 1 .. Len(split)
    <3>1. DOMAIN Chain(toks) = 1 .. Len(split)  BY <1>4
    <3> QED BY <3>1, <2>2
  <2>4. Chain(toks)[1] = piece(1)  BY <2>3, <1>4
  <2>5. piece(1).op = "end"  OBVIOUS
  <2>6. Head(Chain(toks)) = Chain(toks)[1]  BY <1>5, <2>1 DEF Head
  <2> QED BY <2>4, <2>5, <2>6
<1> QED BY <1>5, <1>6

\* Taking one job out of the list leaves every other job in it.
LEMMA TakenOut ==
  ASSUME NEW s \in Seq(Nat), NEW k \in 1 .. Len(s)
  PROVE  /\ job_take(s, k) \in Seq(Nat)
         /\ \A m \in 1 .. Len(s) : m # k =>
               \E j \in 1 .. Len(job_take(s, k)) : job_take(s, k)[j] = s[m]
<1> DEFINE front == SubSeq(s, 1, k - 1)
           back == SubSeq(s, k + 1, Len(s))
<1>1. Len(s) \in Nat /\ \A i \in 1 .. Len(s) : s[i] \in Nat  BY LenProperties, ElementOfSeq
<1>2. /\ front \in Seq(Nat) /\ Len(front) = k - 1
      /\ \A i \in 1 .. k - 1 : front[i] = s[i]
  <2>1. \A i \in 1 .. k - 1 : s[i] \in Nat  BY <1>1
  <2>2. front \in Seq(Nat) /\ Len(front) = (IF 1 <= k - 1 THEN k - 1 - 1 + 1 ELSE 0)
        /\ \A i \in 1 .. k - 1 - 1 + 1 : front[i] = s[1 + i - 1]
    BY <2>1, SubSeqProperties
  <2> HIDE DEF front
  <2> QED BY <2>2, <1>1
<1>3. /\ back \in Seq(Nat) /\ Len(back) = Len(s) - k
      /\ \A i \in 1 .. Len(s) - k : back[i] = s[k + i]
  <2>1. \A i \in k + 1 .. Len(s) : s[i] \in Nat  BY <1>1
  <2>2. back \in Seq(Nat) /\ Len(back) = (IF k + 1 <= Len(s) THEN Len(s) - (k + 1) + 1 ELSE 0)
        /\ \A i \in 1 .. Len(s) - (k + 1) + 1 : back[i] = s[k + 1 + i - 1]
    BY <2>1, <1>1, SubSeqProperties
  <2> HIDE DEF back
  <2> QED BY <2>2, <1>1
<1> HIDE DEF front, back
<1>4. /\ front \o back \in Seq(Nat)
      /\ Len(front \o back) = Len(front) + Len(back)
      /\ \A i \in 1 .. Len(front) + Len(back) :
            (front \o back)[i] = IF i <= Len(front) THEN front[i] ELSE back[i - Len(front)]
  BY <1>2, <1>3, ConcatProperties
<1>5. job_take(s, k) = front \o back  BY DEF job_take, RemoveAt, front, back
<1>6. ASSUME NEW m \in 1 .. Len(s), m # k
      PROVE  \E j \in 1 .. Len(front \o back) : (front \o back)[j] = s[m]
  <2>1. CASE m < k
    <3>1. m \in 1 .. Len(front \o back) /\ m \in 1 .. k - 1  BY <2>1, <1>1, <1>2, <1>3, <1>4
    <3>2. (front \o back)[m] = front[m]  BY <2>1, <3>1, <1>2, <1>4
    <3> QED BY <3>1, <3>2, <1>2
  <2>2. CASE m > k
    <3>1. m - 1 \in 1 .. Len(front \o back)  BY <2>2, <1>1, <1>2, <1>3, <1>4
    <3>2. (front \o back)[m - 1] = back[m - k]
      <4>1. ~(m - 1 <= Len(front)) /\ (m - 1) - Len(front) = m - k  BY <2>2, <1>1, <1>2
      <4>2. (front \o back)[m - 1] =
              IF m - 1 <= Len(front) THEN front[m - 1] ELSE back[(m - 1) - Len(front)]
        BY <3>1, <1>4
      <4> QED BY <4>1, <4>2
    <3>3. m - k \in 1 .. Len(s) - k /\ k + (m - k) = m  BY <2>2, <1>1
    <3> QED BY <3>1, <3>2, <3>3, <1>3
  <2> QED BY <2>1, <2>2, <1>6
<1> QED BY <1>4, <1>5, <1>6

\* A pipeline with commands has at least one.
LEMMA CommandsCounted ==
  ASSUME NEW toks \in Seq(STRING)
  PROVE  Len(Commands(split_pipe(toks))) \in Nat /\ (Commands(split_pipe(toks)) # <<>> => Len(Commands(split_pipe(toks))) >= 1)
<1> DEFINE pieces == split_pipe(toks)
           cmd(k) == Command(pieces[k].toks)
           cmds == [k \in DOMAIN pieces |-> cmd(k)]
<1>1. pieces \in Seq(Piece)  BY SplitIsPieces, ShAssumption DEF Separators, split_pipe
<1>2. Len(pieces) \in Nat /\ DOMAIN pieces = 1 .. Len(pieces)  BY <1>1, LenProperties
<1>3. cmds \in Seq({cmd(k) : k \in DOMAIN pieces})
  <2> HIDE DEF cmd, pieces
  <2>1. cmds \in [1 .. Len(pieces) -> {cmd(k) : k \in DOMAIN pieces}]  BY <1>2
  <2> QED BY <2>1, <1>2, SeqDef
<1>4. Len(cmds) \in Nat /\ (cmds # <<>> => Len(cmds) \in Nat \ {0})
  <2> HIDE DEF cmds
  <2> QED BY <1>3, EmptySeq, LenProperties
<1>5. Commands(split_pipe(toks)) = cmds  BY DEF Commands
<1> QED BY <1>4, <1>5

\* The fields of the shell's place in its line and of a child.
ShFields == {"at", "segs", "parts", "op", "st", "empty", "bg", "cmds", "i", "prev", "fds", "pids"}
ChildFields == {"state", "fd", "cmd", "status", "prev", "next", "full"}
Tty == <<"tty", 0>>
\* The shell's line is made of pieces, its children are numbered from one.
ShShape ==
    /\ DOMAIN sh = ShFields
    /\ sh.segs \in Seq(Piece) /\ sh.parts \in Seq(Piece)
    /\ sh.i \in Nat /\ sh.pids \in Seq(Nat) /\ sh_jobs \in Seq(Nat)
    /\ \E n \in Nat : Pids = 1 .. n
    /\ \A p \in Pids : DOMAIN procs[p] = ChildFields
\* Where the shell is in its line decides what it has in hand.
ShPlace ==
    /\ sh.at \in {"prompt", "chain", "single", "builtin", "restore", "program", "spawn", "forked", "wait", "gone"}
    /\ sh.at \in {"single", "builtin", "program"} => Len(sh.cmds) = 1
    /\ sh.at \in {"single", "program"} => sh.i = 1
    /\ sh.at = "builtin" => sh.i >= 1 /\ (sh.i = 1 \/ sh.cmds[1].argv[1] = "jobs")
    /\ sh.at \in {"spawn", "forked"} => Len(sh.cmds) \in Nat /\ sh.i \in 1 .. Len(sh.cmds)
    /\ sh.at = "wait" => sh.i >= 1
    /\ sh.at = "spawn" => (sh.fds # <<>> => HasNext)
    /\ sh.at = "forked" => (sh.fds # <<>> <=> HasNext)
    /\ sh.at \notin {"spawn", "forked"} => sh.prev = NoPipe /\ sh.fds = <<>>
    /\ sh.at \notin {"spawn", "forked", "wait"} => sh.pids = <<>>
\* The ends of pipes among the descriptors: of the pipe behind and of the one
\* ahead.
Ends(prev, next) == ({prev} \ {NoPipe}) \cup (IF next = <<>> THEN {} ELSE {next[1], next[2]})
PipeEnds(prev, next) ==
    /\ prev \in {NoPipe} \cup 2 .. 13
    /\ next # <<>> => /\ next[1] \in 2 .. 13 /\ next[2] \in 2 .. 13
                      /\ next[1] # next[2] /\ next[1] # prev /\ next[2] # prev
\* Descriptors: the terminal alone between commands, the saved copies 14 and 15
\* around a builtin, the ends of at most two pipes while a pipeline starts.
ShFds ==
    /\ sh.at \in {"prompt", "chain", "single", "wait"} => sh_fd = Terminal
    /\ sh.at \in {"builtin", "restore", "program"} =>
          /\ DOMAIN sh_fd = {0, 1, 14, 15}
          /\ sh_fd[14] = Tty /\ sh_fd[15] = Tty
    /\ sh.at \in {"spawn", "forked"} =>
          /\ PipeEnds(sh.prev, sh.fds)
          /\ sh_fd = [n \in DOMAIN sh_fd |-> sh_fd[n]]
          /\ DOMAIN sh_fd = {0, 1} \cup Ends(sh.prev, sh.fds)
          /\ sh_fd[0] = Tty /\ sh_fd[1] = Tty
\* A child that has not set up its descriptors yet has those of the shell.
ShChildren ==
    \A p \in Pids :
       /\ procs[p].state = "run" => DOMAIN procs[p].fd = {0, 1}
       /\ procs[p].state = "setup" =>
             /\ PipeEnds(procs[p].prev, procs[p].next)
             /\ DOMAIN procs[p].fd = {0, 1} \cup Ends(procs[p].prev, procs[p].next)
\* A child is in the job list, or will be waited for.
Listed(p) == \E k \in 1 .. Len(sh_jobs) : sh_jobs[k] = p
Awaited(p) == /\ ~sh.bg /\ sh.at \in {"spawn", "forked", "wait"}
              /\ \E k \in 1 .. Len(sh.pids) : sh.pids[k] = p /\ (sh.at = "wait" => k >= sh.i)
ShJobs ==
    /\ sh.bg \in BOOLEAN
    /\ \A p \in Pids : procs[p].state # "reaped" /\ ~procs[p].full => Listed(p) \/ Awaited(p)
\* Between the parts of a segment st is the status of the last command, or that
\* of a part that expanded to nothing.
ShStatus ==
    /\ sh.empty \in BOOLEAN
    /\ sh.at = "prompt" => sh.parts = <<>> /\ ~sh.empty
    /\ sh.at = "chain" =>
          /\ sh.empty => sh.st = 0
          /\ sh.parts # <<>> => sh.empty \/ last_status = sh.st \/ Head(sh.parts).op = "end"
\* The inductive invariant of the shell.
ShInvariant == ShShape /\ ShPlace /\ ShFds /\ ShChildren /\ ShJobs /\ ShStatus
\* Reading a line.
LEMMA ReadKeeps ==
  ASSUME ShInvariant, NEW line \in ShLines, ShRead(line)
  PROVE  ShInvariant'
<1> USE DEF ShInvariant
<1>10. ShShape'
  <2>1. line \in Seq(STRING) /\ line # <<>>  BY ShAssumption
  <2>2. Len(line) \in Nat \ {0} /\ \A i \in 1 .. Len(line) : line[i] \in STRING  BY <2>1, EmptySeq, ElementOfSeq
  <2>3. Front(line) \in Seq(STRING)
    <3>1. \A i \in 1 .. Len(line) - 1 : line[i] \in STRING  BY <2>2
    <3> QED BY <3>1, <2>2, SubSeqProperties DEF Front
  <2>4. sh'.segs \in Seq(Piece)
    <3>1. PICK toks \in Seq(STRING) : sh'.segs = Split(toks, {";"}, 8)
      BY <2>1, <2>3 DEF ShRead, ShShape, ShFields
    <3>2. {";"} \in SUBSET Separators /\ 8 \in Nat  BY DEF Separators
    <3> QED BY <3>1, <3>2, SplitIsPieces
  <2>5. /\ DOMAIN sh' = ShFields /\ sh'.parts = sh.parts /\ sh'.i = sh.i /\ sh'.pids = sh.pids
        /\ sh_jobs' = sh_jobs /\ procs' = procs
    BY DEF ShRead, ShShape, ShFields
  <2> QED BY <2>4, <2>5 DEF ShShape, Pids
<1>11. ShPlace'  BY DEF ShShape, ShFields, ShPlace, NoPipe, HasNext, ShRead
<1>12. ShFds'  BY DEF ShShape, ShFields, ShPlace, ShFds, ShRead
<1>13. ShChildren'  BY DEF ShChildren, Pids, ShRead
<1>14. ShJobs'  BY DEF ShShape, ShFields, ShJobs, Listed, Awaited, Pids, ShRead
<1>15. ShStatus'
  <2>1. sh'.at = "chain" /\ sh'.parts = sh.parts /\ sh'.empty = sh.empty /\ sh.at = "prompt"
    BY DEF ShRead, ShShape, ShFields
  <2> QED BY <2>1 DEF ShStatus
<1> QED BY <1>10, <1>11, <1>12, <1>13, <1>14, <1>15

LEMMA SegmentKeeps ==
  ASSUME ShInvariant, ShSegment
  PROVE  ShInvariant'
<1> USE DEF ShInvariant
<1>10. ShShape'
  <2>1. sh.segs # <<>> => /\ Tail(sh.segs) \in Seq(Piece)
                          /\ Head(sh.segs).toks \in Seq(STRING)
    <3>1. sh.segs # <<>> => Tail(sh.segs) \in Seq(Piece) /\ Head(sh.segs) \in Piece
      BY HeadTailProperties DEF ShShape
    <3> QED BY <3>1 DEF Piece
  <2>2. sh.segs # <<>> => Chain(Head(sh.segs).toks) \in Seq(Piece)  BY <2>1, ChainIsPieces
  <2> QED BY <2>1, <2>2 DEF ShShape, ShFields, Pids, ShSegment
<1>11. ShPlace'  BY DEF ShShape, ShFields, ShPlace, NoPipe, HasNext, ShSegment
<1>12. ShFds'  BY DEF ShShape, ShFields, ShPlace, ShFds, ShSegment
<1>13. ShChildren'  BY DEF ShChildren, Pids, ShSegment
<1>14. ShJobs'  BY DEF ShShape, ShFields, ShJobs, Listed, Awaited, Pids, ShSegment
<1>15. ShStatus'
  <2>1. CASE sh.segs = <<>>  BY <2>1 DEF ShShape, ShFields, ShStatus, ShSegment
  <2>2. CASE sh.segs # <<>>
    <3>1. Head(sh.segs).toks \in Seq(STRING)
      <4>1. Head(sh.segs) \in Piece  BY <2>2, HeadTailProperties DEF ShShape
      <4> QED BY <4>1 DEF Piece
    <3>2. sh'.parts = Chain(Head(sh.segs).toks) /\ sh'.at = "chain" /\ sh'.empty = FALSE
      BY <2>2 DEF ShShape, ShFields, ShSegment
    <3>3. sh'.parts # <<>> => Head(sh'.parts).op = "end"  BY <3>1, <3>2, ChainIsPieces
    <3> QED BY <3>2, <3>3 DEF ShStatus
  <2> QED BY <2>1, <2>2
<1> QED BY <1>10, <1>11, <1>12, <1>13, <1>14, <1>15

LEMMA ChainKeeps ==
  ASSUME ShInvariant, ShChain
  PROVE  ShInvariant'
<1> DEFINE toks == Head(sh.parts).toks
           cmds == Commands(split_pipe(toks))
           Launched == /\ Len(cmds) \in Nat /\ Len(cmds) >= 1
                   /\ sh' = [sh EXCEPT !.parts = Tail(@), !.op = Head(sh.parts).op, !.cmds = cmds,
                                !.i = 1, !.at = IF Len(cmds) = 1 THEN "single" ELSE "spawn"]
<1>2. Tail(sh.parts) \in Seq(Piece) /\ Head(sh.parts) \in Piece
  BY HeadTailProperties DEF ShInvariant, ShShape, ShChain
<1>3. Len(cmds) \in Nat /\ (cmds # <<>> => Len(cmds) >= 1)
  <2>1. toks \in Seq(STRING)  BY <1>2 DEF Piece
  <2> QED BY <2>1, CommandsCounted
<1>4. \/ sh' = [sh EXCEPT !.parts = Tail(@)] /\ Skipped(Head(sh.parts), sh.st)
      \/ sh' = [sh EXCEPT !.parts = Tail(@), !.st = 0, !.empty = TRUE]
      \/ Launched
  <2> HIDE DEF cmds
  <2>1. \E first \in {Head(sh.parts)} : \E c \in {cmds} :
          sh' = IF Skipped(first, sh.st) THEN [sh EXCEPT !.parts = Tail(@)]
                ELSE IF c = <<>> \/ \E k \in DOMAIN c : c[k].argv = <<>>
                     THEN [sh EXCEPT !.parts = Tail(@), !.st = 0, !.empty = TRUE]
                ELSE [sh EXCEPT !.parts = Tail(@), !.op = first.op, !.cmds = c, !.i = 1,
                                !.at = IF Len(c) = 1 THEN "single" ELSE "spawn"]
    BY DEF ShChain, cmds
  <2>2. CASE Skipped(Head(sh.parts), sh.st)  BY <2>1, <2>2
  <2>3. CASE ~Skipped(Head(sh.parts), sh.st) /\ (cmds = <<>> \/ \E k \in DOMAIN cmds : cmds[k].argv = <<>>)
    BY <2>1, <2>3
  <2>4. CASE ~Skipped(Head(sh.parts), sh.st) /\ ~(cmds = <<>> \/ \E k \in DOMAIN cmds : cmds[k].argv = <<>>)
    BY <2>1, <2>4, <1>3
  <2> QED BY <2>2, <2>3, <2>4
<1> HIDE DEF cmds
<1> USE DEF ShInvariant
<1>10. ShShape'  BY <1>2 DEF ShShape, ShFields, Pids, ShChain
<1>11. ShPlace'
  <2>1. sh.prev = NoPipe /\ sh.fds = <<>> /\ sh.pids = <<>>  BY DEF ShPlace, ShChain
  <2>2. CASE sh' = [sh EXCEPT !.parts = Tail(@)]  BY <2>1, <2>2 DEF ShPlace, ShChain, ShShape, ShFields
  <2>3. CASE sh' = [sh EXCEPT !.parts = Tail(@), !.st = 0, !.empty = TRUE]
    BY <2>1, <2>3 DEF ShPlace, ShChain, ShShape, ShFields
  <2>4. CASE Launched  BY <2>1, <2>4 DEF ShPlace, ShChain, ShShape, ShFields, HasNext
  <2> QED BY <1>4, <2>2, <2>3, <2>4
<1>12. ShFds'
  <2>1. sh_fd = Terminal /\ sh.prev = NoPipe /\ sh.fds = <<>> /\ sh_fd' = sh_fd  BY DEF ShPlace, ShFds, ShChain
  <2>2. sh'.at \in {"chain", "single", "spawn"} /\ sh'.prev = NoPipe /\ sh'.fds = <<>>
    BY <1>4, <2>1 DEF ShChain, ShShape, ShFields
  <2>3. DOMAIN Terminal = {0, 1} /\ Terminal[0] = Tty /\ Terminal[1] = Tty
        /\ Terminal = [n \in DOMAIN Terminal |-> Terminal[n]]
    BY DEF Terminal, Tty
  <2>4. Ends(NoPipe, <<>>) = {} /\ PipeEnds(NoPipe, <<>>)  BY DEF Ends, PipeEnds
  <2> QED BY <2>1, <2>2, <2>3, <2>4 DEF ShFds
<1>13. ShChildren'  BY DEF ShChildren, Pids, ShChain
<1>14. ShJobs'  BY DEF ShShape, ShFields, ShJobs, Listed, Awaited, Pids, ShChain
<1>15. ShStatus'
  <2>2. CASE sh' = [sh EXCEPT !.parts = Tail(@)] /\ Skipped(Head(sh.parts), sh.st)
    BY <2>2 DEF ShStatus, ShChain, ShShape, ShFields, Skipped
  <2>3. CASE sh' = [sh EXCEPT !.parts = Tail(@), !.st = 0, !.empty = TRUE]
    BY <2>3 DEF ShStatus, ShChain, ShShape, ShFields
  <2>4. CASE Launched  BY <2>4 DEF ShStatus, ShShape, ShFields
  <2> QED BY <1>4, <2>2, <2>3, <2>4
<1> QED BY <1>10, <1>11, <1>12, <1>13, <1>14, <1>15

\* Redirection replaces input and output and leaves the rest.
LEMMA RedirKeeps ==
  ASSUME NEW fd, {0, 1} \subseteq DOMAIN fd, NEW cmd
  PROVE  /\ DOMAIN apply_redir(fd, cmd) = DOMAIN fd
         /\ \A n \in DOMAIN fd \ {0, 1} : apply_redir(fd, cmd)[n] = fd[n]
<1>1. ASSUME NEW g, {0, 1} \subseteq DOMAIN g, NEW to \in {0, 1}, NEW name
      PROVE  /\ DOMAIN Redirected(g, name, to) = DOMAIN g
             /\ \A n \in DOMAIN g \ {0, 1} : Redirected(g, name, to)[n] = g[n]
  BY <1>1 DEF Redirected, Placed
<1> DEFINE in == Redirected(fd, cmd.in, 0)
<1>2. DOMAIN in = DOMAIN fd /\ \A n \in DOMAIN fd \ {0, 1} : in[n] = fd[n]  BY <1>1
<1>3. /\ DOMAIN Redirected(in, cmd.out, 1) = DOMAIN in
      /\ \A n \in DOMAIN in \ {0, 1} : Redirected(in, cmd.out, 1)[n] = in[n]
  <2> HIDE DEF in
  <2> QED BY <1>1, <1>2
<1>4. apply_redir(fd, cmd) = in \/ apply_redir(fd, cmd) = Redirected(in, cmd.out, 1)  BY DEF apply_redir
<1> QED
  <2> HIDE DEF in
  <2> QED BY <1>2, <1>3, <1>4

\* A single command finds copies of the terminal at 14 and 15.
LEMMA SavedFds ==
  ASSUME NEW fd, fd = Dup2(Dup2(Terminal, 0, 14), 1, 15)
  PROVE  DOMAIN fd = {0, 1, 14, 15} /\ fd[14] = Tty /\ fd[15] = Tty
<1> DEFINE one == Dup2(Terminal, 0, 14)
<1>1. DOMAIN one = {0, 1, 14} /\ one[14] = Tty /\ one[1] = Tty  BY DEF Dup2, Placed, Terminal, Tty
<1> HIDE DEF one
<1>2. DOMAIN Dup2(one, 1, 15) = {0, 1, 14, 15} /\ Dup2(one, 1, 15)[14] = Tty /\ Dup2(one, 1, 15)[15] = Tty
  BY <1>1 DEF Dup2, Placed
<1> QED BY <1>2 DEF one

\* A table of two entries that name the terminal is the terminal's.
LEMMA OnlyTerminal ==
  ASSUME NEW fd, fd = [n \in DOMAIN fd |-> fd[n]], DOMAIN fd = {0, 1}, fd[0] = Tty, fd[1] = Tty
  PROVE  fd = Terminal
<1>1. fd = [n \in {0, 1} |-> fd[n]]  OBVIOUS
<1>2. \A n \in {0, 1} : fd[n] = Tty  OBVIOUS
<1>3. [n \in {0, 1} |-> fd[n]] = [n \in {0, 1} |-> Tty]  BY <1>2
<1> QED BY <1>1, <1>3 DEF Terminal, Tty

\* What closing a descriptor leaves.
LEMMA ClosedFds ==
  ASSUME NEW fd, NEW n
  PROVE  /\ Closed(fd, n) = [m \in DOMAIN Closed(fd, n) |-> Closed(fd, n)[m]]
         /\ DOMAIN Closed(fd, n) = DOMAIN fd \ {n}
         /\ \A m \in DOMAIN fd \ {n} : Closed(fd, n)[m] = fd[m]
BY DEF Closed

\* The saved copies restore the terminal, whatever the redirections did.
LEMMA RestoredIsTerminal ==
  ASSUME NEW fd, DOMAIN fd = {0, 1, 14, 15}, fd[14] = Tty, fd[15] = Tty
  PROVE  Restored(fd) = Terminal
<1> DEFINE in == Dup2(fd, 14, 0)
           both == Dup2(in, 15, 1)
           rest == Closed(both, 14)
<1>1. DOMAIN in = {0, 1, 14, 15} /\ in[0] = Tty /\ in[15] = Tty  BY DEF Dup2, Placed
<1> HIDE DEF in
<1>2. DOMAIN both = {0, 1, 14, 15} /\ both[0] = Tty /\ both[1] = Tty  BY <1>1 DEF Dup2, Placed
<1> HIDE DEF both
<1>3. DOMAIN rest = {0, 1, 15} /\ rest[0] = Tty /\ rest[1] = Tty  BY <1>2 DEF Closed
<1> HIDE DEF rest
<1>4. /\ Closed(rest, 15) = [n \in DOMAIN Closed(rest, 15) |-> Closed(rest, 15)[n]]
      /\ DOMAIN Closed(rest, 15) = {0, 1}
      /\ Closed(rest, 15)[0] = Tty /\ Closed(rest, 15)[1] = Tty
  <2>1. /\ DOMAIN Closed(rest, 15) = DOMAIN rest \ {15}
        /\ \A m \in DOMAIN rest \ {15} : Closed(rest, 15)[m] = rest[m]
        /\ Closed(rest, 15) = [n \in DOMAIN Closed(rest, 15) |-> Closed(rest, 15)[n]]
    BY ClosedFds
  <2>2. {0, 1, 15} \ {15} = {0, 1}  OBVIOUS
  <2> QED BY <1>3, <2>1, <2>2
<1>5. Closed(rest, 15) = Terminal  BY <1>4, OnlyTerminal
<1> QED BY <1>5 DEF Restored, rest, both, in

\* Reaping children changes their state alone.
LEMMA ReapedKeeps ==
  ASSUME ShShape, ShChildren, NEW S, procs' = Reaped(S)
  PROVE  /\ Pids' = Pids
         /\ ShChildren'
         /\ \A p \in Pids : /\ DOMAIN procs'[p] = ChildFields
                            /\ procs'[p].full = procs[p].full
                            /\ procs'[p].state = IF p \in S THEN "reaped" ELSE procs[p].state
<1>1. Pids' = Pids /\ \A p \in Pids : procs'[p] = IF p \in S THEN [procs[p] EXCEPT !.state = "reaped"] ELSE procs[p]
  BY DEF Reaped, Pids
<1>2. ASSUME NEW p \in Pids
      PROVE  /\ DOMAIN procs'[p] = ChildFields
             /\ procs'[p].full = procs[p].full
             /\ procs'[p].state = IF p \in S THEN "reaped" ELSE procs[p].state
             /\ procs'[p].fd = procs[p].fd
             /\ procs'[p].prev = procs[p].prev /\ procs'[p].next = procs[p].next
  BY <1>1 DEF ShShape, ChildFields
<1>3. ShChildren'  BY <1>1, <1>2 DEF ShChildren
<1> QED BY <1>1, <1>2, <1>3

\* A child that ends gives up its descriptors.
LEMMA EndedKeeps ==
  ASSUME ShShape, ShChildren, NEW c \in Pids, NEW st, procs' = Ended(c, st)
  PROVE  /\ Pids' = Pids
         /\ ShChildren'
         /\ \A p \in Pids : /\ DOMAIN procs'[p] = ChildFields
                            /\ procs'[p].full = procs[p].full
                            /\ procs'[p].state = IF p = c THEN "zombie" ELSE procs[p].state
<1>1. /\ Pids' = Pids
      /\ \A p \in Pids \ {c} : procs'[p] = procs[p]
      /\ procs'[c] = [procs[c] EXCEPT !.state = "zombie", !.status = st, !.fd = <<>>]
  BY DEF Ended, Pids
<1>2. DOMAIN procs'[c] = ChildFields /\ procs'[c].full = procs[c].full /\ procs'[c].state = "zombie"
  BY <1>1 DEF ShShape, ChildFields
<1>3. \A p \in Pids : /\ DOMAIN procs'[p] = ChildFields
                      /\ procs'[p].full = procs[p].full
                      /\ procs'[p].state = IF p = c THEN "zombie" ELSE procs[p].state
  BY <1>1, <1>2 DEF ShShape
<1>4. ShChildren'
  <2> SUFFICES ASSUME NEW p \in Pids
               PROVE  /\ procs'[p].state = "run" => DOMAIN procs'[p].fd = {0, 1}
                      /\ procs'[p].state = "setup" =>
                            /\ PipeEnds(procs'[p].prev, procs'[p].next)
                            /\ DOMAIN procs'[p].fd = {0, 1} \cup Ends(procs'[p].prev, procs'[p].next)
    BY <1>1 DEF ShChildren
  <2>1. CASE p = c  BY <2>1, <1>2
  <2>2. CASE p # c  BY <2>2, <1>1 DEF ShChildren
  <2> QED BY <2>1, <2>2
<1> QED BY <1>1, <1>3, <1>4

LEMMA SingleKeeps ==
  ASSUME ShInvariant, ShSingle
  PROVE  ShInvariant'
<1> USE DEF ShInvariant
<1>10. ShShape'  BY DEF ShShape, ShFields, Pids, ShSingle
<1>11. ShPlace'  BY DEF ShShape, ShFields, ShPlace, NoPipe, HasNext, ShSingle
<1>12. ShFds'
  <2>1. sh_fd = Terminal  BY DEF ShFds, ShSingle
  <2>2. /\ sh_fd' = apply_redir(Dup2(Dup2(Terminal, 0, 14), 1, 15), sh.cmds[1])
        /\ sh'.at \in {"builtin", "restore"}
    BY <2>1 DEF ShSingle, ShShape, ShFields
  <2>3. PICK fd : fd = Dup2(Dup2(Terminal, 0, 14), 1, 15)  OBVIOUS
  <2>4. DOMAIN fd = {0, 1, 14, 15} /\ fd[14] = Tty /\ fd[15] = Tty  BY <2>3, SavedFds
  <2>5. /\ DOMAIN apply_redir(fd, sh.cmds[1]) = {0, 1, 14, 15}
        /\ apply_redir(fd, sh.cmds[1])[14] = Tty /\ apply_redir(fd, sh.cmds[1])[15] = Tty
    <3>1. {0, 1} \subseteq DOMAIN fd /\ 14 \in DOMAIN fd \ {0, 1} /\ 15 \in DOMAIN fd \ {0, 1}  BY <2>4
    <3> QED BY <3>1, <2>4, RedirKeeps
  <2> QED BY <2>2, <2>3, <2>5 DEF ShFds
<1>13. ShChildren'  BY DEF ShChildren, Pids, ShSingle
<1>14. ShJobs'  BY DEF ShShape, ShFields, ShJobs, Listed, Awaited, Pids, ShSingle
<1>15. ShStatus'  BY DEF ShShape, ShFields, ShStatus, ShSingle
<1> QED BY <1>10, <1>11, <1>12, <1>13, <1>14, <1>15

LEMMA RestoreKeeps ==
  ASSUME ShInvariant, ShRestore
  PROVE  ShInvariant'
<1> USE DEF ShInvariant
<1>10. ShShape'  BY DEF ShShape, ShFields, Pids, ShRestore
<1>11. ShPlace'
  <2>1. CASE sh.at = "program"
    <3>1. /\ sh'.at = "spawn" /\ sh'.cmds = sh.cmds /\ sh'.i = 1 /\ sh'.prev = NoPipe
          /\ sh'.fds = <<>> /\ sh'.pids = <<>> /\ Len(sh.cmds) = 1
      BY <2>1 DEF ShShape, ShFields, ShPlace, ShRestore
    <3>2. Len(sh'.cmds) = 1  BY <3>1
    <3> QED BY <3>1, <3>2 DEF ShPlace
  <2>2. CASE sh.at = "restore"  BY <2>2 DEF ShShape, ShFields, ShPlace, ShRestore
  <2> QED BY <2>1, <2>2 DEF ShRestore
<1>12. ShFds'
  <2>1. DOMAIN sh_fd = {0, 1, 14, 15} /\ sh_fd[14] = Tty /\ sh_fd[15] = Tty  BY DEF ShFds, ShRestore
  <2>2. sh_fd' = Terminal  BY <2>1, RestoredIsTerminal DEF ShRestore
  <2>3. sh'.at \in {"spawn", "chain"} /\ sh'.prev = NoPipe /\ sh'.fds = <<>>
    BY DEF ShRestore, ShPlace, ShShape, ShFields
  <2>4. DOMAIN Terminal = {0, 1} /\ Terminal[0] = Tty /\ Terminal[1] = Tty
        /\ Terminal = [n \in DOMAIN Terminal |-> Terminal[n]]
    BY DEF Terminal, Tty
  <2>5. Ends(NoPipe, <<>>) = {} /\ PipeEnds(NoPipe, <<>>)  BY DEF Ends, PipeEnds
  <2> QED BY <2>2, <2>3, <2>4, <2>5 DEF ShFds
<1>13. ShChildren'  BY DEF ShChildren, Pids, ShRestore
<1>14. ShJobs'  BY DEF ShShape, ShFields, ShJobs, Listed, Awaited, Pids, ShRestore
<1>15. ShStatus'  BY DEF ShShape, ShFields, ShStatus, ShRestore
<1> QED BY <1>10, <1>11, <1>12, <1>13, <1>14, <1>15

\* What holds of children and jobs while a builtin runs.
JobsRight ==
    /\ sh_jobs \in Seq(Nat)
    /\ \E n \in Nat : Pids = 1 .. n
    /\ \A p \in Pids : DOMAIN procs[p] = ChildFields
    /\ \A p \in Pids : procs[p].state = "reaped" \/ procs[p].full \/ Listed(p)

\* A job leaves the list together with its child.
LEMMA TakenKeeps ==
  ASSUME ShShape, ShChildren, JobsRight, NEW k \in 1 .. Len(sh_jobs),
         procs' = Reaped({sh_jobs[k]}), sh_jobs' = job_take(sh_jobs, k)
  PROVE  ShChildren' /\ JobsRight'
<1>1. /\ Pids' = Pids
      /\ ShChildren'
      /\ \A p \in Pids : /\ DOMAIN procs'[p] = ChildFields
                         /\ procs'[p].full = procs[p].full
                         /\ procs'[p].state = IF p \in {sh_jobs[k]} THEN "reaped" ELSE procs[p].state
  BY ReapedKeeps
<1>2. /\ sh_jobs' \in Seq(Nat)
      /\ \A m \in 1 .. Len(sh_jobs) : m # k =>
            \E j \in 1 .. Len(sh_jobs') : sh_jobs'[j] = sh_jobs[m]
  BY TakenOut DEF ShShape
<1>3. ASSUME NEW p \in Pids, procs'[p].state # "reaped", ~procs'[p].full
      PROVE  \E j \in 1 .. Len(sh_jobs') : sh_jobs'[j] = p
  <2>1. p # sh_jobs[k] /\ procs[p].state # "reaped" /\ ~procs[p].full  BY <1>1, <1>3
  <2>2. Listed(p)  BY <2>1 DEF JobsRight
  <2>3. PICK m \in 1 .. Len(sh_jobs) : sh_jobs[m] = p  BY <2>2 DEF Listed
  <2> QED BY <2>1, <2>3, <1>2
<1>4. \A p \in Pids' : procs'[p].state = "reaped" \/ procs'[p].full \/ Listed(p)'  BY <1>1, <1>3 DEF Listed
<1> QED BY <1>1, <1>2, <1>4 DEF JobsRight

\* Reaping what is not in the list leaves the list right.
LEMMA ReapKeeps ==
  ASSUME ShShape, ShChildren, JobsRight, NEW S, procs' = Reaped(S), sh_jobs' = sh_jobs
  PROVE  ShChildren' /\ JobsRight'
<1>1. /\ Pids' = Pids
      /\ ShChildren'
      /\ \A p \in Pids : /\ DOMAIN procs'[p] = ChildFields
                         /\ procs'[p].full = procs[p].full
                         /\ procs'[p].state = IF p \in S THEN "reaped" ELSE procs[p].state
  BY ReapedKeeps
<1>2. \A p : Listed(p)' <=> Listed(p)  BY DEF Listed
<1>3. \A p \in Pids' : procs'[p].state = "reaped" \/ procs'[p].full \/ Listed(p)'  BY <1>1, <1>2 DEF JobsRight
<1> QED BY <1>1, <1>3 DEF JobsRight

\* A child that is killed stays in the list until it is waited for.
LEMMA KillKeeps ==
  ASSUME ShShape, ShChildren, JobsRight, NEW c \in Pids, Alive(c), NEW st, procs' = Ended(c, st),
         sh_jobs' = sh_jobs
  PROVE  ShChildren' /\ JobsRight'
<1>1. /\ Pids' = Pids
      /\ ShChildren'
      /\ \A p \in Pids : /\ DOMAIN procs'[p] = ChildFields
                         /\ procs'[p].full = procs[p].full
                         /\ procs'[p].state = IF p = c THEN "zombie" ELSE procs[p].state
  BY EndedKeeps
<1>2. procs[c].state # "reaped"  BY DEF Alive
<1>3. \A p : Listed(p)' <=> Listed(p)  BY DEF Listed
<1>4. \A p \in Pids' : procs'[p].state = "reaped" \/ procs'[p].full \/ Listed(p)'
  BY <1>1, <1>2, <1>3 DEF JobsRight
<1> QED BY <1>1, <1>4 DEF JobsRight

\* No builtin loses a child: jobs, wait, fg and kill.
LEMMA BuiltinJobs ==
  ASSUME ShShape, ShChildren, JobsRight, Builtin, sh.i >= 1
  PROVE  ShChildren' /\ JobsRight'
<1>1. CASE UNCHANGED <<procs, sh_jobs>>  BY <1>1 DEF ShChildren, JobsRight, Listed, Pids
<1>2. CASE JobsLoop
  <2>1. CASE sh.i > Len(sh_jobs)  BY <2>1, <1>2, <1>1 DEF JobsLoop
  <2>2. CASE ~(sh.i > Len(sh_jobs)) /\ Child(sh_jobs[sh.i]) /\ ~Zombie(sh_jobs[sh.i])
    BY <2>2, <1>2, <1>1 DEF JobsLoop
  <2>3. CASE ~(sh.i > Len(sh_jobs)) /\ ~(Child(sh_jobs[sh.i]) /\ ~Zombie(sh_jobs[sh.i]))
    <3>1. procs' = Reaped({sh_jobs[sh.i]}) /\ sh_jobs' = job_take(sh_jobs, sh.i)  BY <2>3, <1>2 DEF JobsLoop
    <3>2. sh.i \in 1 .. Len(sh_jobs)  BY <2>3, LenProperties DEF ShShape
    <3> QED BY <3>1, <3>2, TakenKeeps
  <2> QED BY <2>1, <2>2, <2>3
<1>3. CASE sh_jobs # <<>> /\ procs' = Reaped({sh_jobs[1]}) /\ sh_jobs' = job_take(sh_jobs, 1)
  <2>1. 1 \in 1 .. Len(sh_jobs)  BY <1>3, EmptySeq DEF ShShape
  <2> QED BY <1>3, <2>1, TakenKeeps
<1>4. CASE /\ procs' = Reaped({job_resolve})
           /\ sh_jobs' = IF job_index_of(sh_jobs, job_resolve) = {} THEN sh_jobs
                         ELSE job_take(sh_jobs, Min(job_index_of(sh_jobs, job_resolve)))
  <2>1. CASE job_index_of(sh_jobs, job_resolve) = {}  BY <2>1, <1>4, ReapKeeps
  <2>2. CASE job_index_of(sh_jobs, job_resolve) # {}
    <3> DEFINE at == job_index_of(sh_jobs, job_resolve)
    <3>1. at \subseteq Nat  BY LenProperties DEF ShShape, job_index_of
    <3>2. Min(at) \in at
      <4> HIDE DEF at
      <4> QED BY <3>1, <2>2, LeastIsThere DEF at
    <3>3. Min(at) \in 1 .. Len(sh_jobs) /\ sh_jobs[Min(at)] = job_resolve  BY <3>2 DEF job_index_of
    <3>4. procs' = Reaped({sh_jobs[Min(at)]}) /\ sh_jobs' = job_take(sh_jobs, Min(at))  BY <3>3, <2>2, <1>4
    <3> QED BY <3>3, <3>4, TakenKeeps
  <2> QED BY <2>1, <2>2
<1>5. CASE /\ job_resolve \in Pids /\ Alive(job_resolve) /\ procs' = Ended(job_resolve, 1)
           /\ sh_jobs' = sh_jobs
  BY <1>5, KillKeeps
<1> QED BY <1>1, <1>2, <1>3, <1>4, <1>5 DEF Builtin

\* What a builtin leaves of the place in the line.
LEMMA BuiltinPlace ==
  ASSUME ShShape, ShPlace, Builtin
  PROVE  /\ DOMAIN sh' = ShFields
         /\ \A f \in ShFields \ {"at", "st", "i"} : sh'[f] = sh[f]
         /\ sh'.at \in {"builtin", "restore", "gone", "program"}
         /\ sh'.i \in Nat /\ sh'.i >= 1
         /\ sh'.at = "builtin" => sh'.i = sh.i \/ sh.cmds[1].argv[1] = "jobs"
         /\ sh'.at = "program" => sh'.i = sh.i /\ sh.cmds[1].argv[1] # "jobs"
<1>0. sh.i \in Nat /\ sh.i >= 1 /\ DOMAIN sh = ShFields /\ sh.at = "builtin"  BY DEF ShShape, ShPlace, Builtin
<1>1. \/ \E st : After(st)
      \/ sh' = [sh EXCEPT !.at = "gone"]
      \/ sh' = [sh EXCEPT !.at = "program"] /\ sh.cmds[1].argv[1] # "jobs"
      \/ sh' = sh
      \/ sh' = [sh EXCEPT !.i = @ + 1] /\ sh.cmds[1].argv[1] = "jobs"
  BY DEF Builtin, JobsLoop, ShellOnly
<1>2. CASE \E st : After(st)
  <2>1. PICK st : sh' = [sh EXCEPT !.at = "restore", !.st = st, !.i = 1]  BY <1>2 DEF After
  <2>2. DOMAIN sh' = ShFields /\ sh'.at = "restore" /\ sh'.i = 1  BY <2>1, <1>0 DEF ShFields
  <2>3. \A f \in ShFields \ {"at", "st", "i"} : sh'[f] = sh[f]  BY <2>1, <1>0
  <2> QED BY <2>2, <2>3
<1>3. CASE sh' = [sh EXCEPT !.at = "gone"]  BY <1>0, <1>3 DEF ShFields
<1>4. CASE sh' = [sh EXCEPT !.at = "program"] /\ sh.cmds[1].argv[1] # "jobs"  BY <1>0, <1>4 DEF ShFields
<1>5. CASE sh' = sh  BY <1>0, <1>5 DEF ShFields
<1>6. CASE sh' = [sh EXCEPT !.i = @ + 1] /\ sh.cmds[1].argv[1] = "jobs"  BY <1>0, <1>6 DEF ShFields
<1> QED BY <1>1, <1>2, <1>3, <1>4, <1>5, <1>6

LEMMA BuiltinKeeps ==
  ASSUME ShInvariant, Builtin
  PROVE  ShInvariant'
<1> USE DEF ShInvariant
<1>1. /\ sh.at = "builtin" /\ Len(sh.cmds) = 1 /\ sh.i >= 1 /\ (sh.i = 1 \/ sh.cmds[1].argv[1] = "jobs")
      /\ sh.prev = NoPipe /\ sh.fds = <<>> /\ sh.pids = <<>>
      /\ sh_fd' = sh_fd
  BY DEF ShPlace, Builtin
<1>2. /\ DOMAIN sh' = ShFields
      /\ \A f \in ShFields \ {"at", "st", "i"} : sh'[f] = sh[f]
      /\ sh'.at \in {"builtin", "restore", "gone", "program"}
      /\ sh'.i \in Nat /\ sh'.i >= 1
      /\ sh'.at = "builtin" => sh'.i = sh.i \/ sh.cmds[1].argv[1] = "jobs"
      /\ sh'.at = "program" => sh'.i = sh.i /\ sh.cmds[1].argv[1] # "jobs"
  BY BuiltinPlace
<1>3. /\ sh'.segs = sh.segs /\ sh'.parts = sh.parts /\ sh'.empty = sh.empty /\ sh'.bg = sh.bg
      /\ sh'.cmds = sh.cmds /\ sh'.prev = sh.prev /\ sh'.fds = sh.fds /\ sh'.pids = sh.pids
  BY <1>2 DEF ShFields
<1>4. JobsRight  BY <1>1 DEF ShShape, ShJobs, Awaited, JobsRight
<1>5. ShChildren' /\ JobsRight'  BY <1>1, <1>4, BuiltinJobs
<1>10. ShShape'  BY <1>2, <1>3, <1>5 DEF ShShape, JobsRight
<1>11. ShPlace'
  <2>1. Len(sh'.cmds) = 1  BY <1>1, <1>3
  <2> QED BY <1>1, <1>2, <1>3, <2>1 DEF ShPlace
<1>12. ShFds'  BY <1>1, <1>2 DEF ShFds
<1>14. ShJobs'  BY <1>3, <1>5 DEF ShJobs, JobsRight, Listed
<1>15. ShStatus'  BY <1>2, <1>3 DEF ShStatus
<1> QED BY <1>5, <1>10, <1>11, <1>12, <1>14, <1>15

\* A descriptor table with the terminal at 0 and 1.
Plain(fd) == fd = [n \in DOMAIN fd |-> fd[n]] /\ fd[0] = Tty /\ fd[1] = Tty

\* The lowest free descriptor is free.
LEMMA FreeIsThere ==
  ASSUME NEW fd, NEW avoid, NEW x \in (0 .. 13) \ (DOMAIN fd \cup avoid)
  PROVE  LowestFree(fd, avoid) \in (0 .. 13) \ (DOMAIN fd \cup avoid)
<1> DEFINE free == (0 .. 13) \ (DOMAIN fd \cup avoid)
<1>1. free \subseteq Nat /\ free # {}  OBVIOUS
<1>2. Min(free) \in free
  <2> HIDE DEF free
  <2> QED BY <1>1, LeastIsThere
<1> QED BY <1>2 DEF LowestFree

\* Closing the end of the pipe behind leaves those of the pipe ahead.
LEMMA WithoutPrev ==
  ASSUME NEW fd, Plain(fd), NEW prev, NEW next, PipeEnds(prev, next),
         DOMAIN fd = {0, 1} \cup Ends(prev, next)
  PROVE  /\ Plain(WithoutEnd(fd, prev))
         /\ DOMAIN WithoutEnd(fd, prev) = {0, 1} \cup Ends(NoPipe, next)
<1>1. CASE prev = NoPipe  BY <1>1 DEF WithoutEnd
<1>2. CASE prev # NoPipe
  <2>1. prev \in 2 .. 13  BY <1>2 DEF PipeEnds
  <2>2. WithoutEnd(fd, prev) = Closed(fd, prev)  BY <1>2 DEF WithoutEnd
  <2>3. /\ Closed(fd, prev) = [m \in DOMAIN Closed(fd, prev) |-> Closed(fd, prev)[m]]
        /\ DOMAIN Closed(fd, prev) = DOMAIN fd \ {prev}
        /\ \A m \in DOMAIN fd \ {prev} : Closed(fd, prev)[m] = fd[m]
    BY ClosedFds
  <2>4. 0 \in DOMAIN fd \ {prev} /\ 1 \in DOMAIN fd \ {prev}  BY <2>1
  <2>5. prev \notin Ends(NoPipe, next) /\ Ends(prev, next) = {prev} \cup Ends(NoPipe, next)
    BY <1>2 DEF Ends, PipeEnds
  <2>6. DOMAIN fd \ {prev} = {0, 1} \cup Ends(NoPipe, next)  BY <2>1, <2>5
  <2> QED BY <2>2, <2>3, <2>4, <2>6 DEF Plain
<1> QED BY <1>1, <1>2

LEMMA NoEnds == Ends(NoPipe, <<>>) = {} /\ PipeEnds(NoPipe, <<>>)
BY DEF Ends, PipeEnds

LEMMA PlainIsTerminal ==
  ASSUME NEW fd, Plain(fd), DOMAIN fd = {0, 1} \cup Ends(NoPipe, <<>>)
  PROVE  fd = Terminal
<1>1. DOMAIN fd = {0, 1}  BY NoEnds
<1> QED BY <1>1, OnlyTerminal DEF Plain

LEMMA ClosedPlain ==
  ASSUME NEW fd, Plain(fd), NEW n \in 2 .. 13, {0, 1} \subseteq DOMAIN fd
  PROVE  Plain(Closed(fd, n)) /\ DOMAIN Closed(fd, n) = DOMAIN fd \ {n}
<1>1. /\ Closed(fd, n) = [m \in DOMAIN Closed(fd, n) |-> Closed(fd, n)[m]]
      /\ DOMAIN Closed(fd, n) = DOMAIN fd \ {n}
      /\ \A m \in DOMAIN fd \ {n} : Closed(fd, n)[m] = fd[m]
  BY ClosedFds
<1>2. 0 \in DOMAIN fd \ {n} /\ 1 \in DOMAIN fd \ {n}  OBVIOUS
<1> QED BY <1>1, <1>2 DEF Plain

LEMMA PlacedPlain ==
  ASSUME NEW fd, Plain(fd), {0, 1} \subseteq DOMAIN fd, NEW n \in 2 .. 13, NEW obj
  PROVE  Plain(Placed(fd, n, obj)) /\ DOMAIN Placed(fd, n, obj) = DOMAIN fd \cup {n}
BY DEF Placed, Plain

LEMMA StartingFds ==
  ASSUME ShFds, sh.at \in {"spawn", "forked"}
  PROVE  /\ Plain(sh_fd) /\ PipeEnds(sh.prev, sh.fds)
         /\ DOMAIN sh_fd = {0, 1} \cup Ends(sh.prev, sh.fds)
         /\ {0, 1} \subseteq DOMAIN sh_fd
BY DEF ShFds, Plain

\* pipe() takes two free descriptors that clash with nothing.
LEMMA PipeOpened ==
  ASSUME NEW fd, Plain(fd), NEW prev, PipeEnds(prev, <<>>), DOMAIN fd = {0, 1} \cup Ends(prev, <<>>),
         NEW r, r = LowestFree(fd, {}), NEW w, w = LowestFree(fd, {r}), NEW k
  PROVE  LET new == Placed(Placed(fd, r, <<"r", k>>), w, <<"w", k>>)
         IN /\ Plain(new) /\ PipeEnds(prev, <<r, w>>)
            /\ DOMAIN new = {0, 1} \cup Ends(prev, <<r, w>>)
<1>1. prev \in {NoPipe} \cup 2 .. 13 /\ NoPipe = -1  BY DEF PipeEnds, NoPipe
<1>2. Ends(prev, <<>>) = {prev} \ {NoPipe}  BY DEF Ends
<1>3. r \in (0 .. 13) \ DOMAIN fd
  <2>1. \E x \in (0 .. 13) \ (DOMAIN fd \cup {}) : TRUE
    <3>1. (IF prev = 2 THEN 3 ELSE 2) \in (0 .. 13) \ (DOMAIN fd \cup {})  BY <1>1, <1>2
    <3> QED BY <3>1
  <2>2. LowestFree(fd, {}) \in (0 .. 13) \ (DOMAIN fd \cup {})  BY <2>1, FreeIsThere
  <2> QED BY <2>2
<1>4. r \in 2 .. 13 /\ r # prev  BY <1>1, <1>2, <1>3
<1>5. w \in (0 .. 13) \ (DOMAIN fd \cup {r})
  <2>1. \E x \in (0 .. 13) \ (DOMAIN fd \cup {r}) : TRUE
    <3>1. \E x \in {2, 3, 4} : x # prev /\ x # r  BY <1>1, <1>4
    <3>2. PICK x \in {2, 3, 4} : x # prev /\ x # r  BY <3>1
    <3>3. x \in (0 .. 13) \ (DOMAIN fd \cup {r})  BY <1>2, <3>2
    <3> QED BY <3>3
  <2> QED BY <2>1, FreeIsThere
<1>6. w \in 2 .. 13 /\ w # prev /\ w # r  BY <1>1, <1>2, <1>5
<1>7. <<r, w>> # <<>> /\ <<r, w>>[1] = r /\ <<r, w>>[2] = w  OBVIOUS
<1>8. PipeEnds(prev, <<r, w>>)  BY <1>1, <1>4, <1>6, <1>7 DEF PipeEnds
<1>9. Ends(prev, <<r, w>>) = Ends(prev, <<>>) \cup {r, w}  BY <1>7 DEF Ends
<1> DEFINE one == Placed(fd, r, <<"r", k>>)
<1>10. Plain(one) /\ DOMAIN one = DOMAIN fd \cup {r}  BY <1>4, PlacedPlain
<1> HIDE DEF one
<1>11. Plain(Placed(one, w, <<"w", k>>)) /\ DOMAIN Placed(one, w, <<"w", k>>) = DOMAIN one \cup {w}
  <2>1. {0, 1} \subseteq DOMAIN one  BY <1>10
  <2>2. \A obj : Plain(Placed(one, w, obj)) /\ DOMAIN Placed(one, w, obj) = DOMAIN one \cup {w}
    <3> TAKE obj
    <3>1. w \in 2 .. 13 /\ Plain(one)  BY <1>6, <1>10
    <3> QED BY <2>1, <3>1, PlacedPlain
  <2> QED BY <2>2
<1> QED BY <1>8, <1>9, <1>10, <1>11 DEF one

\* A pipeline that fails to start closes every end of a pipe.
LEMMA AbandonedIsTerminal ==
  ASSUME ShFds, sh.at = "spawn"
  PROVE  /\ sh.fds = <<>> => WithoutEnd(sh_fd, sh.prev) = Terminal
         /\ Abandoned = Terminal
<1> DEFINE rest == WithoutEnd(sh_fd, sh.prev)
<1>1. /\ Plain(sh_fd) /\ PipeEnds(sh.prev, sh.fds)
      /\ DOMAIN sh_fd = {0, 1} \cup Ends(sh.prev, sh.fds)
  BY StartingFds
<1>2. Plain(rest) /\ DOMAIN rest = {0, 1} \cup Ends(NoPipe, sh.fds)  BY <1>1, WithoutPrev
<1> HIDE DEF rest
<1>3. CASE sh.fds = <<>>
  <2>1. rest = Terminal  BY <1>2, <1>3, PlainIsTerminal
  <2> QED BY <2>1, <1>3 DEF rest, Abandoned
<1>4. CASE sh.fds # <<>>
  <2>1. sh.fds[1] \in 2 .. 13 /\ sh.fds[2] \in 2 .. 13 /\ sh.fds[1] # sh.fds[2]  BY <1>1, <1>4 DEF PipeEnds
  <2>2. DOMAIN rest = {0, 1, sh.fds[1], sh.fds[2]}  BY <1>2, <1>4 DEF Ends
  <2>3. Plain(Closed(rest, sh.fds[1])) /\ DOMAIN Closed(rest, sh.fds[1]) = DOMAIN rest \ {sh.fds[1]}
    BY <1>2, <2>1, <2>2, ClosedPlain
  <2>4. DOMAIN rest \ {sh.fds[1]} = {0, 1, sh.fds[2]}  BY <2>1, <2>2
  <2> DEFINE one == Closed(rest, sh.fds[1])
  <2>5. Plain(one) /\ DOMAIN one = {0, 1, sh.fds[2]}  BY <2>3, <2>4
  <2> HIDE DEF one
  <2>6. Plain(Closed(one, sh.fds[2])) /\ DOMAIN Closed(one, sh.fds[2]) = DOMAIN one \ {sh.fds[2]}
    BY <2>1, <2>5, ClosedPlain
  <2>7. DOMAIN one \ {sh.fds[2]} = {0, 1}  BY <2>1, <2>5
  <2>8. Closed(one, sh.fds[2]) = Terminal  BY <2>6, <2>7, OnlyTerminal DEF Plain
  <2> QED BY <2>8, <1>4 DEF one, rest, Abandoned
<1> QED BY <1>3, <1>4

\* After a fork the shell keeps the end the next command reads, and no
\* other.
LEMMA ParentFdsPlain ==
  ASSUME ShFds, sh.at = "forked"
  PROVE  /\ sh.fds = <<>> => ParentFds = Terminal
         /\ sh.fds # <<>> => /\ Plain(ParentFds)
                             /\ PipeEnds(sh.fds[1], <<>>)
                             /\ DOMAIN ParentFds = {0, 1} \cup Ends(sh.fds[1], <<>>)
<1> DEFINE rest == WithoutEnd(sh_fd, sh.prev)
<1>1. /\ Plain(sh_fd) /\ PipeEnds(sh.prev, sh.fds)
      /\ DOMAIN sh_fd = {0, 1} \cup Ends(sh.prev, sh.fds)
  BY StartingFds
<1>2. Plain(rest) /\ DOMAIN rest = {0, 1} \cup Ends(NoPipe, sh.fds)  BY <1>1, WithoutPrev
<1> HIDE DEF rest
<1>3. CASE sh.fds = <<>>
  <2>1. rest = Terminal  BY <1>2, <1>3, PlainIsTerminal
  <2> QED BY <2>1, <1>3 DEF rest, ParentFds
<1>4. CASE sh.fds # <<>>
  <2>1. sh.fds[1] \in 2 .. 13 /\ sh.fds[2] \in 2 .. 13 /\ sh.fds[1] # sh.fds[2]  BY <1>1, <1>4 DEF PipeEnds
  <2>2. DOMAIN rest = {0, 1, sh.fds[1], sh.fds[2]}  BY <1>2, <1>4 DEF Ends
  <2>3. Plain(Closed(rest, sh.fds[2])) /\ DOMAIN Closed(rest, sh.fds[2]) = DOMAIN rest \ {sh.fds[2]}
    BY <1>2, <2>1, <2>2, ClosedPlain
  <2>4. DOMAIN rest \ {sh.fds[2]} = {0, 1} \cup {sh.fds[1]}  BY <2>1, <2>2
  <2>5. Ends(sh.fds[1], <<>>) = {sh.fds[1]} /\ PipeEnds(sh.fds[1], <<>>)  BY <2>1 DEF Ends, PipeEnds, NoPipe
  <2> QED BY <2>3, <2>4, <2>5, <1>4 DEF rest, ParentFds
<1> QED BY <1>3, <1>4

\* The child is left with its input and its output.
LEMMA ChildFdsAreTwo ==
  ASSUME NEW c, PipeEnds(c.prev, c.next), DOMAIN c.fd = {0, 1} \cup Ends(c.prev, c.next)
  PROVE  DOMAIN ChildFds(c) = {0, 1}
<1> DEFINE in == IF c.prev = NoPipe THEN c.fd ELSE Closed(Dup2(c.fd, c.prev, 0), c.prev)
<1>1. DOMAIN in = {0, 1} \cup Ends(NoPipe, c.next)
  <2>1. CASE c.prev = NoPipe  BY <2>1
  <2>2. CASE c.prev # NoPipe
    <3>1. c.prev \in 2 .. 13 /\ c.prev \notin Ends(NoPipe, c.next)
          /\ Ends(c.prev, c.next) = {c.prev} \cup Ends(NoPipe, c.next)
      BY <2>2 DEF PipeEnds, Ends
    <3>2. DOMAIN Closed(Dup2(c.fd, c.prev, 0), c.prev) = (DOMAIN c.fd \cup {0}) \ {c.prev}
      BY DEF Closed, Dup2, Placed
    <3>3. (DOMAIN c.fd \cup {0}) \ {c.prev} = {0, 1} \cup Ends(NoPipe, c.next)  BY <3>1
    <3> QED BY <2>2, <3>2, <3>3
  <2> QED BY <2>1, <2>2
<1> HIDE DEF in
<1>2. CASE c.next = <<>>  BY <1>1, <1>2, NoEnds DEF ChildFds, in
<1>3. CASE c.next # <<>>
  <2>1. c.next[1] \in 2 .. 13 /\ c.next[2] \in 2 .. 13 /\ c.next[1] # c.next[2]  BY <1>3 DEF PipeEnds
  <2>2. DOMAIN in = {0, 1, c.next[1], c.next[2]}  BY <1>1, <1>3 DEF Ends
  <2>3. DOMAIN Closed(Dup2(Closed(in, c.next[1]), c.next[2], 1), c.next[2])
          = ((DOMAIN in \ {c.next[1]}) \cup {1}) \ {c.next[2]}
    BY DEF Closed, Dup2, Placed
  <2>4. ((DOMAIN in \ {c.next[1]}) \cup {1}) \ {c.next[2]} = {0, 1}  BY <2>1, <2>2
  <2> QED BY <1>3, <2>3, <2>4 DEF ChildFds, in
<1> QED BY <1>2, <1>3
LEMMA PipeKeeps ==
  ASSUME ShInvariant, ShPipe
  PROVE  ShInvariant'
<1> DEFINE Opened == /\ \E r \in {LowestFree(sh_fd, {})}, k \in {Cardinality(Pids) + 1} :
                           \E w \in {LowestFree(sh_fd, {r})} :
                              /\ sh_fd' = Placed(Placed(sh_fd, r, <<"r", k>>), w, <<"w", k>>)
                              /\ sh' = [sh EXCEPT !.fds = <<r, w>>]
           Failed == /\ sh_fd' = WithoutEnd(sh_fd, sh.prev)
                     /\ sh' = [sh EXCEPT !.at = "wait", !.i = 1, !.prev = NoPipe]
<1>1. /\ sh.at = "spawn" /\ sh.fds = <<>> /\ HasNext
      /\ sh.i \in Nat /\ sh.i >= 1 /\ DOMAIN sh = ShFields
      /\ Len(sh.cmds) \in Nat /\ sh.i \in 1 .. Len(sh.cmds)
  BY DEF ShPipe, Starting, ShInvariant, ShShape, ShPlace
<1>2. /\ Opened \/ Failed
      /\ UNCHANGED <<sh_jobs, last_status, procs>>
  BY DEF ShPipe
<1>3. /\ DOMAIN sh' = ShFields
      /\ sh'.segs = sh.segs /\ sh'.parts = sh.parts /\ sh'.cmds = sh.cmds /\ sh'.bg = sh.bg
      /\ sh'.pids = sh.pids /\ sh'.empty = sh.empty
      /\ \/ Opened /\ sh'.at = "spawn" /\ sh'.i = sh.i /\ sh'.prev = sh.prev
         \/ Failed /\ sh'.at = "wait" /\ sh'.i = 1 /\ sh'.prev = NoPipe /\ sh'.fds = <<>>
  <2>1. CASE Opened  BY <1>1, <2>1 DEF ShFields
  <2>2. CASE Failed  BY <1>1, <2>2 DEF ShFields
  <2> QED BY <1>2, <2>1, <2>2
<1> HIDE DEF Opened, Failed
<1> USE DEF ShInvariant
<1>10. ShShape'
  <2>1. sh'.i \in Nat /\ sh_jobs' = sh_jobs /\ procs' = procs  BY <1>1, <1>2, <1>3
  <2> QED BY <1>3, <2>1 DEF ShShape, Pids
<1>11. ShPlace'  BY <1>1, <1>2, <1>3 DEF ShPlace, HasNext
<1>12. ShFds'
  <2> USE DEF Opened, Failed
  <2>1. CASE Opened
    <3>1. PICK r, w, k : /\ r = LowestFree(sh_fd, {}) /\ w = LowestFree(sh_fd, {r})
                         /\ sh_fd' = Placed(Placed(sh_fd, r, <<"r", k>>), w, <<"w", k>>)
                         /\ sh' = [sh EXCEPT !.fds = <<r, w>>]
      BY <2>1
    <3>2. /\ Plain(sh_fd) /\ PipeEnds(sh.prev, <<>>)
          /\ DOMAIN sh_fd = {0, 1} \cup Ends(sh.prev, <<>>)
      BY <1>1, StartingFds
    <3>3. /\ Plain(sh_fd') /\ PipeEnds(sh.prev, <<r, w>>)
          /\ DOMAIN sh_fd' = {0, 1} \cup Ends(sh.prev, <<r, w>>)
      BY <3>1, <3>2, PipeOpened
    <3>4. sh'.prev = sh.prev /\ sh'.fds = <<r, w>> /\ sh'.at = "spawn"  BY <3>1, <1>1 DEF ShShape, ShFields
    <3> QED BY <3>3, <3>4 DEF ShFds, Plain
  <2>2. CASE Failed
    <3>1. sh_fd' = Terminal  BY <2>2, <1>1, AbandonedIsTerminal
    <3> QED BY <3>1, <2>2, <1>1 DEF ShFds, ShShape, ShFields
  <2> QED BY <1>3, <2>1, <2>2
<1>13. ShChildren'  BY <1>2 DEF ShChildren, Pids
<1>14. ShJobs'
  <2>1. \A p \in Pids : Awaited(p) => Awaited(p)'  BY <1>1, <1>2, <1>3, LenProperties DEF Awaited, ShShape
  <2>2. \A p : Listed(p)' <=> Listed(p)  BY <1>2 DEF Listed
  <2> QED BY <1>2, <1>3, <2>1, <2>2 DEF ShJobs, Pids
<1>15. ShStatus'  BY <1>2, <1>3 DEF ShStatus
<1> QED BY <1>10, <1>11, <1>12, <1>13, <1>14, <1>15

LEMMA ForkKeeps ==
  ASSUME ShInvariant, ShFork
  PROVE  ShInvariant'
<1>0. PICK pid : pid = Cardinality(Pids) + 1  OBVIOUS
<1> DEFINE new == [state |-> "setup", fd |-> sh_fd, cmd |-> sh.cmds[sh.i], status |-> 0,
                   prev |-> sh.prev, next |-> sh.fds, full |-> sh.bg /\ JobsFull]
           Forked == /\ procs' = [p \in Pids \cup {pid} |-> IF p # pid THEN procs[p] ELSE new]
                     /\ Pids' = Pids \cup {pid}
                     /\ sh' = [sh EXCEPT !.at = "forked", !.pids = Append(@, pid)]
                     /\ sh_jobs' = IF sh.bg /\ ~JobsFull THEN Append(sh_jobs, pid) ELSE sh_jobs
                     /\ sh_fd' = sh_fd
           NotForked == /\ sh_fd' = Abandoned
                        /\ sh' = [sh EXCEPT !.at = "wait", !.i = 1, !.prev = NoPipe, !.fds = <<>>]
                        /\ procs' = procs /\ sh_jobs' = sh_jobs
<1>1. /\ sh.at = "spawn" /\ (HasNext <=> sh.fds # <<>>)
      /\ sh.i \in Nat /\ sh.i >= 1 /\ DOMAIN sh = ShFields
      /\ Len(sh.cmds) \in Nat /\ sh.i \in 1 .. Len(sh.cmds)
  BY DEF ShFork, Starting, ShInvariant, ShShape, ShPlace
<1>2. Forked \/ NotForked  BY <1>0 DEF ShFork, Pids
<1>3. /\ DOMAIN sh' = ShFields
      /\ sh'.segs = sh.segs /\ sh'.parts = sh.parts /\ sh'.cmds = sh.cmds /\ sh'.bg = sh.bg
      /\ sh'.empty = sh.empty
      /\ Forked => /\ sh'.at = "forked" /\ sh'.i = sh.i /\ sh'.prev = sh.prev /\ sh'.fds = sh.fds
                   /\ sh'.pids = Append(sh.pids, pid)
      /\ NotForked => /\ sh'.at = "wait" /\ sh'.i = 1 /\ sh'.prev = NoPipe /\ sh'.fds = <<>>
                      /\ sh'.pids = sh.pids
  <2>1. CASE Forked
    <3>1. sh' = [sh EXCEPT !.at = "forked", !.pids = Append(@, pid)]  BY <2>1
    <3>2. Forked /\ ~NotForked
      <4>1. sh'.at = "forked"  BY <3>1, <1>1 DEF ShFields
      <4>2. NotForked => sh'.at = "wait"  BY <1>1 DEF ShFields
      <4> QED BY <4>1, <4>2, <2>1
    <3> HIDE DEF Forked, NotForked
    <3> QED BY <1>1, <3>1, <3>2 DEF ShFields
  <2>2. CASE NotForked
    <3>1. sh' = [sh EXCEPT !.at = "wait", !.i = 1, !.prev = NoPipe, !.fds = <<>>]  BY <2>2
    <3>2. NotForked /\ ~Forked
      <4>1. sh'.at = "wait"  BY <3>1, <1>1 DEF ShFields
      <4>2. Forked => sh'.at = "forked"  BY <1>1 DEF ShFields
      <4> QED BY <4>1, <4>2, <2>2
    <3> HIDE DEF Forked, NotForked
    <3> QED BY <1>1, <3>1, <3>2 DEF ShFields
  <2> QED BY <1>2, <2>1, <2>2
<1>4. pid \in Nat /\ pid \notin Pids /\ Pids \cup {pid} = 1 .. pid
  <2>1. PICK n \in Nat : Pids = 1 .. n  BY DEF ShInvariant, ShShape
  <2>2. Cardinality(Pids) = n  BY <2>1, FS_Interval
  <2> QED BY <1>0, <2>1, <2>2
<1>5. ASSUME Forked
      PROVE  /\ \A p \in Pids : procs'[p] = procs[p]
             /\ procs'[pid] = new
  <2> HIDE DEF new
  <2> QED BY <1>4, <1>5
<1> USE DEF ShInvariant
<1>10. ShShape'
  <2>1. CASE Forked
    <3>1. sh'.pids \in Seq(Nat) /\ sh_jobs' \in Seq(Nat)  BY <2>1, <1>3, <1>4 DEF ShShape
    <3>2. \A p \in Pids' : DOMAIN procs'[p] = ChildFields  BY <2>1, <1>4, <1>5 DEF ShShape, ChildFields
    <3>3. Pids' = 1 .. pid  BY <1>4, <2>1
    <3>4. \E n \in Nat : Pids' = 1 .. n  BY <3>3, <1>4
    <3>5. sh'.i \in Nat /\ sh'.segs = sh.segs /\ sh'.parts = sh.parts /\ DOMAIN sh' = ShFields
      BY <2>1, <1>1, <1>3
    <3> HIDE DEF Forked
    <3> QED BY <3>1, <3>2, <3>4, <3>5 DEF ShShape
  <2>2. CASE NotForked  BY <2>2, <1>3 DEF ShShape, Pids
  <2> QED BY <1>2, <2>1, <2>2
<1>11. ShPlace'
  <2>1. CASE Forked  BY <2>1, <1>1, <1>3 DEF ShPlace, HasNext
  <2>2. CASE NotForked  BY <2>2, <1>1, <1>3 DEF ShPlace
  <2> QED BY <1>2, <2>1, <2>2
<1>12. ShFds'
  <2>1. CASE Forked  BY <2>1, <1>1, <1>3 DEF ShFds
  <2>2. CASE NotForked
    <3>1. sh_fd' = Terminal  BY <2>2, <1>1, AbandonedIsTerminal
    <3> QED BY <3>1, <2>2, <1>3 DEF ShFds
  <2> QED BY <1>2, <2>1, <2>2
<1>13. ShChildren'
  <2>1. CASE Forked
    <3> SUFFICES ASSUME NEW p \in Pids'
                 PROVE  /\ procs'[p].state = "run" => DOMAIN procs'[p].fd = {0, 1}
                        /\ procs'[p].state = "setup" =>
                              /\ PipeEnds(procs'[p].prev, procs'[p].next)
                              /\ DOMAIN procs'[p].fd = {0, 1} \cup Ends(procs'[p].prev, procs'[p].next)
      BY DEF ShChildren
    <3>1. CASE p = pid
      <4>1. /\ procs'[p].state = "setup" /\ procs'[p].fd = sh_fd
            /\ procs'[p].prev = sh.prev /\ procs'[p].next = sh.fds
        BY <2>1, <3>1, <1>5
      <4>2. PipeEnds(sh.prev, sh.fds) /\ DOMAIN sh_fd = {0, 1} \cup Ends(sh.prev, sh.fds)  BY <1>1, StartingFds
      <4> QED BY <4>1, <4>2
    <3>2. CASE p # pid
      <4>1. p \in Pids /\ procs'[p] = procs[p]  BY <2>1, <3>2, <1>4, <1>5
      <4> QED BY <4>1 DEF ShChildren
    <3> QED BY <3>1, <3>2
  <2>2. CASE NotForked  BY <2>2 DEF ShChildren, Pids
  <2> QED BY <1>2, <2>1, <2>2
<1>14. ShJobs'
  <2>1. CASE Forked
    <3>1. sh.pids \in Seq(Nat) /\ sh_jobs \in Seq(Nat) /\ Len(sh.pids) \in Nat /\ Len(sh_jobs) \in Nat
      BY LenProperties DEF ShShape
    <3>2. /\ Len(sh'.pids) = Len(sh.pids) + 1 /\ sh'.pids[Len(sh.pids) + 1] = pid
          /\ \A k \in 1 .. Len(sh.pids) : sh'.pids[k] = sh.pids[k]
      BY <2>1, <3>1, <1>3, <1>4
    <3>3. \A p : Listed(p) => Listed(p)'
      <4>1. Len(sh_jobs') \in Nat /\ Len(sh_jobs') >= Len(sh_jobs)
            /\ \A k \in 1 .. Len(sh_jobs) : sh_jobs'[k] = sh_jobs[k]
        BY <2>1, <3>1, <1>4
      <4> QED BY <4>1, <3>1 DEF Listed
    <3>4. \A p \in Pids : Awaited(p) => Awaited(p)'
      <4> SUFFICES ASSUME NEW p \in Pids, Awaited(p) PROVE Awaited(p)'  OBVIOUS
      <4>1. PICK k \in 1 .. Len(sh.pids) : sh.pids[k] = p  BY DEF Awaited
      <4>2. k \in 1 .. Len(sh'.pids) /\ sh'.pids[k] = p  BY <4>1, <3>1, <3>2
      <4>3. ~sh'.bg /\ sh'.at = "forked"  BY <2>1, <1>3 DEF Awaited
      <4> QED BY <4>2, <4>3 DEF Awaited
    <3>5. procs'[pid].full \/ Listed(pid)' \/ Awaited(pid)'
      <4>1. CASE ~sh.bg
        <5>1. ~sh'.bg /\ sh'.at = "forked"  BY <2>1, <1>3, <4>1
        <5>2. Len(sh.pids) + 1 \in 1 .. Len(sh'.pids)  BY <3>1, <3>2
        <5> QED BY <5>1, <5>2, <3>2 DEF Awaited
      <4>2. CASE sh.bg /\ JobsFull  BY <2>1, <4>2, <1>5
      <4>3. CASE sh.bg /\ ~JobsFull
        <5>1. sh_jobs' = Append(sh_jobs, pid)  BY <2>1, <4>3
        <5>2. Len(sh_jobs') = Len(sh_jobs) + 1 /\ sh_jobs'[Len(sh_jobs) + 1] = pid  BY <5>1, <3>1, <1>4
        <5>3. Len(sh_jobs) + 1 \in 1 .. Len(sh_jobs')  BY <5>2, <3>1
        <5> QED BY <5>2, <5>3 DEF Listed
      <4> QED BY <4>1, <4>2, <4>3 DEF ShJobs
    <3>6. ASSUME NEW p \in Pids', procs'[p].state # "reaped", ~procs'[p].full
          PROVE  Listed(p)' \/ Awaited(p)'
      <4>1. CASE p = pid  BY <4>1, <3>5, <3>6
      <4>2. CASE p # pid
        <5>1. p \in Pids /\ procs'[p] = procs[p]  BY <2>1, <4>2, <1>4, <1>5
        <5>2. Listed(p) \/ Awaited(p)  BY <5>1, <3>6 DEF ShJobs
        <5> QED BY <5>1, <5>2, <3>3, <3>4
      <4> QED BY <4>1, <4>2
    <3> QED BY <3>6, <1>3 DEF ShJobs
  <2>2. CASE NotForked
    <3>1. \A p : Listed(p)' <=> Listed(p)  BY <2>2 DEF Listed
    <3>2. \A p \in Pids : Awaited(p) => Awaited(p)'
      <4> SUFFICES ASSUME NEW p \in Pids, Awaited(p) PROVE Awaited(p)'  OBVIOUS
      <4>1. PICK k \in 1 .. Len(sh.pids) : sh.pids[k] = p  BY DEF Awaited
      <4>2. k \in 1 .. Len(sh'.pids) /\ sh'.pids[k] = p /\ k >= sh'.i
        BY <4>1, <2>2, <1>3, LenProperties DEF ShShape
      <4>3. ~sh'.bg /\ sh'.at = "wait"  BY <2>2, <1>3 DEF Awaited
      <4> QED BY <4>2, <4>3 DEF Awaited
    <3>3. Pids' = Pids /\ procs' = procs /\ sh'.bg = sh.bg  BY <2>2, <1>3 DEF Pids
    <3> QED BY <3>1, <3>2, <3>3 DEF ShJobs
  <2> QED BY <1>2, <2>1, <2>2
<1>15. ShStatus'  BY <1>2, <1>3 DEF ShStatus
<1> QED BY <1>10, <1>11, <1>12, <1>13, <1>14, <1>15
LEMMA ParentKeeps ==
  ASSUME ShInvariant, ShParent
  PROVE  ShInvariant'
<1>1. /\ sh.at = "forked" /\ (HasNext <=> sh.fds # <<>>)
      /\ sh.i \in Nat /\ sh.i >= 1 /\ DOMAIN sh = ShFields
      /\ Len(sh.cmds) \in Nat /\ sh.i \in 1 .. Len(sh.cmds)
      /\ UNCHANGED <<sh_jobs, last_status, procs>> /\ sh_fd' = ParentFds
  BY DEF ShParent, ShInvariant, ShShape, ShPlace
<1>2. /\ DOMAIN sh' = ShFields
      /\ sh'.segs = sh.segs /\ sh'.parts = sh.parts /\ sh'.cmds = sh.cmds /\ sh'.bg = sh.bg
      /\ sh'.pids = sh.pids /\ sh'.empty = sh.empty /\ sh'.fds = <<>>
      /\ sh'.at = (IF HasNext THEN "spawn" ELSE "wait")
      /\ sh'.prev = (IF sh.fds = <<>> THEN NoPipe ELSE sh.fds[1])
      /\ sh'.i = (IF HasNext THEN sh.i + 1 ELSE 1)
      /\ sh'.i \in Nat
  BY <1>1 DEF ShParent, ShFields
<1> USE DEF ShInvariant
<1>10. ShShape'  BY <1>1, <1>2 DEF ShShape, Pids
<1>11. ShPlace'
  <2>1. CASE HasNext  BY <2>1, <1>1, <1>2 DEF ShPlace, HasNext
  <2>2. CASE ~HasNext  BY <2>2, <1>1, <1>2 DEF ShPlace
  <2> QED BY <2>1, <2>2
<1>12. ShFds'
  <2>1. CASE HasNext  BY <2>1, <1>1, <1>2, ParentFdsPlain DEF ShFds, Plain
  <2>2. CASE ~HasNext  BY <2>2, <1>1, <1>2, ParentFdsPlain DEF ShFds
  <2> QED BY <2>1, <2>2
<1>13. ShChildren'  BY <1>1 DEF ShChildren, Pids
<1>14. ShJobs'
  <2>1. \A p : Listed(p)' <=> Listed(p)  BY <1>1 DEF Listed
  <2>2. ASSUME NEW p \in Pids, Awaited(p) PROVE Awaited(p)'
    <3>1. PICK k \in 1 .. Len(sh.pids) : sh.pids[k] = p  BY <2>2 DEF Awaited
    <3>2. k \in 1 .. Len(sh'.pids) /\ sh'.pids[k] = p /\ (sh'.at = "wait" => k >= sh'.i)
      BY <3>1, <1>2, LenProperties DEF ShShape
    <3>3. ~sh'.bg /\ sh'.at \in {"spawn", "wait"}  BY <2>2, <1>2 DEF Awaited
    <3> QED BY <3>2, <3>3 DEF Awaited
  <2> QED BY <1>1, <1>2, <2>1, <2>2 DEF ShJobs, Pids
<1>15. ShStatus'  BY <1>2 DEF ShStatus
<1> QED BY <1>10, <1>11, <1>12, <1>13, <1>14, <1>15

LEMMA WaitKeeps ==
  ASSUME ShInvariant, ShWait
  PROVE  ShInvariant'
<1> DEFINE Over == sh.bg \/ sh.i > Len(sh.pids)
<1>1. /\ sh.at = "wait" /\ sh.i \in Nat /\ sh.i >= 1 /\ DOMAIN sh = ShFields
      /\ sh.prev = NoPipe /\ sh.fds = <<>>
      /\ UNCHANGED <<sh_jobs, sh_fd>>
  BY DEF ShWait, ShInvariant, ShShape, ShPlace
<1>2. /\ DOMAIN sh' = ShFields
      /\ sh'.segs = sh.segs /\ sh'.parts = sh.parts /\ sh'.bg = sh.bg
      /\ sh'.prev = NoPipe /\ sh'.fds = <<>> /\ sh'.i \in Nat /\ sh'.i >= 1
      /\ Over => sh'.at = "chain" /\ sh'.pids = <<>> /\ sh'.empty = FALSE /\ last_status' = sh'.st
      /\ ~Over => /\ sh'.at = "wait" /\ sh'.pids = sh.pids /\ sh'.i = sh.i + 1 /\ sh'.empty = sh.empty
  <2>1. CASE Over
    <3>1. \E st : sh' = [sh EXCEPT !.at = "chain", !.cmds = <<>>, !.pids = <<>>, !.i = 1,
                                   !.empty = FALSE, !.st = st]
      BY <2>1 DEF ShWait
    <3>2. last_status' = sh'.st  BY <2>1 DEF ShWait
    <3> QED BY <3>1, <3>2, <2>1, <1>1 DEF ShFields
  <2>2. CASE ~Over
    <3>1. sh' = [sh EXCEPT !.i = @ + 1]  BY <2>2 DEF ShWait
    <3> QED BY <3>1, <2>2, <1>1 DEF ShFields
  <2> QED BY <2>1, <2>2
<1>3. /\ Pids' = Pids /\ ShChildren'
      /\ \A p \in Pids : /\ DOMAIN procs'[p] = ChildFields
                         /\ procs'[p].full = procs[p].full
                         /\ procs'[p].state = IF ~Over /\ p = WaitedFor THEN "reaped" ELSE procs[p].state
  <2>1. CASE Over
    <3>1. procs' = procs  BY <2>1 DEF ShWait
    <3> QED BY <3>1, <2>1 DEF ShInvariant, ShShape, ShChildren, Pids
  <2>2. CASE ~Over
    <3>1. procs' = Reaped({WaitedFor})  BY <2>2 DEF ShWait
    <3>2. /\ Pids' = Pids /\ ShChildren'
          /\ \A p \in Pids : /\ DOMAIN procs'[p] = ChildFields
                             /\ procs'[p].full = procs[p].full
                             /\ procs'[p].state = IF p \in {WaitedFor} THEN "reaped" ELSE procs[p].state
      BY <3>1, ReapedKeeps DEF ShInvariant
    <3> QED BY <3>2, <2>2
  <2> QED BY <2>1, <2>2
<1> HIDE DEF Over
<1> USE DEF ShInvariant
<1>10. ShShape'  BY <1>1, <1>2, <1>3, EmptySeq DEF ShShape
<1>11. ShPlace'  BY <1>1, <1>2 DEF ShPlace
<1>12. ShFds'  BY <1>1, <1>2 DEF ShFds
<1>13. ShChildren'  BY <1>3
<1>14. ShJobs'
  <2>1. \A p : Listed(p)' <=> Listed(p)  BY <1>1 DEF Listed
  <2> USE DEF Over
  <2>2. ASSUME NEW p \in Pids, procs'[p].state # "reaped", ~procs'[p].full
        PROVE  Listed(p)' \/ Awaited(p)'
    <3>1. procs[p].state # "reaped" /\ ~procs[p].full /\ (~Over => p # WaitedFor)  BY <2>2, <1>3
    <3>2. CASE Listed(p)  BY <3>2, <2>1
    <3>3. CASE Awaited(p)
      <4>1. PICK k \in 1 .. Len(sh.pids) : sh.pids[k] = p /\ k >= sh.i  BY <3>3, <1>1 DEF Awaited
      <4>2. Len(sh.pids) \in Nat  BY LenProperties DEF ShShape
      <4>3. ~Over  BY <3>3, <4>1, <4>2, <1>1 DEF Awaited
      <4>4. k # sh.i  BY <4>1, <4>3, <3>1 DEF WaitedFor
      <4>5. k >= sh'.i /\ sh'.pids = sh.pids  BY <4>1, <4>2, <4>3, <4>4, <1>1, <1>2
      <4>6. ~sh'.bg /\ sh'.at = "wait"  BY <3>3, <4>3, <1>1, <1>2 DEF Awaited
      <4> QED BY <4>1, <4>5, <4>6 DEF Awaited
    <3> QED BY <3>1, <3>2, <3>3 DEF ShJobs
  <2> QED BY <1>2, <1>3, <2>2 DEF ShJobs
<1>15. ShStatus'  BY <1>1, <1>2 DEF ShStatus
<1> QED BY <1>10, <1>11, <1>12, <1>13, <1>14, <1>15

LEMMA ChildKeeps ==
  ASSUME ShInvariant, NEW c \in Pids, ChildSetup(c) \/ ChildExit(c)
  PROVE  ShInvariant'
<1> USE DEF ShInvariant
<1>1. UNCHANGED <<sh, sh_fd, sh_jobs, last_status>> /\ procs[c].state \in {"setup", "run"}
  BY DEF ChildSetup, ChildExit
<1>2. /\ Pids' = Pids /\ ShChildren'
      /\ \A p \in Pids : /\ DOMAIN procs'[p] = ChildFields
                         /\ procs'[p].full = procs[p].full
                         /\ procs'[p].state # "reaped" => procs[p].state # "reaped"
  <2>1. CASE \E st : procs' = Ended(c, st)
    <3>1. PICK st : procs' = Ended(c, st)  BY <2>1
    <3>2. /\ Pids' = Pids /\ ShChildren'
          /\ \A p \in Pids : /\ DOMAIN procs'[p] = ChildFields
                             /\ procs'[p].full = procs[p].full
                             /\ procs'[p].state = IF p = c THEN "zombie" ELSE procs[p].state
      BY <3>1, EndedKeeps
    <3> QED BY <3>2, <1>1
  <2>2. CASE procs[c].state = "setup" /\ procs' = [procs EXCEPT ![c].state = "run",
                          ![c].fd = apply_redir(ChildFds(procs[c]), procs[c].cmd)]
    <3>1. PICK fd : fd = apply_redir(ChildFds(procs[c]), procs[c].cmd)  OBVIOUS
    <3>2. DOMAIN fd = {0, 1}
      <4>1. DOMAIN ChildFds(procs[c]) = {0, 1}  BY <2>2, ChildFdsAreTwo DEF ShChildren
      <4> QED BY <3>1, <4>1, RedirKeeps
    <3>3. /\ Pids' = Pids
          /\ \A p \in Pids \ {c} : procs'[p] = procs[p]
          /\ procs'[c] = [procs[c] EXCEPT !.state = "run", !.fd = fd]
      BY <2>2, <3>1 DEF Pids
    <3>4. /\ DOMAIN procs'[c] = ChildFields /\ procs'[c].full = procs[c].full
          /\ procs'[c].state = "run" /\ procs'[c].fd = fd
      BY <3>3 DEF ShShape, ChildFields
    <3>5. ShChildren'
      <4> SUFFICES ASSUME NEW p \in Pids
                   PROVE  /\ procs'[p].state = "run" => DOMAIN procs'[p].fd = {0, 1}
                          /\ procs'[p].state = "setup" =>
                                /\ PipeEnds(procs'[p].prev, procs'[p].next)
                                /\ DOMAIN procs'[p].fd = {0, 1} \cup Ends(procs'[p].prev, procs'[p].next)
        BY <3>3 DEF ShChildren
      <4>1. CASE p = c  BY <4>1, <3>2, <3>4
      <4>2. CASE p # c  BY <4>2, <3>3 DEF ShChildren
      <4> QED BY <4>1, <4>2
    <3>6. \A p \in Pids : /\ DOMAIN procs'[p] = ChildFields
                          /\ procs'[p].full = procs[p].full
                          /\ procs'[p].state # "reaped" => procs[p].state # "reaped"
      BY <3>3, <3>4, <1>1 DEF ShShape
    <3> QED BY <3>3, <3>5, <3>6
  <2> QED BY <2>1, <2>2 DEF ChildSetup, ChildExit
<1>3. ShShape'
  <2>1. sh' = sh /\ sh_jobs' = sh_jobs  BY <1>1
  <2>2. \A p \in Pids' : DOMAIN procs'[p] = ChildFields  BY <1>2
  <2> QED BY <1>2, <2>1, <2>2 DEF ShShape
<1>4. ShPlace'  BY <1>1 DEF ShPlace, HasNext
<1>5. ShFds'  BY <1>1 DEF ShFds
<1>6. ShJobs'
  <2>1. \A p : (Listed(p)' <=> Listed(p)) /\ (Awaited(p)' <=> Awaited(p))  BY <1>1 DEF Listed, Awaited
  <2>2. ASSUME NEW p \in Pids', procs'[p].state # "reaped", ~procs'[p].full
        PROVE  Listed(p)' \/ Awaited(p)'
    <3>1. p \in Pids /\ procs[p].state # "reaped" /\ ~procs[p].full  BY <1>2, <2>2
    <3>2. Listed(p) \/ Awaited(p)  BY <3>1 DEF ShJobs
    <3> QED BY <2>1, <3>2
  <2>3. sh'.bg \in BOOLEAN  BY <1>1 DEF ShJobs
  <2> QED BY <2>2, <2>3 DEF ShJobs
<1>7. ShStatus'  BY <1>1 DEF ShStatus
<1> QED BY <1>2, <1>3, <1>4, <1>5, <1>6, <1>7

\* The invariant holds at the start, and every step keeps it.
LEMMA ShInitInvariant == shInit => ShInvariant
<1> SUFFICES ASSUME shInit PROVE ShInvariant  OBVIOUS
<1> USE DEF shInit
<1>1. ShShape
  <2>1. DOMAIN sh = ShFields /\ sh.segs = <<>> /\ sh.parts = <<>> /\ sh.i = 1 /\ sh.pids = <<>>
    BY DEF Prompt, ShFields
  <2>2. Pids = {} /\ {} = 1 .. 0  BY DEF Pids
  <2> QED BY <2>1, <2>2, EmptySeq DEF ShShape
<1>2. ShPlace  BY DEF ShPlace, Prompt
<1>3. ShFds  BY DEF ShFds, Prompt
<1>4. ShChildren  BY DEF ShChildren, Pids
<1>5. ShJobs  BY DEF ShJobs, Pids, Prompt
<1>6. ShStatus  BY DEF ShStatus, Prompt
<1> QED BY <1>1, <1>2, <1>3, <1>4, <1>5, <1>6 DEF ShInvariant

LEMMA ShNextInvariant == ShInvariant /\ [shNext]_shVars => ShInvariant'
<1> SUFFICES ASSUME ShInvariant, [shNext]_shVars PROVE ShInvariant'  OBVIOUS
<1>1. CASE \E l \in ShLines : ShRead(l)  BY <1>1, ReadKeeps
<1>2. CASE ShSegment  BY <1>2, SegmentKeeps
<1>3. CASE ShChain  BY <1>3, ChainKeeps
<1>4. CASE ShSingle  BY <1>4, SingleKeeps
<1>5. CASE Builtin  BY <1>5, BuiltinKeeps
<1>6. CASE ShRestore  BY <1>6, RestoreKeeps
<1>7. CASE ShPipe  BY <1>7, PipeKeeps
<1>8. CASE ShFork  BY <1>8, ForkKeeps
<1>9. CASE ShParent  BY <1>9, ParentKeeps
<1>10. CASE ShWait  BY <1>10, WaitKeeps
<1>11. CASE \E p \in Pids : ChildSetup(p) \/ ChildExit(p)  BY <1>11, ChildKeeps
<1>12. CASE UNCHANGED shVars
  <2>1. UNCHANGED <<sh, sh_fd, sh_jobs, last_status, procs>>  BY <1>12 DEF shVars
  <2>2. ShShape' /\ ShChildren'  BY <2>1 DEF ShInvariant, ShShape, ShChildren, Pids
  <2>3. ShPlace'  BY <2>1 DEF ShInvariant, ShPlace, HasNext
  <2>4. ShFds' /\ ShStatus'  BY <2>1 DEF ShInvariant, ShFds, ShStatus
  <2>5. ShJobs'  BY <2>1 DEF ShInvariant, ShJobs, Listed, Awaited, Pids
  <2> QED BY <2>2, <2>3, <2>4, <2>5 DEF ShInvariant
<1> QED BY <1>1, <1>2, <1>3, <1>4, <1>5, <1>6, <1>7, <1>8, <1>9, <1>10, <1>11, <1>12 DEF shNext

LEMMA ShInvariantGoals == ShInvariant => ShellSound
<1> SUFFICES ASSUME ShInvariant PROVE ShellSound  OBVIOUS
<1>1. ShellFdsBack  BY DEF ShInvariant, ShFds, ShellFdsBack
<1>2. ChildFdsClean  BY DEF ShInvariant, ShChildren, ChildFdsClean
<1>3. JobsTracked  BY DEF ShInvariant, ShJobs, Listed, Awaited, JobsTracked
<1> QED BY <1>1, <1>2, <1>3 DEF ShellSound

\* When another part runs, the shell stands still.
LEMMA PartsShell == PartsSpec => shInit /\ [][[shNext]_shVars]_allVars
<1>1. PartsInit => shInit  BY DEF PartsInit
<1>2. [PartsNext]_allVars => [[shNext]_shVars]_allVars  BY DEF PartsNext, allVars
<1> QED BY <1>1, <1>2, PTL DEF PartsSpec

\* At the prompt the shell has its terminal and nothing else, a program that
\* starts has its input and its output only, and every child that was not
\* waited for is in the job list or was refused by a full one: whatever
\* pipe(), fork() and redirection failed before (sh.c).
THEOREM ShellIsSound == PartsSpec => []ShellSound
<1>1. ShInvariant /\ [[shNext]_shVars]_allVars => ShInvariant'
  <2> SUFFICES ASSUME ShInvariant, [[shNext]_shVars]_allVars PROVE ShInvariant'  OBVIOUS
  <2>1. [shNext]_shVars  BY DEF allVars
  <2> QED BY <2>1, ShNextInvariant
<1> QED BY <1>1, PartsShell, ShInitInvariant, ShInvariantGoals, PTL

\* A part that starts was not skipped: what the status says of it.
LEMMA ChainStep == ShInvariant /\ [shNext]_shVars =>
    [(sh.at = "chain" /\ sh'.at \in {"single", "spawn"}) =>
          CASE sh'.op = "&&" -> sh.empty \/ last_status = 0
            [] sh'.op = "||" -> ~sh.empty /\ last_status # 0
            [] OTHER -> TRUE]_shVars
<1> SUFFICES ASSUME ShInvariant, shNext, sh.at = "chain", sh'.at \in {"single", "spawn"}
             PROVE  CASE sh'.op = "&&" -> sh.empty \/ last_status = 0
                      [] sh'.op = "||" -> ~sh.empty /\ last_status # 0
                      [] OTHER -> TRUE
  OBVIOUS
<1>1. DOMAIN sh = ShFields  BY DEF ShInvariant, ShShape
<1>2. ~ShSegment  BY <1>1 DEF ShSegment, ShFields
<1>3. \A p : ~ChildSetup(p) /\ ~ChildExit(p)  BY DEF ChildSetup, ChildExit
<1>4. ShChain
  BY <1>2, <1>3 DEF shNext, ShRead, ShSingle, Builtin, ShRestore, ShPipe, Starting, ShFork, ShParent, ShWait
<1>5. ~Skipped(Head(sh.parts), sh.st) /\ sh'.op = Head(sh.parts).op /\ sh.parts # <<>>
  <2>1. PICK cmds : sh' = IF Skipped(Head(sh.parts), sh.st) THEN [sh EXCEPT !.parts = Tail(@)]
                ELSE IF cmds = <<>> \/ \E k \in DOMAIN cmds : cmds[k].argv = <<>>
                     THEN [sh EXCEPT !.parts = Tail(@), !.st = 0, !.empty = TRUE]
                ELSE [sh EXCEPT !.parts = Tail(@), !.op = Head(sh.parts).op, !.cmds = cmds, !.i = 1,
                                !.at = IF Len(cmds) = 1 THEN "single" ELSE "spawn"]
    BY <1>4 DEF ShChain
  <2>2. sh' # [sh EXCEPT !.parts = Tail(@)]  BY <1>1 DEF ShFields
  <2>3. sh' # [sh EXCEPT !.parts = Tail(@), !.st = 0, !.empty = TRUE]  BY <1>1 DEF ShFields
  <2> QED BY <2>1, <2>2, <2>3, <1>1, <1>4 DEF ShFields, ShChain
<1>6. /\ sh.empty \in BOOLEAN /\ (sh.empty => sh.st = 0)
      /\ sh.empty \/ last_status = sh.st \/ Head(sh.parts).op = "end"
  BY <1>5 DEF ShInvariant, ShStatus
<1> QED BY <1>5, <1>6 DEF Skipped

\* A part after && starts only if what ran last succeeded, one after || only
\* if it failed (run_chain of sh.c).
THEOREM ChainIsObeyed == PartsSpec => ChainObeyed
<1>1. ShInvariant /\ [[shNext]_shVars]_allVars => ShInvariant'
  <2> SUFFICES ASSUME ShInvariant, [[shNext]_shVars]_allVars PROVE ShInvariant'  OBVIOUS
  <2>1. [shNext]_shVars  BY DEF allVars
  <2> QED BY <2>1, ShNextInvariant
<1>2. ShInvariant /\ [[shNext]_shVars]_allVars =>
    [(sh.at = "chain" /\ sh'.at \in {"single", "spawn"}) =>
          CASE sh'.op = "&&" -> sh.empty \/ last_status = 0
            [] sh'.op = "||" -> ~sh.empty /\ last_status # 0
            [] OTHER -> TRUE]_shVars
  <2> SUFFICES ASSUME ShInvariant, [[shNext]_shVars]_allVars
               PROVE  [(sh.at = "chain" /\ sh'.at \in {"single", "spawn"}) =>
          CASE sh'.op = "&&" -> sh.empty \/ last_status = 0
            [] sh'.op = "||" -> ~sh.empty /\ last_status # 0
            [] OTHER -> TRUE]_shVars
    OBVIOUS
  <2>1. [shNext]_shVars  BY DEF allVars
  <2> QED BY <2>1, ChainStep
<1> QED BY <1>1, <1>2, PartsShell, ShInitInvariant, PTL DEF ChainObeyed

==============================
