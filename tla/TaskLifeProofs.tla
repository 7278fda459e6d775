--------------------------- MODULE TaskLifeProofs ---------------------------
(***************************************************************************)
(* What module TaskLife guarantees for any number of tasks, any set of     *)
(* calls the programs make and any set of tasks that signals may reach.    *)
(***************************************************************************)
EXTENDS TaskLife, TLAPS, WellFoundedInduction, FiniteSetTheorems

------------------------------

\* The boot thread and the idle task exist.
LEMMA BootTasks == Main \in Task /\ Idle \in Task /\ Task \subseteq Nat \ {0}
BY MaxTaskAssumption DEF Main, Idle, Task

\* What schedule() may change when the states are st: nobody but a READY
\* task, the idle task or a running caller; and it only makes tasks READY
\* or RUNNING.
LEMMA ScheduleFrame ==
  ASSUME NEW st \in [Task -> States], current \in Task, Schedule(st)
  PROVE  /\ state' \in [Task -> States]
         /\ current' \in Task
         /\ \A t \in Task : state'[t] # st[t] =>
               /\ state'[t] \in {"ready", "running"}
               /\ \/ st[t] = "ready"
                  \/ t = Idle
                  \/ t = current /\ st[t] = "running"
<1>1. ASSUME NEW n \in Task, Resume(st, n)
      PROVE  /\ state' \in [Task -> States]
             /\ current' \in Task
             /\ \A t \in Task : state'[t] # st[t] =>
                   /\ state'[t] \in {"ready", "running"}
                   /\ t = n \/ (t = current /\ st[t] = "running")
  BY <1>1 DEF Resume, States
<1>2. CASE st[current] = "running" /\ Resume(st, current)  BY <1>2 DEF Resume
<1>3. CASE \E n \in Ready(st) : Resume(st, n)  BY <1>1, <1>3 DEF Ready
<1>4. CASE Ready(st) = {} /\ Resume(st, Idle)  BY <1>1, <1>4, BootTasks
<1> QED BY <1>2, <1>3, <1>4 DEF Schedule

\* After schedule() only the owner of the CPU is RUNNING, if only the
\* caller was.
LEMMA ScheduleRuns ==
  ASSUME NEW st \in [Task -> States], current \in Task, Schedule(st),
         \A t \in Task : st[t] = "running" => t = current
  PROVE  OnlyCurrentRuns'
<1>1. ASSUME NEW n \in Task, Resume(st, n)
      PROVE  OnlyCurrentRuns'
  BY <1>1 DEF Resume, OnlyCurrentRuns
<1> QED BY <1>1, BootTasks DEF Schedule, Ready

\* The owner of the CPU is RUNNING after schedule(), if it was RUNNING or
\* is neither READY nor the idle task.
LEMMA ScheduleOwner ==
  ASSUME NEW st \in [Task -> States], current \in Task, Schedule(st),
         \/ st[current] = "running"
         \/ st[current] # "ready" /\ current # Idle
  PROVE  state'[current'] = "running"
<1>1. ASSUME NEW n \in Task, Resume(st, n), n # current \/ st[n] = "running"
      PROVE  state'[current'] = "running"
  BY <1>1 DEF Resume
<1>2. CASE st[current] = "running" /\ Resume(st, current)  BY <1>1, <1>2
<1>3. CASE \E n \in Ready(st) : Resume(st, n)  BY <1>1, <1>3 DEF Ready
<1>4. CASE Ready(st) = {} /\ Resume(st, Idle)  BY <1>1, <1>4, BootTasks
<1> QED BY <1>2, <1>3, <1>4 DEF Schedule

\* wait_wakeup_parent() makes nobody but a parked task READY.
LEMMA WakeParentFrame ==
  ASSUME NEW st \in [Task -> States], NEW c
  PROVE  /\ WakeParent(st, c) \in [Task -> States]
         /\ \A t \in Task : WakeParent(st, c)[t] # st[t] =>
               WakeParent(st, c)[t] = "ready" /\ st[t] = "blocked"
BY DEF WakeParent, States

\* schedule() takes signals away and adds none.
LEMMA DeliverTyped ==
  ASSUME NEW pd \in [Task -> BOOLEAN]
  PROVE  Consumed(pd) \in [Task -> BOOLEAN]
BY DEF Consumed

\* The least element of a non-empty set of numbers is one of its elements:
\* the walk along task_list frees a task that is there.
LEMMA LeastIsThere ==
  ASSUME NEW S, S \subseteq Nat, S # {}
  PROVE  Min(S) \in S /\ \A y \in S : Min(S) <= y
<1>1. PICK x \in S : \A y \in S : ~(<<y, x>> \in OpToRel(<, Nat))  BY NatLessThanWellFounded, WFMin
<1>2. \A y \in S : x <= y
  <2> TAKE y \in S
  <2>1. x \in Nat /\ y \in Nat  OBVIOUS
  <2>2. ~(<<y, x>> \in {ss \in Nat \X Nat : ss[1] < ss[2]})  BY <1>1 DEF OpToRel
  <2> QED BY <2>1, <2>2
<1> QED BY <1>2 DEF Min

\* wait_task() frees a dead child of the caller, which the call asked for.
LEMMA ReapsZombie ==
  ASSUME NEW p, NEW pid, Zombies(p, pid) # {}
  PROVE  /\ Min(Zombies(p, pid)) \in Task
         /\ state[Min(Zombies(p, pid))] = "dead"
         /\ parent[Min(Zombies(p, pid))] = p
<1>1. Zombies(p, pid) \subseteq Nat  BY BootTasks DEF Zombies, Children, Listed
<1>2. Min(Zombies(p, pid)) \in Zombies(p, pid)  BY <1>1, LeastIsThere
<1> QED BY <1>2 DEF Zombies, Children, Listed

------------------------------

\* A step that calls schedule() with states st in which at most the caller
\* is RUNNING.
LEMMA ScheduleSound ==
  ASSUME LifeSound, NEW st \in [Task -> States],
         \A t \in Task : st[t] = "running" => t = current,
         Schedule(st)
  PROVE  state' \in [Task -> States] /\ current' \in Task /\ OnlyCurrentRuns'
<1>1. current \in Task  BY DEF LifeSound, LifeTypeOK
<1> QED BY <1>1, ScheduleFrame, ScheduleRuns

\* A program that parks itself in a call keeps the table of tasks sound.
LEMMA ParkSound ==
  ASSUME LifeSound, NEW st \in [Task -> States],
         \A t \in Task : st[t] = "running" => t = current,
         NEW o \in {"user", "wait", "sleep", "sem", "futex", "read", "write"},
         NEW a \in Nat,
         Park(o, a, st),
         UNCHANGED <<next_pid, parent, handler>>,
         sleep_until' \in [Task -> 0 .. MaxSleep + 1]
  PROVE  LifeSound'
<1> DEFINE stb == [st EXCEPT ![current] = "blocked"]
<1>1. stb \in [Task -> States] /\ \A t \in Task : stb[t] = "running" => t = current  BY DEF States
<1>2. Schedule(stb)  BY DEF Park
<1> HIDE DEF stb
<1>3. state' \in [Task -> States] /\ current' \in Task /\ OnlyCurrentRuns'  BY <1>1, <1>2, ScheduleSound
<1>4. pending' \in [Task -> BOOLEAN]  BY DeliverTyped DEF Park, Deliver, LifeSound, LifeTypeOK
<1>5. op' \in [Task -> {"user", "wait", "sleep", "sem", "futex", "read", "write"}]
      /\ arg' \in [Task -> Nat]
  BY DEF Park, LifeSound, LifeTypeOK
<1> QED BY <1>3, <1>4, <1>5 DEF LifeSound, LifeTypeOK

\* A task that dies in task_exit() keeps the table of tasks sound,
\* whomever closing its descriptors has woken.
LEMMA TaskExitSound ==
  ASSUME LifeSound, NEW st \in [Task -> States],
         \A t \in Task : st[t] = "running" => t = current,
         TaskExit(st)
  PROVE  LifeSound'
<1> DEFINE dead == [st EXCEPT ![current] = "dead"]
           woken == WakeParent(dead, current)
<1>1. dead \in [Task -> States] /\ \A t \in Task : dead[t] = "running" => t = current  BY DEF States
<1>2. Schedule(woken) /\ Deliver /\ UNCHANGED <<next_pid, parent, op, arg, sleep_until, handler>>
  BY DEF TaskExit
<1> HIDE DEF dead
<1>3. woken \in [Task -> States] /\ \A t \in Task : woken[t] = "running" => t = current
  <2>1. /\ woken \in [Task -> States]
        /\ \A t \in Task : woken[t] # dead[t] => woken[t] = "ready"
    BY <1>1, WakeParentFrame
  <2> QED BY <1>1, <2>1
<1> HIDE DEF woken
<1>4. state' \in [Task -> States] /\ current' \in Task /\ OnlyCurrentRuns'  BY <1>2, <1>3, ScheduleSound
<1>5. pending' \in [Task -> BOOLEAN]  BY <1>2, DeliverTyped DEF Deliver, LifeSound, LifeTypeOK
<1> QED BY <1>2, <1>4, <1>5 DEF LifeSound, LifeTypeOK

\* One round of wait_task() keeps the table of tasks sound.
LEMMA WaitRoundSound ==
  ASSUME LifeSound, NEW pid \in Nat, WaitRound(pid),
         UNCHANGED <<next_pid, parent, sleep_until, handler>>
  PROVE  LifeSound'
<1> USE DEF LifeSound, LifeTypeOK
<1>1. CASE Zombies(current, pid) # {} /\ ReapFirst(Zombies(current, pid)) /\ Return
           /\ UNCHANGED <<current, pending>>
  BY <1>1 DEF ReapFirst, Return, OnlyCurrentRuns, States
<1>2. CASE Return /\ UNCHANGED <<state, current, pending>>  BY <1>2 DEF Return, OnlyCurrentRuns
<1>3. CASE Park("wait", pid, state)  BY <1>3, ParkSound DEF OnlyCurrentRuns
<1> QED BY <1>1, <1>2, <1>3 DEF WaitRound

\* The timer interrupt keeps the table of tasks sound.
LEMMA TickSound == ASSUME LifeSound, Tick PROVE LifeSound'
<1> DEFINE st == [t \in Task |-> IF t \in Due THEN "ready" ELSE state[t]]
<1> USE DEF LifeSound, LifeTypeOK
<1>1. st \in [Task -> States] /\ \A t \in Task : st[t] = "running" => t = current
  BY DEF States, OnlyCurrentRuns
<1>2. Schedule(st)  BY DEF Tick
<1> HIDE DEF st
<1>3. state' \in [Task -> States] /\ current' \in Task /\ OnlyCurrentRuns'  BY <1>1, <1>2, ScheduleSound
<1>4. pending' \in [Task -> BOOLEAN]  BY DeliverTyped DEF Tick, Deliver
<1>5. sleep_until' \in [Task -> 0 .. MaxSleep + 1]
  <2>1. \A t \in Task : Counted[t] \in 0 .. MaxSleep + 1  BY LifeAssumption DEF Counted
  <2>2. 0 \in 0 .. MaxSleep + 1  BY LifeAssumption
  <2> QED BY <2>1, <2>2 DEF Tick
<1> QED BY <1>3, <1>4, <1>5 DEF Tick

\* signal_send(-1) keeps the table of tasks sound.
LEMMA BroadcastSound == ASSUME LifeSound, Broadcast PROVE LifeSound'
<1> DEFINE st == [t \in Task |-> IF t \in Killed THEN "dead"
                                 ELSE IF t \in Woken THEN "ready" ELSE state[t]]
           pd == [t \in Task |-> IF t \in Reached
                                 THEN handler[t] \/ (pending[t] /\ state[t] = "dead")
                                 ELSE pending[t]]
           dead == [st EXCEPT ![current] = "dead"]
           woken == WakeParent(dead, current)
<1> USE DEF LifeSound, LifeTypeOK
<1>1. st \in [Task -> States] /\ \A t \in Task : st[t] = "running" => t = current
  BY DEF States, OnlyCurrentRuns
<1>2. pd \in [Task -> BOOLEAN]  OBVIOUS
<1>3. /\ UNCHANGED <<next_pid, parent, op, arg, sleep_until, handler>>
      /\ \/ state' = st /\ pending' = pd /\ UNCHANGED current
         \/ Schedule(woken) /\ pending' = Consumed(pd)
  BY DEF Broadcast
<1> HIDE DEF st, pd
<1>4. CASE state' = st /\ pending' = pd /\ UNCHANGED current  BY <1>1, <1>2, <1>3, <1>4 DEF OnlyCurrentRuns
<1>5. CASE Schedule(woken) /\ pending' = Consumed(pd)
  <2>1. dead \in [Task -> States] /\ \A t \in Task : dead[t] = "running" => t = current  BY <1>1 DEF States
  <2> HIDE DEF dead
  <2>2. woken \in [Task -> States] /\ \A t \in Task : woken[t] = "running" => t = current
    <3>1. /\ woken \in [Task -> States]
          /\ \A t \in Task : woken[t] # dead[t] => woken[t] = "ready"
      BY <2>1, WakeParentFrame
    <3> QED BY <2>1, <3>1
  <2> HIDE DEF woken
  <2>3. state' \in [Task -> States] /\ current' \in Task /\ OnlyCurrentRuns'  BY <1>5, <2>2, ScheduleSound
  <2>4. pending' \in [Task -> BOOLEAN]  BY <1>2, <1>5, DeliverTyped
  <2> QED BY <1>3, <2>3, <2>4
<1> QED BY <1>3, <1>4, <1>5

\* signal_send() to another task keeps the table of tasks sound.
LEMMA TerminateSound ==
  ASSUME LifeSound, NEW v \in Task, NEW st \in [Task -> States],
         \A t \in Task : st[t] = "running" => t = current,
         Terminate(v, st)
  PROVE  LifeSound'
<1> DEFINE dead == [st EXCEPT ![v] = "dead"]
<1>1. dead \in [Task -> States] /\ \A t \in Task : dead[t] = "running" => t = current  BY DEF States
<1>2. /\ state' = WakeParent(dead, v)
      /\ pending' = [pending EXCEPT ![v] = FALSE]
      /\ UNCHANGED <<current, next_pid, parent, op, arg, sleep_until, handler>>
  BY DEF Terminate
<1> HIDE DEF dead
<1>3. state' \in [Task -> States] /\ \A t \in Task : state'[t] = "running" => t = current
  <2>1. /\ state' \in [Task -> States]
        /\ \A t \in Task : state'[t] # dead[t] => state'[t] = "ready"
    BY <1>1, <1>2, WakeParentFrame
  <2> QED BY <1>1, <2>1
<1> QED BY <1>2, <1>3 DEF LifeSound, LifeTypeOK, OnlyCurrentRuns

\* Every step of a process's life keeps the table of tasks sound: the
\* types hold, and nobody but the owner of the CPU is RUNNING.  Nothing
\* else is assumed, so that modules whose calls wake tasks in ways of
\* their own can use it.
LEMMA LifeSoundStep == ASSUME LifeSound, LifeNext PROVE LifeSound'
<1>0. /\ state \in [Task -> States] /\ current \in Task
      /\ \A t \in Task : state[t] = "running" => t = current
  BY DEF LifeSound, LifeTypeOK, OnlyCurrentRuns
<1>1. CASE Tick  BY <1>1, TickSound
<1>2. ASSUME NEW ok \in BOOLEAN, Fork(ok) PROVE LifeSound'
  BY <1>2, MaxTaskAssumption
     DEF Fork, Calls, LifeSound, LifeTypeOK, OnlyCurrentRuns, States, Task
<1>3. CASE ExitCall  BY <1>0, <1>3, TaskExitSound DEF ExitCall
<1>4. ASSUME NEW pid \in {AnyChild} \cup Task, Wait(pid) PROVE LifeSound'
  BY <1>4, WaitRoundSound, BootTasks DEF Wait, AnyChild
<1>5. ASSUME NEW pid \in {AnyChild} \cup Task, WaitNoHang(pid) PROVE LifeSound'
  BY <1>5 DEF WaitNoHang, ReapFirst, LifeSound, LifeTypeOK, OnlyCurrentRuns, States
<1>6. CASE WaitAgain  BY <1>6, WaitRoundSound DEF WaitAgain, LifeSound, LifeTypeOK
<1>7. ASSUME NEW n \in 0 .. MaxSleep, Sleep(n) PROVE LifeSound'
  <2>1. CASE n = 0
    <3>1. Schedule(state) /\ Deliver
          /\ UNCHANGED <<op, arg, sleep_until, next_pid, parent, handler>>
      BY <1>7, <2>1 DEF Sleep
    <3>2. state' \in [Task -> States] /\ current' \in Task /\ OnlyCurrentRuns'  BY <1>0, <3>1, ScheduleSound
    <3>3. pending' \in [Task -> BOOLEAN]  BY <3>1, DeliverTyped DEF Deliver, LifeSound, LifeTypeOK
    <3> QED BY <3>1, <3>2, <3>3 DEF LifeSound, LifeTypeOK
  <2>2. CASE n # 0
    <3>1. Park("sleep", n, state) /\ UNCHANGED <<next_pid, parent, handler>>  BY <1>7, <2>2 DEF Sleep
    <3>2. sleep_until' \in [Task -> 0 .. MaxSleep + 1]
      BY <1>7, <2>2, LifeAssumption DEF Sleep, LifeSound, LifeTypeOK
    <3> QED BY <1>0, <3>1, <3>2, ParkSound
  <2> QED BY <2>1, <2>2
<1>8. CASE SleepDone  BY <1>8 DEF SleepDone, Return, LifeSound, LifeTypeOK, OnlyCurrentRuns
<1>9. CASE SetHandler  BY <1>9 DEF SetHandler, LifeSound, LifeTypeOK, OnlyCurrentRuns
<1>10. ASSUME NEW v \in Task, Notify(v) PROVE LifeSound'
  BY <1>10 DEF Notify, LifeSound, LifeTypeOK, OnlyCurrentRuns, States
<1>11. ASSUME NEW v \in Task, Terminate(v, state) PROVE LifeSound'  BY <1>0, <1>11, TerminateSound
<1>12. CASE KillSelf  BY <1>0, <1>12, TaskExitSound DEF KillSelf
<1>13. CASE Broadcast  BY <1>13, BroadcastSound
<1> QED BY <1>1, <1>2, <1>3, <1>4, <1>5, <1>6, <1>7, <1>8, <1>9, <1>10, <1>11, <1>12, <1>13
     DEF LifeNext

\* The first user task is READY behind the boot thread.
LEMMA InitSound == LifeInit => LifeSound
BY BootTasks, MaxTaskAssumption, LifeAssumption
   DEF LifeInit, LifeSound, LifeTypeOK, OnlyCurrentRuns, States, Init1st, Task

\* For any number of tasks, whatever they call and whoever sends signals:
\* the table of tasks is well formed and only the owner of the CPU is
\* marked RUNNING (task.c: prev->state, next->state in schedule()).
THEOREM LifeIsSound == LifeSpec => []LifeSound
<1>1. LifeSound /\ [LifeNext]_lifeVars => LifeSound'
  <2> SUFFICES ASSUME LifeSound, [LifeNext]_lifeVars PROVE LifeSound'  OBVIOUS
  <2>1. CASE LifeNext  BY <2>1, LifeSoundStep
  <2>2. CASE UNCHANGED lifeVars  BY <2>2 DEF lifeVars, LifeSound, LifeTypeOK, OnlyCurrentRuns
  <2> QED BY <2>1, <2>2
<1> QED BY <1>1, InitSound, PTL DEF LifeSpec

------------------------------

\* The inductive invariant.  The owner of the CPU is RUNNING, so the call
\* it makes parks nobody else; a pid not given out yet belongs to no task
\* and no parent; only programs are inside of calls; and a parked task is
\* in wait(), or in nanosleep() with its deadline still ahead.
CurrentRuns == state[current] = "running"

UnusedAhead == \A t \in Task : t >= next_pid => state[t] = "unused" /\ parent[t] = 0

ProgramsCall == \A t \in Task : op[t] # "user" => t \in Programs

BlockedInCall ==
    \A t \in Task : state[t] = "blocked" =>
        op[t] = "wait" \/ (op[t] = "sleep" /\ sleep_until[t] # 0)

LifeIInv ==
    LifeSound /\ CurrentRuns /\ UnusedAhead /\ ProgramsCall /\ BlockedInCall /\ ZombieNoticed

\* What one step may do to the state of a task.
NoDeath == \A c \in Task : state'[c] = "dead" => state[c] = "dead"

Created(t) ==
    /\ t = next_pid
    /\ state[t] = "unused"
    /\ state'[t] = "ready" \/ (state'[t] = "dead" /\ parent'[t] = 0)
    /\ next_pid' = next_pid + 1

\* The parent is told, if it waits and has no deadline.
Died(t) ==
    /\ t \in Listed(state)
    /\ state'[t] = "dead"
    /\ \A p \in Task : parent[t] = p /\ state[p] = "blocked" /\ sleep_until[p] = 0
                          => state'[p] # "blocked"

ParksItself(t) ==
    /\ t = current
    /\ state'[t] = "blocked"
    /\ NoDeath
    /\ \/ op'[t] = "wait" /\ Zombies(t, arg'[t]) = {}
       \/ op'[t] = "sleep" /\ sleep_until'[t] # 0

Dispatched(t) ==
    /\ state'[t] \in {"ready", "running"}
    /\ \/ t = Idle
       \/ state[t] \in {"ready", "running"}
       \/ /\ state[t] = "blocked"
          /\ handler[t] \/ sleep_until[t] = 0 \/ (NoDeath /\ sleep_until'[t] = 0)

Move(t) ==
    \/ state'[t] = state[t]
    \/ state[t] = "dead" /\ state'[t] = "freed"
    \/ Created(t)
    \/ Died(t)
    \/ ParksItself(t)
    \/ Dispatched(t)

\* And to the rest.
LifeFrame ==
    /\ \A t \in Task : Move(t)
    /\ \A t \in Task : t # current => op'[t] = op[t] /\ arg'[t] = arg[t]
    /\ \A t \in Task : op'[t] # op[t] => op'[t] = "user" \/ t \in Programs
    /\ \A t \in Task : t # current /\ state'[t] = "blocked"
                          => (sleep_until'[t] = 0 <=> sleep_until[t] = 0)
    /\ \A t \in Task : parent'[t] = parent[t] \/ Created(t)
    /\ next_pid' \in {next_pid, next_pid + 1}
    /\ CurrentRuns'

\* A step of that shape keeps the invariant.
LEMMA FrameKeeps == ASSUME LifeIInv, LifeSound', LifeFrame PROVE LifeIInv'
<1>0. next_pid \in Nat /\ next_pid >= 3 /\ Task \subseteq Nat  BY BootTasks DEF LifeIInv, LifeSound, LifeTypeOK
<1>1. UnusedAhead'
  <2> SUFFICES ASSUME NEW t \in Task, t >= next_pid'
               PROVE  state'[t] = "unused" /\ parent'[t] = 0
    BY DEF UnusedAhead
  <2>1. t >= next_pid /\ t # Idle  BY <1>0 DEF LifeFrame, Idle
  <2>2. state[t] = "unused" /\ parent[t] = 0  BY <2>1 DEF LifeIInv, UnusedAhead
  <2>3. ~Created(t)  BY <1>0 DEF Created
  <2>4. t # current  BY <2>2 DEF LifeIInv, CurrentRuns
  <2> QED BY <2>1, <2>2, <2>3, <2>4 DEF LifeFrame, Move, Died, ParksItself, Dispatched, Listed
<1>2. ProgramsCall'  BY DEF LifeIInv, ProgramsCall, LifeFrame
<1>3. BlockedInCall'
  <2> SUFFICES ASSUME NEW t \in Task, state'[t] = "blocked"
               PROVE  op'[t] = "wait" \/ (op'[t] = "sleep" /\ sleep_until'[t] # 0)
    BY DEF BlockedInCall
  <2>1. state[t] = "blocked" \/ ParksItself(t)  BY DEF LifeFrame, Move, Created, Died, Dispatched
  <2>2. CASE ParksItself(t)  BY <2>2 DEF ParksItself
  <2>3. CASE state[t] = "blocked"  BY <2>3 DEF LifeIInv, CurrentRuns, BlockedInCall, LifeFrame
  <2> QED BY <2>1, <2>2, <2>3
<1>4. ZombieNoticed'
  <2> SUFFICES ASSUME NEW p \in Task, op'[p] = "wait", state'[p] = "blocked",
                      sleep_until'[p] = 0, NEW c \in Zombies(p, arg[p])'
               PROVE  FALSE
    BY DEF ZombieNoticed
  <2>1. c \in Task /\ state'[c] = "dead" /\ parent'[c] = p /\ arg'[p] \in {AnyChild, c}
    BY DEF Zombies, Children, Listed
  <2>2. p # 0  BY BootTasks
  <2>3. parent[c] = p /\ ~Created(c)  BY <1>0, <2>1, <2>2 DEF LifeFrame, Created, LifeIInv, UnusedAhead
  <2>4. state[c] = "dead" \/ Died(c)  BY <2>1, <2>3 DEF LifeFrame, Move, ParksItself, Dispatched
  <2>5. state[p] = "blocked" \/ ParksItself(p)  BY DEF LifeFrame, Move, Created, Died, Dispatched
  <2>6. CASE ParksItself(p)
    <3>1. state[c] = "dead"  BY <2>1, <2>6 DEF ParksItself, NoDeath
    <3> QED BY <2>1, <2>3, <2>6, <3>1 DEF ParksItself, Zombies, Children, Listed
  <2>7. CASE state[p] = "blocked"
    <3>1. p # current  BY <2>7 DEF LifeIInv, CurrentRuns
    <3>2. op[p] = "wait" /\ arg[p] = arg'[p] /\ sleep_until[p] = 0  BY <3>1 DEF LifeFrame
    <3>3. Zombies(p, arg[p]) = {}  BY <2>7, <3>2 DEF LifeIInv, ZombieNoticed
    <3>4. state[c] # "dead"  BY <2>1, <2>3, <3>2, <3>3 DEF Zombies, Children, Listed
    <3>5. Died(c)  BY <2>4, <3>4
    <3> QED BY <2>3, <2>7, <3>2, <3>5 DEF Died
  <2> QED BY <2>5, <2>6, <2>7
<1> QED BY <1>1, <1>2, <1>3, <1>4 DEF LifeIInv, LifeFrame

\* A task that calls schedule(), with states st in which it is RUNNING or
\* has left the CPU for good or for now.
LEMMA ScheduleMoves ==
  ASSUME LifeIInv, NEW st \in [Task -> States], Schedule(st),
         \/ st[current] = "running"
         \/ st[current] # "ready" /\ current \in Programs
  PROVE  /\ CurrentRuns'
         /\ \A t \in Task : \/ state'[t] = st[t]
                            \/ /\ state'[t] \in {"ready", "running"}
                               /\ \/ st[t] = "ready"
                                  \/ t = Idle
                                  \/ t = current /\ st[t] = "running"
<1>1. current \in Task  BY DEF LifeIInv, LifeSound, LifeTypeOK
<1>2. state'[current'] = "running"  BY <1>1, ScheduleOwner DEF Programs
<1> QED BY <1>1, <1>2, ScheduleFrame DEF CurrentRuns

\* The timer wakes sleepers and kills nobody.
LEMMA TickFrame == ASSUME LifeIInv, Tick PROVE LifeFrame
<1> DEFINE st == [t \in Task |-> IF t \in Due THEN "ready" ELSE state[t]]
<1>1. state \in [Task -> States] /\ current \in Task /\ sleep_until \in [Task -> 0 .. MaxSleep + 1]
  BY DEF LifeIInv, LifeSound, LifeTypeOK
<1>2. st \in [Task -> States] /\ st[current] = "running"  BY <1>1 DEF States, LifeIInv, CurrentRuns, Due
<1>3. \A t \in Task : st[t] # state[t] => st[t] = "ready" /\ state[t] = "blocked"  BY DEF Due
<1>4. Schedule(st)  BY DEF Tick
<1> HIDE DEF st
<1>5. /\ CurrentRuns'
      /\ \A t \in Task : \/ state'[t] = st[t]
                         \/ /\ state'[t] \in {"ready", "running"}
                            /\ st[t] = "ready" \/ t = Idle \/ (t = current /\ st[t] = "running")
  BY <1>2, <1>4, ScheduleMoves
<1>6. NoDeath  BY <1>3, <1>5 DEF NoDeath
<1>7. \A t \in Task : Move(t)
  <2>1. \A t \in Task : st[t] # state[t] => sleep_until'[t] = 0  BY DEF Tick, st
  <2> QED BY <1>3, <1>5, <1>6, <2>1 DEF Move, Dispatched
<1>8. \A t \in Task : state'[t] = "blocked" => (sleep_until'[t] = 0 <=> sleep_until[t] = 0)
  <2> SUFFICES ASSUME NEW t \in Task, state'[t] = "blocked"
               PROVE  sleep_until'[t] = 0 <=> sleep_until[t] = 0
    OBVIOUS
  <2>1. t \notin Due
    <3>1. t \in Due => st[t] = "ready"  BY DEF st
    <3> QED BY <1>5, <3>1
  <2>2. sleep_until'[t] = IF sleep_until[t] > 1 THEN sleep_until[t] - 1 ELSE sleep_until[t]
    BY <2>1 DEF Tick, Counted
  <2>3. sleep_until[t] \in Nat  BY <1>1
  <2> QED BY <2>2, <2>3
<1> QED BY <1>5, <1>7, <1>8 DEF LifeFrame, Tick

\* A program that parks itself.
LEMMA ParkFrame ==
  ASSUME LifeIInv, current \in Programs, NEW o, NEW a, Park(o, a, state),
         UNCHANGED <<next_pid, parent>>,
         \A t \in Task : t # current => sleep_until'[t] = sleep_until[t],
         \/ o = "wait" /\ Zombies(current, a) = {}
         \/ o = "sleep" /\ sleep_until'[current] # 0
  PROVE  LifeFrame
<1> DEFINE st == [state EXCEPT ![current] = "blocked"]
<1>1. /\ state \in [Task -> States] /\ current \in Task
      /\ op \in [Task -> {"user", "wait", "sleep", "sem", "futex", "read", "write"}]
      /\ arg \in [Task -> Nat]
  BY DEF LifeIInv, LifeSound, LifeTypeOK
<1>2. st \in [Task -> States] /\ st[current] = "blocked"  BY <1>1 DEF States
<1>3. \A t \in Task : t # current => st[t] = state[t]  BY <1>1
<1>4. Schedule(st) /\ op' = [op EXCEPT ![current] = o] /\ arg' = [arg EXCEPT ![current] = a]  BY DEF Park
<1> HIDE DEF st
<1>5. /\ CurrentRuns'
      /\ \A t \in Task : \/ state'[t] = st[t]
                         \/ /\ state'[t] \in {"ready", "running"}
                            /\ st[t] = "ready" \/ t = Idle \/ (t = current /\ st[t] = "running")
  BY <1>2, <1>4, ScheduleMoves
<1>6. NoDeath  BY <1>2, <1>3, <1>5 DEF NoDeath
<1>7. ParksItself(current)
  <2>1. current # Idle  BY DEF Programs
  <2>2. state'[current] = "blocked"  BY <1>1, <1>2, <1>5, <2>1
  <2>3. op'[current] = o /\ arg'[current] = a  BY <1>1, <1>4
  <2> QED BY <1>6, <2>2, <2>3 DEF ParksItself
<1>8. \A t \in Task : Move(t)  BY <1>3, <1>5, <1>7 DEF Move, Dispatched
<1> QED BY <1>1, <1>4, <1>5, <1>8 DEF LifeFrame

\* A step that leaves the CPU where it is, and after which nobody is
\* parked that was not before.
LEMMA StayFrame ==
  ASSUME LifeIInv, UNCHANGED <<current, next_pid, parent, sleep_until>>,
         state'[current] = "running",
         \A t \in Task : Move(t),
         \/ UNCHANGED <<op, arg>>
         \/ Return
  PROVE  LifeFrame
<1>1. /\ current \in Task
      /\ op \in [Task -> {"user", "wait", "sleep", "sem", "futex", "read", "write"}]
      /\ arg \in [Task -> Nat]
  BY DEF LifeIInv, LifeSound, LifeTypeOK
<1> QED BY <1>1 DEF LifeFrame, Return, CurrentRuns

\* A task that frees a zombie goes on running.
LEMMA ReapFrame ==
  ASSUME LifeIInv, NEW pid, Zombies(current, pid) # {}, ReapFirst(Zombies(current, pid)),
         UNCHANGED <<current, next_pid, parent, sleep_until>>,
         UNCHANGED <<op, arg>> \/ Return
  PROVE  LifeFrame
<1> DEFINE z == Min(Zombies(current, pid))
<1>1. z \in Task /\ state[z] = "dead"  BY ReapsZombie
<1>2. state' = [state EXCEPT ![z] = "freed"]  BY DEF ReapFirst
<1> HIDE DEF z
<1>3. state \in [Task -> States] /\ current \in Task  BY DEF LifeIInv, LifeSound, LifeTypeOK
<1>4. state'[current] = "running"  BY <1>1, <1>2, <1>3 DEF LifeIInv, CurrentRuns
<1>5. \A t \in Task : Move(t)  BY <1>1, <1>2, <1>3 DEF Move
<1> QED BY <1>4, <1>5, StayFrame

\* A round of wait_task() by a program.
LEMMA WaitRoundFrame ==
  ASSUME LifeIInv, current \in Programs, NEW pid, WaitRound(pid),
         UNCHANGED <<next_pid, parent, sleep_until, handler>>
  PROVE  LifeFrame
<1>1. CASE Zombies(current, pid) # {} /\ ReapFirst(Zombies(current, pid)) /\ Return
           /\ UNCHANGED <<current, pending>>
  BY <1>1, ReapFrame
<1>2. CASE Return /\ UNCHANGED <<state, current, pending>>  BY <1>2, StayFrame DEF LifeIInv, CurrentRuns, Move
<1>3. CASE Zombies(current, pid) = {} /\ Park("wait", pid, state)  BY <1>3, ParkFrame
<1> QED BY <1>1, <1>2, <1>3 DEF WaitRound

\* A task that dies tells its parent.
LEMMA WakeParentMoves ==
  ASSUME NEW st \in [Task -> States], NEW c \in Task, st[c] = "dead"
  PROVE  /\ WakeParent(st, c)[c] = "dead"
         /\ \A t \in Task :
               \/ WakeParent(st, c)[t] = st[t]
               \/ st[t] = "blocked" /\ WakeParent(st, c)[t] = "ready" /\ sleep_until[t] = 0
         /\ \A p \in Task : parent[c] = p /\ st[p] = "blocked" /\ sleep_until[p] = 0
                               => WakeParent(st, c)[p] = "ready"
BY DEF WakeParent

\* task_exit() of a program.
LEMMA TaskExitFrame ==
  ASSUME LifeIInv, current \in Programs, TaskExit(state)
  PROVE  LifeFrame
<1> DEFINE dead == [state EXCEPT ![current] = "dead"]
           woken == WakeParent(dead, current)
<1>1. state \in [Task -> States] /\ current \in Task /\ state[current] = "running"
  BY DEF LifeIInv, LifeSound, LifeTypeOK, CurrentRuns
<1>2. dead \in [Task -> States] /\ dead[current] = "dead"
      /\ \A t \in Task : t # current => dead[t] = state[t]
  BY <1>1 DEF States
<1>3. Schedule(woken) /\ UNCHANGED <<next_pid, parent, op, arg, sleep_until, handler>>  BY DEF TaskExit
<1> HIDE DEF dead
<1>4. /\ woken \in [Task -> States]
      /\ woken[current] = "dead"
      /\ \A t \in Task : \/ woken[t] = dead[t]
                         \/ dead[t] = "blocked" /\ woken[t] = "ready" /\ sleep_until[t] = 0
      /\ \A p \in Task : parent[current] = p /\ dead[p] = "blocked" /\ sleep_until[p] = 0
                            => woken[p] = "ready"
  BY <1>1, <1>2, WakeParentMoves, WakeParentFrame
<1> HIDE DEF woken
<1>5. /\ CurrentRuns'
      /\ \A t \in Task : \/ state'[t] = woken[t]
                         \/ /\ state'[t] \in {"ready", "running"}
                            /\ woken[t] = "ready" \/ t = Idle \/ (t = current /\ woken[t] = "running")
  BY <1>3, <1>4, ScheduleMoves
<1>6. Died(current)
  <2>1. current # Idle /\ current \in Listed(state)  BY <1>1 DEF Programs, Listed
  <2>2. state'[current] = "dead"  BY <1>1, <1>4, <1>5, <2>1
  <2>3. ASSUME NEW p \in Task, parent[current] = p, state[p] = "blocked", sleep_until[p] = 0
        PROVE  state'[p] # "blocked"
    <3>1. p # current  BY <1>1, <2>3
    <3>2. woken[p] = "ready"  BY <1>2, <1>4, <2>3, <3>1
    <3> QED BY <1>5, <3>2
  <2> QED BY <2>1, <2>2, <2>3 DEF Died
<1>7. \A t \in Task : Move(t)
  <2> SUFFICES ASSUME NEW t \in Task, t # current PROVE Move(t)  BY <1>6 DEF Move
  <2>1. dead[t] = state[t]  BY <1>2
  <2> QED BY <1>4, <1>5, <2>1 DEF Move, Dispatched
<1> QED BY <1>3, <1>5, <1>7 DEF LifeFrame

\* signal_send() to another task, which dies where it is.
LEMMA TerminateFrame ==
  ASSUME LifeIInv, NEW v \in Task, Terminate(v, state)
  PROVE  LifeFrame
<1> DEFINE dead == [state EXCEPT ![v] = "dead"]
<1>1. state \in [Task -> States] /\ current \in Task /\ state[current] = "running"
  BY DEF LifeIInv, LifeSound, LifeTypeOK, CurrentRuns
<1>2. dead \in [Task -> States] /\ dead[v] = "dead"
      /\ \A t \in Task : t # v => dead[t] = state[t]
  BY <1>1 DEF States
<1>3. /\ state' = WakeParent(dead, v)
      /\ v # current /\ v \in Listed(state) /\ state[v] # "dead"
      /\ UNCHANGED <<current, next_pid, parent, op, arg, sleep_until>>
  BY DEF Terminate
<1> HIDE DEF dead
<1>4. /\ state'[v] = "dead"
      /\ \A t \in Task : \/ state'[t] = dead[t]
                         \/ dead[t] = "blocked" /\ state'[t] = "ready" /\ sleep_until[t] = 0
      /\ \A p \in Task : parent[v] = p /\ dead[p] = "blocked" /\ sleep_until[p] = 0
                            => state'[p] = "ready"
  BY <1>2, <1>3, WakeParentMoves
<1>5. Died(v)  BY <1>2, <1>3, <1>4 DEF Died
<1>6. \A t \in Task : Move(t)
  <2> SUFFICES ASSUME NEW t \in Task, t # v PROVE Move(t)  BY <1>5 DEF Move
  <2> QED BY <1>2, <1>4 DEF Move, Dispatched
<1>7. state'[current] = "running"  BY <1>1, <1>2, <1>3, <1>4
<1> QED BY <1>3, <1>6, <1>7, StayFrame

\* signal_send(-1): every task it kills has a parent that was woken, was
\* killed too, or was not waiting.
LEMMA BroadcastFrame == ASSUME LifeIInv, Broadcast PROVE LifeFrame
<1> DEFINE st == [t \in Task |-> IF t \in Killed THEN "dead"
                                 ELSE IF t \in Woken THEN "ready" ELSE state[t]]
           dead == [st EXCEPT ![current] = "dead"]
           woken == WakeParent(dead, current)
<1>1. /\ state \in [Task -> States] /\ current \in Task /\ state[current] = "running"
      /\ current \in Programs
  BY DEF LifeIInv, LifeSound, LifeTypeOK, CurrentRuns, Broadcast, Calls
<1>2. /\ UNCHANGED <<next_pid, parent, op, arg, sleep_until, handler>>
      /\ \/ state' = st /\ UNCHANGED current
         \/ ~handler[current] /\ Schedule(woken)
  BY DEF Broadcast
<1>3. st \in [Task -> States]  BY <1>1 DEF States
<1>4. \A t \in Killed : t \in Listed(state) /\ st[t] = "dead"  BY DEF Killed, Reached, Listed
<1>5. \A t \in Task \ Killed : \/ st[t] = state[t]
                               \/ /\ st[t] = "ready" /\ state[t] = "blocked"
                                  /\ handler[t] \/ sleep_until[t] = 0
  BY DEF Woken
<1>6. \A c \in Killed, p \in Task :
         parent[c] = p /\ state[p] = "blocked" /\ sleep_until[p] = 0 => st[p] # "blocked"
  BY DEF Woken
<1>7. current \notin Killed  BY <1>1, BootTasks DEF Killed, Reached
<1>8. st[current] = "running"  BY <1>1, <1>5, <1>7
<1> HIDE DEF st
<1>9. CASE state' = st /\ UNCHANGED current
  <2>1. \A t \in Killed : Died(t)  BY <1>4, <1>6, <1>9 DEF Died
  <2>2. \A t \in Task \ Killed : Move(t)  BY <1>5, <1>9 DEF Move, Dispatched
  <2>3. \A t \in Task : Move(t)  BY <2>1, <2>2 DEF Move
  <2> QED BY <1>2, <1>8, <1>9, <2>3, StayFrame
<1>10. CASE Schedule(woken)
  <2>1. dead \in [Task -> States] /\ dead[current] = "dead"
        /\ \A t \in Task : t # current => dead[t] = st[t]
    BY <1>1, <1>3 DEF States
  <2> HIDE DEF dead
  <2>2. /\ woken \in [Task -> States]
        /\ woken[current] = "dead"
        /\ \A t \in Task : \/ woken[t] = dead[t]
                           \/ dead[t] = "blocked" /\ woken[t] = "ready" /\ sleep_until[t] = 0
        /\ \A p \in Task : parent[current] = p /\ dead[p] = "blocked" /\ sleep_until[p] = 0
                              => woken[p] = "ready"
    BY <1>1, <2>1, WakeParentMoves, WakeParentFrame
  <2> HIDE DEF woken
  <2>3. /\ CurrentRuns'
        /\ \A t \in Task : \/ state'[t] = woken[t]
                           \/ /\ state'[t] \in {"ready", "running"}
                              /\ woken[t] = "ready" \/ t = Idle \/ (t = current /\ woken[t] = "running")
    BY <1>1, <1>10, <2>2, ScheduleMoves
  <2>4. Died(current)
    <3>1. current # Idle /\ current \in Listed(state)  BY <1>1 DEF Programs, Listed
    <3>2. state'[current] = "dead"  BY <1>1, <2>2, <2>3, <3>1
    <3>3. ASSUME NEW p \in Task, parent[current] = p, state[p] = "blocked", sleep_until[p] = 0
          PROVE  state'[p] # "blocked"
      <4>1. p # current  BY <1>1, <3>3
      <4>2. dead[p] = "blocked" => woken[p] = "ready"  BY <2>2, <3>3
      <4> QED BY <2>2, <2>3, <4>2
    <3> QED BY <3>1, <3>2, <3>3 DEF Died
  <2>5. ASSUME NEW t \in Task, t \in Killed, t # Idle PROVE Died(t)
    <3>1. t # current /\ woken[t] = "dead" /\ t \in Listed(state)  BY <1>4, <1>7, <2>1, <2>2, <2>5
    <3>2. state'[t] = "dead"  BY <2>3, <2>5, <3>1
    <3>3. ASSUME NEW p \in Task, parent[t] = p, state[p] = "blocked", sleep_until[p] = 0
          PROVE  state'[p] # "blocked"
      <4>1. p # current /\ st[p] # "blocked"  BY <1>1, <1>6, <2>5, <3>3
      <4>2. woken[p] # "blocked"  BY <2>1, <2>2, <4>1
      <4> QED BY <2>3, <4>2
    <3> QED BY <3>1, <3>2, <3>3 DEF Died
  <2>6. ASSUME NEW t \in Task, t \in Killed, t = Idle PROVE Move(t)
    <3>1. t # current /\ woken[t] = "dead" /\ t \in Listed(state)  BY <1>4, <1>7, <2>1, <2>2, <2>6
    <3>2. CASE state'[t] = "dead"
      <4>1. ASSUME NEW p \in Task, parent[t] = p, state[p] = "blocked", sleep_until[p] = 0
            PROVE  state'[p] # "blocked"
        <5>1. p # current /\ st[p] # "blocked"  BY <1>1, <1>6, <2>6, <4>1
        <5>2. woken[p] # "blocked"  BY <2>1, <2>2, <5>1
        <5> QED BY <2>3, <5>2
      <4> QED BY <3>1, <3>2, <4>1 DEF Died, Move
    <3>3. CASE state'[t] # "dead"  BY <2>3, <2>6, <3>1, <3>3 DEF Move, Dispatched
    <3> QED BY <3>2, <3>3
  <2>7. ASSUME NEW t \in Task \ Killed, t # current PROVE Move(t)
    <3>1. dead[t] = st[t]  BY <2>1, <2>7
    <3>2. \/ woken[t] = state[t]
          \/ woken[t] = "ready" /\ state[t] = "blocked" /\ (handler[t] \/ sleep_until[t] = 0)
      BY <1>5, <2>2, <2>7, <3>1
    <3> QED BY <2>3, <2>7, <3>2 DEF Move, Dispatched
  <2>8. \A t \in Task : Move(t)  BY <2>4, <2>5, <2>6, <2>7 DEF Move
  <2> QED BY <1>2, <2>3, <2>8 DEF LifeFrame
<1> QED BY <1>2, <1>9, <1>10

\* Every step has that shape.
LEMMA StepFrame == ASSUME LifeIInv, LifeNext PROVE LifeFrame
<1>0. /\ state \in [Task -> States] /\ current \in Task /\ state[current] = "running"
      /\ op \in [Task -> {"user", "wait", "sleep", "sem", "futex", "read", "write"}]
      /\ arg \in [Task -> Nat]
      /\ parent \in [Task -> {0} \cup Task]
      /\ sleep_until \in [Task -> 0 .. MaxSleep + 1]
      /\ next_pid \in 3 .. MaxTask + 1
  BY DEF LifeIInv, LifeSound, LifeTypeOK, CurrentRuns
<1>1. CASE Tick  BY <1>1, TickFrame
<1>2. ASSUME NEW ok \in BOOLEAN, Fork(ok) PROVE LifeFrame
  <2>1. next_pid \in Task /\ state[next_pid] = "unused" /\ next_pid # current
    BY <1>0, <1>2, MaxTaskAssumption DEF Fork, Task, LifeIInv, UnusedAhead
  <2>2. Created(next_pid)  BY <1>0, <1>2, <2>1 DEF Fork, Created
  <2>3. \A t \in Task : t # next_pid => state'[t] = state[t] /\ parent'[t] = parent[t]  BY <1>0, <1>2 DEF Fork
  <2>4. \A t \in Task : Move(t)  BY <2>2, <2>3 DEF Move
  <2>5. CurrentRuns'  BY <1>0, <1>2, <2>1, <2>3 DEF Fork, CurrentRuns
  <2> QED BY <1>2, <2>2, <2>3, <2>4, <2>5 DEF LifeFrame, Fork
<1>3. CASE ExitCall  BY <1>3, TaskExitFrame DEF ExitCall, Calls
<1>4. ASSUME NEW pid \in {AnyChild} \cup Task, Wait(pid) PROVE LifeFrame
  BY <1>4, WaitRoundFrame DEF Wait, Calls
<1>5. ASSUME NEW pid \in {AnyChild} \cup Task, WaitNoHang(pid) PROVE LifeFrame
  BY <1>5, ReapFrame DEF WaitNoHang
<1>6. CASE WaitAgain
  <2>1. current \in Programs  BY <1>0, <1>6 DEF WaitAgain, LifeIInv, ProgramsCall
  <2> QED BY <1>6, <2>1, WaitRoundFrame DEF WaitAgain
<1>7. ASSUME NEW n \in 0 .. MaxSleep, Sleep(n) PROVE LifeFrame
  <2>0. current \in Programs  BY <1>7 DEF Sleep, Calls
  <2>1. CASE n = 0
    <3>1. Schedule(state) /\ UNCHANGED <<op, arg, sleep_until, next_pid, parent, handler>>
      BY <1>7, <2>1 DEF Sleep
    <3>2. /\ CurrentRuns'
          /\ \A t \in Task : \/ state'[t] = state[t]
                             \/ /\ state'[t] \in {"ready", "running"}
                                /\ \/ state[t] = "ready"
                                   \/ t = Idle
                                   \/ t = current /\ state[t] = "running"
      BY <1>0, <3>1, ScheduleMoves
    <3>3. \A t \in Task : Move(t)  BY <3>2 DEF Move, Dispatched
    <3> QED BY <3>1, <3>2, <3>3 DEF LifeFrame
  <2>2. CASE n # 0
    <3>1. /\ Park("sleep", n, state) /\ UNCHANGED <<next_pid, parent>>
          /\ sleep_until' = [sleep_until EXCEPT ![current] = n + 1]
      BY <1>7, <2>2 DEF Sleep
    <3>2. /\ \A t \in Task : t # current => sleep_until'[t] = sleep_until[t]
          /\ sleep_until'[current] # 0
      BY <1>0, <1>7, <3>1, LifeAssumption
    <3> QED BY <2>0, <3>1, <3>2, ParkFrame
  <2> QED BY <2>1, <2>2
<1>8. CASE SleepDone  BY <1>0, <1>8, StayFrame DEF SleepDone, Move
<1>9. CASE SetHandler  BY <1>0, <1>9, StayFrame DEF SetHandler, Move
<1>10. ASSUME NEW v \in Task, Notify(v) PROVE LifeFrame
  <2>1. \A t \in Task : Move(t)  BY <1>0, <1>10 DEF Notify, Move, Dispatched
  <2>2. state'[current] = "running"  BY <1>0, <1>10 DEF Notify
  <2> QED BY <1>10, <2>1, <2>2, StayFrame DEF Notify
<1>11. ASSUME NEW v \in Task, Terminate(v, state) PROVE LifeFrame  BY <1>11, TerminateFrame
<1>12. CASE KillSelf  BY <1>12, TaskExitFrame DEF KillSelf, Calls
<1>13. CASE Broadcast  BY <1>13, BroadcastFrame
<1> QED BY <1>1, <1>2, <1>3, <1>4, <1>5, <1>6, <1>7, <1>8, <1>9, <1>10, <1>11, <1>12, <1>13
     DEF LifeNext

\* The invariant holds when the first user task starts.
LEMMA InitLifeIInv == LifeInit => LifeIInv
<1> SUFFICES ASSUME LifeInit PROVE LifeIInv  OBVIOUS
<1>1. LifeSound  BY InitSound
<1>2. CurrentRuns /\ ProgramsCall /\ BlockedInCall /\ ZombieNoticed
  BY BootTasks DEF LifeInit, CurrentRuns, ProgramsCall, BlockedInCall, ZombieNoticed
<1>3. UnusedAhead  BY BootTasks DEF LifeInit, UnusedAhead, Main, Idle, Init1st
<1> QED BY <1>1, <1>2, <1>3 DEF LifeIInv

\* Every step keeps the invariant.
LEMMA LifeIInvStep == LifeIInv /\ [LifeNext]_lifeVars => LifeIInv'
<1> SUFFICES ASSUME LifeIInv, [LifeNext]_lifeVars PROVE LifeIInv'  OBVIOUS
<1>1. CASE LifeNext  BY <1>1, LifeSoundStep, StepFrame, FrameKeeps DEF LifeIInv
<1>2. CASE UNCHANGED lifeVars
  BY <1>2 DEF lifeVars, LifeIInv, LifeSound, LifeTypeOK, OnlyCurrentRuns, CurrentRuns,
              UnusedAhead, ProgramsCall, BlockedInCall, ZombieNoticed, Zombies, Children, Listed
<1> QED BY <1>1, <1>2

------------------------------

\* wait_task() never sleeps through the death it waits for, unless an
\* interrupted nanosleep left its deadline behind (wait.c:95): no order of
\* exits, kills, broadcasts, ticks and handlers leaves a parent parked
\* over a zombie that its call would take.
THEOREM ZombiesAreNoticed == LifeSpec => []ZombieNoticed
<1>1. LifeIInv => ZombieNoticed  BY DEF LifeIInv
<1> QED BY <1>1, InitLifeIInv, LifeIInvStep, PTL DEF LifeSpec

\* A task that died is never scheduled again (signal.c:30): it leaves
\* "dead" only by being reaped, the idle task apart, which schedule() runs
\* when nobody else is READY.
THEOREM TheDeadStayDead == LifeSpec => DeadStaysDead
<1>1. LifeIInv /\ [LifeNext]_lifeVars
        => [\A t \in Task \ {Idle} : state[t] = "dead" => state'[t] \in {"dead", "freed"}]_lifeVars
  <2> SUFFICES ASSUME LifeIInv, LifeNext, NEW t \in Task \ {Idle}, state[t] = "dead"
               PROVE  state'[t] \in {"dead", "freed"}
    OBVIOUS
  <2>1. Move(t)  BY StepFrame DEF LifeFrame
  <2>2. t # current  BY DEF LifeIInv, CurrentRuns
  <2> QED BY <2>1, <2>2 DEF Move, Created, Died, ParksItself, Dispatched
<1> QED BY <1>1, InitLifeIInv, LifeIInvStep, PTL DEF LifeSpec, DeadStaysDead

\* What a step does to whoever is inside of nanosleep() after it: it has just
\* parked itself, or it was there before with the same handler, and a deadline
\* that was reached stays so.
LEMMA SleeperFrame ==
  ASSUME LifeIInv, LifeNext, NEW t \in Task, op'[t] = "sleep"
  PROVE  \/ state'[t] = "blocked"
         \/ /\ op[t] = "sleep" /\ handler'[t] = handler[t]
            /\ sleep_until[t] = 0 => sleep_until'[t] = 0
<1>0. /\ current \in Task
      /\ op \in [Task -> {"user", "wait", "sleep", "sem", "futex", "read", "write"}]
      /\ sleep_until \in [Task -> 0 .. MaxSleep + 1] /\ handler \in [Task -> BOOLEAN]
  BY DEF LifeIInv, LifeSound, LifeTypeOK
<1> SUFFICES ASSUME state'[t] # "blocked"
             PROVE  /\ op[t] = "sleep" /\ handler'[t] = handler[t]
                    /\ sleep_until[t] = 0 => sleep_until'[t] = 0
  OBVIOUS
<1>1. CASE Tick
  <2>1. t \in Due => sleep_until'[t] = 0  BY <1>1 DEF Tick
  <2>2. t \notin Due => sleep_until'[t] = IF sleep_until[t] > 1 THEN sleep_until[t] - 1
                                                              ELSE sleep_until[t]
    BY <1>1 DEF Tick, Counted
  <2> QED BY <1>1, <2>1, <2>2 DEF Tick
<1>2. ASSUME NEW n \in 0 .. MaxSleep, Sleep(n) PROVE op[t] = "sleep" /\ handler' = handler
                                                   /\ (sleep_until[t] = 0 => sleep_until'[t] = 0)
  <2>1. current \in Programs  BY <1>2 DEF Sleep, Calls
  <2>2. CASE n = 0  BY <1>2, <2>2 DEF Sleep
  <2>3. CASE n # 0
    <3>1. Park("sleep", n, state) /\ handler' = handler
          /\ sleep_until' = [sleep_until EXCEPT ![current] = n + 1]
      BY <1>2, <2>3 DEF Sleep
    <3>2. t # current
      <4> SUFFICES ASSUME t = current PROVE FALSE  OBVIOUS
      <4> DEFINE st == [state EXCEPT ![current] = "blocked"]
      <4>1. st \in [Task -> States] /\ st[current] = "blocked" /\ Schedule(st)
        BY <1>0, <3>1 DEF LifeIInv, LifeSound, LifeTypeOK, States, Park
      <4>2. current # Idle  BY <2>1 DEF Programs
      <4> HIDE DEF st
      <4>3. state'[current] = "blocked"  BY <1>0, <2>1, <4>1, <4>2, ScheduleMoves
      <4> QED BY <4>3
    <3> QED BY <1>0, <3>1, <3>2 DEF Park
  <2> QED BY <2>2, <2>3
<1>3. ASSUME NEW pid, WaitRound(pid) PROVE op[t] = "sleep"  BY <1>0, <1>3 DEF WaitRound, Return, Park
<1>4. CASE SetHandler  BY <1>0, <1>4 DEF SetHandler, Calls
<1>5. CASE ExitCall \/ KillSelf  BY <1>5 DEF ExitCall, KillSelf, TaskExit
<1>6. CASE SleepDone  BY <1>0, <1>6 DEF SleepDone, Return
<1>7. CASE Broadcast  BY <1>7 DEF Broadcast
<1>8. CASE \E v \in Task : Notify(v) \/ Terminate(v, state)  BY <1>8 DEF Notify, Terminate
<1>9. CASE \E ok \in BOOLEAN : Fork(ok)  BY <1>9 DEF Fork
<1>10. CASE WaitAgain \/ \E pid \in {AnyChild} \cup Task : Wait(pid) \/ WaitNoHang(pid)
  BY <1>3, <1>10 DEF Wait, WaitAgain, WaitNoHang
<1> QED BY <1>1, <1>2, <1>4, <1>5, <1>6, <1>7, <1>8, <1>9, <1>10 DEF LifeNext

\* Nobody sleeps before it is born.
SleepersBorn == \A t \in Task : op[t] = "sleep" => state[t] # "unused"

\* A nanosleep runs its full time whatever children of the sleeper die
\* (wait.c:99-101): no order of exits, kills, broadcasts and ticks gets a
\* task without a handler out of it before its deadline.
THEOREM SleepsAreWhole == LifeSpec => []SleepsRunTheirTime
<1>1. LifeInit => SleepsRunTheirTime /\ SleepersBorn  BY DEF LifeInit, SleepsRunTheirTime, SleepersBorn
<1>0. LifeIInv /\ SleepersBorn /\ [LifeNext]_lifeVars => SleepersBorn'
  BY SleeperFrame, StepFrame
     DEF SleepersBorn, LifeFrame, Move, Created, Died, ParksItself, Dispatched, lifeVars
<1>2. LifeIInv /\ SleepsRunTheirTime /\ SleepersBorn /\ [LifeNext]_lifeVars => SleepsRunTheirTime'
  <2> SUFFICES ASSUME LifeIInv, SleepsRunTheirTime, SleepersBorn, [LifeNext]_lifeVars,
                      NEW t \in Task,
                      op'[t] = "sleep", state'[t] \in {"ready", "running"}, ~handler'[t]
               PROVE  sleep_until'[t] = 0
    BY DEF SleepsRunTheirTime
  <2>1. CASE LifeNext
    <3>1. op[t] = "sleep" /\ ~handler[t] /\ (sleep_until[t] = 0 => sleep_until'[t] = 0)  BY <2>1, SleeperFrame
    <3>2. t # Idle  BY <3>1 DEF LifeIInv, ProgramsCall, Programs
    <3>3. CASE state[t] \in {"ready", "running"}  BY <3>1, <3>3 DEF SleepsRunTheirTime
    <3>4. CASE state[t] = "blocked"
      <4>1. sleep_until[t] # 0  BY <3>1, <3>4 DEF LifeIInv, BlockedInCall
      <4>2. Move(t)  BY <2>1, StepFrame DEF LifeFrame
      <4> QED BY <3>1, <3>2, <3>4, <4>1, <4>2 DEF Move, Created, Died, ParksItself, Dispatched
    <3>5. state[t] \in {"ready", "running", "blocked"}
      <4>1. Move(t)  BY <2>1, StepFrame DEF LifeFrame
      <4> QED BY <3>1, <3>2, <4>1 DEF Move, Created, Died, ParksItself, Dispatched, SleepersBorn
    <3> QED BY <3>3, <3>4, <3>5
  <2>2. CASE UNCHANGED lifeVars  BY <2>2 DEF lifeVars, SleepsRunTheirTime
  <2> QED BY <2>1, <2>2
<1> QED BY <1>0, <1>1, <1>2, InitLifeIInv, LifeIInvStep, PTL DEF LifeSpec

\* Counting tasks: any set of them is finite.
LEMMA CountTasks ==
  ASSUME NEW A, NEW B, A \subseteq B, B \subseteq Task
  PROVE  /\ IsFiniteSet(A) /\ Cardinality(A) \in Nat
         /\ IsFiniteSet(B) /\ Cardinality(B) \in Nat
         /\ Cardinality(A) <= Cardinality(B)
<1>1. IsFiniteSet(Task)  BY MaxTaskAssumption, FS_Interval DEF Task
<1>2. IsFiniteSet(B)  BY <1>1, FS_Subset
<1>3. IsFiniteSet(A) /\ Cardinality(A) <= Cardinality(B)  BY <1>2, FS_Subset
<1> QED BY <1>2, <1>3, FS_CardinalityType

\* A set of tasks loses at most one with one of its members.
LEMMA CountLess ==
  ASSUME NEW A, A \subseteq Task, NEW x
  PROVE  Cardinality(A \ {x}) >= Cardinality(A) - 1
<1>1. IsFiniteSet(A) /\ Cardinality(A) \in Nat  BY CountTasks
<1>2. Cardinality(A \ {x}) = IF x \in A THEN Cardinality(A) - 1 ELSE Cardinality(A)  BY <1>1, FS_RemoveElement
<1> QED BY <1>1, <1>2

------------------------------

\* What the life cycle leaves to the modules that add blocking calls of
\* their own.  There a wakeup may hit the task that runs, or a dead one,
\* so that only a weaker fact holds of the owner of the CPU.
CurrentAwake == state[current] \in {"ready", "running"}

CallerOK == LifeSound /\ ProgramsCall /\ CurrentAwake /\ UnusedAhead

\* The calls of the other modules.
OtherCalls == {"sem", "futex", "read", "write"}

\* A task inside one of them stays there, and is not parked again.
LeavesCalls ==
    \A t \in Task :
        /\ op[t] \in OtherCalls \/ op'[t] \in OtherCalls
              => op'[t] = op[t] /\ arg'[t] = arg[t]
        /\ op[t] \in OtherCalls =>
              \/ state'[t] = state[t]
              \/ state'[t] \in {"ready", "running", "dead"}
              \/ state[t] = "dead" /\ state'[t] = "freed"

\* No pid comes to life that states st hold unused.
KeepsUnused(st) ==
    \A t \in Task : st[t] = "unused" /\ t \notin {current, Idle} => state'[t] = "unused"

\* Whoever runs after schedule() is READY or RUNNING, if the caller was or
\* is a program.
LEMMA ScheduleAwake ==
  ASSUME NEW st \in [Task -> States], current \in Task, Schedule(st),
         st[current] \in {"ready", "running"} \/ current # Idle
  PROVE  CurrentAwake'
<1>1. ASSUME NEW n \in Task, Resume(st, n), n # current \/ st[n] \in {"ready", "running"}
      PROVE  CurrentAwake'
  BY <1>1 DEF Resume, CurrentAwake
<1>2. CASE st[current] = "running" /\ Resume(st, current)  BY <1>1, <1>2
<1>3. CASE \E n \in Ready(st) : Resume(st, n)  BY <1>1, <1>3 DEF Ready
<1>4. CASE Ready(st) = {} /\ Resume(st, Idle)  BY <1>1, <1>4, BootTasks DEF Ready
<1> QED BY <1>2, <1>3, <1>4 DEF Schedule

\* A caller in user mode or in wait() that parks itself with states st.
LEMMA ParkAwake ==
  ASSUME CallerOK, current \in Programs, NEW st \in [Task -> States],
         NEW o, NEW a, Park(o, a, st)
  PROVE  /\ CurrentAwake' /\ ProgramsCall'
         /\ op' = [op EXCEPT ![current] = o] /\ arg' = [arg EXCEPT ![current] = a]
         /\ state'[current] = "blocked"
         /\ KeepsUnused(st)
         /\ \A t \in Task : t \notin {current, Idle} /\ st[t] # "ready" => state'[t] = st[t]
         /\ \A t \in Task : t # current =>
               state'[t] = st[t] \/ state'[t] \in {"ready", "running"}
<1> DEFINE stb == [st EXCEPT ![current] = "blocked"]
<1>1. /\ current \in Task /\ current # Idle
      /\ op \in [Task -> {"user", "wait", "sleep", "sem", "futex", "read", "write"}]
  BY DEF Programs, CallerOK, LifeSound, LifeTypeOK
<1>2. stb \in [Task -> States] /\ stb[current] = "blocked"
      /\ \A t \in Task : t # current => stb[t] = st[t]
  BY <1>1 DEF States
<1>3. Schedule(stb) /\ op' = [op EXCEPT ![current] = o] /\ arg' = [arg EXCEPT ![current] = a]  BY DEF Park
<1> HIDE DEF stb
<1>4. CurrentAwake'  BY <1>1, <1>2, <1>3, ScheduleAwake
<1>5. \A t \in Task : state'[t] # stb[t] =>
         /\ state'[t] \in {"ready", "running"}
         /\ stb[t] = "ready" \/ t = Idle \/ (t = current /\ stb[t] = "running")
  BY <1>1, <1>2, <1>3, ScheduleFrame
<1>6. ProgramsCall'  BY <1>1, <1>3 DEF CallerOK, ProgramsCall
<1> QED BY <1>1, <1>2, <1>3, <1>4, <1>5, <1>6 DEF KeepsUnused

\* task_exit() with states st, whomever closing the descriptors has woken.
LEMMA TaskExitAwake ==
  ASSUME CallerOK, current \in Programs, NEW st \in [Task -> States], TaskExit(st)
  PROVE  /\ CurrentAwake' /\ ProgramsCall'
         /\ state'[current] = "dead"
         /\ KeepsUnused(st)
         /\ \A t \in Task : t # current =>
               state'[t] = st[t] \/ state'[t] \in {"ready", "running"}
<1> DEFINE dead == [st EXCEPT ![current] = "dead"]
           woken == WakeParent(dead, current)
<1>1. current \in Task /\ current # Idle  BY DEF Programs, CallerOK, LifeSound, LifeTypeOK
<1>2. dead \in [Task -> States] /\ dead[current] = "dead"
      /\ \A t \in Task : t # current => dead[t] = st[t]
  BY <1>1 DEF States
<1>3. Schedule(woken) /\ UNCHANGED <<op, arg>>  BY DEF TaskExit
<1> HIDE DEF dead
<1>4. /\ woken \in [Task -> States] /\ woken[current] = "dead"
      /\ \A t \in Task : woken[t] = dead[t] \/ (woken[t] = "ready" /\ dead[t] = "blocked")
  BY <1>1, <1>2, WakeParentMoves, WakeParentFrame
<1> HIDE DEF woken
<1>5. CurrentAwake'  BY <1>1, <1>3, <1>4, ScheduleAwake
<1>6. \A t \in Task : state'[t] # woken[t] =>
         /\ state'[t] \in {"ready", "running"}
         /\ woken[t] = "ready" \/ t = Idle \/ (t = current /\ woken[t] = "running")
  BY <1>1, <1>3, <1>4, ScheduleFrame
<1> QED BY <1>1, <1>2, <1>3, <1>4, <1>5, <1>6 DEF CallerOK, ProgramsCall, KeepsUnused

\* The timer parks and kills nobody.
LEMMA TickAwake ==
  ASSUME CallerOK, Tick
  PROVE  /\ CurrentAwake' /\ ProgramsCall' /\ KeepsUnused(state) /\ UNCHANGED <<op, arg>>
         /\ \A t \in Task : state'[t] = state[t] \/ state'[t] \in {"ready", "running"}
<1> DEFINE st == [t \in Task |-> IF t \in Due THEN "ready" ELSE state[t]]
<1>1. state \in [Task -> States] /\ current \in Task /\ state[current] \in {"ready", "running"}
  BY DEF CallerOK, LifeSound, LifeTypeOK, CurrentAwake
<1>2. st \in [Task -> States] /\ st[current] \in {"ready", "running"}
      /\ \A t \in Task : st[t] = state[t] \/ (st[t] = "ready" /\ state[t] = "blocked")
  BY <1>1 DEF States, Due
<1>3. Schedule(st) /\ UNCHANGED <<op, arg>>  BY DEF Tick
<1> HIDE DEF st
<1>4. CurrentAwake'  BY <1>1, <1>2, <1>3, ScheduleAwake
<1>5. \A t \in Task : state'[t] # st[t] =>
         /\ state'[t] \in {"ready", "running"}
         /\ st[t] = "ready" \/ t = Idle \/ t = current
  BY <1>1, <1>2, <1>3, ScheduleFrame
<1> QED BY <1>2, <1>3, <1>4, <1>5 DEF CallerOK, ProgramsCall, KeepsUnused

\* A round of wait_task() concerns only its caller and the zombie it
\* frees.
LEMMA WaitRoundAwake ==
  ASSUME CallerOK, current \in Programs, op[current] \in {"user", "wait"},
         NEW pid, WaitRound(pid)
  PROVE  CurrentAwake' /\ ProgramsCall' /\ LeavesCalls /\ KeepsUnused(state)
<1>1. /\ state \in [Task -> States] /\ current \in Task
      /\ op \in [Task -> {"user", "wait", "sleep", "sem", "futex", "read", "write"}]
      /\ arg \in [Task -> Nat]
  BY DEF CallerOK, LifeSound, LifeTypeOK
<1>2. CASE Zombies(current, pid) # {} /\ ReapFirst(Zombies(current, pid)) /\ Return
           /\ UNCHANGED <<current, pending>>
  <2> DEFINE z == Min(Zombies(current, pid))
  <2>1. z \in Task /\ state[z] = "dead"  BY <1>2, ReapsZombie
  <2>2. state' = [state EXCEPT ![z] = "freed"]  BY <1>2 DEF ReapFirst
  <2> HIDE DEF z
  <2>3. CurrentAwake'  BY <1>1, <1>2, <2>1, <2>2 DEF CallerOK, CurrentAwake
  <2> QED BY <1>1, <1>2, <2>1, <2>2, <2>3
       DEF Return, LeavesCalls, OtherCalls, CallerOK, ProgramsCall, KeepsUnused
<1>3. CASE Return /\ UNCHANGED <<state, current, pending>>
  BY <1>1, <1>3
     DEF Return, CallerOK, CurrentAwake, ProgramsCall, LeavesCalls, OtherCalls, KeepsUnused
<1>4. CASE Park("wait", pid, state)  BY <1>1, <1>4, ParkAwake DEF LeavesCalls, OtherCalls
<1> QED BY <1>2, <1>3, <1>4 DEF WaitRound

\* signal_send(-1).
LEMMA BroadcastAwake ==
  ASSUME CallerOK, Broadcast
  PROVE  /\ CurrentAwake' /\ ProgramsCall' /\ LeavesCalls /\ KeepsUnused(state)
         /\ \A t \in Task : t # current => state'[t] \in {state[t], "dead", "ready", "running"}
<1> DEFINE st == [t \in Task |-> IF t \in Killed THEN "dead"
                                 ELSE IF t \in Woken THEN "ready" ELSE state[t]]
           dead == [st EXCEPT ![current] = "dead"]
           woken == WakeParent(dead, current)
<1>1. /\ state \in [Task -> States] /\ current \in Task /\ current \in Programs /\ current # Idle
      /\ op[current] = "user" /\ UNCHANGED <<op, arg>>
  BY DEF CallerOK, LifeSound, LifeTypeOK, Broadcast, Calls, Programs
<1>2. \/ handler[current] /\ state' = st /\ UNCHANGED current
      \/ Schedule(woken)
  BY DEF Broadcast
<1>3. /\ st \in [Task -> States]
      /\ \A t \in Task : \/ st[t] = state[t]
                         \/ st[t] \in {"dead", "ready"} /\ state[t] # "unused"
  BY <1>1 DEF States, Killed, Reached, Woken, Listed
<1>4. CASE handler[current] /\ state' = st /\ UNCHANGED current
  <2>1. current \notin Killed  BY <1>1, <1>4 DEF Killed
  <2>2. st[current] \in {"ready", "running"}  BY <1>1, <2>1 DEF CallerOK, CurrentAwake
  <2> HIDE DEF st
  <2> QED BY <1>1, <1>3, <1>4, <2>2
       DEF CallerOK, CurrentAwake, ProgramsCall, LeavesCalls, KeepsUnused
<1>5. CASE Schedule(woken)
  <2> HIDE DEF st
  <2>1. dead \in [Task -> States] /\ dead[current] = "dead"
        /\ \A t \in Task : t # current => dead[t] = st[t]
    BY <1>1, <1>3 DEF States
  <2> HIDE DEF dead
  <2>2. /\ woken \in [Task -> States]
        /\ \A t \in Task : woken[t] = dead[t] \/ (woken[t] = "ready" /\ dead[t] = "blocked")
    BY <2>1, WakeParentFrame
  <2> HIDE DEF woken
  <2>3. CurrentAwake'  BY <1>1, <1>5, <2>2, ScheduleAwake
  <2>4. \A t \in Task : state'[t] # woken[t] =>
           /\ state'[t] \in {"ready", "running"}
           /\ woken[t] = "ready" \/ t = Idle \/ t = current
    BY <1>1, <1>5, <2>2, ScheduleFrame
  <2>5. \A t \in Task : t # current => state'[t] \in {state[t], "dead", "ready", "running"}
    BY <1>3, <2>1, <2>2, <2>4
  <2>6. KeepsUnused(state)  BY <1>3, <2>1, <2>2, <2>4 DEF KeepsUnused
  <2> QED BY <1>1, <2>3, <2>5, <2>6 DEF CallerOK, ProgramsCall, LeavesCalls, OtherCalls
<1> QED BY <1>2, <1>4, <1>5

\* Every step of the life cycle leaves the tasks inside of other calls
\* where they are, and the CPU with a task that can run.
LEMMA LifeLeavesCalls ==
  ASSUME CallerOK, LifeNext
  PROVE  CallerOK' /\ LeavesCalls
<1>0. /\ state \in [Task -> States] /\ current \in Task
      /\ state[current] \in {"ready", "running"}
      /\ op \in [Task -> {"user", "wait", "sleep", "sem", "futex", "read", "write"}]
      /\ arg \in [Task -> Nat]
      /\ next_pid \in 3 .. MaxTask + 1
  BY DEF CallerOK, LifeSound, LifeTypeOK, CurrentAwake
<1> DEFINE Goal == CurrentAwake' /\ ProgramsCall' /\ LeavesCalls /\ UnusedAhead'
<1> SUFFICES Goal  BY LifeSoundStep DEF CallerOK
<1>a. ASSUME KeepsUnused(state), UNCHANGED <<next_pid, parent>> PROVE UnusedAhead'
  <2>1. \A t \in Task : t >= next_pid => t \notin {current, Idle}
    BY <1>0, BootTasks DEF CallerOK, UnusedAhead, Idle
  <2> QED BY <1>a, <2>1 DEF CallerOK, UnusedAhead, KeepsUnused
<1>b. ASSUME \A t \in Task : state[t] = "unused" => state'[t] = "unused",
             UNCHANGED <<next_pid, parent>>
      PROVE  UnusedAhead'
  BY <1>a, <1>b DEF KeepsUnused
<1>1. CASE Tick
  <2>1. /\ CurrentAwake' /\ ProgramsCall' /\ KeepsUnused(state)
        /\ UNCHANGED <<op, arg, next_pid, parent>>
        /\ \A t \in Task : state'[t] = state[t] \/ state'[t] \in {"ready", "running"}
    BY <1>1, TickAwake DEF Tick
  <2> QED BY <1>a, <2>1 DEF LeavesCalls
<1>2. ASSUME NEW ok \in BOOLEAN, Fork(ok) PROVE Goal
  <2>1. state[next_pid] = "unused" /\ next_pid \in Task /\ next_pid # current
    BY <1>0, <1>2, MaxTaskAssumption DEF Fork, Task, CallerOK, UnusedAhead
  <2>2. UnusedAhead'  BY <1>0, <1>2, <2>1, BootTasks DEF Fork, CallerOK, UnusedAhead, LifeSound, LifeTypeOK
  <2> QED BY <1>0, <1>2, <2>1, <2>2 DEF Fork, CallerOK, CurrentAwake, ProgramsCall, LeavesCalls
<1>3. CASE ExitCall \/ KillSelf
  <2>1. current \in Programs /\ op[current] = "user" /\ TaskExit(state)  BY <1>3 DEF ExitCall, KillSelf, Calls
  <2>2. UNCHANGED <<op, arg, next_pid, parent>>  BY <2>1 DEF TaskExit
  <2> QED BY <1>0, <1>a, <2>1, <2>2, TaskExitAwake DEF LeavesCalls, OtherCalls
<1>4. ASSUME NEW pid \in {AnyChild} \cup Task, Wait(pid) PROVE Goal
  BY <1>4, <1>a, WaitRoundAwake DEF Wait, Calls
<1>5. ASSUME NEW pid \in {AnyChild} \cup Task, WaitNoHang(pid) PROVE Goal
  <2> DEFINE z == Min(Zombies(current, pid))
  <2>1. z \in Task /\ state[z] = "dead"  BY <1>5, ReapsZombie DEF WaitNoHang
  <2>2. state' = [state EXCEPT ![z] = "freed"] /\ UNCHANGED <<current, op, arg, next_pid, parent>>
    BY <1>5 DEF WaitNoHang, ReapFirst
  <2> HIDE DEF z
  <2> QED BY <1>0, <1>b, <2>1, <2>2 DEF CallerOK, CurrentAwake, ProgramsCall, LeavesCalls
<1>6. CASE WaitAgain
  <2>1. current \in Programs  BY <1>0, <1>6 DEF WaitAgain, CallerOK, ProgramsCall
  <2> QED BY <1>6, <1>a, <2>1, WaitRoundAwake DEF WaitAgain
<1>7. ASSUME NEW n \in 0 .. MaxSleep, Sleep(n) PROVE Goal
  <2>0. current \in Programs /\ op[current] = "user"  BY <1>7 DEF Sleep, Calls
  <2>1. CASE n = 0
    <3>1. Schedule(state) /\ UNCHANGED <<op, arg, next_pid, parent>>  BY <1>7, <2>1 DEF Sleep
    <3>2. CurrentAwake'  BY <1>0, <3>1, ScheduleAwake
    <3>3. \A t \in Task : state'[t] # state[t] =>
             /\ state'[t] \in {"ready", "running"}
             /\ state[t] = "ready" \/ t = Idle \/ t = current
      BY <1>0, <3>1, ScheduleFrame
    <3>4. KeepsUnused(state)  BY <3>3 DEF KeepsUnused
    <3> QED BY <1>a, <3>1, <3>2, <3>3, <3>4 DEF CallerOK, ProgramsCall, LeavesCalls
  <2>2. CASE n # 0
    <3>1. Park("sleep", n, state) /\ UNCHANGED <<next_pid, parent>>  BY <1>7, <2>2 DEF Sleep
    <3> QED BY <1>0, <1>a, <2>0, <3>1, ParkAwake DEF LeavesCalls, OtherCalls
  <2> QED BY <2>1, <2>2
<1>8. CASE SleepDone
  BY <1>0, <1>8, <1>b
     DEF SleepDone, Return, CallerOK, CurrentAwake, ProgramsCall, LeavesCalls, OtherCalls
<1>9. CASE SetHandler  BY <1>9, <1>b DEF SetHandler, CallerOK, CurrentAwake, ProgramsCall, LeavesCalls
<1>10. ASSUME NEW v \in Task, Notify(v) PROVE Goal
  BY <1>0, <1>10, <1>b DEF Notify, CallerOK, CurrentAwake, ProgramsCall, LeavesCalls
<1>11. ASSUME NEW v \in Task, Terminate(v, state) PROVE Goal
  <2> DEFINE dead == [state EXCEPT ![v] = "dead"]
  <2>1. dead \in [Task -> States] /\ dead[current] = state[current]
        /\ \A t \in Task : dead[t] = state[t] \/ (dead[t] = "dead" /\ state[t] # "unused")
    BY <1>0, <1>11 DEF States, Terminate, Listed
  <2>2. state' = WakeParent(dead, v) /\ UNCHANGED <<current, op, arg, next_pid, parent>>  BY <1>11 DEF Terminate
  <2> HIDE DEF dead
  <2>3. \A t \in Task : state'[t] = dead[t] \/ (state'[t] = "ready" /\ dead[t] = "blocked")
    BY <2>1, <2>2, WakeParentFrame
  <2> QED BY <1>0, <1>b, <2>1, <2>2, <2>3 DEF CallerOK, CurrentAwake, ProgramsCall, LeavesCalls
<1>12. CASE Broadcast  BY <1>12, <1>a, BroadcastAwake DEF Broadcast
<1> QED BY <1>1, <1>2, <1>3, <1>4, <1>5, <1>6, <1>7, <1>8, <1>9, <1>10, <1>11, <1>12 DEF LifeNext

\* These facts hold when the first user task starts.
LEMMA InitCallerOK == LifeInit => CallerOK
BY InitLifeIInv DEF CallerOK, LifeIInv, CurrentAwake, CurrentRuns

\* next_pid only grows.
LEMMA PidsGrow ==
  ASSUME LifeSound, LifeNext
  PROVE  next_pid' \in {next_pid, next_pid + 1}
BY DEF LifeNext, Tick, Fork, ExitCall, TaskExit, Wait, WaitNoHang, WaitAgain, Sleep, SleepDone,
       SetHandler, Notify, Terminate, KillSelf, Broadcast

\* The owner of the CPU has a pid that was given out.
LEMMA CurrentBorn ==
  ASSUME CallerOK
  PROVE  current \in Task /\ current < next_pid
<1>1. current \in Task /\ next_pid \in 3 .. MaxTask + 1  BY DEF CallerOK, LifeSound, LifeTypeOK
<1>2. ~(current >= next_pid)  BY <1>1 DEF CallerOK, CurrentAwake, UnusedAhead
<1> QED BY <1>1, <1>2, BootTasks

\* A call that only makes tasks READY, which were born, whatever state
\* they are in.
LEMMA WakingKeepsCaller ==
  ASSUME CallerOK, state' \in [Task -> States],
         \A t \in Task : state'[t] = state[t] \/ (state'[t] = "ready" /\ t < next_pid),
         UNCHANGED <<current, next_pid, parent, op, arg, sleep_until, handler, pending>>
  PROVE  CallerOK'
<1>1. LifeSound'  BY DEF CallerOK, LifeSound, LifeTypeOK, OnlyCurrentRuns
<1>2. CurrentAwake' /\ ProgramsCall'  BY DEF CallerOK, CurrentAwake, ProgramsCall, LifeSound, LifeTypeOK
<1>3. UnusedAhead'  BY BootTasks DEF CallerOK, UnusedAhead, LifeSound, LifeTypeOK
<1> QED BY <1>1, <1>2, <1>3 DEF CallerOK

\* A call that returns to user mode.
LEMMA ReturnKeepsCaller ==
  ASSUME CallerOK, Return,
         UNCHANGED <<state, current, next_pid, parent, sleep_until, handler, pending>>
  PROVE  /\ CallerOK'
         /\ op'[current] = "user"
         /\ \A t \in Task : t # current => op'[t] = op[t] /\ arg'[t] = arg[t]
<1>1. /\ op \in [Task -> {"user", "wait", "sleep", "sem", "futex", "read", "write"}]
      /\ arg \in [Task -> Nat] /\ current \in Task
  BY DEF CallerOK, LifeSound, LifeTypeOK
<1>2. LifeSound'  BY <1>1 DEF Return, CallerOK, LifeSound, LifeTypeOK, OnlyCurrentRuns
<1>3. ProgramsCall'  BY <1>1 DEF Return, CallerOK, ProgramsCall
<1> QED BY <1>1, <1>2, <1>3 DEF Return, CallerOK, CurrentAwake, UnusedAhead

\* A call of another module that parks its caller, with states st.
LEMMA ParkKeepsCaller ==
  ASSUME CallerOK, current \in Programs, NEW st \in [Task -> States],
         \A t \in Task : st[t] = "running" => t = current,
         \A t \in Task : t >= next_pid => st[t] = "unused",
         NEW o \in OtherCalls, NEW a \in Nat, Park(o, a, st),
         UNCHANGED <<next_pid, parent, sleep_until, handler>>
  PROVE  CallerOK'
<1>1. LifeSound'  BY ParkSound DEF CallerOK, OtherCalls, LifeSound, LifeTypeOK
<1>2. CurrentAwake' /\ ProgramsCall' /\ KeepsUnused(st)  BY ParkAwake
<1>3. \A t \in Task : t >= next_pid => t \notin {current, Idle}
  <2>1. next_pid \in Nat /\ next_pid >= 3  BY DEF CallerOK, LifeSound, LifeTypeOK
  <2> QED BY <2>1, CurrentBorn, BootTasks DEF Idle
<1>4. UnusedAhead'  BY <1>2, <1>3 DEF KeepsUnused, CallerOK, UnusedAhead
<1> QED BY <1>1, <1>2, <1>4 DEF CallerOK

\* A step of the life cycle changes the call of nobody but its caller, and
\* a task that can run goes on being able to, unless it is killed.
LEMMA LifeMovesCaller ==
  ASSUME CallerOK, LifeNext
  PROVE  \A t \in Task \ {current} :
            /\ op'[t] = op[t] /\ arg'[t] = arg[t]
            /\ state[t] \in {"ready", "running"} => state'[t] \in {"ready", "running", "dead"}
<1>0. /\ state \in [Task -> States] /\ current \in Task
      /\ state[current] \in {"ready", "running"}
      /\ op \in [Task -> {"user", "wait", "sleep", "sem", "futex", "read", "write"}]
      /\ arg \in [Task -> Nat]
      /\ next_pid \in 3 .. MaxTask + 1
  BY DEF CallerOK, LifeSound, LifeTypeOK, CurrentAwake
<1> DEFINE Goal == \A t \in Task \ {current} :
              /\ op'[t] = op[t] /\ arg'[t] = arg[t]
              /\ state[t] \in {"ready", "running"} => state'[t] \in {"ready", "running", "dead"}
<1>1. CASE Tick  BY <1>1, TickAwake
<1>2. ASSUME NEW ok \in BOOLEAN, Fork(ok) PROVE Goal  BY <1>0, <1>2 DEF Fork
<1>3. CASE ExitCall \/ KillSelf
  <2>1. current \in Programs /\ TaskExit(state)  BY <1>3 DEF ExitCall, KillSelf, Calls
  <2>2. UNCHANGED <<op, arg>>  BY <2>1 DEF TaskExit
  <2> QED BY <1>0, <2>1, <2>2, TaskExitAwake
<1>4. ASSUME NEW pid, WaitRound(pid), current \in Programs PROVE Goal
  <2>1. CASE Zombies(current, pid) # {} /\ ReapFirst(Zombies(current, pid)) /\ Return
    <3> DEFINE z == Min(Zombies(current, pid))
    <3>1. z \in Task /\ state[z] = "dead"  BY <2>1, <1>0, ReapsZombie DEF CallerOK
    <3>2. state' = [state EXCEPT ![z] = "freed"]  BY <2>1 DEF ReapFirst
    <3> HIDE DEF z
    <3> QED BY <1>0, <2>1, <3>1, <3>2 DEF Return
  <2>2. CASE Return /\ UNCHANGED <<state, current, pending>>  BY <1>0, <2>2 DEF Return
  <2>3. CASE Park("wait", pid, state)  BY <1>0, <1>4, <2>3, ParkAwake
  <2> QED BY <1>4, <2>1, <2>2, <2>3 DEF WaitRound
<1>5. ASSUME NEW pid \in {AnyChild} \cup Task, WaitNoHang(pid) PROVE Goal
  <2> DEFINE z == Min(Zombies(current, pid))
  <2>1. z \in Task /\ state[z] = "dead"  BY <1>5, ReapsZombie DEF WaitNoHang
  <2>2. state' = [state EXCEPT ![z] = "freed"] /\ UNCHANGED <<op, arg>>  BY <1>5 DEF WaitNoHang, ReapFirst
  <2> HIDE DEF z
  <2> QED BY <1>0, <2>1, <2>2
<1>6. CASE WaitAgain
  <2>1. current \in Programs  BY <1>0, <1>6 DEF WaitAgain, CallerOK, ProgramsCall
  <2> QED BY <1>6, <1>4, <2>1 DEF WaitAgain
<1>7. ASSUME NEW n \in 0 .. MaxSleep, Sleep(n) PROVE Goal
  <2>0. current \in Programs  BY <1>7 DEF Sleep, Calls
  <2>1. CASE n = 0
    <3>1. Schedule(state) /\ UNCHANGED <<op, arg>>  BY <1>7, <2>1 DEF Sleep
    <3>2. \A t \in Task : state'[t] # state[t] => state'[t] \in {"ready", "running"}
      BY <1>0, <3>1, ScheduleFrame
    <3> QED BY <3>1, <3>2
  <2>2. CASE n # 0
    <3>1. Park("sleep", n, state)  BY <1>7, <2>2 DEF Sleep
    <3> QED BY <1>0, <2>0, <3>1, ParkAwake
  <2> QED BY <2>1, <2>2
<1>8. CASE SleepDone  BY <1>0, <1>8 DEF SleepDone, Return
<1>9. CASE SetHandler  BY <1>9 DEF SetHandler
<1>10. ASSUME NEW v \in Task, Notify(v) PROVE Goal  BY <1>0, <1>10 DEF Notify
<1>11. ASSUME NEW v \in Task, Terminate(v, state) PROVE Goal
  <2> DEFINE dead == [state EXCEPT ![v] = "dead"]
  <2>1. dead \in [Task -> States] /\ \A t \in Task : dead[t] = state[t] \/ dead[t] = "dead"  BY <1>0 DEF States
  <2>2. state' = WakeParent(dead, v) /\ UNCHANGED <<op, arg>>  BY <1>11 DEF Terminate
  <2> HIDE DEF dead
  <2>3. \A t \in Task : state'[t] = dead[t] \/ (state'[t] = "ready" /\ dead[t] = "blocked")
    BY <2>1, <2>2, WakeParentFrame
  <2> QED BY <2>1, <2>2, <2>3
<1>12. CASE Broadcast  BY <1>12, BroadcastAwake DEF Broadcast
<1>13. ASSUME NEW pid \in {AnyChild} \cup Task, Wait(pid) PROVE Goal  BY <1>13, <1>4 DEF Wait, Calls
<1> QED BY <1>1, <1>2, <1>3, <1>5, <1>6, <1>7, <1>8, <1>9, <1>10, <1>11, <1>12, <1>13 DEF LifeNext

==============================
