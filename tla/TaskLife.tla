------------------------------ MODULE TaskLife ------------------------------
(***************************************************************************)
(* The life of a process: fork, exit, wait, kill and nanosleep             *)
(* (kernel/process/fork.c, clone.c, task.c, wait.c, signal.c, the sleepers *)
(* of kernel/drivers/timer.c and their system calls).                      *)
(*                                                                         *)
(* A task that parks itself inside a system call resumes there: op[t] is   *)
(* the call it is inside of ("user" when it is in none) and arg[t] the     *)
(* call's argument.  A task inside a call runs with interrupts off, so it  *)
(* is not preempted before it parks again or returns.                      *)
(***************************************************************************)
EXTENDS Dispatch, FiniteSetsExt

CONSTANTS
    Victims,          \* tasks that somebody may send a signal to
    MaxSleep,         \* longest nanosleep, in ticks (10000 in the code)
    LifeOps           \* calls the programs of this run make

ASSUME LifeAssumption ==
    /\ MaxSleep \in Nat \ {0}
    /\ Victims \subseteq Task
    /\ LifeOps \subseteq {"fork", "exit", "wait", "sleep", "kill", "handler"}

VARIABLES
    parent,           \* parent_pid, 0 when there is none
    op, arg,          \* the blocking call the task is inside of
    sleep_until,      \* 0: not set; 1: reached; n + 1: n more ticks
    handler,          \* sig_handlers[sig] is set
    pending           \* sig_pending has the bit of sig

lifeVars == <<state, current, next_pid, parent, op, arg, sleep_until, handler, pending>>

AnyChild == 0              \* waitpid(-1)
Init1st == 3          \* the first user task, started by user_launch()

Programs == Task \ {Main, Idle}

------------------------------

\* Wrong variant: a parent is woken even while it sleeps.
WakeParentAsleep(st, child) ==
    [t \in Task |-> IF t = parent[child] /\ st[t] = "blocked" THEN "ready" ELSE st[t]]

\* wait_wakeup_parent(): the states once child's parent has been woken.
WakeParent(st, child) ==
    [t \in Task |-> IF t = parent[child] /\ st[t] = "blocked" /\ sleep_until[t] = 0
                    THEN "ready" ELSE st[t]]

\* schedule() also consumes the pending signal of the task it switches to, and
\* points user_eip, which only a task that never ran yet will use, at its handler.
Consumed(pd) ==
    [t \in Task |-> pd[t] /\ ~(t = current' /\ t # current /\ handler[t])]

Deliver == pending' = Consumed(pending)

\* The running program is in user mode and makes the call named what.
Calls(what) ==
    /\ what \in LifeOps
    /\ op[current] = "user"
    /\ current \in Programs

\* The call that current is inside of returns to user mode.
Return == op' = [op EXCEPT ![current] = "user"] /\ arg' = [arg EXCEPT ![current] = 0]

\* current parks itself inside call o with argument a.
Park(o, a, st) ==
    /\ op' = [op EXCEPT ![current] = o]
    /\ arg' = [arg EXCEPT ![current] = a]
    /\ Schedule([st EXCEPT ![current] = "blocked"])
    /\ Deliver

------------------------------

LifeInit ==
    /\ MaxTask >= Init1st
    /\ state = [t \in Task |-> IF t = Main THEN "running"
                               ELSE IF t \in {Idle, Init1st} THEN "ready" ELSE "unused"]
    /\ current = Main
    /\ next_pid = Init1st + 1
    /\ parent = [t \in Task |-> 0]
    /\ op = [t \in Task |-> "user"]
    /\ arg = [t \in Task |-> 0]
    /\ sleep_until = [t \in Task |-> 0]
    /\ handler = [t \in Task |-> FALSE]
    /\ pending = [t \in Task |-> FALSE]

\* fork_task(), task_clone_thread(): the child is READY and inherits no handler.
\* When the address space cannot be created the child stays on the list, dead
\* and without a parent.
Fork(ok) ==
    /\ Calls("fork")
    /\ next_pid <= MaxTask
    /\ state' = [state EXCEPT ![next_pid] = IF ok THEN "ready" ELSE "dead"]
    /\ parent' = [parent EXCEPT ![next_pid] = IF ok THEN current ELSE 0]
    /\ next_pid' = next_pid + 1
    /\ UNCHANGED <<current, op, arg, sleep_until, handler, pending>>

\* Wrong variant: the exiting task does not wake its parent.
TaskExitQuietly(st) ==
    /\ Schedule([st EXCEPT ![current] = "dead"])
    /\ Deliver
    /\ UNCHANGED <<next_pid, parent, op, arg, sleep_until, handler>>

\* task_exit(): wake the parent, die, give up the CPU.  The states are st once
\* the task's descriptors are closed (module Pipe; here closing wakes nobody).
TaskExit(st) ==
    /\ Schedule(WakeParent([st EXCEPT ![current] = "dead"], current))
    /\ Deliver
    /\ UNCHANGED <<next_pid, parent, op, arg, sleep_until, handler>>

ExitCall == Calls("exit") /\ TaskExit(state)

------------------------------

Children(p) == {c \in Listed(state) : parent[c] = p}

Zombies(p, pid) == {c \in Children(p) : state[c] = "dead" /\ pid \in {AnyChild, c}}

\* The first match on the list is unlinked and freed.
ReapFirst(S) == state' = [state EXCEPT ![Min(S)] = "freed"]

\* One round of the loop of wait_task(pid).
WaitRound(pid) ==
    \/ /\ Zombies(current, pid) # {}
       /\ ReapFirst(Zombies(current, pid))
       /\ Return
       /\ UNCHANGED <<current, pending>>
    \/ /\ Children(current) = {}
       /\ Return
       /\ UNCHANGED <<state, current, pending>>
    \/ /\ Zombies(current, pid) = {}
       /\ Children(current) # {}
       /\ Park("wait", pid, state)

Wait(pid) ==
    /\ Calls("wait")
    /\ WaitRound(pid)
    /\ UNCHANGED <<next_pid, parent, sleep_until, handler>>

WaitAgain ==
    /\ op[current] = "wait"
    /\ WaitRound(arg[current])
    /\ UNCHANGED <<next_pid, parent, sleep_until, handler>>

\* wait_task_wnohang(): reaps or returns at once.
WaitNoHang(pid) ==
    /\ Calls("wait")
    /\ Zombies(current, pid) # {}
    /\ ReapFirst(Zombies(current, pid))
    /\ UNCHANGED <<current, next_pid, parent, op, arg, sleep_until, handler, pending>>

------------------------------

\* Wrong variant: the sleeper parks without a deadline.
SleepUnarmed(n) ==
    /\ Calls("sleep")
    /\ IF n = 0
       THEN Schedule(state) /\ Deliver /\ UNCHANGED <<op, arg>>
       ELSE Park("sleep", n, state)
    /\ UNCHANGED <<next_pid, parent, sleep_until, handler>>

\* sys_nanosleep(n); nanosleep(0) is a yield.
Sleep(n) ==
    /\ Calls("sleep")
    /\ IF n = 0
       THEN Schedule(state) /\ Deliver /\ UNCHANGED <<op, arg, sleep_until>>
       ELSE /\ sleep_until' = [sleep_until EXCEPT ![current] = n + 1]
            /\ Park("sleep", n, state)
    /\ UNCHANGED <<next_pid, parent, handler>>

\* sleep_until() does not look at why it was resumed.
SleepDone ==
    /\ op[current] = "sleep"
    /\ Return
    /\ UNCHANGED <<state, current, next_pid, parent, sleep_until, handler, pending>>

\* timer_handler(): one tick nearer to every deadline, parked tasks whose
\* deadline is reached are woken, and the timer calls schedule().
Counted == [t \in Task |-> IF sleep_until[t] > 1 THEN sleep_until[t] - 1
                                                 ELSE sleep_until[t]]

Due == {t \in Task : state[t] = "blocked" /\ Counted[t] = 1}

Tick ==
    /\ op[current] = "user"
    /\ sleep_until' = [t \in Task |-> IF t \in Due THEN 0 ELSE Counted[t]]
    /\ Schedule([t \in Task |-> IF t \in Due THEN "ready" ELSE state[t]])
    /\ Deliver
    /\ UNCHANGED <<next_pid, parent, op, arg, handler>>

------------------------------

\* sys_signal()
SetHandler ==
    /\ Calls("handler")
    /\ handler' = [handler EXCEPT ![current] = ~@]
    /\ UNCHANGED <<state, current, next_pid, parent, op, arg, sleep_until, pending>>

\* Wrong variant: the state of the receiver is not looked at.
NotifyAnyState(v) ==
    /\ Calls("kill")
    /\ v \in Victims \cap Listed(state)
    /\ handler[v]
    /\ pending' = [pending EXCEPT ![v] = TRUE]
    /\ state' = [state EXCEPT ![v] = "ready"]
    /\ UNCHANGED <<current, next_pid, parent, op, arg, sleep_until, handler>>

\* signal_send(v, sig) to a task with a handler: it is woken whatever it is
\* parked in.
Notify(v) ==
    /\ Calls("kill")
    /\ v \in Victims \cap Listed(state)
    /\ handler[v]
    /\ pending' = [pending EXCEPT ![v] = TRUE]
    /\ state' = [state EXCEPT ![v] = IF @ = "blocked" THEN "ready" ELSE @]
    /\ UNCHANGED <<current, next_pid, parent, op, arg, sleep_until, handler>>

\* signal_send(v, sig) to another task without a handler: it dies where it is,
\* and nothing takes it off the queues it waits in.  The states are st once its
\* descriptors are closed.
Terminate(v, st) ==
    /\ Calls("kill")
    /\ v \in Victims \cap Listed(state)
    /\ ~handler[v]
    /\ v # current
    /\ state[v] # "dead"
    /\ state' = WakeParent([st EXCEPT ![v] = "dead"], v)
    /\ pending' = [pending EXCEPT ![v] = FALSE]
    /\ UNCHANGED <<current, next_pid, parent, op, arg, sleep_until, handler>>

\* signal_send() to the caller itself, without a handler.
KillSelf ==
    /\ Calls("kill")
    /\ current \in Victims
    /\ ~handler[current]
    /\ TaskExit(state)

\* signal_send(-1, sig): every task in list order; a caller without a handler
\* dies when its turn comes and the tasks behind it are not reached.
Reached == {t \in Listed(state) : handler[current] \/ t < current}
Killed  == {t \in Reached : ~handler[t] /\ state[t] # "dead"}
Woken   == {t \in Task : /\ state[t] = "blocked"
                         /\ \/ t \in Reached /\ handler[t]
                            \/ sleep_until[t] = 0 /\ \E c \in Killed : parent[c] = t}

Broadcast ==
    /\ Calls("kill")
    /\ Victims = Task
    /\ LET st == [t \in Task |-> IF t \in Killed THEN "dead"
                                 ELSE IF t \in Woken THEN "ready" ELSE state[t]]
           pd == [t \in Task |-> IF t \in Reached THEN handler[t] \/ (pending[t] /\ state[t] = "dead")
                                 ELSE pending[t]]
       IN \/ /\ handler[current]
             /\ state' = st
             /\ pending' = pd
             /\ UNCHANGED current
          \/ /\ ~handler[current]
             /\ Schedule(WakeParent([st EXCEPT ![current] = "dead"], current))
             /\ pending' = Consumed(pd)
    /\ UNCHANGED <<next_pid, parent, op, arg, sleep_until, handler>>

LifeNext ==
    \/ Tick
    \/ \E ok \in BOOLEAN : Fork(ok)
    \/ ExitCall
    \/ \E pid \in {AnyChild} \cup Task : Wait(pid) \/ WaitNoHang(pid)
    \/ WaitAgain
    \/ \E n \in 0 .. MaxSleep : Sleep(n)
    \/ SleepDone
    \/ SetHandler
    \/ \E v \in Task : Notify(v) \/ Terminate(v, state)
    \/ KillSelf
    \/ Broadcast

LifeSpec == LifeInit /\ [][LifeNext]_lifeVars

\* The timer interrupt stays pending while interrupts are off and is taken when
\* they come on again; a task inside a call goes on; schedule() starves nobody.
LifeFairness ==
    /\ SF_lifeVars(Tick)
    /\ WF_lifeVars(WaitAgain \/ SleepDone)
    /\ \A t \in Programs : SF_lifeVars(LifeNext /\ current # t /\ current' = t)

LifeFairSpec == LifeSpec /\ LifeFairness

------------------------------

LifeTypeOK ==
    /\ state \in [Task -> States]
    /\ current \in Task
    /\ next_pid \in 3 .. MaxTask + 1
    /\ parent \in [Task -> {0} \cup Task]
    /\ op \in [Task -> {"user", "wait", "sleep", "sem", "futex", "read", "write"}]
    /\ arg \in [Task -> Nat]
    /\ sleep_until \in [Task -> 0 .. MaxSleep + 1]
    /\ handler \in [Task -> BOOLEAN]
    /\ pending \in [Task -> BOOLEAN]

\* Only the owner of the CPU is marked RUNNING, through exits, kills and wakeups.
OnlyCurrentRuns == \A t \in Task : state[t] = "running" => t = current

\* The table of tasks is well formed and has one task that runs.
LifeSound == LifeTypeOK /\ OnlyCurrentRuns

\* wait_task() never sleeps through the death it waits for: a parent parked in
\* wait with no stale deadline has no zombie that its call would take.
ZombieNoticed ==
    \A p \in Task :
        op[p] = "wait" /\ state[p] = "blocked" /\ sleep_until[p] = 0
            => Zombies(p, arg[p]) = {}

\* "child olduğunde parent'i uyandir" (wait.c:95): the same without the
\* exception for a deadline that an interrupted nanosleep left behind.
WaiterNoticesExit ==
    \A p \in Task :
        op[p] = "wait" /\ state[p] = "blocked" => Zombies(p, arg[p]) = {}

\* wait_task() blocks only while an alive child exists ("Alive child var mi?",
\* wait.c:41).
WaitsForTheLiving ==
    \A p \in Task :
        op[p] = "wait" /\ state[p] = "blocked"
            => \E c \in Children(p) : state[c] # "dead"

\* A nanosleep runs its full time: whatever children of the sleeper exit or are
\* killed meanwhile (wait_wakeup_parent() passes over a task with a deadline,
\* wait.c:99-101), the sleeper is awake only once its deadline was reached,
\* unless it has a handler, for which any signal ends the sleep.
SleepsRunTheirTime ==
    \A t \in Task :
        op[t] = "sleep" /\ state[t] \in {"ready", "running"} /\ ~handler[t]
            => sleep_until[t] = 0

\* A task that died is never scheduled again (signal.c:30): it leaves "dead"
\* only by being reaped.  The idle task is the exception schedule() makes.
DeadStaysDead ==
    [][\A t \in Task \ {Idle} : state[t] = "dead" => state'[t] \in {"dead", "freed"}]_lifeVars

\* Whoever waits for a task that dies gets it: the zombie is reaped unless the
\* waiter is killed first, whatever signals and stale deadlines come between.
WaitReturns ==
    \A c \in Programs :
        (\E p \in Programs : op[p] = "wait" /\ arg[p] = c /\ parent[c] = p /\ state[c] = "dead")
            ~> (state[c] = "freed" \/ \E p \in Programs : parent[c] = p /\ state[p] \in {"dead", "freed"})

\* Every nanosleep ends.
SleepEnds ==
    \A t \in Programs : op[t] = "sleep" ~> (op[t] = "user" \/ state[t] \in {"dead", "freed"})

\* Every call that must return does: wait for a dead child, and nanosleep.
CallsEnd == WaitReturns /\ SleepEnds

==============================
