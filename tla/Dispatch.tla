------------------------------ MODULE Dispatch ------------------------------
(***************************************************************************)
(* Ownership of the CPU: what schedule() (kernel/process/task.c) promises  *)
(* to the system calls and interrupt handlers that call it.                *)
(*                                                                         *)
(* Only the boot processor schedules (task.c returns at once on any other  *)
(* CPU) and every system call and interrupt runs with interrupts off, so   *)
(* the code between two calls of schedule() is one atomic step.            *)
(*                                                                         *)
(* A task is its pid: next_pid only grows and a new task is appended at    *)
(* the tail of task_list, so the list is always in pid order and is        *)
(* recovered from the states: a task is on it from its creation until a    *)
(* parent reaps it.  Which READY task runs next is left open here; module  *)
(* Scheduler gives the policy and implements this specification.           *)
(***************************************************************************)
EXTENDS Naturals

CONSTANT MaxTask      \* bound on the number of tasks ever created

ASSUME MaxTaskAssumption == MaxTask \in Nat /\ MaxTask >= 2

VARIABLES
    state,            \* struct task: state, "unused" before and "freed" after
    current,          \* current_task, the same as current_per_cpu[0]
    next_pid          \* next_pid

cpuVars == <<state, current, next_pid>>

Task == 1 .. MaxTask
Main == 1             \* the boot thread, created by task_init
Idle == 2             \* idle_task

States == {"unused", "ready", "running", "blocked", "dead", "freed"}

\* The tasks on task_list when the states are st.
Listed(st) == {t \in Task : st[t] \notin {"unused", "freed"}}

Ready(st) == {t \in Task : st[t] = "ready"}

------------------------------

\* Wrong variant: the previous owner of the CPU stays RUNNING.
ResumeKeepingPrev(st, n) ==
    /\ current' = n
    /\ state' = [t \in Task |-> IF t = n THEN "running" ELSE st[t]]

\* The CPU goes to n; the previous owner, if it could still run, waits its turn.
Resume(st, n) ==
    /\ current' = n
    /\ state' = IF n = current THEN st
                ELSE [t \in Task |-> IF t = n THEN "running"
                                     ELSE IF t = current /\ st[t] = "running" THEN "ready"
                                     ELSE st[t]]

\* schedule() called when the task states are st: the caller goes on, or some
\* READY task takes over, or the idle task when nobody else is READY.
Schedule(st) ==
    \/ st[current] = "running" /\ Resume(st, current)
    \/ \E n \in Ready(st) : Resume(st, n)
    \/ Ready(st) = {} /\ Resume(st, Idle)

------------------------------

DispatchInit ==
    /\ state = [t \in Task |-> IF t = Main THEN "running"
                               ELSE IF t = Idle THEN "ready" ELSE "unused"]
    /\ current = Main
    /\ next_pid = 3

\* task_yield(), or a timer tick that wakes the sleepers in S first.
Yield(S) ==
    /\ Schedule([t \in Task |-> IF t \in S THEN "ready" ELSE state[t]])
    /\ UNCHANGED next_pid

\* Any primitive that parks its caller.
Block ==
    /\ current # Idle
    /\ Schedule([state EXCEPT ![current] = "blocked"])
    /\ UNCHANGED next_pid

\* task_exit()
Exit ==
    /\ current # Idle
    /\ Schedule([state EXCEPT ![current] = "dead"])
    /\ UNCHANGED next_pid

\* Any primitive that makes a parked task runnable again.
Wake(t) ==
    /\ state[t] = "blocked"
    /\ state' = [state EXCEPT ![t] = "ready"]
    /\ UNCHANGED <<current, next_pid>>

\* task_prepare(), task_create(): a new task at the tail of the list.
Spawn ==
    /\ next_pid <= MaxTask
    /\ state' = [state EXCEPT ![next_pid] = "ready"]
    /\ next_pid' = next_pid + 1
    /\ UNCHANGED current

\* signal_send() without a handler, to a task other than the caller.
Kill(t) ==
    /\ t # current
    /\ t \in Listed(state)
    /\ state' = [state EXCEPT ![t] = "dead"]
    /\ UNCHANGED <<current, next_pid>>

\* wait_task() takes a dead child off the list and frees it.
Reap(t) ==
    /\ t \notin {Main, Idle, current}
    /\ state[t] = "dead"
    /\ state' = [state EXCEPT ![t] = "freed"]
    /\ UNCHANGED <<current, next_pid>>

DispatchNext ==
    \/ \E S \in SUBSET {t \in Task : state[t] = "blocked"} : Yield(S)
    \/ Block
    \/ Exit
    \/ Spawn
    \/ \E t \in Task : Wake(t) \/ Kill(t) \/ Reap(t)

DispatchSpec == DispatchInit /\ [][DispatchNext]_cpuVars

==============================
