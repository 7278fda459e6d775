----------------------------- MODULE Semaphore ------------------------------
(***************************************************************************)
(* Counting semaphores (kernel/process/semaphore.c) among tasks that fork, *)
(* exit, wait and send signals (module TaskLife).                          *)
(*                                                                         *)
(* Each of the four calls runs under the semaphore's lock with interrupts  *)
(* off, so it is atomic up to the schedule() inside sem_wait_id.  A task   *)
(* resumed there tries again from the top, whoever made it READY.          *)
(***************************************************************************)
EXTENDS TaskLife, SequencesExt

CONSTANTS
    NSem,             \* SEM_MAX, 16 in the code
    QueueMax,         \* length of wait_queue, 16 in the code
    MaxValue          \* bound on a semaphore's value

ASSUME SemAssumption ==
    /\ NSem \in Nat \ {0}
    /\ QueueMax \in Nat \ {0}
    /\ MaxValue \in Nat

VARIABLES
    valid,            \* sems[i].valid
    value,            \* sems[i].value
    queue,            \* sems[i].wait_queue[0 .. wait_count - 1]
    interrupted       \* history: something else woke or killed a waiter

semVars == <<valid, value, queue>>
allVars == <<lifeVars, semVars, interrupted>>

Sem == 1 .. NSem

\* The caller is a program in user mode.
SemCalls == op[current] = "user" /\ current \notin {Main, Idle}

------------------------------

SemInit ==
    /\ LifeInit
    /\ valid = [i \in Sem |-> FALSE]
    /\ value = [i \in Sem |-> 0]
    /\ queue = [i \in Sem |-> << >>]
    /\ interrupted = FALSE

\* sem_create(): the first unused entry, if there is one.
SemCreate(v) ==
    /\ SemCalls
    /\ \E i \in Sem : ~valid[i]
    /\ LET i == Min({j \in Sem : ~valid[j]})
       IN  /\ valid' = [valid EXCEPT ![i] = TRUE]
           /\ value' = [value EXCEPT ![i] = v]
           /\ queue' = [queue EXCEPT ![i] = << >>]
    /\ UNCHANGED lifeVars

\* One round of the loop of sem_wait_id(i): fail, take a unit, fail because the
\* queue is full, or queue up and park.
SemRound(i) ==
    /\ \/ /\ ~valid[i]
          /\ Return
          /\ UNCHANGED <<state, current, pending, semVars>>
       \/ /\ valid[i]
          /\ value[i] > 0
          /\ value' = [value EXCEPT ![i] = @ - 1]
          /\ Return
          /\ UNCHANGED <<state, current, pending, valid, queue>>
       \/ /\ valid[i]
          /\ value[i] = 0
          /\ Len(queue[i]) >= QueueMax
          /\ Return
          /\ UNCHANGED <<state, current, pending, semVars>>
       \/ /\ valid[i]
          /\ value[i] = 0
          /\ Len(queue[i]) < QueueMax
          /\ queue' = [queue EXCEPT ![i] = Append(@, current)]
          /\ Park("sem", i, state)
          /\ UNCHANGED <<valid, value>>
    /\ UNCHANGED <<next_pid, parent, sleep_until, handler>>

SemWait(i) == SemCalls /\ SemRound(i)

\* Woken, loop to try again.
SemAgain == op[current] = "sem" /\ SemRound(arg[current])

\* The states once the tasks in W were made READY.  A task that was reaped is
\* no longer a task: the write goes to freed memory.
MadeReady(W) ==
    [t \in Task |-> IF t \in W /\ state[t] # "freed" THEN "ready" ELSE state[t]]

\* Wrong variant: nobody is woken unless the value was zero.
SemPostFirstOnly(i) ==
    /\ SemCalls
    /\ valid[i]
    /\ value[i] < MaxValue
    /\ value' = [value EXCEPT ![i] = @ + 1]
    /\ IF queue[i] # << >> /\ value[i] = 0
       THEN /\ state' = MadeReady({Head(queue[i])})
            /\ queue' = [queue EXCEPT ![i] = Tail(@)]
       ELSE UNCHANGED <<state, queue>>
    /\ UNCHANGED <<valid, current, next_pid, parent, op, arg, sleep_until, handler, pending>>

\* sem_post_id(): one more unit, and the head of the queue may try again.
SemPost(i) ==
    /\ SemCalls
    /\ valid[i]
    /\ value[i] < MaxValue
    /\ value' = [value EXCEPT ![i] = @ + 1]
    /\ IF queue[i] # << >>
       THEN /\ state' = MadeReady({Head(queue[i])})
            /\ queue' = [queue EXCEPT ![i] = Tail(@)]
       ELSE UNCHANGED <<state, queue>>
    /\ UNCHANGED <<valid, current, next_pid, parent, op, arg, sleep_until, handler, pending>>

\* Wrong variant: the waiters are dropped but not woken.
SemDestroyQuietly(i) ==
    /\ SemCalls
    /\ valid[i]
    /\ valid' = [valid EXCEPT ![i] = FALSE]
    /\ queue' = [queue EXCEPT ![i] = << >>]
    /\ UNCHANGED <<value, lifeVars>>

\* sem_destroy_id(): every waiter is woken, and finds the semaphore invalid.
SemDestroy(i) ==
    /\ SemCalls
    /\ valid[i]
    /\ state' = MadeReady(ToSet(queue[i]))
    /\ valid' = [valid EXCEPT ![i] = FALSE]
    /\ queue' = [queue EXCEPT ![i] = << >>]
    /\ UNCHANGED <<value, current, next_pid, parent, op, arg, sleep_until, handler, pending>>

\* A step of another component wakes a task that is parked here, or kills one
\* that is on its way out.
Interrupts ==
    \E t \in Task : /\ op[t] = "sem"
                    /\ state'[t] # state[t]
                    /\ state[t] = "blocked" \/ state'[t] = "dead"

SemNext ==
    \/ /\ LifeNext
       /\ interrupted' = (interrupted \/ Interrupts)
       /\ UNCHANGED semVars
    \/ /\ \/ \E v \in 0 .. MaxValue : SemCreate(v)
          \/ \E i \in Sem : SemWait(i) \/ SemPost(i) \/ SemDestroy(i)
          \/ SemAgain
       /\ UNCHANGED interrupted

SemSpec == SemInit /\ [][SemNext]_allVars

------------------------------

SemTypeOK ==
    /\ LifeTypeOK
    /\ valid \in [Sem -> BOOLEAN]
    /\ value \in [Sem -> 0 .. MaxValue]
    /\ queue \in [Sem -> Seq(Task)]
    /\ \A i \in Sem : Len(queue[i]) <= QueueMax
    /\ interrupted \in BOOLEAN

\* A task parked in sem_wait_id can still be reached by sem_post_id and
\* sem_destroy_id, whatever destroyed and recreated the semaphore, interrupted
\* the wait or left a stale entry in some queue: its semaphore is valid and it
\* is in its queue.
SemWaiterQueued ==
    \A t \in Task :
        op[t] = "sem" /\ state[t] = "blocked"
            => arg[t] \in Sem /\ valid[arg[t]] /\ t \in ToSet(queue[arg[t]])

\* The queues hold no more than QueueMax entries and every parked waiter.
SemQueueSound == SemTypeOK /\ SemWaiterQueued

Waiters(i) == {t \in Task : op[t] = "sem" /\ arg[t] = i}

\* As long as nothing but sem_post_id and sem_destroy_id has reached a waiter, no
\* unit is stranded: while somebody is parked on a semaphore, every unit it holds
\* has a woken waiter on its way to take it.
NoStrandedUnit ==
    ~interrupted =>
        \A i \in Sem :
            (\E t \in Waiters(i) : state[t] = "blocked")
                => Cardinality({t \in Waiters(i) : state[t] \in {"ready", "running"}}) >= value[i]

==============================
