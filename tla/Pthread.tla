------------------------------ MODULE Pthread -------------------------------
(***************************************************************************)
(* Mutexes and condition variables of user/pthread.c on top of the futex   *)
(* system call (module Futex).  The threads of one program run the monitor *)
(* that user/userprog.c runs: consumers wait under the mutex until there   *)
(* is an item, producers add one and signal under the mutex.               *)
(*                                                                         *)
(* A step is one atomic instruction or one system call: the timer may      *)
(* preempt a thread between any two of them.                               *)
(***************************************************************************)
EXTENDS Futex

CONSTANTS
    Consumers,        \* the threads that wait for items; the others produce
    MaxItems          \* bound on the items produced, and so on seq

M == 1                \* &m->state: 0 open, 1 locked, 2 contended
C == 2                \* &c->seq

ASSUME PthreadAssumption ==
    /\ {M, C} \subseteq Addr /\ MaxWord >= 2
    /\ Consumers \subseteq Task /\ MaxItems \in Nat /\ MaxItems <= MaxWord

VARIABLES
    pc,               \* where in the library the thread is
    reg,              \* its local variable: c of mutex_lock, s of cond_wait
    items             \* what the mutex protects

libVars == <<pc, reg, items>>
threadVars == <<slotVars, libVars, disturbed>>

Holding == {"held", "signal", "signal_wake", "cond_unlock", "unlock"}

------------------------------

PthreadInit ==
    /\ FutexInit
    /\ pc = [t \in Task |-> "idle"]
    /\ reg = [t \in Task |-> 0]
    /\ items = 0

\* The running thread is in user mode at l.
At(l) == FutexCalls /\ pc[current] = l

Goto(l) == pc' = [pc EXCEPT ![current] = l]

\* __sync_val_compare_and_swap(&word[a], old, new); its result goes to reg.
CAS(a, old, new) ==
    /\ word' = [word EXCEPT ![a] = IF @ = old THEN new ELSE @]
    /\ reg' = [reg EXCEPT ![current] = word[a]]

\* The instruction leaves the kernel alone.
UserStep == UNCHANGED <<lifeVars, fut_slots>>

\* pthread_mutex_lock(): the fast path.
LockFast(from) ==
    /\ At(from)
    /\ CAS(M, 0, 1)
    /\ Goto(IF word[M] = 0 THEN "held" ELSE "contend")
    /\ UNCHANGED items
    /\ UserStep

\* c == 2 || CAS(1, 2) != 0: the mutex is marked contended before sleeping.
LockContend ==
    /\ At("contend")
    /\ IF reg[current] = 2
       THEN Goto("sleep") /\ UNCHANGED <<word, reg>>
       ELSE /\ word' = [word EXCEPT ![M] = IF @ = 1 THEN 2 ELSE @]
            /\ Goto(IF word[M] # 0 THEN "sleep" ELSE "retry")
            /\ UNCHANGED reg
    /\ UNCHANGED items
    /\ UserStep

\* The futex system call with FUTEX_WAIT on word a at label l: it parks the
\* thread, or fails at once because the value changed or no slot is free.
FutexWaitAt(l, a, v, then) ==
    /\ At(l)
    /\ \/ futex_wait(a, v)
       \/ (word[a] # v \/ FreeSlots = {}) /\ UNCHANGED slotVars
    /\ Goto(then)
    /\ UNCHANGED <<reg, items>>

LockSleep == FutexWaitAt("sleep", M, 2, "retry")

\* Wrong variant: the woken thread takes the mutex without looking at it.
LockRetryBlind ==
    /\ At("retry")
    /\ word' = [word EXCEPT ![M] = 2]
    /\ Goto("held")
    /\ UNCHANGED <<reg, items>>
    /\ UserStep

LockRetry ==
    /\ At("retry")
    /\ CAS(M, 0, 2)
    /\ Goto(IF word[M] = 0 THEN "held" ELSE "contend")
    /\ UNCHANGED items
    /\ UserStep

\* pthread_mutex_unlock(): open the mutex ...
UnlockOpen(from, then) ==
    /\ At(from)
    /\ word' = [word EXCEPT ![M] = 0]
    /\ Goto(then)
    /\ UNCHANGED <<reg, items>>
    /\ UserStep

\* Wrong variant: a waiter is woken only when the unlock saw contention, as if
\* the word still said 2 when the wake call looks at it.
UnlockWakeContended(from, then) ==
    /\ At(from)
    /\ IF word[M] = 2 THEN futex_wake(M, 1) ELSE UNCHANGED slotVars
    /\ Goto(then)
    /\ UNCHANGED <<reg, items>>

\* ... and always wake one waiter.
UnlockWake(from, then) ==
    /\ At(from)
    /\ futex_wake(M, 1)
    /\ Goto(then)
    /\ UNCHANGED <<reg, items>>

------------------------------

\* while (!items) pthread_cond_wait(): read the sequence number first.
CondWait ==
    /\ At("held")
    /\ current \in Consumers
    /\ items = 0
    /\ reg' = [reg EXCEPT ![current] = word[C]]
    /\ Goto("cond_unlock")
    /\ UNCHANGED <<word, items>>
    /\ UserStep

CondSleep == FutexWaitAt("cond_sleep", C, reg[current], "lock")

Consume ==
    /\ At("held")
    /\ current \in Consumers
    /\ items > 0
    /\ items' = items - 1
    /\ Goto("unlock")
    /\ UNCHANGED <<word, reg>>
    /\ UserStep

Produce ==
    /\ At("held")
    /\ current \notin Consumers
    /\ word[C] < MaxItems
    /\ items' = items + 1
    /\ Goto("signal")
    /\ UNCHANGED <<word, reg>>
    /\ UserStep

GiveUp ==
    /\ At("held")
    /\ current \notin Consumers
    /\ word[C] >= MaxItems
    /\ Goto("unlock")
    /\ UNCHANGED <<word, reg, items>>
    /\ UserStep

\* pthread_cond_signal(), pthread_cond_broadcast(): move the sequence number ...
SignalSeq ==
    /\ At("signal")
    /\ word' = [word EXCEPT ![C] = @ + 1]
    /\ Goto("signal_wake")
    /\ UNCHANGED <<reg, items>>
    /\ UserStep

\* ... then wake one waiter, or all of them.
SignalWake ==
    /\ At("signal_wake")
    /\ \E n \in {1, Slots} : futex_wake(C, n)
    /\ Goto("unlock")
    /\ UNCHANGED <<reg, items>>

\* The rest of the system: preemption, and what a thread does outside of the
\* library.
Elsewhere ==
    /\ Tick \/ (pc[current] = "idle" /\ LifeNext)
    /\ disturbed' = (disturbed \/ Disturbs)
    /\ UNCHANGED <<futexVars, libVars>>

Library ==
    \/ LockFast("idle") \/ LockFast("lock")
    \/ LockContend \/ LockSleep \/ LockRetry
    \/ UnlockOpen("unlock", "wake") \/ UnlockWake("wake", "idle")
    \/ CondWait
    \/ UnlockOpen("cond_unlock", "cond_wake") \/ UnlockWake("cond_wake", "cond_sleep")
    \/ CondSleep
    \/ Consume \/ Produce \/ GiveUp
    \/ SignalSeq \/ SignalWake
    \/ futex_resume /\ UNCHANGED libVars

PthreadNext == Elsewhere \/ (Library /\ UNCHANGED disturbed)

PthreadSpec == PthreadInit /\ [][PthreadNext]_threadVars

------------------------------

Alive(t) == state[t] \in {"ready", "running", "blocked"}

\* The mutex is held by at most one thread, and while it is held the word does
\* not say open, under preemption anywhere and wakeups of any origin.
MutualExclusion ==
    \A t \in Task : Alive(t) /\ pc[t] \in Holding =>
        /\ word[M] # 0
        /\ \A u \in Task \ {t} : ~(Alive(u) /\ pc[u] \in Holding)

Parked(t, a) == op[t] = "futex" /\ arg[t] = a /\ state[t] = "blocked"

\* A thread that holds the mutex, opens it, or is awake on its way to take it.
Busy(t) ==
    /\ Alive(t)
    /\ pc[t] \in Holding \cup {"wake", "cond_wake", "lock", "contend", "sleep", "retry"}
    /\ state[t] # "blocked"

\* Nobody sleeps on a mutex that nobody will open (pthread.c:150): while a
\* thread is parked on it another one is awake that holds it, is about to wake
\* a waiter, or competes for it, as long as nothing but the library has woken or
\* killed a thread.
SleeperHasWaker ==
    ~disturbed => \A t \in Task : Parked(t, M) => \E u \in Task : Busy(u)

\* No item is stranded: while there is an item and a consumer is parked on the
\* condition, some thread is awake that is about to signal, or that will look
\* at the items under the mutex, on the same condition.
NoStrandedItem ==
    ~disturbed =>
        \A t \in Task : Parked(t, C) /\ items > 0 => \E u \in Task : Busy(u)

\* No wakeup is lost, of the mutex or of the condition variable.
NoLostWakeup == SleeperHasWaker /\ NoStrandedItem

==============================
