------------------------------- MODULE Futex --------------------------------
(***************************************************************************)
(* Futexes (kernel/process/futex.c): a table of waiters on words of user   *)
(* memory, among tasks that fork, exit, wait and send signals (TaskLife).  *)
(* All tasks here are threads of one address space: the asid stored in a   *)
(* slot is the same for all and is left out.  Module Pthread runs programs *)
(* on these calls.                                                         *)
(***************************************************************************)
EXTENDS TaskLife

CONSTANTS
    Slots,            \* FUTEX_MAX, 16 in the code
    Addr,             \* the words of user memory used as futexes
    MaxWord           \* bound on what a word holds

ASSUME FutexAssumption == Slots \in Nat \ {0} /\ Addr \subseteq Nat /\ MaxWord \in Nat

VARIABLES
    word,             \* user memory
    fut_slots,        \* fut_slots[i]: the waiter and its word, or free
    disturbed         \* history: something else woke or killed a waiter

futexVars == <<word, fut_slots>>
slotVars == <<lifeVars, futexVars>>

Slot == 1 .. Slots

Free == [used |-> FALSE, uaddr |-> 0, waiter |-> 0]

FreeSlots == {i \in Slot : ~fut_slots[i].used}

\* The caller is a program in user mode.
FutexCalls == op[current] = "user" /\ current \notin {Main, Idle}

------------------------------

FutexInit ==
    /\ LifeInit
    /\ word = [a \in Addr |-> 0]
    /\ fut_slots = [i \in Slot |-> Free]
    /\ disturbed = FALSE

\* futex_wait(): the value is compared and the caller parked without a gap.
\* It fails at once when the value differs or no slot is free.
futex_wait(a, v) ==
    /\ FutexCalls
    /\ word[a] = v
    /\ FreeSlots # {}
    /\ fut_slots' = [fut_slots EXCEPT ![Min(FreeSlots)] =
                        [used |-> TRUE, uaddr |-> a, waiter |-> current]]
    /\ Park("futex", a, state)
    /\ UNCHANGED <<word, next_pid, parent, sleep_until, handler>>

\* Resumed, futex_wait returns 0 whoever made the task READY; its slot stays
\* used unless futex_wake emptied it.
futex_resume ==
    /\ op[current] = "futex"
    /\ Return
    /\ UNCHANGED <<state, current, next_pid, parent, sleep_until, handler, pending, futexVars>>

\* The slots futex_wake(a, n) empties: the first n that match.
Matching(a) == {i \in Slot : fut_slots[i].used /\ fut_slots[i].uaddr = a}

WokenSlots(a, n) ==
    {i \in Matching(a) : Cardinality({j \in Matching(a) : j < i}) < n}

\* Wrong variant: the waiter is cleared but the slot stays used.
WakeEffectKeepsUsed(a, n) ==
    LET slots == WokenSlots(a, n)
    IN  /\ fut_slots' = [i \in Slot |-> IF i \in slots
                            THEN [fut_slots[i] EXCEPT !.waiter = 0] ELSE fut_slots[i]]
        /\ state' = [t \in Task |->
                        IF state[t] # "freed" /\ \E i \in slots : fut_slots[i].waiter = t
                        THEN "ready" ELSE state[t]]

\* Their waiters are made READY; a reaped one is freed memory by then.
WakeEffect(a, n) ==
    LET slots == WokenSlots(a, n)
    IN  /\ fut_slots' = [i \in Slot |-> IF i \in slots THEN Free ELSE fut_slots[i]]
        /\ state' = [t \in Task |->
                        IF state[t] # "freed" /\ \E i \in slots : fut_slots[i].waiter = t
                        THEN "ready" ELSE state[t]]

futex_wake(a, n) ==
    /\ FutexCalls
    /\ WakeEffect(a, n)
    /\ UNCHANGED <<word, current, next_pid, parent, op, arg, sleep_until, handler, pending>>

\* A step of another component wakes a thread that is parked here, or kills one.
Disturbs ==
    \E t \in Task : /\ state'[t] # state[t]
                    /\ \/ op[t] = "futex" /\ state[t] = "blocked"
                       \/ state'[t] = "dead"

------------------------------

FutexTypeOK ==
    /\ LifeTypeOK
    /\ word \in [Addr -> 0 .. MaxWord]
    /\ fut_slots \in [Slot -> {Free} \cup [used : {TRUE}, uaddr : Addr, waiter : Task]]

\* A task parked in futex_wait can still be found by futex_wake: a used slot
\* names it and the word it waits on, after signals that woke it out of earlier
\* waits and left their slots behind.
FutexWaiterHasSlot ==
    \A t \in Task :
        op[t] = "futex" /\ state[t] = "blocked"
            => \E i \in Slot : /\ fut_slots[i].used
                               /\ fut_slots[i].waiter = t
                               /\ fut_slots[i].uaddr = arg[t]

\* No slot leaks: as long as nothing but futex_wake has reached a waiter, every
\* slot is free again when no thread is inside futex_wait.
SlotsReturned ==
    ~disturbed /\ (\A t \in Task : op[t] # "futex") => FreeSlots = Slot

\* The slots are well formed, every parked waiter has one, and none leaks.
SlotsSound == FutexTypeOK /\ FutexWaiterHasSlot /\ SlotsReturned

==============================
