--------------------------- MODULE BlockingProofs ---------------------------
(***************************************************************************)
(* What tasks that wait for one another are guaranteed: by semaphores      *)
(* (module Semaphore), for any number of semaphores and tasks, any length  *)
(* of the queue and any bound on a value; by pipes (module Pipe), for any  *)
(* number of tasks and descriptors, any size of the ring and any number of *)
(* bytes; by the futex table (module Futex) and the mutexes and condition  *)
(* variables built on it (module Pthread), for any number of threads,      *)
(* consumers, slots and items.                                             *)
(***************************************************************************)
EXTENDS Semaphore, Pipe, Pthread, TaskLifeProofs, SequenceTheorems

------------------------------
(* Semaphores.                                                             *)

\* wait_queue[wait_count++] = current: the queue gains the caller.
LEMMA AppendQueue ==
  ASSUME NEW q \in Seq(Task), NEW t \in Task
  PROVE  /\ Append(q, t) \in Seq(Task)
         /\ Len(Append(q, t)) = Len(q) + 1
         /\ ToSet(Append(q, t)) = ToSet(q) \cup {t}
<1>1. /\ Append(q, t) \in Seq(Task) /\ Len(Append(q, t)) = Len(q) + 1
      /\ DOMAIN q = 1 .. Len(q) /\ DOMAIN Append(q, t) = 1 .. Len(q) + 1
      /\ Len(q) \in Nat
  OBVIOUS
<1>2. \A k \in 1 .. Len(q) : Append(q, t)[k] = q[k]  OBVIOUS
<1>3. Append(q, t)[Len(q) + 1] = t  OBVIOUS
<1> QED BY <1>1, <1>2, <1>3 DEF ToSet

\* The head leaves the queue and the others stay.
LEMMA TailQueue ==
  ASSUME NEW q \in Seq(Task), q # << >>
  PROVE  /\ Head(q) \in Task
         /\ Tail(q) \in Seq(Task)
         /\ Len(Tail(q)) = Len(q) - 1
         /\ ToSet(q) = {Head(q)} \cup ToSet(Tail(q))
<1>1. /\ Head(q) \in Task /\ Head(q) = q[1] /\ Tail(q) \in Seq(Task)
      /\ Len(q) \in Nat /\ Len(q) > 0
      /\ Len(Tail(q)) = Len(q) - 1
      /\ DOMAIN q = 1 .. Len(q) /\ DOMAIN Tail(q) = 1 .. Len(q) - 1
  OBVIOUS
<1>2. \A k \in 1 .. Len(q) - 1 : Tail(q)[k] = q[k + 1]  OBVIOUS
<1>3. \A k \in 1 .. Len(q) : k # 1 => k - 1 \in 1 .. Len(q) - 1 /\ q[k] = Tail(q)[k - 1]  BY <1>1, <1>2
<1>4. \A k \in 1 .. Len(q) - 1 : k + 1 \in 1 .. Len(q)  BY <1>1
<1>5. ASSUME NEW x \in ToSet(q) PROVE x \in {Head(q)} \cup ToSet(Tail(q))
  <2>1. PICK k \in 1 .. Len(q) : x = q[k]  BY <1>1, <1>5 DEF ToSet
  <2>2. CASE k = 1  BY <1>1, <2>1, <2>2
  <2>3. CASE k # 1  BY <1>1, <1>3, <2>1, <2>3 DEF ToSet
  <2> QED BY <2>2, <2>3
<1>6. ASSUME NEW x \in ToSet(Tail(q)) PROVE x \in ToSet(q)
  <2>1. PICK k \in 1 .. Len(q) - 1 : x = Tail(q)[k]  BY <1>1, <1>6 DEF ToSet
  <2> QED BY <1>1, <1>2, <1>4, <2>1 DEF ToSet
<1>7. Head(q) \in ToSet(q)  BY <1>1 DEF ToSet
<1> QED BY <1>1, <1>5, <1>6, <1>7

------------------------------

\* The inductive invariant behind the queues: a task inside sem_wait_id is
\* there for a semaphore of the table, and only tasks that were created
\* are in a queue, stale entries included.
SemArg == \A t \in Task : op[t] = "sem" => arg[t] \in Sem

QueuedBorn == \A i \in Sem : \A t \in ToSet(queue[i]) : t < next_pid

SemIInv == CallerOK /\ SemTypeOK /\ SemArg /\ QueuedBorn /\ SemWaiterQueued

\* The rest of the system leaves the queues alone.
LEMMA LifeKeepsSem ==
  ASSUME SemIInv, LifeNext, UNCHANGED semVars, interrupted' \in BOOLEAN
  PROVE  SemIInv'
<1>1. CallerOK' /\ LeavesCalls  BY LifeLeavesCalls DEF SemIInv
<1>2. next_pid \in Nat /\ next_pid' \in {next_pid, next_pid + 1}
  BY PidsGrow DEF SemIInv, CallerOK, LifeSound, LifeTypeOK
<1>3. SemTypeOK'  BY <1>1 DEF SemIInv, SemTypeOK, semVars, CallerOK, LifeSound
<1>4. SemArg'  BY <1>1 DEF SemIInv, SemArg, LeavesCalls, OtherCalls
<1>5. QueuedBorn'
  <2> SUFFICES ASSUME NEW i \in Sem, NEW t \in ToSet(queue[i]) PROVE t < next_pid'  BY DEF QueuedBorn, semVars
  <2>1. t < next_pid  BY DEF SemIInv, QueuedBorn
  <2>2. queue[i] \in Seq(Task)  BY DEF SemIInv, SemTypeOK
  <2>3. t \in Task  BY <2>2 DEF ToSet
  <2> QED BY <1>2, <2>1, <2>3, BootTasks
<1>6. SemWaiterQueued'
  <2> SUFFICES ASSUME NEW t \in Task, op'[t] = "sem", state'[t] = "blocked"
               PROVE  arg'[t] \in Sem /\ valid'[arg'[t]] /\ t \in ToSet(queue'[arg'[t]])
    BY DEF SemWaiterQueued
  <2>1. op[t] = "sem" /\ arg'[t] = arg[t] /\ state[t] = "blocked"  BY <1>1 DEF LeavesCalls, OtherCalls
  <2> QED BY <2>1 DEF SemIInv, SemWaiterQueued, semVars
<1> QED BY <1>1, <1>3, <1>4, <1>5, <1>6 DEF SemIInv

\* A round of sem_wait_id() by a program.
LEMMA SemRoundKeeps ==
  ASSUME SemIInv, current \in Programs, op[current] \in {"user", "sem"},
         NEW i \in Sem, SemRound(i), UNCHANGED interrupted
  PROVE  SemIInv'
<1>0. /\ valid \in [Sem -> BOOLEAN] /\ value \in [Sem -> 0 .. MaxValue]
      /\ queue \in [Sem -> Seq(Task)] /\ \A j \in Sem : Len(queue[j]) <= QueueMax
      /\ interrupted \in BOOLEAN /\ CallerOK /\ current \in Task /\ current < next_pid
      /\ QueueMax \in Nat /\ MaxValue \in Nat
      /\ state \in [Task -> States] /\ \A t \in Task : state[t] = "running" => t = current
      /\ op \in [Task -> {"user", "wait", "sleep", "sem", "futex", "read", "write"}]
      /\ arg \in [Task -> Nat]
  BY SemAssumption, CurrentBorn
     DEF SemIInv, SemTypeOK, CallerOK, LifeSound, OnlyCurrentRuns, LifeTypeOK
<1>1. ASSUME Return, UNCHANGED <<state, current, pending, valid, queue,
                                 next_pid, parent, sleep_until, handler>>,
             value' \in [Sem -> 0 .. MaxValue]
      PROVE  SemIInv'
  <2>1. /\ CallerOK' /\ op'[current] = "user"
        /\ \A t \in Task : t # current => op'[t] = op[t] /\ arg'[t] = arg[t]
    BY <1>0, <1>1, ReturnKeepsCaller
  <2>2. SemTypeOK'  BY <1>0, <1>1, <2>1 DEF SemTypeOK, CallerOK, LifeSound
  <2>3. SemArg' /\ QueuedBorn' /\ SemWaiterQueued'
    BY <1>1, <2>1 DEF SemIInv, SemArg, QueuedBorn, SemWaiterQueued
  <2> QED BY <2>1, <2>2, <2>3 DEF SemIInv
<1>2. CASE valid[i] /\ value[i] > 0 /\ value' = [value EXCEPT ![i] = @ - 1] /\ Return
           /\ UNCHANGED <<state, current, pending, valid, queue>>
  <2>1. value' \in [Sem -> 0 .. MaxValue]  BY <1>0, <1>2
  <2> QED BY <1>1, <1>2, <2>1 DEF SemRound
<1>3. CASE Return /\ UNCHANGED <<state, current, pending, semVars>>  BY <1>0, <1>1, <1>3 DEF SemRound, semVars
<1>4. CASE /\ valid[i] /\ value[i] = 0 /\ Len(queue[i]) < QueueMax
           /\ queue' = [queue EXCEPT ![i] = Append(@, current)]
           /\ Park("sem", i, state)
           /\ UNCHANGED <<valid, value>>
  <2>1. /\ CurrentAwake' /\ ProgramsCall'
        /\ op' = [op EXCEPT ![current] = "sem"] /\ arg' = [arg EXCEPT ![current] = i]
        /\ state'[current] = "blocked"
        /\ \A t \in Task : t # current =>
              state'[t] = state[t] \/ state'[t] \in {"ready", "running"}
    BY <1>0, <1>4, ParkAwake
  <2>2. CallerOK'
    <3>1. \A t \in Task : t >= next_pid => state[t] = "unused"  BY <1>0 DEF CallerOK, UnusedAhead
    <3>2. i \in Nat /\ "sem" \in OtherCalls  BY SemAssumption DEF Sem, OtherCalls
    <3> QED BY <1>0, <1>4, <3>1, <3>2, ParkKeepsCaller DEF SemRound
  <2>3. /\ Append(queue[i], current) \in Seq(Task)
        /\ Len(Append(queue[i], current)) = Len(queue[i]) + 1
        /\ ToSet(Append(queue[i], current)) = ToSet(queue[i]) \cup {current}
    BY <1>0, AppendQueue
  <2>4. /\ queue'[i] = Append(queue[i], current)
        /\ \A j \in Sem : j # i => queue'[j] = queue[j]
    BY <1>0, <1>4
  <2>5. SemTypeOK'
    <3>1. queue' \in [Sem -> Seq(Task)]  BY <1>0, <1>4, <2>3
    <3>2. \A j \in Sem : Len(queue'[j]) <= QueueMax
      <4>1. Len(queue[i]) \in Nat  BY <1>0
      <4> QED BY <1>0, <1>4, <2>3, <2>4, <4>1
    <3> QED BY <1>0, <1>4, <2>2, <3>1, <3>2 DEF SemTypeOK, CallerOK, LifeSound
  <2>6. SemArg'  BY <1>0, <2>1 DEF SemIInv, SemArg
  <2>7. QueuedBorn'  BY <1>0, <2>3, <2>4 DEF SemIInv, QueuedBorn, SemRound
  <2>8. SemWaiterQueued'
    <3> SUFFICES ASSUME NEW t \in Task, op'[t] = "sem", state'[t] = "blocked"
                 PROVE  arg'[t] \in Sem /\ valid'[arg'[t]] /\ t \in ToSet(queue'[arg'[t]])
      BY DEF SemWaiterQueued
    <3>1. CASE t = current  BY <1>0, <1>4, <2>1, <2>3, <2>4, <3>1
    <3>2. CASE t # current
      <4>1. op[t] = "sem" /\ state[t] = "blocked" /\ arg'[t] = arg[t]  BY <1>0, <2>1, <3>2
      <4>2. arg[t] \in Sem /\ valid[arg[t]] /\ t \in ToSet(queue[arg[t]])  BY <4>1 DEF SemIInv, SemWaiterQueued
      <4> QED BY <1>4, <2>3, <2>4, <4>1, <4>2
    <3> QED BY <3>1, <3>2
  <2> QED BY <2>2, <2>5, <2>6, <2>7, <2>8 DEF SemIInv
<1> QED BY <1>2, <1>3, <1>4 DEF SemRound

\* The wakeups of sem_post_id() and sem_destroy_id(): what a queue names
\* becomes READY, a stale entry too.
LEMMA MadeReadyKeepsCaller ==
  ASSUME SemIInv, NEW i \in Sem, NEW W, W \subseteq ToSet(queue[i]),
         state' = MadeReady(W),
         UNCHANGED <<current, next_pid, parent, op, arg, sleep_until, handler, pending>>
  PROVE  /\ CallerOK'
         /\ \A t \in Task : state'[t] = "blocked" => state[t] = "blocked" /\ t \notin W
<1>1. state \in [Task -> States]  BY DEF SemIInv, CallerOK, LifeSound, LifeTypeOK
<1>2. state' \in [Task -> States]  BY <1>1 DEF MadeReady, States
<1>3. \A t \in Task : \/ state'[t] = state[t] /\ (t \notin W \/ state[t] = "freed")
                      \/ state'[t] = "ready" /\ t < next_pid
  BY DEF MadeReady, SemIInv, QueuedBorn
<1> QED BY <1>2, <1>3, WakingKeepsCaller DEF SemIInv

\* sem_post_id() makes the head of the queue READY and drops it from the
\* queue; whoever is still parked is still queued.
LEMMA SemPostKeeps ==
  ASSUME SemIInv, NEW i \in Sem, SemPost(i), UNCHANGED interrupted
  PROVE  SemIInv'
<1>0. /\ valid \in [Sem -> BOOLEAN] /\ value \in [Sem -> 0 .. MaxValue]
      /\ queue \in [Sem -> Seq(Task)] /\ \A j \in Sem : Len(queue[j]) <= QueueMax
      /\ QueueMax \in Nat /\ MaxValue \in Nat
      /\ CallerOK /\ interrupted \in BOOLEAN
  BY SemAssumption DEF SemIInv, SemTypeOK
<1>1. value' \in [Sem -> 0 .. MaxValue] /\ valid' = valid
      /\ UNCHANGED <<current, next_pid, parent, op, arg, sleep_until, handler, pending>>
  BY <1>0 DEF SemPost
<1>2. CASE queue[i] # << >>
  <2>1. /\ Head(queue[i]) \in Task /\ Tail(queue[i]) \in Seq(Task)
        /\ Len(Tail(queue[i])) = Len(queue[i]) - 1
        /\ ToSet(queue[i]) = {Head(queue[i])} \cup ToSet(Tail(queue[i]))
    BY <1>0, <1>2, TailQueue
  <2>2. state' = MadeReady({Head(queue[i])}) /\ queue' = [queue EXCEPT ![i] = Tail(queue[i])]
    BY <1>2 DEF SemPost
  <2>3. queue'[i] = Tail(queue[i]) /\ \A j \in Sem : j # i => queue'[j] = queue[j]  BY <1>0, <2>2
  <2>4. /\ CallerOK'
        /\ \A t \in Task : state'[t] = "blocked" => state[t] = "blocked" /\ t # Head(queue[i])
    BY <1>1, <2>1, <2>2, MadeReadyKeepsCaller
  <2>5. SemTypeOK'
    <3>1. queue' \in [Sem -> Seq(Task)]  BY <1>0, <2>1, <2>2
    <3>2. \A j \in Sem : Len(queue'[j]) <= QueueMax
      <4>1. Len(queue[i]) \in Nat /\ Len(queue[i]) <= QueueMax  BY <1>0
      <4>2. Len(queue'[i]) <= QueueMax  BY <1>0, <2>1, <2>3, <4>1
      <4> QED BY <1>0, <2>3, <4>2
    <3> QED BY <1>0, <1>1, <2>4, <3>1, <3>2 DEF SemTypeOK, CallerOK, LifeSound
  <2>6. SemArg' /\ QueuedBorn'  BY <1>1, <2>1, <2>3 DEF SemIInv, SemArg, QueuedBorn
  <2>7. SemWaiterQueued'
    <3> SUFFICES ASSUME NEW t \in Task, op[t] = "sem", state'[t] = "blocked"
                 PROVE  arg[t] \in Sem /\ valid[arg[t]] /\ t \in ToSet(queue'[arg[t]])
      BY <1>1 DEF SemWaiterQueued
    <3>1. arg[t] \in Sem /\ valid[arg[t]] /\ t \in ToSet(queue[arg[t]]) /\ t # Head(queue[i])
      BY <2>4 DEF SemIInv, SemWaiterQueued
    <3> QED BY <2>1, <2>3, <3>1
  <2> QED BY <2>4, <2>5, <2>6, <2>7 DEF SemIInv
<1>3. CASE queue[i] = << >>
  <2>1. UNCHANGED <<state, queue>>  BY <1>3 DEF SemPost
  <2>2. CallerOK'
    BY <1>0, <1>1, <2>1 DEF CallerOK, LifeSound, LifeTypeOK, OnlyCurrentRuns, ProgramsCall,
                            CurrentAwake, UnusedAhead
  <2> QED BY <1>0, <1>1, <2>1, <2>2
       DEF SemIInv, SemTypeOK, SemArg, QueuedBorn, SemWaiterQueued, CallerOK, LifeSound
<1> QED BY <1>2, <1>3

\* sem_destroy_id() wakes every task of its queue and empties it, so that
\* nobody stays parked on an invalid semaphore.
LEMMA SemDestroyKeeps ==
  ASSUME SemIInv, NEW i \in Sem, SemDestroy(i), UNCHANGED interrupted
  PROVE  SemIInv'
<1>0. /\ valid \in [Sem -> BOOLEAN] /\ value \in [Sem -> 0 .. MaxValue]
      /\ queue \in [Sem -> Seq(Task)] /\ \A j \in Sem : Len(queue[j]) <= QueueMax
      /\ QueueMax \in Nat
  BY SemAssumption DEF SemIInv, SemTypeOK
<1>1. /\ state' = MadeReady(ToSet(queue[i]))
      /\ valid' = [valid EXCEPT ![i] = FALSE] /\ queue' = [queue EXCEPT ![i] = << >>]
      /\ UNCHANGED <<value, current, next_pid, parent, op, arg, sleep_until, handler, pending>>
  BY DEF SemDestroy
<1>2. /\ CallerOK'
      /\ \A t \in Task : state'[t] = "blocked" => state[t] = "blocked" /\ t \notin ToSet(queue[i])
  BY <1>1, MadeReadyKeepsCaller
<1>3. queue'[i] = << >> /\ \A j \in Sem : j # i => queue'[j] = queue[j] /\ valid'[j] = valid[j]  BY <1>0, <1>1
<1>4. ToSet(<< >>) = {} /\ << >> \in Seq(Task) /\ Len(<< >>) = 0  BY DEF ToSet
<1>5. SemTypeOK'  BY <1>0, <1>1, <1>2, <1>3, <1>4 DEF SemIInv, SemTypeOK, CallerOK, LifeSound
<1>6. SemArg' /\ QueuedBorn'  BY <1>1, <1>3, <1>4 DEF SemIInv, SemArg, QueuedBorn
<1>7. SemWaiterQueued'
  <2> SUFFICES ASSUME NEW t \in Task, op[t] = "sem", state'[t] = "blocked"
               PROVE  arg[t] \in Sem /\ valid'[arg[t]] /\ t \in ToSet(queue'[arg[t]])
    BY <1>1 DEF SemWaiterQueued
  <2>1. arg[t] \in Sem /\ valid[arg[t]] /\ t \in ToSet(queue[arg[t]]) /\ t \notin ToSet(queue[i])
    BY <1>2 DEF SemIInv, SemWaiterQueued
  <2> QED BY <1>3, <2>1
<1> QED BY <1>2, <1>5, <1>6, <1>7 DEF SemIInv

\* sem_create() takes an invalid entry, on which nobody is parked.
LEMMA SemCreateKeeps ==
  ASSUME SemIInv, NEW v \in 0 .. MaxValue, SemCreate(v), UNCHANGED interrupted
  PROVE  SemIInv'
<1> DEFINE i == Min({j \in Sem : ~valid[j]})
<1>0. /\ valid \in [Sem -> BOOLEAN] /\ value \in [Sem -> 0 .. MaxValue]
      /\ queue \in [Sem -> Seq(Task)] /\ \A j \in Sem : Len(queue[j]) <= QueueMax
      /\ QueueMax \in Nat
  BY SemAssumption DEF SemIInv, SemTypeOK
<1>1. i \in Sem /\ ~valid[i]
  <2>1. {j \in Sem : ~valid[j]} \subseteq Nat /\ {j \in Sem : ~valid[j]} # {}  BY DEF SemCreate, Sem
  <2>2. i \in {j \in Sem : ~valid[j]}  BY <2>1, LeastIsThere
  <2> QED BY <2>2
<1>2. /\ valid' = [valid EXCEPT ![i] = TRUE] /\ value' = [value EXCEPT ![i] = v]
      /\ queue' = [queue EXCEPT ![i] = << >>] /\ UNCHANGED lifeVars
  BY DEF SemCreate
<1> HIDE DEF i
<1>3. CallerOK'
  BY <1>2 DEF lifeVars, SemIInv, CallerOK, LifeSound, LifeTypeOK, OnlyCurrentRuns, ProgramsCall,
              CurrentAwake, UnusedAhead
<1>4. queue'[i] = << >> /\ \A j \in Sem : j # i => queue'[j] = queue[j] /\ valid'[j] = valid[j]
  BY <1>0, <1>1, <1>2
<1>5. ToSet(<< >>) = {} /\ << >> \in Seq(Task) /\ Len(<< >>) = 0  BY DEF ToSet
<1>6. SemTypeOK'
  <2>1. valid' \in [Sem -> BOOLEAN] /\ value' \in [Sem -> 0 .. MaxValue]  BY <1>0, <1>2
  <2>2. queue' \in [Sem -> Seq(Task)]  BY <1>0, <1>2, <1>5
  <2>3. \A j \in Sem : Len(queue'[j]) <= QueueMax  BY <1>0, <1>4, <1>5
  <2> QED BY <1>3, <2>1, <2>2, <2>3 DEF SemIInv, SemTypeOK, CallerOK, LifeSound
<1>7. SemArg' /\ QueuedBorn'  BY <1>2, <1>4, <1>5 DEF SemIInv, SemArg, QueuedBorn, lifeVars
<1>8. SemWaiterQueued'  BY <1>1, <1>2, <1>4 DEF SemIInv, SemWaiterQueued, lifeVars
<1> QED BY <1>3, <1>6, <1>7, <1>8 DEF SemIInv

\* No semaphore is valid at first.
LEMMA InitSemIInv == SemInit => SemIInv
<1> SUFFICES ASSUME SemInit PROVE SemIInv  OBVIOUS
<1>1. CallerOK  BY InitCallerOK DEF SemInit
<1>2. SemTypeOK
  <2>1. << >> \in Seq(Task) /\ Len(<< >>) = 0 /\ 0 \in 0 .. MaxValue /\ QueueMax >= 0  BY SemAssumption
  <2> QED BY <1>1, <2>1 DEF SemInit, SemTypeOK, CallerOK, LifeSound
<1>3. SemArg /\ QueuedBorn /\ SemWaiterQueued
  BY DEF SemInit, LifeInit, SemArg, QueuedBorn, SemWaiterQueued, ToSet
<1> QED BY <1>1, <1>2, <1>3 DEF SemIInv

\* Every step keeps the invariant.
LEMMA SemIInvStep == SemIInv /\ [SemNext]_allVars => SemIInv'
<1> SUFFICES ASSUME SemIInv, [SemNext]_allVars PROVE SemIInv'  OBVIOUS
<1>1. CASE LifeNext /\ interrupted' = (interrupted \/ Interrupts) /\ UNCHANGED semVars
  <2>1. interrupted' \in BOOLEAN  BY <1>1 DEF SemIInv, SemTypeOK
  <2> QED BY <1>1, <2>1, LifeKeepsSem
<1>2. ASSUME NEW v \in 0 .. MaxValue, SemCreate(v), UNCHANGED interrupted PROVE SemIInv'
  BY <1>2, SemCreateKeeps
<1>3. ASSUME NEW i \in Sem, SemWait(i), UNCHANGED interrupted PROVE SemIInv'
  <2>1. current \in Programs /\ op[current] = "user" /\ SemRound(i)
    BY <1>3 DEF SemWait, SemCalls, Programs, SemIInv, CallerOK, LifeSound, LifeTypeOK
  <2> QED BY <1>3, <2>1, SemRoundKeeps
<1>4. ASSUME NEW i \in Sem, SemPost(i), UNCHANGED interrupted PROVE SemIInv'  BY <1>4, SemPostKeeps
<1>5. ASSUME NEW i \in Sem, SemDestroy(i), UNCHANGED interrupted PROVE SemIInv'  BY <1>5, SemDestroyKeeps
<1>6. CASE SemAgain /\ UNCHANGED interrupted
  <2>1. current \in Task  BY DEF SemIInv, CallerOK, LifeSound, LifeTypeOK
  <2>2. op[current] = "sem" /\ SemRound(arg[current])  BY <1>6 DEF SemAgain
  <2>3. current \in Programs /\ arg[current] \in Sem  BY <2>1, <2>2 DEF SemIInv, CallerOK, ProgramsCall, SemArg
  <2> QED BY <1>6, <2>2, <2>3, SemRoundKeeps
<1>7. CASE UNCHANGED allVars
  BY <1>7 DEF allVars, lifeVars, semVars, SemIInv, CallerOK, LifeSound, LifeTypeOK,
              OnlyCurrentRuns, ProgramsCall, CurrentAwake, UnusedAhead, SemTypeOK, SemArg,
              QueuedBorn, SemWaiterQueued
<1> QED BY <1>1, <1>2, <1>3, <1>4, <1>5, <1>6, <1>7 DEF SemNext

\* A task parked in sem_wait_id is in the queue of a valid semaphore, so
\* that sem_post_id and sem_destroy_id reach it, for any number of tasks
\* and semaphores, whatever signals and stale entries came before; and no
\* queue holds more than wait_queue has room for.
THEOREM WaitersAreQueued == SemSpec => []SemQueueSound
<1>1. SemIInv => SemQueueSound  BY DEF SemIInv, SemQueueSound
<1> QED BY <1>1, InitSemIInv, SemIInvStep, PTL DEF SemSpec

------------------------------

\* A queue without repetitions stays so when a task that is not in it is
\* appended, and when its head leaves.
LEMMA DistinctQueue ==
  ASSUME NEW q \in Seq(Task), IsInjective(q)
  PROVE  /\ \A t \in Task \ ToSet(q) : IsInjective(Append(q, t))
         /\ q # << >> => IsInjective(Tail(q)) /\ Head(q) \notin ToSet(Tail(q))
<1>0. Len(q) \in Nat /\ DOMAIN q = 1 .. Len(q)  OBVIOUS
<1>1. ASSUME NEW t \in Task \ ToSet(q) PROVE IsInjective(Append(q, t))
  <2>1. DOMAIN Append(q, t) = 1 .. Len(q) + 1 /\ Append(q, t)[Len(q) + 1] = t  OBVIOUS
  <2>2. \A k \in 1 .. Len(q) : Append(q, t)[k] = q[k] /\ q[k] # t  BY <1>0 DEF ToSet
  <2>3. \A k \in 1 .. Len(q) + 1 : k \in 1 .. Len(q) \/ k = Len(q) + 1  BY <1>0
  <2> QED BY <1>0, <2>1, <2>2, <2>3 DEF IsInjective
<1>2. ASSUME q # << >> PROVE IsInjective(Tail(q)) /\ Head(q) \notin ToSet(Tail(q))
  <2>1. /\ DOMAIN Tail(q) = 1 .. Len(q) - 1 /\ Head(q) = q[1] /\ Len(q) > 0
        /\ \A k \in 1 .. Len(q) - 1 : Tail(q)[k] = q[k + 1] /\ k + 1 \in 1 .. Len(q) /\ k + 1 # 1
    BY <1>0, <1>2
  <2>2. IsInjective(Tail(q))
    <3> SUFFICES ASSUME NEW k \in 1 .. Len(q) - 1, NEW l \in 1 .. Len(q) - 1,
                        Tail(q)[k] = Tail(q)[l]
                 PROVE  k = l
      BY <2>1 DEF IsInjective
    <3>1. q[k + 1] = q[l + 1] /\ k + 1 \in DOMAIN q /\ l + 1 \in DOMAIN q  BY <1>0, <2>1
    <3>2. k + 1 = l + 1  BY <3>1 DEF IsInjective
    <3> QED BY <1>0, <3>2
  <2>3. ASSUME Head(q) \in ToSet(Tail(q)) PROVE FALSE
    <3>1. PICK k \in 1 .. Len(q) - 1 : q[1] = q[k + 1]  BY <2>1, <2>3 DEF ToSet
    <3>2. 1 \in DOMAIN q /\ k + 1 \in DOMAIN q  BY <1>0, <2>1
    <3>3. 1 = k + 1  BY <3>1, <3>2 DEF IsInjective
    <3> QED BY <2>1, <3>3
  <2> QED BY <2>2, <2>3
<1> QED BY <1>1, <1>2

\* The inductive invariant behind the units: as long as nothing else has
\* reached a waiter, a queue holds exactly parked waiters of its own
\* semaphore, each once.
QueueExact ==
    ~interrupted => \A i \in Sem :
        /\ \A t \in ToSet(queue[i]) : op[t] = "sem" /\ arg[t] = i /\ state[t] = "blocked"
        /\ IsInjective(queue[i])

Awake(i) == {t \in Waiters(i) : state[t] \in {"ready", "running"}}

UnitIInv == SemIInv /\ QueueExact /\ NoStrandedUnit

\* A step of the rest of the system that interrupts nobody leaves every
\* woken waiter on its way.
LEMMA LifeKeepsUnits ==
  ASSUME UnitIInv, LifeNext, UNCHANGED semVars, interrupted' = (interrupted \/ Interrupts)
  PROVE  QueueExact' /\ NoStrandedUnit'
<1>1. LeavesCalls  BY LifeLeavesCalls DEF UnitIInv, SemIInv
<1> SUFFICES ASSUME ~interrupted' PROVE QueueExact' /\ NoStrandedUnit'  BY DEF QueueExact, NoStrandedUnit
<1>2. ~interrupted /\ ~Interrupts  OBVIOUS
<1>3. \A t \in Task : op[t] = "sem" /\ state'[t] # state[t] => state[t] # "blocked" /\ state'[t] # "dead"
  BY <1>2 DEF Interrupts
<1>4. \A i \in Sem : queue[i] \in Seq(Task)  BY DEF UnitIInv, SemIInv, SemTypeOK
<1>5. QueueExact'
  <2> SUFFICES ASSUME NEW i \in Sem
               PROVE  /\ \A t \in ToSet(queue[i]) : op'[t] = "sem" /\ arg'[t] = i /\ state'[t] = "blocked"
                      /\ IsInjective(queue[i])
    BY DEF QueueExact, semVars
  <2>1. IsInjective(queue[i])  BY <1>2 DEF UnitIInv, QueueExact
  <2>2. ASSUME NEW t \in ToSet(queue[i])
        PROVE  op'[t] = "sem" /\ arg'[t] = i /\ state'[t] = "blocked"
    <3>1. t \in Task  BY <1>4, <2>2 DEF ToSet
    <3>2. op[t] = "sem" /\ arg[t] = i /\ state[t] = "blocked"  BY <1>2, <2>2 DEF UnitIInv, QueueExact
    <3> QED BY <1>1, <1>3, <3>1, <3>2 DEF LeavesCalls, OtherCalls
  <2> QED BY <2>1, <2>2
<1>6. NoStrandedUnit'
  <2> SUFFICES ASSUME NEW i \in Sem, NEW b \in Task, op'[b] = "sem", arg'[b] = i, state'[b] = "blocked"
               PROVE  Cardinality(Awake(i)') >= value[i]
    BY DEF NoStrandedUnit, Waiters, Awake, semVars
  <2>1. b \in Waiters(i) /\ state[b] = "blocked"  BY <1>1 DEF LeavesCalls, OtherCalls, Waiters
  <2>2. Cardinality(Awake(i)) >= value[i]  BY <1>2, <2>1 DEF UnitIInv, NoStrandedUnit, Awake
  <2>3. Awake(i) \subseteq Awake(i)' /\ Awake(i)' \subseteq Task
    BY <1>1, <1>3 DEF Awake, Waiters, LeavesCalls, OtherCalls
  <2>4. Cardinality(Awake(i)) \in Nat /\ Cardinality(Awake(i)') \in Nat
        /\ Cardinality(Awake(i)) <= Cardinality(Awake(i)')
    BY <2>3, CountTasks
  <2>5. value[i] \in Nat  BY SemAssumption DEF UnitIInv, SemIInv, SemTypeOK
  <2> QED BY <2>2, <2>4, <2>5
<1> QED BY <1>5, <1>6

\* A round of sem_wait_id(): the caller takes a unit that was waiting for
\* it or for another, gives up, or parks when there is no unit.
LEMMA SemRoundKeepsUnits ==
  ASSUME UnitIInv, current \in Programs, NEW i \in Sem, SemRound(i), UNCHANGED interrupted,
         op[current] = "user" \/ (op[current] = "sem" /\ arg[current] = i)
  PROVE  QueueExact' /\ NoStrandedUnit'
<1> SUFFICES ASSUME ~interrupted PROVE QueueExact' /\ NoStrandedUnit'  BY DEF QueueExact, NoStrandedUnit
<1>0. /\ value \in [Sem -> 0 .. MaxValue] /\ MaxValue \in Nat
      /\ queue \in [Sem -> Seq(Task)]
      /\ CallerOK /\ current \in Task
      /\ state \in [Task -> States] /\ state[current] \in {"ready", "running"}
      /\ op \in [Task -> {"user", "wait", "sleep", "sem", "futex", "read", "write"}]
      /\ arg \in [Task -> Nat]
  BY SemAssumption
     DEF UnitIInv, SemIInv, SemTypeOK, CallerOK, LifeSound, CurrentAwake, LifeTypeOK
<1>1. \A j \in Sem : /\ \A t \in ToSet(queue[j]) : /\ op[t] = "sem" /\ arg[t] = j
                                                   /\ state[t] = "blocked" /\ t # current
                     /\ IsInjective(queue[j]) /\ ToSet(queue[j]) \subseteq Task
  <2>1. \A j \in Sem : /\ \A t \in ToSet(queue[j]) : op[t] = "sem" /\ arg[t] = j /\ state[t] = "blocked"
                       /\ IsInjective(queue[j])
    BY DEF UnitIInv, QueueExact
  <2>2. \A j \in Sem : ToSet(queue[j]) \subseteq Task  BY <1>0 DEF ToSet
  <2> QED BY <1>0, <2>1, <2>2
<1>2. \A j \in Sem : j # i => current \notin Waiters(j)  BY DEF Waiters
<1>3. \A j \in Sem : (\E t \in Waiters(j) : state[t] = "blocked") => Cardinality(Awake(j)) >= value[j]
  BY DEF UnitIInv, NoStrandedUnit, Awake
<1>4. ASSUME Return, UNCHANGED <<state, current, pending, queue, next_pid, parent, sleep_until, handler>>,
             \A j \in Sem : j # i => value'[j] = value[j],
             \/ ~valid[i]
             \/ value'[i] = 0
             \/ value'[i] = value[i] - 1
      PROVE  QueueExact' /\ NoStrandedUnit'
  <2>1. /\ op'[current] = "user"
        /\ \A t \in Task : t # current => op'[t] = op[t] /\ arg'[t] = arg[t]
    BY <1>0, <1>4, ReturnKeepsCaller
  <2>2. QueueExact'  BY <1>1, <1>4, <2>1 DEF QueueExact
  <2>3. NoStrandedUnit'
    <3> SUFFICES ASSUME NEW j \in Sem, NEW b \in Task, op'[b] = "sem", arg'[b] = j, state[b] = "blocked"
                 PROVE  Cardinality(Awake(j)') >= value'[j]
      BY <1>4 DEF NoStrandedUnit, Waiters, Awake
    <3>1. b # current /\ op[b] = "sem" /\ arg[b] = j  BY <2>1
    <3>2. Cardinality(Awake(j)) >= value[j]  BY <1>3, <3>1 DEF Waiters
    <3>3. Awake(j)' = Awake(j) \ {current}  BY <1>4, <2>1 DEF Awake, Waiters
    <3>4. Awake(j) \subseteq Task /\ Awake(j)' \subseteq Task  BY DEF Awake, Waiters
    <3>5. Cardinality(Awake(j)) \in Nat /\ Cardinality(Awake(j)') \in Nat /\ IsFiniteSet(Awake(j))
      BY <3>4, CountTasks
    <3>6. CASE j # i
      <4>1. Awake(j)' = Awake(j)  BY <1>2, <3>3, <3>6 DEF Awake
      <4> QED BY <1>4, <3>2, <3>6, <4>1
    <3>7. CASE j = i
      <4>1. valid[i]  BY <3>1, <3>7 DEF UnitIInv, SemIInv, SemWaiterQueued
      <4>2. CASE value'[i] = 0  BY <3>5, <3>7, <4>2
      <4>3. CASE value'[i] = value[i] - 1
        <5>1. Cardinality(Awake(j) \ {current}) >= Cardinality(Awake(j)) - 1  BY <3>4, CountLess
        <5>2. value[i] \in Nat  BY <1>0
        <5> QED BY <3>2, <3>3, <3>5, <3>7, <4>3, <5>1, <5>2
      <4> QED BY <1>4, <4>1, <4>2, <4>3
    <3> QED BY <3>6, <3>7
  <2> QED BY <2>2, <2>3
<1>5. CASE ~valid[i] /\ Return /\ UNCHANGED <<state, current, pending, semVars>>
  BY <1>4, <1>5 DEF SemRound, semVars
<1>6. CASE valid[i] /\ value[i] > 0 /\ value' = [value EXCEPT ![i] = @ - 1] /\ Return
           /\ UNCHANGED <<state, current, pending, valid, queue>>
  <2>1. value'[i] = value[i] - 1 /\ \A j \in Sem : j # i => value'[j] = value[j]  BY <1>0, <1>6
  <2> QED BY <1>4, <1>6, <2>1 DEF SemRound
<1>7. CASE valid[i] /\ value[i] = 0 /\ Return /\ UNCHANGED <<state, current, pending, semVars>>
  BY <1>4, <1>7 DEF SemRound, semVars
<1>8. CASE /\ valid[i] /\ value[i] = 0
           /\ queue' = [queue EXCEPT ![i] = Append(@, current)]
           /\ Park("sem", i, state)
           /\ UNCHANGED <<valid, value>>
  <2>1. /\ op' = [op EXCEPT ![current] = "sem"] /\ arg' = [arg EXCEPT ![current] = i]
        /\ state'[current] = "blocked"
        /\ \A t \in Task : t \notin {current, Idle} /\ state[t] # "ready" => state'[t] = state[t]
        /\ \A t \in Task : t # current =>
              state'[t] = state[t] \/ state'[t] \in {"ready", "running"}
    BY <1>0, <1>8, ParkAwake
  <2>2. \A t \in Task : op[t] = "sem" => t # Idle  BY <1>0 DEF CallerOK, ProgramsCall, Programs
  <2>3. /\ ToSet(queue'[i]) = ToSet(queue[i]) \cup {current} /\ IsInjective(queue'[i])
        /\ \A j \in Sem : j # i => queue'[j] = queue[j]
    <3>1. queue'[i] = Append(queue[i], current) /\ \A j \in Sem : j # i => queue'[j] = queue[j]  BY <1>0, <1>8
    <3>2. current \notin ToSet(queue[i]) /\ IsInjective(queue[i]) /\ queue[i] \in Seq(Task)  BY <1>0, <1>1
    <3> QED BY <1>0, <3>1, <3>2, AppendQueue, DistinctQueue
  <2>4. QueueExact'
    <3> SUFFICES ASSUME NEW j \in Sem
                 PROVE  /\ \A t \in ToSet(queue'[j]) : op'[t] = "sem" /\ arg'[t] = j /\ state'[t] = "blocked"
                        /\ IsInjective(queue'[j])
      BY DEF QueueExact
    <3>1. ASSUME NEW t \in ToSet(queue[j])
          PROVE  op'[t] = "sem" /\ arg'[t] = j /\ state'[t] = "blocked"
      <4>1. t \in Task /\ t # current /\ op[t] = "sem" /\ arg[t] = j /\ state[t] = "blocked"  BY <1>1, <3>1
      <4>2. t # Idle  BY <2>2, <4>1
      <4> QED BY <1>0, <2>1, <4>1, <4>2
    <3>2. op'[current] = "sem" /\ arg'[current] = i /\ state'[current] = "blocked"  BY <1>0, <2>1
    <3> QED BY <1>1, <2>3, <3>1, <3>2
  <2>5. NoStrandedUnit'
    <3> SUFFICES ASSUME NEW j \in Sem, NEW b \in Task, op'[b] = "sem", arg'[b] = j, state'[b] = "blocked"
                 PROVE  Cardinality(Awake(j)') >= value[j]
      BY <1>8 DEF NoStrandedUnit, Waiters, Awake
    <3>1. Awake(j)' \subseteq Task  BY DEF Awake, Waiters
    <3>2. CASE j = i
      <4>1. Cardinality(Awake(j)') \in Nat  BY <3>1, CountTasks
      <4> QED BY <1>8, <3>2, <4>1
    <3>3. CASE j # i
      <4>1. b # current /\ op[b] = "sem" /\ arg[b] = j /\ state[b] = "blocked"  BY <1>0, <2>1, <3>3
      <4>2. Cardinality(Awake(j)) >= value[j]  BY <1>3, <4>1 DEF Waiters
      <4>3. Awake(j) \subseteq Awake(j)'  BY <1>0, <1>2, <2>1, <3>3 DEF Awake, Waiters
      <4>4. Cardinality(Awake(j)) \in Nat /\ Cardinality(Awake(j)') \in Nat
            /\ Cardinality(Awake(j)) <= Cardinality(Awake(j)')
        BY <3>1, <4>3, CountTasks
      <4>5. value[j] \in Nat  BY <1>0
      <4> QED BY <4>2, <4>4, <4>5
    <3> QED BY <3>2, <3>3
  <2> QED BY <2>4, <2>5
<1> QED BY <1>5, <1>6, <1>7, <1>8 DEF SemRound

\* sem_post_id(): the unit it adds has the head of the queue for it.
LEMMA SemPostKeepsUnits ==
  ASSUME UnitIInv, NEW i \in Sem, SemPost(i), UNCHANGED interrupted
  PROVE  QueueExact' /\ NoStrandedUnit'
<1> SUFFICES ASSUME ~interrupted PROVE QueueExact' /\ NoStrandedUnit'  BY DEF QueueExact, NoStrandedUnit
<1>0. /\ value \in [Sem -> 0 .. MaxValue] /\ MaxValue \in Nat
      /\ queue \in [Sem -> Seq(Task)]
      /\ UNCHANGED <<valid, op, arg>> /\ value' = [value EXCEPT ![i] = value[i] + 1]
  BY SemAssumption DEF UnitIInv, SemIInv, SemTypeOK, SemPost
<1>1. \A j \in Sem : /\ \A t \in ToSet(queue[j]) : op[t] = "sem" /\ arg[t] = j /\ state[t] = "blocked"
                     /\ IsInjective(queue[j])
  BY DEF UnitIInv, QueueExact
<1>2. \A j \in Sem : (\E t \in Waiters(j) : state[t] = "blocked") => Cardinality(Awake(j)) >= value[j]
  BY DEF UnitIInv, NoStrandedUnit, Awake
<1>3. value'[i] = value[i] + 1 /\ value[i] \in Nat
      /\ \A j \in Sem : j # i => value'[j] = value[j]
  BY <1>0
<1>4. \A j \in Sem : Awake(j) \subseteq Task  BY DEF Awake, Waiters
<1>5. CASE queue[i] = << >>
  <2>1. UNCHANGED <<state, queue>>  BY <1>5 DEF SemPost
  <2>2. QueueExact'  BY <1>0, <1>1, <2>1 DEF QueueExact
  <2>3. \A t \in Waiters(i) : state[t] # "blocked"
    <3>1. ToSet(queue[i]) = {}  BY <1>5 DEF ToSet
    <3> QED BY <3>1 DEF UnitIInv, SemIInv, SemWaiterQueued, Waiters
  <2>4. NoStrandedUnit'  BY <1>0, <1>2, <1>3, <2>1, <2>3 DEF NoStrandedUnit, Waiters, Awake
  <2> QED BY <2>2, <2>4
<1>6. CASE queue[i] # << >>
  <2> DEFINE h == Head(queue[i])
  <2>1. state' = MadeReady({h}) /\ queue' = [queue EXCEPT ![i] = Tail(queue[i])]  BY <1>6 DEF SemPost
  <2>2. /\ h \in Task /\ Tail(queue[i]) \in Seq(Task)
        /\ ToSet(queue[i]) = {h} \cup ToSet(Tail(queue[i]))
        /\ IsInjective(Tail(queue[i])) /\ h \notin ToSet(Tail(queue[i]))
    BY <1>0, <1>1, <1>6, TailQueue, DistinctQueue
  <2> HIDE DEF h
  <2>3. op[h] = "sem" /\ arg[h] = i /\ state[h] = "blocked"  BY <1>1, <2>2
  <2>4. state'[h] = "ready" /\ \A t \in Task : t # h => state'[t] = state[t]  BY <2>1, <2>2, <2>3 DEF MadeReady
  <2>5. queue'[i] = Tail(queue[i]) /\ \A j \in Sem : j # i => queue'[j] = queue[j]  BY <1>0, <2>1
  <2>6. QueueExact'
    <3> SUFFICES ASSUME NEW j \in Sem
                 PROVE  /\ \A t \in ToSet(queue'[j]) : op[t] = "sem" /\ arg[t] = j /\ state'[t] = "blocked"
                        /\ IsInjective(queue'[j])
      BY <1>0 DEF QueueExact
    <3>1. ToSet(queue'[j]) \subseteq ToSet(queue[j]) /\ h \notin ToSet(queue'[j])  BY <1>1, <2>2, <2>3, <2>5
    <3>2. ToSet(queue[j]) \subseteq Task  BY <1>0 DEF ToSet
    <3> QED BY <1>1, <2>2, <2>4, <2>5, <3>1, <3>2
  <2>7. NoStrandedUnit'
    <3> SUFFICES ASSUME NEW j \in Sem, NEW b \in Task, op[b] = "sem", arg[b] = j, state'[b] = "blocked"
                 PROVE  Cardinality(Awake(j)') >= value'[j]
      BY <1>0 DEF NoStrandedUnit, Waiters, Awake
    <3>1. state[b] = "blocked"  BY <2>4
    <3>2. Cardinality(Awake(j)) >= value[j]  BY <1>2, <3>1 DEF Waiters
    <3>3. CASE j # i
      <4>1. Awake(j)' = Awake(j)  BY <1>0, <2>3, <2>4, <3>3 DEF Awake, Waiters
      <4> QED BY <1>3, <3>2, <3>3, <4>1
    <3>4. CASE j = i
      <4>1. Awake(j)' = Awake(j) \cup {h} /\ h \notin Awake(j)
        BY <1>0, <2>2, <2>3, <2>4, <3>4 DEF Awake, Waiters
      <4>2. IsFiniteSet(Awake(j)) /\ Cardinality(Awake(j)) \in Nat  BY <1>4, CountTasks
      <4>3. Cardinality(Awake(j)') = Cardinality(Awake(j)) + 1  BY <4>1, <4>2, FS_AddElement
      <4> QED BY <1>3, <3>2, <3>4, <4>2, <4>3
    <3> QED BY <3>3, <3>4
  <2> QED BY <2>6, <2>7
<1> QED BY <1>5, <1>6

\* sem_destroy_id() wakes waiters of its own semaphore only.
LEMMA SemDestroyKeepsUnits ==
  ASSUME UnitIInv, NEW i \in Sem, SemDestroy(i), UNCHANGED interrupted
  PROVE  QueueExact' /\ NoStrandedUnit'
<1> SUFFICES ASSUME ~interrupted PROVE QueueExact' /\ NoStrandedUnit'  BY DEF QueueExact, NoStrandedUnit
<1>0. /\ queue \in [Sem -> Seq(Task)]
      /\ UNCHANGED <<value, op, arg>> /\ queue' = [queue EXCEPT ![i] = << >>]
      /\ state' = MadeReady(ToSet(queue[i]))
  BY DEF UnitIInv, SemIInv, SemTypeOK, SemDestroy
<1>1. \A j \in Sem : /\ \A t \in ToSet(queue[j]) : op[t] = "sem" /\ arg[t] = j /\ state[t] = "blocked"
                     /\ IsInjective(queue[j])
  BY DEF UnitIInv, QueueExact
<1>2. \A j \in Sem : (\E t \in Waiters(j) : state[t] = "blocked") => Cardinality(Awake(j)) >= value[j]
  BY DEF UnitIInv, NoStrandedUnit, Awake
<1>3. queue'[i] = << >> /\ \A j \in Sem : j # i => queue'[j] = queue[j]  BY <1>0
<1>4. /\ \A t \in Task : t \notin ToSet(queue[i]) => state'[t] = state[t]
      /\ \A t \in Task : t \in ToSet(queue[i]) => state'[t] = "ready"
  BY <1>0, <1>1 DEF MadeReady
<1>5. QueueExact'
  <2> SUFFICES ASSUME NEW j \in Sem
               PROVE  /\ \A t \in ToSet(queue'[j]) : op[t] = "sem" /\ arg[t] = j /\ state'[t] = "blocked"
                      /\ IsInjective(queue'[j])
    BY <1>0 DEF QueueExact
  <2>1. CASE j = i  BY <1>3, <2>1 DEF ToSet, IsInjective
  <2>2. CASE j # i
    <3>1. ToSet(queue[j]) \subseteq Task  BY <1>0 DEF ToSet
    <3> QED BY <1>1, <1>3, <1>4, <2>2, <3>1
  <2> QED BY <2>1, <2>2
<1>6. NoStrandedUnit'
  <2> SUFFICES ASSUME NEW j \in Sem, NEW b \in Task, op[b] = "sem", arg[b] = j, state'[b] = "blocked"
               PROVE  Cardinality(Awake(j)') >= value[j]
    BY <1>0 DEF NoStrandedUnit, Waiters, Awake
  <2>1. state[b] = "blocked" /\ b \notin ToSet(queue[i])  BY <1>4
  <2>2. b \in ToSet(queue[j])  BY <2>1 DEF UnitIInv, SemIInv, SemWaiterQueued
  <2>3. j # i  BY <2>1, <2>2
  <2>4. Cardinality(Awake(j)) >= value[j]  BY <1>2, <2>1 DEF Waiters
  <2>5. Awake(j)' = Awake(j)  BY <1>0, <1>1, <1>4, <2>3 DEF Awake, Waiters
  <2> QED BY <2>4, <2>5
<1> QED BY <1>5, <1>6

\* sem_create() gives units to a semaphore on which nobody is parked.
LEMMA SemCreateKeepsUnits ==
  ASSUME UnitIInv, NEW v \in 0 .. MaxValue, SemCreate(v), UNCHANGED interrupted
  PROVE  QueueExact' /\ NoStrandedUnit'
<1> SUFFICES ASSUME ~interrupted PROVE QueueExact' /\ NoStrandedUnit'  BY DEF QueueExact, NoStrandedUnit
<1> DEFINE i == Min({j \in Sem : ~valid[j]})
<1>0. queue \in [Sem -> Seq(Task)] /\ value \in [Sem -> 0 .. MaxValue]  BY DEF UnitIInv, SemIInv, SemTypeOK
<1>1. i \in Sem /\ ~valid[i]
  <2>1. {j \in Sem : ~valid[j]} \subseteq Nat /\ {j \in Sem : ~valid[j]} # {}  BY DEF SemCreate, Sem
  <2>2. i \in {j \in Sem : ~valid[j]}  BY <2>1, LeastIsThere
  <2> QED BY <2>2
<1>2. /\ value' = [value EXCEPT ![i] = v]
      /\ queue' = [queue EXCEPT ![i] = << >>] /\ UNCHANGED lifeVars
  BY DEF SemCreate
<1> HIDE DEF i
<1>3. queue'[i] = << >> /\ \A j \in Sem : j # i => queue'[j] = queue[j] /\ value'[j] = value[j]
  BY <1>0, <1>1, <1>2
<1>4. QueueExact'
  <2>1. IsInjective(<< >>) /\ ToSet(<< >>) = {}  BY DEF IsInjective, ToSet
  <2> QED BY <1>2, <1>3, <2>1 DEF UnitIInv, QueueExact, lifeVars
<1>5. NoStrandedUnit'
  <2> SUFFICES ASSUME NEW j \in Sem, NEW b \in Task, op[b] = "sem", arg[b] = j, state[b] = "blocked"
               PROVE  Cardinality(Awake(j)) >= value'[j]
    BY <1>2 DEF NoStrandedUnit, Waiters, Awake, lifeVars
  <2>1. j # i  BY <1>1 DEF UnitIInv, SemIInv, SemWaiterQueued
  <2> QED BY <1>3, <2>1 DEF UnitIInv, NoStrandedUnit, Awake, Waiters
<1> QED BY <1>4, <1>5

\* Every step keeps the invariant.
LEMMA UnitIInvStep == UnitIInv /\ [SemNext]_allVars => UnitIInv'
<1> SUFFICES ASSUME UnitIInv, [SemNext]_allVars PROVE QueueExact' /\ NoStrandedUnit'
  BY SemIInvStep DEF UnitIInv
<1>0. SemIInv  BY DEF UnitIInv
<1>1. CASE LifeNext /\ interrupted' = (interrupted \/ Interrupts) /\ UNCHANGED semVars  BY <1>1, LifeKeepsUnits
<1>2. ASSUME NEW v \in 0 .. MaxValue, SemCreate(v), UNCHANGED interrupted
      PROVE  QueueExact' /\ NoStrandedUnit'
  BY <1>2, SemCreateKeepsUnits
<1>3. ASSUME NEW i \in Sem, SemWait(i), UNCHANGED interrupted
      PROVE  QueueExact' /\ NoStrandedUnit'
  <2>1. current \in Programs /\ op[current] = "user" /\ SemRound(i)
    BY <1>0, <1>3 DEF SemWait, SemCalls, Programs, SemIInv, CallerOK, LifeSound, LifeTypeOK
  <2> QED BY <1>3, <2>1, SemRoundKeepsUnits
<1>4. ASSUME NEW i \in Sem, SemPost(i), UNCHANGED interrupted
      PROVE  QueueExact' /\ NoStrandedUnit'
  BY <1>4, SemPostKeepsUnits
<1>5. ASSUME NEW i \in Sem, SemDestroy(i), UNCHANGED interrupted
      PROVE  QueueExact' /\ NoStrandedUnit'
  BY <1>5, SemDestroyKeepsUnits
<1>6. CASE SemAgain /\ UNCHANGED interrupted
  <2>1. current \in Task  BY <1>0 DEF SemIInv, CallerOK, LifeSound, LifeTypeOK
  <2>2. op[current] = "sem" /\ SemRound(arg[current])  BY <1>6 DEF SemAgain
  <2>3. current \in Programs /\ arg[current] \in Sem
    BY <1>0, <2>1, <2>2 DEF SemIInv, CallerOK, ProgramsCall, SemArg
  <2> QED BY <1>6, <2>2, <2>3, SemRoundKeepsUnits
<1>7. CASE UNCHANGED allVars
  BY <1>7 DEF allVars, lifeVars, semVars, UnitIInv, QueueExact, NoStrandedUnit, Waiters
<1> QED BY <1>1, <1>2, <1>3, <1>4, <1>5, <1>6, <1>7 DEF SemNext

\* As long as only sem_post_id and sem_destroy_id reach the waiters, no
\* unit is stranded: while somebody is parked on a semaphore, every unit
\* it holds has a woken waiter on its way, for any number of semaphores,
\* tasks and units (the loop of sem_wait_id and the single wakeup of
\* sem_post_id).
THEOREM NoUnitIsStranded == SemSpec => []NoStrandedUnit
<1>1. SemInit => UnitIInv
  <2> SUFFICES ASSUME SemInit PROVE QueueExact /\ NoStrandedUnit  BY InitSemIInv DEF UnitIInv
  <2>1. QueueExact  BY DEF SemInit, QueueExact, ToSet, IsInjective
  <2>2. NoStrandedUnit  BY DEF SemInit, LifeInit, NoStrandedUnit, Waiters
  <2> QED BY <2>1, <2>2
<1>2. UnitIInv => NoStrandedUnit  BY DEF UnitIInv
<1> QED BY <1>1, <1>2, UnitIInvStep, PTL DEF SemSpec

------------------------------
(* Pipes.                                                                  *)

\* Counting descriptors: those of task t, and those of all the others.
OfOthers(f, t) == {d \in Held(f) : d[1] # t}

\* The descriptors of all tasks are as many as those of one of them and
\* those of the others together.
LEMMA TotalSplit ==
  ASSUME NEW f \in [Task -> 0 .. MaxEnds], NEW t \in Task
  PROVE  /\ Cardinality(OfOthers(f, t)) \in Nat
         /\ Total(f) = Cardinality(OfOthers(f, t)) + f[t]
<1> DEFINE Own == {d \in Held(f) : d[1] = t}
           place == [k \in 1 .. f[t] |-> <<t, k>>]
<1>0. MaxEnds \in Nat /\ f[t] \in Nat /\ f[t] <= MaxEnds  BY PipeAssumption
<1>1. IsFiniteSet(Held(f))
  <2>1. IsFiniteSet(Task) /\ IsFiniteSet(1 .. MaxEnds)  BY <1>0, MaxTaskAssumption, FS_Interval DEF Task
  <2>2. IsFiniteSet(Task \X (1 .. MaxEnds))  BY <2>1, FS_Product
  <2> QED BY <2>2, FS_Subset DEF Held
<1>2. IsFiniteSet(Own) /\ Cardinality(Own) = f[t]
  <2>1. IsFiniteSet(1 .. f[t]) /\ Cardinality(1 .. f[t]) = f[t]  BY <1>0, FS_Interval
  <2>2. \A k \in 1 .. f[t] : place[k] = <<t, k>> /\ <<t, k>> \in Own  BY <1>0 DEF Held
  <2>3. \A d \in Own : d[2] \in 1 .. f[t] /\ d = <<t, d[2]>>  BY <1>0 DEF Held
  <2> HIDE DEF Own
  <2>4. place \in [1 .. f[t] -> Own]  BY <2>2
  <2>5. \A a, b \in 1 .. f[t] : place[a] = place[b] => a = b  BY <2>2
  <2>6. \A d \in Own : \E k \in 1 .. f[t] : place[k] = d  BY <2>2, <2>3
  <2>7. place \in Bijection(1 .. f[t], Own)
    BY <2>4, <2>5, <2>6 DEF Bijection, Injection, Surjection, IsInjective
  <2>8. ExistsBijection(1 .. f[t], Own)  BY <2>7 DEF ExistsBijection
  <2> QED BY <2>1, <2>8, FS_Bijection
<1>3. IsFiniteSet(OfOthers(f, t)) /\ Cardinality(OfOthers(f, t)) \in Nat
  <2>1. OfOthers(f, t) \subseteq Held(f)  BY DEF OfOthers
  <2> QED BY <1>1, <2>1, FS_Subset, FS_CardinalityType
<1>4. Held(f) = OfOthers(f, t) \cup Own /\ OfOthers(f, t) \cap Own = {}  BY DEF OfOthers
<1> HIDE DEF Own
<1>5. Cardinality(Held(f)) = Cardinality(OfOthers(f, t)) + Cardinality(Own)
         - Cardinality({})
  BY <1>2, <1>3, <1>4, FS_Union
<1> QED BY <1>0, <1>2, <1>3, <1>5, FS_EmptySet DEF Total

\* fd_table_copy(), dup2(), close() and fs_close_table() change the
\* descriptors of one task: the total changes as its own count does.
LEMMA TotalChange ==
  ASSUME NEW f \in [Task -> 0 .. MaxEnds], NEW t \in Task,
         NEW g \in [Task -> 0 .. MaxEnds], \A u \in Task : u # t => g[u] = f[u]
  PROVE  /\ Total(f) \in Nat /\ Total(f) >= f[t]
         /\ Total(g) = (Total(f) - f[t]) + g[t]
<1>1. OfOthers(f, t) = OfOthers(g, t)  BY DEF OfOthers, Held
<1>2. f[t] \in Nat /\ g[t] \in Nat  BY PipeAssumption
<1> QED BY <1>1, <1>2, TotalSplit

------------------------------

\* Wakes() makes READY whom it is given, freed tasks apart, and nobody
\* else.
LEMMA WakesFrame ==
  ASSUME CallerOK, NEW W, \A x \in W : x < next_pid
  PROVE  /\ Wakes(state, W) \in [Task -> States]
         /\ Wakes(state, W)[current] \in {"ready", "running"}
         /\ \A t \in Task : /\ Wakes(state, W)[t] = "running" => t = current
                            /\ t >= next_pid => Wakes(state, W)[t] = "unused"
                            /\ Wakes(state, W)[t] \in {state[t], "ready"}
                            /\ t \in W => Wakes(state, W)[t] # "blocked"
<1>1. /\ state \in [Task -> States] /\ current \in Task /\ next_pid \in Nat
      /\ state[current] \in {"ready", "running"}
      /\ \A t \in Task : state[t] = "running" => t = current
      /\ \A t \in Task : t >= next_pid => state[t] = "unused"
  BY DEF CallerOK, LifeSound, LifeTypeOK, OnlyCurrentRuns, CurrentAwake, UnusedAhead
<1>2. \A t \in Task : t >= next_pid => t \notin W  BY <1>1, BootTasks
<1> QED BY <1>1, <1>2 DEF Wakes, States

\* What a call of this module leaves to the tasks but its caller: they
\* stay in their calls, nobody dies of it, and whoever is parked after it
\* was parked before and is not among the woken W.
OthersStay(S, W) ==
    \A t \in Task \ S :
        /\ op'[t] = op[t] /\ arg'[t] = arg[t]
        /\ state'[t] = "dead" => state[t] = "dead"
        /\ state'[t] = "blocked" => state[t] = "blocked" /\ t \notin W

\* A call that wakes W and stays in user mode, or returns to it.
LEMMA WakingReturns ==
  ASSUME CallerOK, NEW W, \A x \in W : x < next_pid,
         state' = Wakes(state, W),
         Return \/ UNCHANGED <<op, arg>>,
         UNCHANGED <<current, next_pid, parent, sleep_until, handler, pending>>
  PROVE  CallerOK' /\ OthersStay({current}, W) /\ state'[current] \in {"ready", "running"}
<1>1. /\ op \in [Task -> {"user", "wait", "sleep", "sem", "futex", "read", "write"}]
      /\ arg \in [Task -> Nat] /\ current \in Task
  BY DEF CallerOK, LifeSound, LifeTypeOK
<1>2. /\ state' \in [Task -> States]
      /\ state'[current] \in {"ready", "running"}
      /\ \A t \in Task : /\ state'[t] = "running" => t = current
                         /\ t >= next_pid => state'[t] = "unused"
                         /\ state'[t] \in {state[t], "ready"}
                         /\ t \in W => state'[t] # "blocked"
  BY WakesFrame
<1>3. /\ op' \in [Task -> {"user", "wait", "sleep", "sem", "futex", "read", "write"}]
      /\ arg' \in [Task -> Nat]
      /\ \A t \in Task : op'[t] = op[t] \/ op'[t] = "user"
      /\ \A t \in Task : t # current => op'[t] = op[t] /\ arg'[t] = arg[t]
  BY <1>1 DEF Return
<1>4. LifeSound'  BY <1>2, <1>3 DEF CallerOK, LifeSound, LifeTypeOK, OnlyCurrentRuns
<1>5. ProgramsCall' /\ CurrentAwake' /\ UnusedAhead'
  BY <1>2, <1>3 DEF CallerOK, ProgramsCall, CurrentAwake, UnusedAhead
<1> QED BY <1>2, <1>3, <1>4, <1>5 DEF CallerOK, OthersStay

\* A reader or writer that parks itself after it has woken W.
LEMMA WakingParks ==
  ASSUME CallerOK, current \in Programs, NEW W, \A x \in W : x < next_pid,
         NEW o \in OtherCalls, NEW a \in Nat, Park(o, a, Wakes(state, W)),
         UNCHANGED <<next_pid, parent, sleep_until, handler>>
  PROVE  /\ CallerOK' /\ OthersStay({current}, W)
         /\ op'[current] = o /\ state'[current] = "blocked"
<1> DEFINE st == Wakes(state, W)
<1>1. /\ st \in [Task -> States]
      /\ \A t \in Task : /\ st[t] = "running" => t = current
                         /\ t >= next_pid => st[t] = "unused"
                         /\ st[t] \in {state[t], "ready"}
                         /\ t \in W => st[t] # "blocked"
  BY WakesFrame
<1>2. /\ op \in [Task -> {"user", "wait", "sleep", "sem", "futex", "read", "write"}]
      /\ arg \in [Task -> Nat] /\ current \in Task
  BY DEF CallerOK, LifeSound, LifeTypeOK
<1>3. Park(o, a, st)  OBVIOUS
<1> HIDE DEF st
<1>4. CallerOK'  BY <1>1, <1>3, ParkKeepsCaller
<1>5. /\ op' = [op EXCEPT ![current] = o] /\ arg' = [arg EXCEPT ![current] = a]
      /\ state'[current] = "blocked"
      /\ \A t \in Task : t # current => state'[t] = st[t] \/ state'[t] \in {"ready", "running"}
  BY <1>1, <1>3, ParkAwake
<1> QED BY <1>1, <1>2, <1>4, <1>5 DEF OthersStay

\* task_exit() of a caller whose descriptors, closed first, have woken W.
LEMMA WakingExits ==
  ASSUME CallerOK, current \in Programs, NEW W, \A x \in W : x < next_pid,
         TaskExit(Wakes(state, W))
  PROVE  /\ CallerOK' /\ OthersStay({current}, W) /\ UNCHANGED <<op, arg, next_pid>>
         /\ state'[current] = "dead"
<1> DEFINE st == Wakes(state, W)
<1>1. /\ st \in [Task -> States]
      /\ \A t \in Task : /\ st[t] = "running" => t = current
                         /\ t >= next_pid => st[t] = "unused"
                         /\ st[t] \in {state[t], "ready"}
                         /\ t \in W => st[t] # "blocked"
  BY WakesFrame
<1>2. current \in Task /\ current < next_pid /\ next_pid \in Nat /\ next_pid >= 3
  BY CurrentBorn DEF CallerOK, LifeSound, LifeTypeOK
<1>3. TaskExit(st) /\ UNCHANGED <<op, arg, next_pid, parent>>  BY DEF TaskExit
<1> HIDE DEF st
<1>4. LifeSound'  BY <1>1, <1>3, TaskExitSound DEF CallerOK
<1>5. /\ CurrentAwake' /\ ProgramsCall' /\ state'[current] = "dead" /\ KeepsUnused(st)
      /\ \A t \in Task : t # current => state'[t] = st[t] \/ state'[t] \in {"ready", "running"}
  BY <1>1, <1>3, TaskExitAwake
<1>6. UnusedAhead'
  <2>1. \A t \in Task : t >= next_pid => t \notin {current, Idle}  BY <1>2, BootTasks DEF Idle
  <2> QED BY <1>1, <1>3, <1>5, <2>1 DEF KeepsUnused, CallerOK, UnusedAhead
<1> QED BY <1>1, <1>3, <1>4, <1>5, <1>6 DEF CallerOK, OthersStay

\* signal_send() kills v, whose descriptors, closed first, have woken W.
LEMMA WakingKills ==
  ASSUME CallerOK, NEW v \in Task, NEW W, \A x \in W : x < next_pid,
         Terminate(v, Wakes(state, W))
  PROVE  /\ CallerOK' /\ OthersStay({v}, W) /\ UNCHANGED <<op, arg, next_pid>>
         /\ state'[v] \in {"dead", "ready"} /\ v < next_pid
<1> DEFINE st == Wakes(state, W)
           dead == [st EXCEPT ![v] = "dead"]
<1>1. /\ st \in [Task -> States] /\ st[current] \in {"ready", "running"}
      /\ \A t \in Task : /\ st[t] = "running" => t = current
                         /\ t >= next_pid => st[t] = "unused"
                         /\ st[t] \in {state[t], "ready"}
                         /\ t \in W => st[t] # "blocked"
  BY WakesFrame
<1>2. /\ current \in Task /\ v # current /\ state[v] # "unused" /\ next_pid \in Nat
      /\ UNCHANGED <<current, op, arg, next_pid, parent>>
      /\ Terminate(v, st) /\ state' = WakeParent(dead, v)
  BY DEF CallerOK, LifeSound, LifeTypeOK, Terminate, Listed
<1>3. v < next_pid
  <2>1. ~(v >= next_pid)  BY <1>2 DEF CallerOK, UnusedAhead
  <2> QED BY <1>2, <2>1, BootTasks
<1> HIDE DEF st
<1>4. /\ dead \in [Task -> States] /\ dead[v] = "dead"
      /\ \A t \in Task : t # v => dead[t] = st[t]
  BY <1>1 DEF States
<1> HIDE DEF dead
<1>5. LifeSound'  BY <1>1, <1>2, TerminateSound DEF CallerOK
<1>6. \A t \in Task : state'[t] = dead[t] \/ (state'[t] = "ready" /\ dead[t] = "blocked")
  BY <1>2, <1>4, WakeParentFrame
<1>7. CurrentAwake' /\ ProgramsCall'  BY <1>1, <1>2, <1>4, <1>6 DEF CallerOK, CurrentAwake, ProgramsCall
<1>8. UnusedAhead'
  <2>1. \A t \in Task : t >= next_pid => t # v  BY <1>2, <1>3, BootTasks
  <2> QED BY <1>1, <1>2, <1>4, <1>6, <2>1 DEF CallerOK, UnusedAhead
<1> QED BY <1>1, <1>2, <1>3, <1>4, <1>5, <1>6, <1>7, <1>8 DEF CallerOK, OthersStay

------------------------------

\* The invariant of the counters: the two registrations name tasks that
\* were created, a task that does not exist yet has no descriptor, and the
\* counters are right.  EndsCounted alone is not inductive: fork hands its
\* descriptors to a pid that must have had none.
NoEnds == [r |-> 0, w |-> 0]
Ends == [r : 0 .. MaxEnds, w : 0 .. MaxEnds]

Registered(x) == x \in {0} \cup Task /\ x < next_pid

EndsTypeOK ==
    /\ alloc \in BOOLEAN
    /\ fds \in [Task -> Ends]
    /\ Registered(reader_wait) /\ Registered(writer_wait)

FutureNoEnds == \A t \in Task : t >= next_pid => fds[t] = NoEnds

EndsIInv == CallerOK /\ EndsTypeOK /\ FutureNoEnds /\ EndsCounted

\* The descriptors of the tasks for each end.
ReadFds == [t \in Task |-> fds[t].r]
WriteFds == [t \in Task |-> fds[t].w]

\* What the counters say of one task: they are at least its own count.
LEMMA CountersCover ==
  ASSUME EndsIInv, NEW t \in Task
  PROVE  /\ readers \in Nat /\ writers \in Nat
         /\ fds[t] \in Ends /\ fds[t].r \in Nat /\ fds[t].w \in Nat
         /\ readers >= fds[t].r /\ writers >= fds[t].w
<1>1. fds \in [Task -> Ends] /\ readers = Total(ReadFds) /\ writers = Total(WriteFds)
  BY DEF EndsIInv, EndsTypeOK, EndsCounted, ReadFds, WriteFds
<1>2. fds[t] \in Ends /\ fds[t].r \in Nat /\ fds[t].w \in Nat  BY <1>1, PipeAssumption DEF Ends
<1>3. /\ ReadFds \in [Task -> 0 .. MaxEnds] /\ ReadFds[t] = fds[t].r
      /\ WriteFds \in [Task -> 0 .. MaxEnds] /\ WriteFds[t] = fds[t].w
  BY <1>1 DEF ReadFds, WriteFds, Ends
<1>4. /\ Total(ReadFds) \in Nat /\ Total(ReadFds) >= ReadFds[t]
      /\ Total(WriteFds) \in Nat /\ Total(WriteFds) >= WriteFds[t]
  BY <1>3, TotalChange
<1> QED BY <1>1, <1>2, <1>3, <1>4

\* A step that gives task t the descriptors e instead of its own, counts
\* the difference, and frees the pipe with the last one keeps the
\* counters right, if whoever dies in it has none left.
LEMMA EndsMove ==
  ASSUME EndsIInv, CallerOK', NEW t \in Task, NEW e \in Ends,
         fds' = [fds EXCEPT ![t] = e],
         readers' = (readers - fds[t].r) + e.r,
         writers' = (writers - fds[t].w) + e.w,
         alloc' \in BOOLEAN, alloc' <=> readers' + writers' > 0,
         next_pid' \in {next_pid, next_pid + 1}, t < next_pid' \/ e = NoEnds,
         \A u \in Task : state'[u] = "dead" =>
             \/ u # t /\ state[u] = "dead"
             \/ u = t /\ e = NoEnds
             \/ u # t /\ fds[u] = NoEnds,
         reader_wait' \in {0, reader_wait, current}, writer_wait' \in {0, writer_wait, current}
  PROVE  EndsIInv'
<1>0. /\ fds \in [Task -> Ends] /\ readers = Total(ReadFds) /\ writers = Total(WriteFds)
      /\ next_pid \in Nat /\ next_pid >= 3 /\ t \in Nat
      /\ \A u \in Task : state[u] = "dead" => fds[u] = NoEnds
      /\ \A u \in Task : u >= next_pid => fds[u] = NoEnds
  BY BootTasks DEF EndsIInv, EndsTypeOK, EndsCounted, ReadFds, WriteFds, CallerOK, LifeSound,
                   LifeTypeOK, FutureNoEnds, NoEnds
<1>1. fds' \in [Task -> Ends] /\ fds'[t] = e /\ \A u \in Task : u # t => fds'[u] = fds[u]  BY <1>0
<1>2. /\ ReadFds \in [Task -> 0 .. MaxEnds] /\ ReadFds' \in [Task -> 0 .. MaxEnds]
      /\ WriteFds \in [Task -> 0 .. MaxEnds] /\ WriteFds' \in [Task -> 0 .. MaxEnds]
      /\ ReadFds[t] = fds[t].r /\ ReadFds'[t] = e.r
      /\ WriteFds[t] = fds[t].w /\ WriteFds'[t] = e.w
      /\ \A u \in Task : u # t => ReadFds'[u] = ReadFds[u] /\ WriteFds'[u] = WriteFds[u]
  BY <1>0, <1>1 DEF ReadFds, WriteFds, Ends
<1>3. Total(ReadFds') = (Total(ReadFds) - fds[t].r) + e.r  BY <1>2, TotalChange
<1>4. Total(WriteFds') = (Total(WriteFds) - fds[t].w) + e.w  BY <1>2, TotalChange
<1>5. readers' = Total(ReadFds') /\ writers' = Total(WriteFds')  BY <1>0, <1>3, <1>4
<1>6. \A u \in Task : state'[u] = "dead" => fds'[u] = NoEnds  BY <1>0, <1>1
<1>7. EndsCounted'  BY <1>5, <1>6 DEF EndsCounted, ReadFds, WriteFds, NoEnds
<1>8. FutureNoEnds'
  <2> SUFFICES ASSUME NEW u \in Task, u >= next_pid' PROVE fds'[u] = NoEnds  BY DEF FutureNoEnds
  <2>1. u \in Nat /\ u >= next_pid  BY <1>0, BootTasks
  <2> QED BY <1>0, <1>1, <2>1
<1>9. EndsTypeOK'
  <2>1. Registered(reader_wait)' /\ Registered(writer_wait)'
    <3>1. /\ reader_wait \in {0} \cup Task /\ reader_wait < next_pid
          /\ writer_wait \in {0} \cup Task /\ writer_wait < next_pid
          /\ current \in Task /\ current < next_pid
      BY CurrentBorn DEF EndsIInv, EndsTypeOK, Registered
    <3>2. \A x \in {0} \cup Task : x \in Nat  BY BootTasks
    <3> QED BY <1>0, <3>1, <3>2 DEF Registered
  <2> QED BY <1>1, <2>1 DEF EndsTypeOK
<1> QED BY <1>7, <1>8, <1>9 DEF EndsIInv

\* A step that opens and closes nothing.
LEMMA EndsStay ==
  ASSUME EndsIInv, CallerOK', UNCHANGED <<alloc, readers, writers, fds>>,
         next_pid' \in {next_pid, next_pid + 1},
         \A u \in Task : state'[u] = "dead" => state[u] = "dead" \/ u >= next_pid,
         reader_wait' \in {0, reader_wait, current}, writer_wait' \in {0, writer_wait, current}
  PROVE  EndsIInv'
<1>1. current \in Task /\ current < next_pid /\ next_pid \in Nat /\ current \in Nat
  BY CurrentBorn, BootTasks DEF EndsIInv, CallerOK, LifeSound, LifeTypeOK
<1>2. /\ fds \in [Task -> Ends] /\ alloc \in BOOLEAN /\ (alloc <=> readers + writers > 0)
      /\ \A u \in Task : state[u] = "dead" => fds[u] = NoEnds
      /\ \A u \in Task : u >= next_pid => fds[u] = NoEnds
  BY DEF EndsIInv, EndsTypeOK, EndsCounted, FutureNoEnds, NoEnds
<1>3. /\ readers \in Nat /\ writers \in Nat /\ fds[current] \in Ends
      /\ fds[current].r \in Nat /\ fds[current].w \in Nat
  BY <1>1, CountersCover
<1>4. /\ fds' = [fds EXCEPT ![current] = fds[current]]
      /\ readers' = (readers - fds[current].r) + fds[current].r
      /\ writers' = (writers - fds[current].w) + fds[current].w
      /\ alloc' \in BOOLEAN /\ (alloc' <=> readers' + writers' > 0)
      /\ current < next_pid'
  BY <1>1, <1>2, <1>3
<1>5. \A u \in Task : state'[u] = "dead" =>
               \/ u # current /\ state[u] = "dead"
               \/ u = current /\ fds[current] = NoEnds
               \/ u # current /\ fds[u] = NoEnds
  BY <1>2
<1> QED BY <1>1, <1>3, <1>4, <1>5, EndsMove

------------------------------

\* Nobody dies of the timer, of wait(), of a new handler or of a signal
\* that has one; a failed fork leaves a dead task behind that is new.
LifeAround ==
    \/ Tick \/ WaitAgain \/ SetHandler
    \/ \E pid \in {AnyChild} \cup Task : Wait(pid)
    \/ \E v \in Task : Notify(v)

\* Only a new task can be dead that was not dead before.
LEMMA AroundKillsNobody ==
  ASSUME CallerOK, LifeAround \/ \E ok \in BOOLEAN : Fork(ok)
  PROVE  \A u \in Task : state'[u] = "dead" => state[u] = "dead" \/ u >= next_pid
<1>0. /\ state \in [Task -> States] /\ current \in Task
      /\ state[current] \in {"ready", "running"} /\ next_pid \in Nat
  BY DEF CallerOK, LifeSound, LifeTypeOK, CurrentAwake
<1> DEFINE Goal == \A u \in Task : state'[u] = "dead" => state[u] = "dead" \/ u >= next_pid
<1>1. ASSUME NEW pid, WaitRound(pid), current \in Programs PROVE Goal
  <2>1. CASE Zombies(current, pid) # {} /\ ReapFirst(Zombies(current, pid)) /\ Return
    <3> DEFINE z == Min(Zombies(current, pid))
    <3>1. z \in Task /\ state[z] = "dead"  BY <2>1, <1>0, ReapsZombie DEF CallerOK
    <3>2. state' = [state EXCEPT ![z] = "freed"]  BY <2>1 DEF ReapFirst
    <3> HIDE DEF z
    <3> QED BY <1>0, <3>1, <3>2
  <2>2. CASE Return /\ UNCHANGED <<state, current, pending>>  BY <2>2
  <2>3. CASE Park("wait", pid, state)  BY <1>0, <1>1, <2>3, ParkAwake
  <2> QED BY <1>1, <2>1, <2>2, <2>3 DEF WaitRound
<1>2. CASE Tick  BY <1>2, TickAwake
<1>3. CASE WaitAgain
  <2>1. current \in Programs  BY <1>0, <1>3 DEF WaitAgain, CallerOK, ProgramsCall
  <2> QED BY <1>1, <1>3, <2>1 DEF WaitAgain
<1>4. CASE SetHandler  BY <1>4 DEF SetHandler
<1>5. ASSUME NEW pid \in {AnyChild} \cup Task, Wait(pid) PROVE Goal  BY <1>1, <1>5 DEF Wait, Calls
<1>6. ASSUME NEW v \in Task, Notify(v) PROVE Goal  BY <1>0, <1>6 DEF Notify
<1>7. ASSUME NEW ok \in BOOLEAN, Fork(ok) PROVE Goal  BY <1>0, <1>7 DEF Fork
<1> QED BY <1>2, <1>3, <1>4, <1>5, <1>6, <1>7 DEF LifeAround

\* fork: the child gets the ends of its parent and they are counted; with
\* ends to copy the pipe is open already.
LEMMA EndsForked ==
  ASSUME EndsIInv, NEW ok \in BOOLEAN, PipeFork(ok)
  PROVE  EndsIInv'
<1>1. Fork(ok) /\ UNCHANGED <<alloc, reader_wait, writer_wait>>  BY DEF PipeFork
<1>2. CallerOK'  BY <1>1, LifeLeavesCalls DEF LifeNext, EndsIInv
<1>3. /\ next_pid \in Task /\ next_pid' = next_pid + 1 /\ current \in Task
      /\ next_pid \in Nat
      /\ state' = [state EXCEPT ![next_pid] = IF ok THEN "ready" ELSE "dead"]
      /\ state \in [Task -> States] /\ fds \in [Task -> Ends]
  BY <1>1, MaxTaskAssumption
     DEF Fork, Task, EndsIInv, EndsTypeOK, CallerOK, LifeSound, LifeTypeOK
<1>4. fds[next_pid] = NoEnds  BY <1>3 DEF EndsIInv, FutureNoEnds
<1>5. CASE ok
  <2>1. /\ fds' = [fds EXCEPT ![next_pid] = fds[current]]
        /\ readers' = readers + fds[current].r /\ writers' = writers + fds[current].w
    BY <1>5 DEF PipeFork
  <2>2. /\ readers \in Nat /\ writers \in Nat /\ fds[current] \in Ends
        /\ fds[current].r \in Nat /\ fds[current].w \in Nat
        /\ readers >= fds[current].r /\ writers >= fds[current].w
    BY <1>3, CountersCover
  <2>3. /\ readers' = (readers - fds[next_pid].r) + fds[current].r
        /\ writers' = (writers - fds[next_pid].w) + fds[current].w
    BY <1>4, <2>1, <2>2 DEF NoEnds
  <2>4. alloc \in BOOLEAN /\ (alloc <=> readers + writers > 0)  BY DEF EndsIInv, EndsTypeOK, EndsCounted
  <2>5. alloc' \in BOOLEAN /\ (alloc' <=> readers' + writers' > 0)  BY <1>1, <2>1, <2>2, <2>4
  <2>6. \A u \in Task : state'[u] = "dead" =>
               \/ u # next_pid /\ state[u] = "dead"
               \/ u = next_pid /\ fds[current] = NoEnds
               \/ u # next_pid /\ fds[u] = NoEnds
    BY <1>3, <1>5
  <2>7. /\ next_pid' \in {next_pid, next_pid + 1} /\ next_pid < next_pid'
        /\ reader_wait' \in {0, reader_wait, current}
        /\ writer_wait' \in {0, writer_wait, current}
    BY <1>1, <1>3
  <2> QED BY <1>2, <1>3, <2>1, <2>2, <2>3, <2>5, <2>6, <2>7, EndsMove
<1>6. CASE ~ok
  <2>1. UNCHANGED <<alloc, readers, writers, fds>>  BY <1>1, <1>6 DEF PipeFork
  <2>2. \A u \in Task : state'[u] = "dead" => state[u] = "dead" \/ u >= next_pid
    BY <1>1, AroundKillsNobody DEF EndsIInv
  <2> QED BY <1>1, <1>2, <1>3, <2>1, <2>2, EndsStay
<1> QED BY <1>5, <1>6

\* dup2() of an end gives its caller one more.
LEMMA EndsDuplicated ==
  ASSUME EndsIInv, NEW e \in {"r", "w"}, Dup(e)
  PROVE  EndsIInv'
<1>1. /\ current \in Task /\ fds \in [Task -> Ends] /\ current < next_pid /\ next_pid \in Nat
      /\ alloc \in BOOLEAN /\ (alloc <=> readers + writers > 0)
      /\ \A u \in Task : state[u] = "dead" => fds[u] = NoEnds
  BY CurrentBorn DEF EndsIInv, EndsTypeOK, EndsCounted, CallerOK, LifeSound, LifeTypeOK, NoEnds
<1>2. /\ readers \in Nat /\ writers \in Nat /\ fds[current] \in Ends
      /\ fds[current].r \in Nat /\ fds[current].w \in Nat
      /\ readers >= fds[current].r /\ writers >= fds[current].w
  BY <1>1, CountersCover
<1>3. /\ fds[current][e] \in 1 .. MaxEnds - 1
      /\ fds' = [fds EXCEPT ![current][e] = @ + 1]
      /\ readers' = readers + (IF e = "r" THEN 1 ELSE 0)
      /\ writers' = writers + (IF e = "w" THEN 1 ELSE 0)
      /\ UNCHANGED <<alloc, reader_wait, writer_wait>> /\ UNCHANGED lifeVars
  BY DEF Dup
<1> DEFINE more == [fds[current] EXCEPT ![e] = @ + 1]
<1>4. /\ more \in Ends
      /\ more.r = fds[current].r + (IF e = "r" THEN 1 ELSE 0)
      /\ more.w = fds[current].w + (IF e = "w" THEN 1 ELSE 0)
      /\ fds[current] # NoEnds
  <2>1. CASE e = "r"  BY <1>2, <1>3, <2>1, PipeAssumption DEF Ends, NoEnds
  <2>2. CASE e = "w"  BY <1>2, <1>3, <2>2, PipeAssumption DEF Ends, NoEnds
  <2> QED BY <2>1, <2>2
<1>5. fds' = [fds EXCEPT ![current] = more]  BY <1>1, <1>3
<1> HIDE DEF more
<1>6. CallerOK'
  BY <1>3 DEF lifeVars, EndsIInv, CallerOK, LifeSound, LifeTypeOK, OnlyCurrentRuns, ProgramsCall,
              CurrentAwake, UnusedAhead
<1>7. /\ readers' = (readers - fds[current].r) + more.r
      /\ writers' = (writers - fds[current].w) + more.w
  BY <1>2, <1>3, <1>4
<1>8. alloc' \in BOOLEAN /\ (alloc' <=> readers' + writers' > 0)
  <2>1. readers + writers > 0
    <3>1. CASE e = "r"  BY <1>2, <1>3, <3>1
    <3>2. CASE e = "w"  BY <1>2, <1>3, <3>2
    <3> QED BY <3>1, <3>2
  <2> QED BY <1>1, <1>2, <1>3, <2>1
<1>9. \A u \in Task : state'[u] = "dead" =>
               \/ u # current /\ state[u] = "dead"
               \/ u = current /\ more = NoEnds
               \/ u # current /\ fds[u] = NoEnds
  BY <1>1, <1>3, <1>4 DEF lifeVars
<1>10. /\ next_pid' \in {next_pid, next_pid + 1} /\ current < next_pid'
       /\ reader_wait' \in {0, reader_wait, current}
       /\ writer_wait' \in {0, writer_wait, current}
  BY <1>1, <1>3 DEF lifeVars
<1> QED BY <1>1, <1>4, <1>5, <1>6, <1>7, <1>8, <1>9, <1>10, EndsMove

\* pipe_close_end() for ends that task t has: whom it wakes was created.
LEMMA EndsClosed ==
  ASSUME EndsIInv, CallerOK', NEW t \in Task, t < next_pid, UNCHANGED next_pid,
         NEW r \in Nat, NEW w \in Nat, r <= fds[t].r, w <= fds[t].w,
         CloseEnds(t, r, w),
         \A u \in Task : state'[u] = "dead" =>
             \/ u # t /\ state[u] = "dead"
             \/ u = t /\ r = fds[t].r /\ w = fds[t].w
  PROVE  EndsIInv'
<1> DEFINE less == [r |-> fds[t].r - r, w |-> fds[t].w - w]
<1>1. /\ fds \in [Task -> Ends] /\ alloc \in BOOLEAN /\ (alloc <=> readers + writers > 0)
      /\ next_pid \in Nat
  BY DEF EndsIInv, EndsTypeOK, EndsCounted, CallerOK, LifeSound, LifeTypeOK
<1>2. /\ readers \in Nat /\ writers \in Nat /\ fds[t] \in Ends
      /\ fds[t].r \in Nat /\ fds[t].w \in Nat
      /\ readers >= fds[t].r /\ writers >= fds[t].w
      /\ fds[t].r <= MaxEnds /\ fds[t].w <= MaxEnds
  BY CountersCover DEF Ends
<1>3. /\ fds' = [fds EXCEPT ![t] = less]
      /\ readers' = readers - r /\ writers' = writers - w
      /\ reader_wait' \in {0, reader_wait, current} /\ writer_wait' \in {0, writer_wait, current}
      /\ alloc' = (alloc /\ (r + w = 0 \/ readers' + writers' > 0))
  BY <1>1 DEF CloseEnds
<1>4. less \in Ends /\ less.r = fds[t].r - r /\ less.w = fds[t].w - w
      /\ (r = fds[t].r /\ w = fds[t].w => less = NoEnds)
  BY <1>2, PipeAssumption DEF Ends, NoEnds
<1> HIDE DEF less
<1>5. /\ readers' = (readers - fds[t].r) + less.r
      /\ writers' = (writers - fds[t].w) + less.w
  BY <1>2, <1>3, <1>4
<1>6. alloc' \in BOOLEAN /\ (alloc' <=> readers' + writers' > 0)
  <2>1. CASE r + w = 0
    <3>1. readers' = readers /\ writers' = writers /\ alloc' = alloc  BY <1>1, <1>2, <1>3, <2>1
    <3> QED BY <1>1, <3>1
  <2>2. CASE r + w # 0
    <3>1. readers + writers > 0  BY <1>2, <2>2
    <3>2. alloc = TRUE  BY <1>1, <3>1
    <3>3. CASE readers' + writers' > 0
      <4>1. alloc' = TRUE  BY <1>3, <3>2, <3>3, Zenon
      <4> QED BY <3>3, <4>1
    <3>4. CASE ~(readers' + writers' > 0)
      <4>1. alloc' = FALSE  BY <1>3, <2>2, <3>4, Zenon
      <4> QED BY <3>4, <4>1
    <3> QED BY <3>3, <3>4
  <2> QED BY <2>1, <2>2
<1>7. \A u \in Task : state'[u] = "dead" =>
               \/ u # t /\ state[u] = "dead"
               \/ u = t /\ less = NoEnds
               \/ u # t /\ fds[u] = NoEnds
  BY <1>4
<1>8. next_pid' \in {next_pid, next_pid + 1} /\ t < next_pid'  OBVIOUS
<1> QED BY <1>1, <1>3, <1>4, <1>5, <1>6, <1>7, <1>8, EndsMove

\* Whom pipe_close_end() wakes was created.
LEMMA ReleasedBorn ==
  ASSUME EndsIInv, NEW r, NEW w
  PROVE  \A x \in Released(r, w) : x < next_pid
BY DEF Released, EndsIInv, EndsTypeOK, Registered

------------------------------

\* Waking nobody changes nothing.
LEMMA WakesNobody ==
  ASSUME CallerOK
  PROVE  Wakes(state, {}) = state
BY DEF Wakes, CallerOK, LifeSound, LifeTypeOK

\* How many bytes a round of pipe_write_block() puts, and whom it wakes.
Put(c) == Min({c.len - c.written, PipeSize - Len(buf)})
WokenByPut(c) == IF Put(c) > 0 THEN {reader_wait} ELSE {}

\* A round of pipe_write_block(): the writer returns, or registers itself
\* and parks with bytes left over and a reader still there.
LEMMA WriteRoundMoves ==
  ASSUME CallerOK, current \in Programs, Registered(reader_wait), NEW c, NEW b,
         WriteRound(c, b)
  PROVE  /\ CallerOK' /\ OthersStay({current}, WokenByPut(c)) /\ state'[current] # "dead"
         /\ UNCHANGED <<next_pid, alloc, readers, writers, fds>>
         /\ reader_wait' = (IF Put(c) > 0 THEN 0 ELSE reader_wait)
         /\ \/ /\ op'[current] = "user"
               /\ UNCHANGED writer_wait
               /\ call' = [call EXCEPT ![current] = NoCall]
            \/ /\ op'[current] = "write"
               /\ writer_wait' = current
               /\ c.written + Put(c) < c.len /\ readers > 0
               /\ call' = [call EXCEPT ![current] = [c EXCEPT !.written = c.written + Put(c)]]
<1> DEFINE W == WokenByPut(c)
           st == IF Put(c) > 0 THEN Wakes(state, {reader_wait}) ELSE state
<1>1. st = Wakes(state, W) /\ \A x \in W : x < next_pid  BY WakesNobody DEF WokenByPut, Registered
<1>2. /\ UNCHANGED <<next_pid, parent, sleep_until, handler, alloc, readers, writers, fds>>
      /\ reader_wait' = (IF Put(c) > 0 THEN 0 ELSE reader_wait)
      /\ \/ /\ Return
            /\ state' = st
            /\ call' = [call EXCEPT ![current] = NoCall]
            /\ UNCHANGED <<current, pending, writer_wait>>
         \/ /\ c.written + Put(c) < c.len /\ readers > 0
            /\ writer_wait' = current
            /\ call' = [call EXCEPT ![current] = [c EXCEPT !.written = c.written + Put(c)]]
            /\ Park("write", 0, st)
  BY DEF WriteRound, Put
<1> HIDE DEF st, W
<1>3. CASE /\ Return /\ state' = st
           /\ call' = [call EXCEPT ![current] = NoCall]
           /\ UNCHANGED <<current, pending, writer_wait>>
  <2>1. CallerOK' /\ OthersStay({current}, W) /\ state'[current] \in {"ready", "running"}
    BY <1>1, <1>2, <1>3, WakingReturns
  <2>2. op'[current] = "user"  BY <1>3 DEF Return, CallerOK, LifeSound, LifeTypeOK
  <2> QED BY <1>2, <1>3, <2>1, <2>2 DEF W
<1>4. CASE /\ c.written + Put(c) < c.len /\ readers > 0
           /\ writer_wait' = current
           /\ call' = [call EXCEPT ![current] = [c EXCEPT !.written = c.written + Put(c)]]
           /\ Park("write", 0, st)
  <2>1. /\ CallerOK' /\ OthersStay({current}, W)
        /\ op'[current] = "write" /\ state'[current] = "blocked"
    <3>1. "write" \in OtherCalls /\ 0 \in Nat /\ Park("write", 0, Wakes(state, W))  BY <1>1, <1>4 DEF OtherCalls
    <3> QED BY <1>1, <1>2, <3>1, WakingParks
  <2> QED BY <1>2, <1>4, <2>1 DEF W
<1> QED BY <1>2, <1>3, <1>4

\* A round of pipe_read_block(): end of file, a reader that registers
\* itself and parks on an empty pipe with a writer, or bytes taken and the
\* writer woken.
LEMMA ReadRoundMoves ==
  ASSUME CallerOK, current \in Programs, Registered(writer_wait), NEW n \in Nat,
         ReadRound(n)
  PROVE  /\ CallerOK' /\ state'[current] # "dead"
         /\ UNCHANGED <<next_pid, alloc, readers, writers, fds, call, stamp>>
         /\ \/ /\ OthersStay({current}, {})
               /\ op'[current] = "user"
               /\ UNCHANGED <<buf, bounce_buf, reader_wait, writer_wait>>
            \/ /\ OthersStay({current}, {})
               /\ op'[current] = "read"
               /\ buf = << >> /\ writers > 0
               /\ reader_wait' = current
               /\ UNCHANGED <<buf, bounce_buf, writer_wait>>
            \/ /\ OthersStay({current}, {writer_wait})
               /\ op'[current] = "user"
               /\ writer_wait' = 0
               /\ buf' = SubSeq(buf, Min({n, Len(buf)}) + 1, Len(buf))
               /\ bounce_buf' = [k \in 1 .. PipeSize |->
                                    IF k <= Min({n, Len(buf)}) THEN buf[k] ELSE bounce_buf[k]]
               /\ buf # << >> /\ UNCHANGED reader_wait
<1>1. UNCHANGED <<next_pid, parent, sleep_until, handler, call, stamp>>  BY DEF ReadRound
<1>2. CASE /\ Return
           /\ UNCHANGED <<state, current, pending, endVars, buf, bounce_buf>>
  <2>1. state' = Wakes(state, {}) /\ (Return \/ UNCHANGED <<op, arg>>)  BY <1>2, WakesNobody
  <2>2. CallerOK' /\ OthersStay({current}, {}) /\ state'[current] \in {"ready", "running"}
    BY <1>1, <1>2, <2>1, WakesNobody, WakingReturns
  <2>3. op'[current] = "user"  BY <1>2 DEF Return, CallerOK, LifeSound, LifeTypeOK
  <2> QED BY <1>1, <1>2, <2>2, <2>3 DEF endVars
<1>3. CASE /\ buf = << >> /\ writers > 0
           /\ reader_wait' = current
           /\ Park("read", n, state)
           /\ UNCHANGED <<alloc, readers, writers, writer_wait, fds, buf, bounce_buf>>
  <2>1. "read" \in OtherCalls /\ Park("read", n, Wakes(state, {}))  BY <1>3, WakesNobody DEF OtherCalls
  <2>2. /\ CallerOK' /\ OthersStay({current}, {})
        /\ op'[current] = "read" /\ state'[current] = "blocked"
    BY <1>1, <2>1, WakingParks
  <2> QED BY <1>1, <1>3, <2>2
<1>4. CASE /\ buf # << >>
           /\ buf' = SubSeq(buf, Min({n, Len(buf)}) + 1, Len(buf))
           /\ bounce_buf' = [k \in 1 .. PipeSize |->
                                IF k <= Min({n, Len(buf)}) THEN buf[k] ELSE bounce_buf[k]]
           /\ state' = Wakes(state, {writer_wait})
           /\ writer_wait' = 0
           /\ Return
           /\ UNCHANGED <<current, pending, alloc, readers, writers, reader_wait, fds>>
  <2> DEFINE W == {writer_wait}
  <2>1. /\ \A x \in W : x < next_pid
        /\ state' = Wakes(state, W) /\ (Return \/ UNCHANGED <<op, arg>>)
    BY <1>4 DEF Registered
  <2>2. CallerOK' /\ OthersStay({current}, W) /\ state'[current] \in {"ready", "running"}
    <3> HIDE DEF W
    <3> QED BY <1>1, <1>4, <2>1, WakingReturns
  <2>3. op'[current] = "user"  BY <1>4 DEF Return, CallerOK, LifeSound, LifeTypeOK
  <2> QED BY <1>1, <1>4, <2>2, <2>3
<1> QED BY <1>2, <1>3, <1>4 DEF ReadRound

\* A program that reads or writes is one of the programs, whether it calls
\* or is resumed inside of its call.
LEMMA CallersArePrograms ==
  ASSUME CallerOK, PipeCalls \/ op[current] \in {"read", "write"}
  PROVE  current \in Programs
BY DEF CallerOK, LifeSound, LifeTypeOK, ProgramsCall, PipeCalls, Programs

\* Every step keeps the counters right.
LEMMA EndsIInvStep == EndsIInv /\ [PipeNext]_pipeAllVars => EndsIInv'
<1> SUFFICES ASSUME EndsIInv, [PipeNext]_pipeAllVars PROVE EndsIInv'  OBVIOUS
<1>0. /\ CallerOK /\ current \in Task /\ current < next_pid /\ next_pid \in Nat
      /\ Registered(reader_wait) /\ Registered(writer_wait)
      /\ \A u \in Task : fds[u].r \in Nat /\ fds[u].w \in Nat
      /\ arg \in [Task -> Nat]
  BY CurrentBorn, CountersCover DEF EndsIInv, EndsTypeOK, CallerOK, LifeSound, LifeTypeOK
<1>1. CASE LifeAround /\ UNCHANGED pipeVars
  <2>1. LifeNext  BY <1>1 DEF LifeAround, LifeNext
  <2>2. CallerOK' /\ next_pid' \in {next_pid, next_pid + 1}
    BY <1>0, <2>1, LifeLeavesCalls, PidsGrow DEF CallerOK
  <2>3. \A u \in Task : state'[u] = "dead" => state[u] = "dead" \/ u >= next_pid
    BY <1>0, <1>1, AroundKillsNobody
  <2> QED BY <1>1, <2>2, <2>3, EndsStay DEF pipeVars, endVars
<1>2. ASSUME NEW v \in Task, PipeKill(v) PROVE EndsIInv'
  <2> DEFINE r == fds[v].r
             w == fds[v].w
  <2>1. /\ CloseEnds(v, r, w) /\ Terminate(v, Wakes(state, Released(r, w)))
        /\ r \in Nat /\ w \in Nat /\ r <= fds[v].r /\ w <= fds[v].w
    BY <1>0, <1>2 DEF PipeKill
  <2>2. r = fds[v].r /\ w = fds[v].w  OBVIOUS
  <2> HIDE DEF r, w
  <2>3. CallerOK' /\ OthersStay({v}, Released(r, w)) /\ UNCHANGED next_pid /\ v < next_pid
    BY <1>0, <2>1, ReleasedBorn, WakingKills
  <2>4. \A u \in Task : state'[u] = "dead" =>
               \/ u # v /\ state[u] = "dead"
               \/ u = v /\ r = fds[v].r /\ w = fds[v].w
    BY <2>2, <2>3 DEF OthersStay
  <2> QED BY <2>1, <2>3, <2>4, EndsClosed
<1>3. ASSUME NEW ok \in BOOLEAN, PipeFork(ok) PROVE EndsIInv'  BY <1>3, EndsForked
<1>4. CASE PipeExit
  <2> DEFINE r == fds[current].r
             w == fds[current].w
  <2>1. /\ CloseEnds(current, r, w) /\ TaskExit(Wakes(state, Released(r, w)))
        /\ current \in Programs
        /\ r \in Nat /\ w \in Nat /\ r <= fds[current].r /\ w <= fds[current].w
    BY <1>0, <1>4 DEF PipeExit, Calls
  <2>2. r = fds[current].r /\ w = fds[current].w  OBVIOUS
  <2> HIDE DEF r, w
  <2>3. CallerOK' /\ OthersStay({current}, Released(r, w)) /\ UNCHANGED next_pid
    BY <1>0, <2>1, ReleasedBorn, WakingExits
  <2>4. \A u \in Task : state'[u] = "dead" =>
               \/ u # current /\ state[u] = "dead"
               \/ u = current /\ r = fds[current].r /\ w = fds[current].w
    BY <2>2, <2>3 DEF OthersStay
  <2> QED BY <1>0, <2>1, <2>3, <2>4, EndsClosed
<1>5. ASSUME NEW e \in {"r", "w"}, Dup(e) PROVE EndsIInv'  BY <1>5, EndsDuplicated
<1>6. ASSUME NEW e \in {"r", "w"}, Close(e) PROVE EndsIInv'
  <2> DEFINE r == IF e = "r" THEN 1 ELSE 0
             w == IF e = "w" THEN 1 ELSE 0
  <2>1. /\ CloseEnds(current, r, w) /\ state' = Wakes(state, Released(r, w))
        /\ r \in Nat /\ w \in Nat /\ r <= fds[current].r /\ w <= fds[current].w
        /\ UNCHANGED <<current, next_pid, parent, op, arg, sleep_until, handler, pending>>
    BY <1>0, <1>6 DEF Close
  <2> HIDE DEF r, w
  <2>2. /\ CallerOK' /\ OthersStay({current}, Released(r, w))
        /\ state'[current] \in {"ready", "running"}
    BY <1>0, <2>1, ReleasedBorn, WakingReturns
  <2>3. \A u \in Task : state'[u] = "dead" =>
               \/ u # current /\ state[u] = "dead"
               \/ u = current /\ r = fds[current].r /\ w = fds[current].w
    BY <2>2 DEF OthersStay
  <2> QED BY <1>0, <2>1, <2>2, <2>3, EndsClosed
<1>7. ASSUME NEW c, NEW b, WriteRound(c, b), current \in Programs PROVE EndsIInv'
  <2>1. /\ CallerOK' /\ OthersStay({current}, WokenByPut(c)) /\ state'[current] # "dead"
        /\ UNCHANGED <<next_pid, alloc, readers, writers, fds>>
        /\ reader_wait' \in {0, reader_wait, current}
        /\ writer_wait' \in {0, writer_wait, current}
    BY <1>0, <1>7, WriteRoundMoves
  <2>2. \A u \in Task : state'[u] = "dead" => state[u] = "dead" \/ u >= next_pid  BY <2>1 DEF OthersStay
  <2> QED BY <1>0, <2>1, <2>2, EndsStay
<1>8. ASSUME NEW n \in Nat, ReadRound(n), current \in Programs PROVE EndsIInv'
  <2>1. /\ CallerOK' /\ state'[current] # "dead"
        /\ OthersStay({current}, {}) \/ OthersStay({current}, {writer_wait})
        /\ UNCHANGED <<next_pid, alloc, readers, writers, fds>>
        /\ reader_wait' \in {0, reader_wait, current}
        /\ writer_wait' \in {0, writer_wait, current}
    BY <1>0, <1>8, ReadRoundMoves
  <2>2. \A u \in Task : state'[u] = "dead" => state[u] = "dead" \/ u >= next_pid  BY <2>1 DEF OthersStay
  <2> QED BY <1>0, <2>1, <2>2, EndsStay
<1>9. ASSUME NEW n \in 1 .. PipeSize + 1, Write(n) PROVE EndsIInv'
  BY <1>0, <1>7, <1>9, CallersArePrograms DEF Write
<1>10. ASSUME NEW n \in 1 .. PipeSize, Read(n) PROVE EndsIInv'
  <2>1. n \in Nat  BY PipeAssumption
  <2> QED BY <1>0, <1>8, <1>10, <2>1, CallersArePrograms DEF Read
<1>11. CASE WriteAgain  BY <1>0, <1>7, <1>11, CallersArePrograms DEF WriteAgain
<1>12. CASE ReadAgain  BY <1>0, <1>8, <1>12, CallersArePrograms DEF ReadAgain
<1>13. CASE UNCHANGED pipeAllVars
  BY <1>13 DEF pipeAllVars, lifeVars, pipeVars, endVars, EndsIInv, CallerOK, LifeSound, LifeTypeOK,
               OnlyCurrentRuns, ProgramsCall, CurrentAwake, UnusedAhead, EndsTypeOK, Registered,
               FutureNoEnds, EndsCounted
<1> QED BY <1>1, <1>2, <1>3, <1>4, <1>5, <1>6, <1>9, <1>10, <1>11, <1>12, <1>13
     DEF PipeNext, LifeAround

\* The first user task has called pipe(): it holds both ends.
LEMMA InitEndsIInv == PipeInit => EndsIInv
<1> SUFFICES ASSUME PipeInit PROVE EndsIInv  OBVIOUS
<1>1. CallerOK  BY InitCallerOK DEF PipeInit
<1>2. /\ Init1st \in Task /\ next_pid = 4 /\ Init1st = 3
      /\ 0 \in 0 .. MaxEnds /\ 1 \in 0 .. MaxEnds
      /\ \A u \in Task : state[u] # "dead"
  BY PipeAssumption, MaxTaskAssumption DEF PipeInit, LifeInit, Init1st, Task
<1>3. /\ fds = [t \in Task |-> IF t = Init1st THEN [r |-> 1, w |-> 1] ELSE [r |-> 0, w |-> 0]]
      /\ readers = 1 /\ writers = 1 /\ alloc = TRUE /\ reader_wait = 0 /\ writer_wait = 0
  BY DEF PipeInit
<1> DEFINE none == [t \in Task |-> 0]
<1>4. Total(none) = 0
  <2>1. Held(none) = {}  BY DEF Held
  <2> QED BY <2>1, FS_EmptySet DEF Total
<1>5. none \in [Task -> 0 .. MaxEnds] /\ \A t \in Task : none[t] = 0  BY <1>2
<1> HIDE DEF none
<1>6. /\ ReadFds \in [Task -> 0 .. MaxEnds] /\ WriteFds \in [Task -> 0 .. MaxEnds]
      /\ ReadFds[Init1st] = 1 /\ WriteFds[Init1st] = 1
      /\ \A t \in Task : t # Init1st => ReadFds[t] = none[t] /\ WriteFds[t] = none[t]
  BY <1>2, <1>3, <1>5 DEF ReadFds, WriteFds
<1>7. Total(ReadFds) = (Total(none) - none[Init1st]) + 1  BY <1>2, <1>5, <1>6, TotalChange
<1>8. Total(WriteFds) = (Total(none) - none[Init1st]) + 1  BY <1>2, <1>5, <1>6, TotalChange
<1>9. EndsCounted  BY <1>2, <1>3, <1>4, <1>5, <1>7, <1>8 DEF EndsCounted, ReadFds, WriteFds
<1>10. EndsTypeOK /\ FutureNoEnds  BY <1>2, <1>3 DEF EndsTypeOK, Registered, Ends, FutureNoEnds, NoEnds
<1> QED BY <1>1, <1>9, <1>10 DEF EndsIInv

\* The pipe knows its ends for any number of tasks: readers and writers
\* count the descriptors of all of them through fork, dup2, close, exit
\* and kill (pipe.c, chfs.c), and the pipe is freed with the last one.
THEOREM EndsAreCounted == PipeSpec => []EndsCounted
<1>1. EndsIInv => EndsCounted  BY DEF EndsIInv
<1> QED BY <1>1, InitEndsIInv, EndsIInvStep, PTL DEF PipeSpec

------------------------------

\* The invariant behind the parked tasks: a task inside of a call has the
\* program for it, a writer has bytes left over, and whoever is parked is
\* the one registered.  struct pipe has one place per side, so this needs
\* one program that reads and one that writes.
OneReaderOneWriter ==
    /\ \A a, b \in MayRead : a = b
    /\ \A a, b \in MayWrite : a = b

WriteCalls == [first : Nat, len : 0 .. PipeSize, written : 0 .. PipeSize]

DataTypeOK ==
    /\ buf \in Seq(Nat) /\ Len(buf) <= PipeSize
    /\ bounce_buf \in [1 .. PipeSize -> Nat]
    /\ call \in [Task -> WriteCalls]
    /\ stamp \in Nat

InsideOK ==
    \A t \in Task :
        /\ op[t] = "read" => t \in MayRead
        /\ op[t] = "write" => t \in MayWrite /\ call[t].written < call[t].len

ParkedOK ==
    \A t \in Task : state[t] = "blocked" =>
        /\ op[t] = "read" => reader_wait = t /\ buf = << >> /\ writers > 0
        /\ op[t] = "write" => writer_wait = t /\ Len(buf) = PipeSize /\ readers > 0

PipeIInv == EndsIInv /\ DataTypeOK /\ InsideOK /\ ParkedOK

\* The smaller of two numbers.
LEMMA MinOfTwo ==
  ASSUME NEW a \in Nat, NEW b \in Nat
  PROVE  Min({a, b}) \in {a, b} /\ Min({a, b}) <= a /\ Min({a, b}) <= b
BY LeastIsThere, {a, b} \subseteq Nat, {a, b} # {}

\* What a round of pipe_write_block() does to the ring: it puts as much as
\* fits, something unless the ring is full, and with bytes left over the
\* ring is full.
LEMMA RingWritten ==
  ASSUME buf \in Seq(Nat), Len(buf) <= PipeSize,
         NEW c \in WriteCalls, NEW b \in [1 .. PipeSize -> Nat], c.written < c.len,
         WriteRound(c, b)
  PROVE  /\ Put(c) \in Nat /\ c.written + Put(c) \in 0 .. PipeSize
         /\ buf' \in Seq(Nat) /\ Len(buf') <= PipeSize
         /\ c.written + Put(c) < c.len => Len(buf') = PipeSize
         /\ buf = << >> => Put(c) > 0
         /\ bounce_buf' = b
<1>1. /\ PipeSize \in Nat /\ PipeSize > 0 /\ Len(buf) \in Nat
      /\ c.len \in Nat /\ c.written \in Nat /\ c.len <= PipeSize
  BY PipeAssumption DEF WriteCalls
<1>2. c.len - c.written \in Nat /\ PipeSize - Len(buf) \in Nat /\ c.len - c.written > 0  BY <1>1
<1>3. /\ Put(c) \in {c.len - c.written, PipeSize - Len(buf)}
      /\ Put(c) <= c.len - c.written /\ Put(c) <= PipeSize - Len(buf)
  BY <1>2, MinOfTwo DEF Put
<1>4. Put(c) \in Nat  BY <1>2, <1>3
<1>a. c.written + Put(c) <= PipeSize /\ c.written + Put(c) \in 0 .. PipeSize  BY <1>1, <1>3, <1>4
<1> DEFINE new == [k \in 1 .. Put(c) |-> b[c.written + k]]
<1>5. buf' = buf \o new /\ bounce_buf' = b  BY DEF WriteRound, Put
<1>6. new \in Seq(Nat) /\ Len(new) = Put(c)
  <2>1. \A k \in 1 .. Put(c) : c.written + k \in 1 .. PipeSize
    <3> DEFINE w == c.written
               p == Put(c)
    <3>1. w \in Nat /\ p \in Nat /\ PipeSize \in Nat /\ w + p <= PipeSize  BY <1>1, <1>4, <1>a
    <3> HIDE DEF w, p
    <3>2. \A k \in 1 .. p : w + k \in 1 .. PipeSize  BY <3>1
    <3> QED BY <3>2 DEF w, p
  <2>2. new \in [1 .. Put(c) -> Nat]  BY <2>1
  <2> QED BY <1>4, <2>2
<1> HIDE DEF new
<1>7. buf' \in Seq(Nat) /\ Len(buf') = Len(buf) + Put(c)  BY <1>5, <1>6, ConcatProperties
<1>8. buf = << >> => Put(c) > 0
  <2>1. buf = << >> => Len(buf) = 0  OBVIOUS
  <2> QED BY <1>1, <1>2, <1>3, <2>1
<1>9. c.written + Put(c) < c.len => Len(buf') = PipeSize
  <2> DEFINE w == c.written
             p == Put(c)
             len == c.len
  <2>1. /\ w \in Nat /\ len \in Nat /\ PipeSize \in Nat /\ Len(buf) \in Nat
        /\ p = len - w \/ p = PipeSize - Len(buf)
        /\ Len(buf') = Len(buf) + p
    BY <1>1, <1>3, <1>7
  <2> HIDE DEF w, p, len
  <2>2. w + p < len => Len(buf') = PipeSize  BY <2>1
  <2> QED BY <2>2 DEF w, p, len
<1>10. Len(buf') <= PipeSize  BY <1>1, <1>3, <1>4, <1>7
<1> QED BY <1>4, <1>5, <1>7, <1>8, <1>9, <1>10, <1>a

\* What pipe_read_block() leaves in the ring is what it did not take.
LEMMA RingRead ==
  ASSUME buf \in Seq(Nat), Len(buf) <= PipeSize, NEW n \in Nat
  PROVE  /\ Min({n, Len(buf)}) \in Nat /\ Min({n, Len(buf)}) <= Len(buf)
         /\ SubSeq(buf, Min({n, Len(buf)}) + 1, Len(buf)) \in Seq(Nat)
         /\ Len(SubSeq(buf, Min({n, Len(buf)}) + 1, Len(buf))) <= PipeSize
<1> DEFINE m == Min({n, Len(buf)})
<1>1. Len(buf) \in Nat /\ PipeSize \in Nat  BY PipeAssumption
<1>2. m \in Nat /\ m <= Len(buf)  BY <1>1, MinOfTwo
<1> HIDE DEF m
<1>3. SubSeq(buf, m + 1, Len(buf)) \in Seq(Nat)
  <2>1. \A k \in m + 1 .. Len(buf) : k \in 1 .. Len(buf)  BY <1>1, <1>2
  <2> QED BY <1>1, <1>2, <2>1
<1>4. Len(SubSeq(buf, m + 1, Len(buf))) = Len(buf) - m  BY <1>1, <1>2
<1>5. Len(SubSeq(buf, m + 1, Len(buf))) <= PipeSize  BY <1>1, <1>2, <1>4
<1> QED BY <1>2, <1>3, <1>5 DEF m

\* A step that leaves the ring and the calls alone, opens ends at most,
\* and leaves parked and inside of its call whoever was.
LEMMA ParkedStay ==
  ASSUME PipeIInv, EndsIInv', UNCHANGED <<dataVars, reader_wait, writer_wait>>,
         readers' >= readers, writers' >= writers,
         \A t \in Task : /\ op'[t] \in {"read", "write"} => op[t] = op'[t]
                         /\ op'[t] \in {"read", "write"} /\ state'[t] = "blocked"
                               => state[t] = "blocked"
  PROVE  PipeIInv'
<1>1. DataTypeOK'  BY DEF PipeIInv, DataTypeOK, dataVars
<1>2. InsideOK'  BY DEF PipeIInv, InsideOK, dataVars
<1>3. readers \in Nat /\ writers \in Nat /\ readers' \in Nat /\ writers' \in Nat
  <2>1. Total(ReadFds) \in Nat /\ Total(WriteFds) \in Nat
    BY CountersCover, BootTasks DEF PipeIInv, EndsIInv, EndsCounted, ReadFds, WriteFds
  <2>2. current \in Task  BY DEF PipeIInv, EndsIInv, CallerOK, LifeSound, LifeTypeOK
  <2>3. readers \in Nat /\ writers \in Nat  BY <2>2, CountersCover DEF PipeIInv
  <2>4. readers' \in Nat /\ writers' \in Nat
    <3>1. /\ fds' \in [Task -> Ends]
          /\ readers' = Total([t \in Task |-> fds'[t].r])
          /\ writers' = Total([t \in Task |-> fds'[t].w])
      BY DEF EndsIInv, EndsTypeOK, EndsCounted
    <3> DEFINE rf == [t \in Task |-> fds'[t].r]
               wf == [t \in Task |-> fds'[t].w]
    <3>2. rf \in [Task -> 0 .. MaxEnds] /\ wf \in [Task -> 0 .. MaxEnds]  BY <3>1 DEF Ends
    <3> HIDE DEF rf, wf
    <3>3. Total(rf) \in Nat  BY <2>2, <3>2, TotalChange
    <3>4. Total(wf) \in Nat  BY <2>2, <3>2, TotalChange
    <3> QED BY <3>1, <3>3, <3>4 DEF rf, wf
  <2> QED BY <2>3, <2>4
<1>4. ParkedOK'
  <2> SUFFICES ASSUME NEW t \in Task, state'[t] = "blocked"
               PROVE  /\ op'[t] = "read" => reader_wait' = t /\ buf' = << >> /\ writers' > 0
                      /\ op'[t] = "write" =>
                            writer_wait' = t /\ Len(buf') = PipeSize /\ readers' > 0
    BY DEF ParkedOK
  <2>1. op'[t] = "read" => reader_wait' = t /\ buf' = << >> /\ writers' > 0
    BY <1>3 DEF PipeIInv, ParkedOK, dataVars
  <2>2. op'[t] = "write" => writer_wait' = t /\ Len(buf') = PipeSize /\ readers' > 0
    BY <1>3 DEF PipeIInv, ParkedOK, dataVars
  <2> QED BY <2>1, <2>2
<1> QED BY <1>1, <1>2, <1>4 DEF PipeIInv

\* pipe_close_end() for ends of task t, which itself does not stay parked:
\* with the last write end goes the registration of the reader, which is
\* READY then, and the other way round.
LEMMA ParkedClosed ==
  ASSUME PipeIInv, EndsIInv', NEW t \in Task, NEW r \in Nat, NEW w \in Nat,
         CloseEnds(t, r, w), OthersStay({t}, Released(r, w)), state'[t] # "blocked",
         UNCHANGED <<op, arg, dataVars>>
  PROVE  PipeIInv'
<1>1. DataTypeOK' /\ InsideOK'  BY DEF PipeIInv, DataTypeOK, InsideOK, dataVars
<1>2. /\ readers' = readers - r /\ writers' = writers - w
      /\ reader_wait' = (IF w > 0 THEN 0 ELSE reader_wait)
      /\ writer_wait' = (IF r > 0 THEN 0 ELSE writer_wait)
  BY DEF CloseEnds
<1>3. readers \in Nat /\ writers \in Nat  BY CountersCover DEF PipeIInv
<1>4. ParkedOK'
  <2> SUFFICES ASSUME NEW u \in Task, state'[u] = "blocked"
               PROVE  /\ op[u] = "read" => reader_wait' = u /\ buf = << >> /\ writers' > 0
                      /\ op[u] = "write" =>
                            writer_wait' = u /\ Len(buf) = PipeSize /\ readers' > 0
    BY DEF ParkedOK, dataVars
  <2>1. state[u] = "blocked" /\ u \notin Released(r, w)  BY DEF OthersStay
  <2>2. CASE op[u] = "read"
    <3>1. reader_wait = u /\ buf = << >> /\ writers > 0  BY <2>1, <2>2 DEF PipeIInv, ParkedOK
    <3>2. w = 0  BY <2>1, <3>1 DEF Released
    <3> QED BY <1>2, <1>3, <2>2, <3>1, <3>2
  <2>3. CASE op[u] = "write"
    <3>1. writer_wait = u /\ Len(buf) = PipeSize /\ readers > 0  BY <2>1, <2>3 DEF PipeIInv, ParkedOK
    <3>2. r = 0  BY <2>1, <3>1 DEF Released
    <3> QED BY <1>2, <1>3, <2>3, <3>1, <3>2
  <2> QED BY <2>2, <2>3
<1> QED BY <1>1, <1>4 DEF PipeIInv

\* A round of pipe_write_block() by the one writer: a parked reader saw an
\* empty ring, so that this round puts something and wakes it; and the
\* writer parks only on a full ring.
LEMMA ParkedWritten ==
  ASSUME PipeIInv, EndsIInv', OneReaderOneWriter, current \in Programs, current \in MayWrite,
         NEW c \in WriteCalls, NEW b \in [1 .. PipeSize -> Nat], c.written < c.len,
         WriteRound(c, b), stamp' \in Nat
  PROVE  PipeIInv'
<1>0. /\ CallerOK /\ current \in Task /\ Registered(reader_wait)
      /\ buf \in Seq(Nat) /\ Len(buf) <= PipeSize /\ call \in [Task -> WriteCalls]
      /\ PipeSize \in Nat
  <2>1. CallerOK  BY DEF PipeIInv, EndsIInv
  <2> QED BY <2>1, CurrentBorn, PipeAssumption DEF PipeIInv, EndsIInv, EndsTypeOK, DataTypeOK
<1>1. /\ Put(c) \in Nat /\ c.written + Put(c) \in 0 .. PipeSize
      /\ buf' \in Seq(Nat) /\ Len(buf') <= PipeSize
      /\ c.written + Put(c) < c.len => Len(buf') = PipeSize
      /\ buf = << >> => Put(c) > 0
      /\ bounce_buf' = b
  BY <1>0, RingWritten
<1>2. /\ OthersStay({current}, WokenByPut(c))
      /\ UNCHANGED <<readers, writers>>
      /\ reader_wait' = (IF Put(c) > 0 THEN 0 ELSE reader_wait)
      /\ \/ /\ op'[current] = "user"
            /\ UNCHANGED writer_wait
            /\ call' = [call EXCEPT ![current] = NoCall]
         \/ /\ op'[current] = "write"
            /\ writer_wait' = current
            /\ c.written + Put(c) < c.len /\ readers > 0
            /\ call' = [call EXCEPT ![current] = [c EXCEPT !.written = c.written + Put(c)]]
  BY <1>0, WriteRoundMoves
<1> DEFINE left == [c EXCEPT !.written = c.written + Put(c)]
<1>3. left \in WriteCalls /\ left.written = c.written + Put(c) /\ left.len = c.len  BY <1>1 DEF WriteCalls
<1>4. NoCall \in WriteCalls  BY <1>0 DEF NoCall, WriteCalls
<1> HIDE DEF left
<1>5. DataTypeOK'
  <2>1. call' \in [Task -> WriteCalls]  BY <1>0, <1>2, <1>3, <1>4 DEF left
  <2> QED BY <1>1, <2>1 DEF DataTypeOK
<1>6. \A t \in Task : t # current => call'[t] = call[t] /\ op'[t] = op[t]  BY <1>0, <1>2 DEF OthersStay
<1>7. InsideOK'
  <2>1. op'[current] = "write" => call'[current] = left /\ left.written < left.len  BY <1>0, <1>2, <1>3 DEF left
  <2>2. op'[current] # "read"  BY <1>2
  <2> QED BY <1>6, <2>1, <2>2 DEF PipeIInv, InsideOK
<1>8. ParkedOK'
  <2> SUFFICES ASSUME NEW t \in Task, state'[t] = "blocked"
               PROVE  /\ op'[t] = "read" => reader_wait' = t /\ buf' = << >> /\ writers' > 0
                      /\ op'[t] = "write" =>
                            writer_wait' = t /\ Len(buf') = PipeSize /\ readers' > 0
    BY DEF ParkedOK
  <2>1. CASE t = current  BY <1>1, <1>2, <2>1
  <2>2. CASE t # current
    <3>1. state[t] = "blocked" /\ t \notin WokenByPut(c) /\ op'[t] = op[t]  BY <1>2, <2>2 DEF OthersStay
    <3>2. op[t] # "read"
      <4> SUFFICES ASSUME op[t] = "read" PROVE FALSE  OBVIOUS
      <4>1. reader_wait = t /\ buf = << >>  BY <3>1 DEF PipeIInv, ParkedOK
      <4> QED BY <1>1, <3>1, <4>1 DEF WokenByPut
    <3>3. op[t] # "write"  BY <2>2 DEF PipeIInv, InsideOK, OneReaderOneWriter
    <3> QED BY <3>1, <3>2, <3>3
  <2> QED BY <2>1, <2>2
<1> QED BY <1>5, <1>7, <1>8 DEF PipeIInv

\* A round of pipe_read_block() by the one reader: it parks only on an
\* empty ring with a writer left, where no writer is parked; and taking
\* bytes wakes the parked writer.
LEMMA ParkedRead ==
  ASSUME PipeIInv, EndsIInv', OneReaderOneWriter, current \in Programs, current \in MayRead,
         NEW n \in Nat, ReadRound(n)
  PROVE  PipeIInv'
<1>0. /\ CallerOK /\ current \in Task /\ Registered(writer_wait)
      /\ buf \in Seq(Nat) /\ Len(buf) <= PipeSize /\ call \in [Task -> WriteCalls]
      /\ bounce_buf \in [1 .. PipeSize -> Nat] /\ stamp \in Nat
      /\ PipeSize \in Nat /\ PipeSize > 0
  <2>1. CallerOK  BY DEF PipeIInv, EndsIInv
  <2> QED BY <2>1, CurrentBorn, PipeAssumption DEF PipeIInv, EndsIInv, EndsTypeOK, DataTypeOK
<1> DEFINE m == Min({n, Len(buf)})
<1>1. /\ m \in Nat /\ m <= Len(buf)
      /\ SubSeq(buf, m + 1, Len(buf)) \in Seq(Nat)
      /\ Len(SubSeq(buf, m + 1, Len(buf))) <= PipeSize
  BY <1>0, RingRead
<1>2. /\ UNCHANGED <<readers, writers, call, stamp>>
      /\ \/ /\ OthersStay({current}, {})
            /\ op'[current] = "user"
            /\ UNCHANGED <<buf, bounce_buf, reader_wait, writer_wait>>
         \/ /\ OthersStay({current}, {})
            /\ op'[current] = "read"
            /\ buf = << >> /\ writers > 0
            /\ reader_wait' = current
            /\ UNCHANGED <<buf, bounce_buf, writer_wait>>
         \/ /\ OthersStay({current}, {writer_wait})
            /\ op'[current] = "user"
            /\ writer_wait' = 0
            /\ buf' = SubSeq(buf, m + 1, Len(buf))
            /\ bounce_buf' = [k \in 1 .. PipeSize |-> IF k <= m THEN buf[k] ELSE bounce_buf[k]]
            /\ buf # << >> /\ UNCHANGED reader_wait
  BY <1>0, ReadRoundMoves
<1> HIDE DEF m
<1>3. DataTypeOK'
  <2>1. [k \in 1 .. PipeSize |-> IF k <= m THEN buf[k] ELSE bounce_buf[k]]
           \in [1 .. PipeSize -> Nat]
    <3>1. \A k \in 1 .. PipeSize : k <= m => buf[k] \in Nat  BY <1>0, <1>1
    <3> QED BY <1>0, <3>1
  <2> QED BY <1>0, <1>1, <1>2, <2>1 DEF DataTypeOK
<1>4. \A t \in Task : t # current => op'[t] = op[t]  BY <1>2 DEF OthersStay
<1>5. InsideOK'  BY <1>2, <1>4 DEF PipeIInv, InsideOK
<1>6. ParkedOK'
  <2> SUFFICES ASSUME NEW t \in Task, state'[t] = "blocked"
               PROVE  /\ op'[t] = "read" => reader_wait' = t /\ buf' = << >> /\ writers' > 0
                      /\ op'[t] = "write" =>
                            writer_wait' = t /\ Len(buf') = PipeSize /\ readers' > 0
    BY DEF ParkedOK
  <2>1. CASE t = current  BY <1>2, <2>1
  <2>2. CASE t # current
    <3>1. state[t] = "blocked" /\ op'[t] = op[t]  BY <1>2, <2>2 DEF OthersStay
    <3>2. op[t] # "read"  BY <2>2 DEF PipeIInv, InsideOK, OneReaderOneWriter
    <3>3. ASSUME op[t] = "write"
          PROVE  writer_wait' = t /\ Len(buf') = PipeSize /\ readers' > 0
      <4>1. writer_wait = t /\ Len(buf) = PipeSize /\ readers > 0  BY <3>1, <3>3 DEF PipeIInv, ParkedOK
      <4>2. CASE UNCHANGED <<buf, writer_wait>>  BY <1>2, <4>1, <4>2
      <4>3. CASE OthersStay({current}, {writer_wait})  BY <2>2, <4>1, <4>3 DEF OthersStay
      <4> QED BY <1>2, <4>2, <4>3
    <3> QED BY <3>1, <3>2, <3>3
  <2> QED BY <2>1, <2>2
<1> QED BY <1>3, <1>5, <1>6 DEF PipeIInv

\* Every step keeps the invariant.
LEMMA PipeIInvStep ==
  ASSUME OneReaderOneWriter
  PROVE  PipeIInv /\ [PipeNext]_pipeAllVars => PipeIInv'
<1> SUFFICES ASSUME PipeIInv, [PipeNext]_pipeAllVars PROVE PipeIInv'  OBVIOUS
<1>0. /\ EndsIInv /\ EndsIInv' /\ CallerOK /\ current \in Task
      /\ Registered(reader_wait) /\ Registered(writer_wait)
      /\ readers \in Nat /\ writers \in Nat
      /\ \A u \in Task : fds[u].r \in Nat /\ fds[u].w \in Nat
      /\ state[current] # "blocked"
  <2>1. EndsIInv /\ EndsIInv' /\ CallerOK  BY EndsIInvStep DEF PipeIInv, EndsIInv
  <2>2. state[current] # "blocked"  BY <2>1 DEF CallerOK, CurrentAwake
  <2> QED BY <2>1, <2>2, CurrentBorn, CountersCover DEF EndsIInv, EndsTypeOK
<1>a. \A t \in Task : arg[t] \in Nat  BY <1>0 DEF CallerOK, LifeSound, LifeTypeOK
<1>b. /\ \A t \in Task : op[t] = "read" => t \in MayRead
      /\ \A t \in Task : op[t] = "write" => t \in MayWrite /\ call[t].written < call[t].len
      /\ call \in [Task -> WriteCalls] /\ bounce_buf \in [1 .. PipeSize -> Nat] /\ stamp \in Nat
      /\ PipeSize \in Nat /\ PipeSize > 0
  BY PipeAssumption DEF PipeIInv, InsideOK, DataTypeOK
<1>c. ASSUME LeavesCalls
      PROVE  \A t \in Task : /\ op'[t] \in {"read", "write"} => op[t] = op'[t]
                             /\ op'[t] \in {"read", "write"} /\ state'[t] = "blocked"
                                   => state[t] = "blocked"
  BY <1>c DEF LeavesCalls, OtherCalls
<1>1. CASE LifeAround /\ UNCHANGED pipeVars
  <2>1. LeavesCalls  BY <1>0, <1>1, LifeLeavesCalls DEF LifeAround, LifeNext
  <2>2. readers' >= readers /\ writers' >= writers  BY <1>0, <1>1 DEF pipeVars, endVars
  <2>3. UNCHANGED <<dataVars, reader_wait, writer_wait>>  BY <1>1 DEF pipeVars, endVars
  <2> QED BY <1>0, <1>c, <2>1, <2>2, <2>3, ParkedStay
<1>2. ASSUME NEW v \in Task, PipeKill(v) PROVE PipeIInv'
  <2> DEFINE r == fds[v].r
             w == fds[v].w
  <2>1. /\ CloseEnds(v, r, w) /\ Terminate(v, Wakes(state, Released(r, w)))
        /\ r \in Nat /\ w \in Nat /\ UNCHANGED dataVars
    BY <1>0, <1>2 DEF PipeKill
  <2> HIDE DEF r, w
  <2>2. OthersStay({v}, Released(r, w)) /\ UNCHANGED <<op, arg>> /\ state'[v] # "blocked"
    BY <1>0, <2>1, ReleasedBorn, WakingKills
  <2> QED BY <1>0, <2>1, <2>2, ParkedClosed
<1>3. ASSUME NEW ok \in BOOLEAN, PipeFork(ok) PROVE PipeIInv'
  <2>1. Fork(ok) /\ UNCHANGED <<dataVars, reader_wait, writer_wait>>  BY <1>3 DEF PipeFork
  <2>2. LeavesCalls  BY <1>0, <2>1, LifeLeavesCalls DEF LifeNext
  <2>3. readers' >= readers /\ writers' >= writers  BY <1>0, <1>3 DEF PipeFork
  <2> QED BY <1>0, <1>c, <2>1, <2>2, <2>3, ParkedStay
<1>4. CASE PipeExit
  <2> DEFINE r == fds[current].r
             w == fds[current].w
  <2>1. /\ CloseEnds(current, r, w) /\ TaskExit(Wakes(state, Released(r, w)))
        /\ current \in Programs /\ r \in Nat /\ w \in Nat /\ UNCHANGED dataVars
    BY <1>0, <1>4 DEF PipeExit, Calls
  <2> HIDE DEF r, w
  <2>2. /\ OthersStay({current}, Released(r, w)) /\ UNCHANGED <<op, arg>>
        /\ state'[current] # "blocked"
    BY <1>0, <2>1, ReleasedBorn, WakingExits
  <2> QED BY <1>0, <2>1, <2>2, ParkedClosed
<1>5. ASSUME NEW e \in {"r", "w"}, Dup(e) PROVE PipeIInv'
  <2>1. UNCHANGED <<dataVars, reader_wait, writer_wait>> /\ UNCHANGED <<state, op>>  BY <1>5 DEF Dup, lifeVars
  <2>2. readers' >= readers /\ writers' >= writers  BY <1>0, <1>5 DEF Dup
  <2> QED BY <1>0, <2>1, <2>2, ParkedStay
<1>6. ASSUME NEW e \in {"r", "w"}, Close(e) PROVE PipeIInv'
  <2> DEFINE r == IF e = "r" THEN 1 ELSE 0
             w == IF e = "w" THEN 1 ELSE 0
  <2>1. /\ CloseEnds(current, r, w) /\ state' = Wakes(state, Released(r, w))
        /\ r \in Nat /\ w \in Nat
        /\ UNCHANGED <<current, next_pid, parent, op, arg, sleep_until, handler, pending>>
        /\ UNCHANGED dataVars
    BY <1>0, <1>6 DEF Close
  <2> HIDE DEF r, w
  <2>2. OthersStay({current}, Released(r, w)) /\ state'[current] \in {"ready", "running"}
    BY <1>0, <2>1, ReleasedBorn, WakingReturns
  <2> QED BY <1>0, <2>1, <2>2, ParkedClosed
<1>7. ASSUME NEW n \in 1 .. PipeSize + 1, Write(n) PROVE PipeIInv'
  <2> DEFINE c == [first |-> stamp, len |-> Min({n, PipeSize}), written |-> 0]
             b == [k \in 1 .. PipeSize |-> IF k <= n THEN stamp + k ELSE bounce_buf[k]]
  <2>1. WriteRound(c, b) /\ stamp' = stamp + n /\ current \in MayWrite /\ current \in Programs
    BY <1>0, <1>7, CallersArePrograms DEF Write
  <2>2. n \in Nat /\ n > 0  BY <1>b
  <2>3. Min({n, PipeSize}) \in 0 .. PipeSize /\ Min({n, PipeSize}) > 0  BY <1>b, <2>2, MinOfTwo
  <2>4. c \in WriteCalls /\ c.written < c.len  BY <1>b, <2>3 DEF WriteCalls
  <2>5. b \in [1 .. PipeSize -> Nat]  BY <1>b, <2>2
  <2>6. stamp' \in Nat  BY <1>b, <2>1, <2>2
  <2> HIDE DEF c, b
  <2> QED BY <1>0, <2>1, <2>4, <2>5, <2>6, ParkedWritten
<1>8. ASSUME NEW n \in 1 .. PipeSize, Read(n) PROVE PipeIInv'
  <2>1. n \in Nat /\ ReadRound(n) /\ current \in MayRead /\ current \in Programs
    BY <1>0, <1>8, <1>b, CallersArePrograms DEF Read
  <2> QED BY <1>0, <2>1, ParkedRead
<1>9. CASE WriteAgain
  <2> DEFINE c == call[current]
  <2>1. /\ WriteRound(c, bounce_buf) /\ stamp' = stamp /\ op[current] = "write"
        /\ c \in WriteCalls /\ c.written < c.len /\ current \in MayWrite
    BY <1>0, <1>9, <1>b DEF WriteAgain
  <2> HIDE DEF c
  <2>2. current \in Programs /\ stamp' \in Nat  BY <1>0, <1>b, <2>1, CallersArePrograms
  <2> QED BY <1>0, <1>b, <2>1, <2>2, ParkedWritten
<1>10. CASE ReadAgain
  <2>1. /\ ReadRound(arg[current]) /\ op[current] = "read" /\ arg[current] \in Nat
        /\ current \in MayRead
    BY <1>0, <1>a, <1>b, <1>10 DEF ReadAgain
  <2>2. current \in Programs  BY <1>0, <2>1, CallersArePrograms
  <2> QED BY <1>0, <2>1, <2>2, ParkedRead
<1>11. CASE UNCHANGED pipeAllVars
  <2>1. /\ UNCHANGED <<dataVars, reader_wait, writer_wait>> /\ UNCHANGED <<state, op>>
        /\ readers' = readers /\ writers' = writers
    BY <1>11 DEF pipeAllVars, lifeVars, pipeVars, endVars
  <2>2. readers' >= readers /\ writers' >= writers  BY <1>0, <2>1
  <2> QED BY <1>0, <2>1, <2>2, ParkedStay
<1> QED BY <1>1, <1>2, <1>3, <1>4, <1>5, <1>6, <1>7, <1>8, <1>9, <1>10, <1>11
     DEF PipeNext, LifeAround

\* With one program that reads and one that writes, a parked reader finds
\* the pipe empty with a writer left, and a parked writer finds it full
\* with a reader left: no data and no end of file is slept through
\* (pipe.c:107), whoever else forks, closes, dies or sends signals.
THEOREM NobodyIsStranded ==
  ASSUME OneReaderOneWriter
  PROVE  PipeSpec => []NobodyStranded
<1>1. PipeInit => PipeIInv
  <2> SUFFICES ASSUME PipeInit PROVE PipeIInv  OBVIOUS
  <2>1. EndsIInv  BY InitEndsIInv
  <2>2. DataTypeOK
    <3>1. << >> \in Seq(Nat) /\ Len(<< >>) = 0 /\ PipeSize \in Nat  BY PipeAssumption
    <3>2. NoCall \in WriteCalls  BY <3>1 DEF NoCall, WriteCalls
    <3> QED BY <3>1, <3>2 DEF PipeInit, DataTypeOK
  <2>3. InsideOK /\ ParkedOK  BY DEF PipeInit, LifeInit, InsideOK, ParkedOK
  <2> QED BY <2>1, <2>2, <2>3 DEF PipeIInv
<1>2. PipeIInv /\ [PipeNext]_pipeAllVars => PipeIInv'  BY PipeIInvStep
<1>3. PipeIInv => NobodyStranded  BY DEF PipeIInv, ParkedOK, NobodyStranded
<1> QED BY <1>1, <1>2, <1>3, PTL DEF PipeSpec

------------------------------
(* The futex table, mutexes and condition variables.                       *)

\* futex_wake(a, n) finds somebody whenever a slot matches.
LEMMA WakeFindsSlot ==
  ASSUME NEW a, NEW n \in Nat \ {0}, Matching(a) # {}
  PROVE  WokenSlots(a, n) # {} /\ WokenSlots(a, n) \subseteq Matching(a)
<1>1. Matching(a) \subseteq Nat  BY FutexAssumption DEF Matching, Slot
<1>2. PICK i \in Matching(a) : \A j \in Matching(a) : i <= j  BY <1>1, LeastIsThere
<1>3. {j \in Matching(a) : j < i} = {}  BY <1>1, <1>2
<1>4. Cardinality({j \in Matching(a) : j < i}) = 0  BY <1>3, FS_EmptySet
<1> QED BY <1>2, <1>4 DEF WokenSlots

------------------------------

\* The inductive invariant behind the slots: only threads that were
\* created are in one, and as long as nothing but futex_wake has reached a
\* waiter the used slots are those of the parked threads, one for each.
SlotBorn == \A i \in Slot : fut_slots[i].used => fut_slots[i].waiter < next_pid

SlotExact ==
    ~disturbed =>
        /\ \A i \in Slot : fut_slots[i].used => Parked(fut_slots[i].waiter, fut_slots[i].uaddr)
        /\ \A i, j \in Slot :
              fut_slots[i].used /\ fut_slots[j].used /\ fut_slots[i].waiter = fut_slots[j].waiter
                => i = j

FutexIInv == CallerOK /\ FutexTypeOK /\ SlotBorn /\ FutexWaiterHasSlot /\ SlotExact

\* What a used slot of the table holds.
LEMMA SlotFields ==
  ASSUME FutexTypeOK
  PROVE  \A i \in Slot : fut_slots[i].used =>
            fut_slots[i].uaddr \in Addr /\ fut_slots[i].waiter \in Task
<1> SUFFICES ASSUME NEW i \in Slot, fut_slots[i].used
             PROVE  fut_slots[i].uaddr \in Addr /\ fut_slots[i].waiter \in Task
  OBVIOUS
<1>1. fut_slots[i] \in {Free} \cup [used : {TRUE}, uaddr : Addr, waiter : Task]  BY DEF FutexTypeOK
<1>2. fut_slots[i] # Free  BY DEF Free
<1> QED BY <1>1, <1>2

\* An instruction of a program moves at most a word of its memory.
LEMMA UserKeepsSlots ==
  ASSUME FutexIInv, UserStep, UNCHANGED disturbed, word' \in [Addr -> 0 .. MaxWord]
  PROVE  FutexIInv'
<1>1. CallerOK'
  BY DEF FutexIInv, UserStep, lifeVars, CallerOK, LifeSound, LifeTypeOK, OnlyCurrentRuns,
         ProgramsCall, CurrentAwake, UnusedAhead
<1> QED BY <1>1 DEF FutexIInv, UserStep, lifeVars, FutexTypeOK, CallerOK, LifeSound, SlotBorn,
              FutexWaiterHasSlot, SlotExact, Parked

\* The same threads are parked in futex_wait, on the same words.
SameParked ==
    \A t \in Task :
        /\ (op'[t] = "futex" /\ state'[t] = "blocked") <=> (op[t] = "futex" /\ state[t] = "blocked")
        /\ op[t] = "futex" => arg'[t] = arg[t]

\* What the rest of the system does to the threads, seen from the library:
\* as long as it reaches no waiter and kills nobody, the same threads are
\* parked and a thread inside of the library that can run still can.
LEMMA ElsewhereFrame ==
  ASSUME CallerOK, Elsewhere
  PROVE  /\ CallerOK' /\ LeavesCalls /\ next_pid' \in {next_pid, next_pid + 1}
         /\ UNCHANGED <<word, fut_slots, pc, reg, items>>
         /\ ~disturbed' =>
               /\ ~disturbed
               /\ SameParked
               /\ \A t \in Task : pc[t] # "idle" =>
                     /\ op'[t] = op[t] /\ arg'[t] = arg[t]
                     /\ state[t] \in {"ready", "running"} => state'[t] \in {"ready", "running"}
         /\ \A t \in Task : pc[t] # "idle" => op'[t] = op[t] /\ arg'[t] = arg[t]
<1>1. /\ LifeNext
      /\ Tick \/ pc[current] = "idle"
      /\ disturbed' = (disturbed \/ Disturbs)
      /\ UNCHANGED <<word, fut_slots, pc, reg, items>>
  BY DEF Elsewhere, LifeNext, futexVars, libVars
<1>2. CallerOK' /\ LeavesCalls  BY <1>1, LifeLeavesCalls
<1>3. next_pid' \in {next_pid, next_pid + 1}  BY <1>1, PidsGrow DEF CallerOK
<1>4. \A t \in Task \ {current} :
         /\ op'[t] = op[t] /\ arg'[t] = arg[t]
         /\ state[t] \in {"ready", "running"} => state'[t] \in {"ready", "running", "dead"}
  BY <1>1, LifeMovesCaller
<1>5. \A t \in Task : pc[t] # "idle" =>
         /\ op'[t] = op[t] /\ arg'[t] = arg[t]
         /\ state[t] \in {"ready", "running"} => state'[t] \in {"ready", "running", "dead"}
  BY <1>1, <1>4, TickAwake
<1>6. ASSUME ~disturbed'
      PROVE  /\ ~disturbed
             /\ SameParked
             /\ \A t \in Task : pc[t] # "idle" /\ state[t] \in {"ready", "running"}
                                  => state'[t] \in {"ready", "running"}
  <2>1. ~disturbed /\ ~Disturbs  BY <1>1, <1>6
  <2>2. \A t \in Task : /\ op[t] = "futex" /\ state[t] = "blocked" => state'[t] = state[t]
                        /\ state'[t] # state[t] => state'[t] # "dead"
    BY <2>1 DEF Disturbs
  <2>3. SameParked  BY <1>2, <2>2 DEF SameParked, LeavesCalls, OtherCalls
  <2> QED BY <1>5, <2>1, <2>2, <2>3
<1> QED BY <1>1, <1>2, <1>3, <1>5, <1>6

\* The rest of the system leaves the slots alone.
LEMMA ElsewhereKeepsSlots ==
  ASSUME FutexIInv, Elsewhere
  PROVE  FutexIInv'
<1>0. CallerOK /\ next_pid \in Nat  BY DEF FutexIInv, CallerOK, LifeSound, LifeTypeOK
<1>1. /\ CallerOK' /\ LeavesCalls /\ next_pid' \in {next_pid, next_pid + 1}
      /\ UNCHANGED <<word, fut_slots>>
      /\ ~disturbed' =>
            /\ ~disturbed
            /\ SameParked
  BY <1>0, ElsewhereFrame
<1>2. FutexTypeOK'  BY <1>1 DEF FutexIInv, FutexTypeOK, CallerOK, LifeSound
<1>3. \A i \in Slot : fut_slots[i].used => fut_slots[i].waiter \in Task  BY SlotFields DEF FutexIInv
<1>4. SlotBorn'
  <2> SUFFICES ASSUME NEW i \in Slot, fut_slots[i].used PROVE fut_slots[i].waiter < next_pid'
    BY <1>1 DEF SlotBorn
  <2>1. fut_slots[i].waiter < next_pid /\ fut_slots[i].waiter \in Nat
    BY <1>3, BootTasks DEF FutexIInv, SlotBorn
  <2> QED BY <1>0, <1>1, <2>1
<1>5. FutexWaiterHasSlot'
  <2> SUFFICES ASSUME NEW t \in Task, op'[t] = "futex", state'[t] = "blocked"
               PROVE  \E i \in Slot : /\ fut_slots[i].used /\ fut_slots[i].waiter = t
                                      /\ fut_slots[i].uaddr = arg'[t]
    BY <1>1 DEF FutexWaiterHasSlot
  <2>1. op[t] = "futex" /\ arg'[t] = arg[t] /\ state[t] = "blocked"  BY <1>1 DEF LeavesCalls, OtherCalls
  <2> QED BY <2>1 DEF FutexIInv, FutexWaiterHasSlot
<1>6. SlotExact'
  <2> SUFFICES ASSUME ~disturbed'
               PROVE  /\ \A i \in Slot : fut_slots[i].used =>
                            Parked(fut_slots[i].waiter, fut_slots[i].uaddr)'
                      /\ \A i, j \in Slot : fut_slots[i].used /\ fut_slots[j].used
                            /\ fut_slots[i].waiter = fut_slots[j].waiter => i = j
    BY <1>1 DEF SlotExact, Parked
  <2>1. /\ \A i \in Slot : fut_slots[i].used => Parked(fut_slots[i].waiter, fut_slots[i].uaddr)
        /\ \A i, j \in Slot : fut_slots[i].used /\ fut_slots[j].used
              /\ fut_slots[i].waiter = fut_slots[j].waiter => i = j
    BY <1>1 DEF FutexIInv, SlotExact
  <2>2. \A i \in Slot : fut_slots[i].used => Parked(fut_slots[i].waiter, fut_slots[i].uaddr)'
    BY <1>1, <1>3, <2>1 DEF Parked, SameParked
  <2> QED BY <2>1, <2>2
<1> QED BY <1>1, <1>2, <1>4, <1>5, <1>6 DEF FutexIInv

\* futex_wait() returns in a thread that somebody has made READY.
LEMMA ResumeKeepsSlots ==
  ASSUME FutexIInv, futex_resume, UNCHANGED disturbed
  PROVE  FutexIInv'
<1>0. CallerOK /\ FutexTypeOK /\ state[current] # "blocked" /\ current \in Task
  BY DEF FutexIInv, CallerOK, CurrentAwake, LifeSound, LifeTypeOK
<1>1. /\ CallerOK' /\ op'[current] = "user"
      /\ \A t \in Task : t # current => op'[t] = op[t] /\ arg'[t] = arg[t]
      /\ UNCHANGED <<state, next_pid, word, fut_slots>>
  BY <1>0, ReturnKeepsCaller DEF futex_resume, futexVars
<1>2. FutexTypeOK'  BY <1>0, <1>1 DEF FutexTypeOK, CallerOK, LifeSound
<1>3. SlotBorn' /\ FutexWaiterHasSlot'  BY <1>1 DEF FutexIInv, SlotBorn, FutexWaiterHasSlot
<1>4. SlotExact'
  <2>1. \A i \in Slot : fut_slots[i].used => fut_slots[i].waiter \in Task  BY <1>0, SlotFields
  <2> QED BY <1>0, <1>1, <2>1 DEF FutexIInv, SlotExact, Parked
<1> QED BY <1>1, <1>2, <1>3, <1>4 DEF FutexIInv

\* What futex_wait() does to the threads when it parks its caller.
LEMMA WaitFrame ==
  ASSUME CallerOK, NEW a \in Addr, NEW v, futex_wait(a, v)
  PROVE  /\ CallerOK' /\ current \in Task
         /\ op'[current] = "futex" /\ arg'[current] = a /\ state'[current] = "blocked"
         /\ \A t \in Task \ {current} :
               /\ op'[t] = op[t] /\ arg'[t] = arg[t]
               /\ state[t] \in {"ready", "running"} => state'[t] \in {"ready", "running"}
               /\ op[t] = "futex" => (state'[t] = "blocked" <=> state[t] = "blocked")
<1>0. /\ current \in Programs /\ current \in Task
      /\ state \in [Task -> States] /\ \A t \in Task : state[t] = "running" => t = current
      /\ \A t \in Task : t >= next_pid => state[t] = "unused"
      /\ op \in [Task -> {"user", "wait", "sleep", "sem", "futex", "read", "write"}]
      /\ arg \in [Task -> Nat]
  BY DEF CallerOK, UnusedAhead, LifeSound, LifeTypeOK, OnlyCurrentRuns, futex_wait, FutexCalls, Programs
<1>1. Park("futex", a, state) /\ UNCHANGED <<next_pid, parent, sleep_until, handler>>  BY DEF futex_wait
<1>2. "futex" \in OtherCalls /\ a \in Nat  BY FutexAssumption DEF OtherCalls
<1>3. CallerOK'  BY <1>0, <1>1, <1>2, ParkKeepsCaller
<1>4. /\ op' = [op EXCEPT ![current] = "futex"] /\ arg' = [arg EXCEPT ![current] = a]
      /\ state'[current] = "blocked"
      /\ \A t \in Task : t \notin {current, Idle} /\ state[t] # "ready" => state'[t] = state[t]
      /\ \A t \in Task : t # current =>
            state'[t] = state[t] \/ state'[t] \in {"ready", "running"}
  BY <1>0, <1>1, ParkAwake
<1>5. \A t \in Task : op[t] = "futex" => t # Idle  BY DEF CallerOK, ProgramsCall, Programs
<1>6. \A t \in Task \ {current} : op[t] = "futex" => (state'[t] = "blocked" <=> state[t] = "blocked")
  BY <1>4, <1>5
<1>7. \A t \in Task \ {current} : op'[t] = op[t] /\ arg'[t] = arg[t]  BY <1>0, <1>4
<1>8. op'[current] = "futex" /\ arg'[current] = a  BY <1>0, <1>4
<1> QED BY <1>0, <1>3, <1>4, <1>6, <1>7, <1>8

\* futex_wait() parks its caller in a slot that was free.
LEMMA WaitKeepsSlots ==
  ASSUME FutexIInv, NEW a \in Addr, NEW v, futex_wait(a, v), UNCHANGED disturbed
  PROVE  FutexIInv'
<1> DEFINE f == Min(FreeSlots)
           s == [used |-> TRUE, uaddr |-> a, waiter |-> current]
<1>0. CallerOK /\ FutexTypeOK /\ current \in Task /\ current < next_pid
      /\ state[current] # "blocked"
      /\ fut_slots \in [Slot -> {Free} \cup [used : {TRUE}, uaddr : Addr, waiter : Task]]
  BY CurrentBorn DEF FutexIInv, FutexTypeOK, CallerOK, CurrentAwake
<1>1. f \in Slot /\ ~fut_slots[f].used
  <2>1. FreeSlots \subseteq Nat /\ FreeSlots # {}  BY FutexAssumption DEF FreeSlots, Slot, futex_wait
  <2>2. f \in FreeSlots  BY <2>1, LeastIsThere
  <2> QED BY <2>2 DEF FreeSlots
<1>2. fut_slots' = [fut_slots EXCEPT ![f] = s] /\ UNCHANGED <<word, next_pid>>  BY DEF futex_wait
<1> HIDE DEF f
<1>3. /\ s.used /\ s.uaddr = a /\ s.waiter = current
      /\ s \in [used : {TRUE}, uaddr : Addr, waiter : Task]
  BY <1>0
<1> HIDE DEF s
<1>4. fut_slots'[f] = s /\ \A i \in Slot : i # f => fut_slots'[i] = fut_slots[i]  BY <1>0, <1>1, <1>2
<1>5. /\ CallerOK'
      /\ op'[current] = "futex" /\ arg'[current] = a /\ state'[current] = "blocked"
      /\ \A t \in Task \ {current} :
            /\ op'[t] = op[t] /\ arg'[t] = arg[t]
            /\ op[t] = "futex" => (state'[t] = "blocked" <=> state[t] = "blocked")
  BY <1>0, WaitFrame
<1>6. FutexTypeOK'
  <2>1. fut_slots' \in [Slot -> {Free} \cup [used : {TRUE}, uaddr : Addr, waiter : Task]]
    BY <1>0, <1>1, <1>2, <1>3
  <2> QED BY <1>0, <1>2, <1>5, <2>1 DEF FutexTypeOK, CallerOK, LifeSound
<1>7. SlotBorn'  BY <1>0, <1>2, <1>3, <1>4 DEF FutexIInv, SlotBorn
<1>8. FutexWaiterHasSlot'
  <2> SUFFICES ASSUME NEW t \in Task, op'[t] = "futex", state'[t] = "blocked"
               PROVE  \E i \in Slot : /\ fut_slots'[i].used /\ fut_slots'[i].waiter = t
                                      /\ fut_slots'[i].uaddr = arg'[t]
    BY DEF FutexWaiterHasSlot
  <2>1. CASE t = current  BY <1>1, <1>3, <1>4, <1>5, <2>1
  <2>2. CASE t # current
    <3>1. op[t] = "futex" /\ arg'[t] = arg[t] /\ state[t] = "blocked"  BY <1>5, <2>2
    <3>2. PICK i \in Slot : fut_slots[i].used /\ fut_slots[i].waiter = t /\ fut_slots[i].uaddr = arg[t]
      BY <3>1 DEF FutexIInv, FutexWaiterHasSlot
    <3>3. i # f  BY <1>1, <3>2
    <3> QED BY <1>4, <3>1, <3>2, <3>3
  <2> QED BY <2>1, <2>2
<1>9. SlotExact'
  <2> SUFFICES ASSUME ~disturbed
               PROVE  /\ \A i \in Slot : fut_slots'[i].used =>
                            Parked(fut_slots[i].waiter, fut_slots[i].uaddr)'
                      /\ \A i, j \in Slot : fut_slots'[i].used /\ fut_slots'[j].used
                            /\ fut_slots'[i].waiter = fut_slots'[j].waiter => i = j
    BY DEF SlotExact
  <2>1. \A i \in Slot : fut_slots[i].used => fut_slots[i].waiter \in Task  BY <1>0, SlotFields
  <2>2. /\ \A i \in Slot : fut_slots[i].used =>
              /\ op[fut_slots[i].waiter] = "futex" /\ arg[fut_slots[i].waiter] = fut_slots[i].uaddr
              /\ state[fut_slots[i].waiter] = "blocked"
        /\ \A i, j \in Slot : fut_slots[i].used /\ fut_slots[j].used
              /\ fut_slots[i].waiter = fut_slots[j].waiter => i = j
    BY DEF FutexIInv, SlotExact, Parked
  <2>3. \A i \in Slot : fut_slots[i].used => fut_slots[i].waiter # current  BY <1>0, <2>2
  <2>4. ASSUME NEW i \in Slot, fut_slots'[i].used
        PROVE  /\ op'[fut_slots'[i].waiter] = "futex"
               /\ arg'[fut_slots'[i].waiter] = fut_slots'[i].uaddr
               /\ state'[fut_slots'[i].waiter] = "blocked"
    <3>1. CASE i = f  BY <1>3, <1>4, <1>5, <3>1
    <3>2. CASE i # f  BY <1>4, <1>5, <2>1, <2>2, <2>3, <2>4, <3>2
    <3> QED BY <3>1, <3>2
  <2>5. ASSUME NEW i \in Slot, NEW j \in Slot, fut_slots'[i].used, fut_slots'[j].used,
               fut_slots'[i].waiter = fut_slots'[j].waiter
        PROVE  i = j
    <3>1. \A k \in Slot : k = f \/ fut_slots'[k] = fut_slots[k]  BY <1>4
    <3> QED BY <1>3, <1>4, <2>2, <2>3, <2>5, <3>1
  <2> QED BY <2>4, <2>5 DEF Parked
<1> QED BY <1>5, <1>6, <1>7, <1>8, <1>9 DEF FutexIInv

\* What futex_wake() does to the threads: it parks nobody, and makes the
\* waiters of the slots it empties READY.
LEMMA WakeFrame ==
  ASSUME FutexIInv, NEW a, NEW n, futex_wake(a, n)
  PROVE  /\ CallerOK' /\ current \in Task
         /\ UNCHANGED <<current, op, arg, word>>
         /\ \A t \in Task :
               \/ state'[t] = state[t] /\
                     (state[t] = "freed" \/ \A i \in WokenSlots(a, n) : fut_slots[i].waiter # t)
               \/ state'[t] = "ready" /\ \E i \in WokenSlots(a, n) : fut_slots[i].waiter = t
<1>1. state \in [Task -> States] /\ CallerOK /\ current \in Task
  BY DEF FutexIInv, CallerOK, LifeSound, LifeTypeOK
<1>2. state' = [t \in Task |->
                  IF state[t] # "freed" /\ \E i \in WokenSlots(a, n) : fut_slots[i].waiter = t
                  THEN "ready" ELSE state[t]]
      /\ UNCHANGED <<word, current, next_pid, parent, op, arg, sleep_until, handler, pending>>
  BY DEF futex_wake, WakeEffect
<1>3. state' \in [Task -> States]  BY <1>1, <1>2 DEF States
<1>4. \A i \in WokenSlots(a, n) : i \in Slot /\ fut_slots[i].used  BY DEF WokenSlots, Matching
<1>5. \A t \in Task : state'[t] = state[t] \/ (state'[t] = "ready" /\ t < next_pid)
  BY <1>2, <1>4 DEF FutexIInv, SlotBorn
<1>6. CallerOK'  BY <1>1, <1>2, <1>3, <1>5, WakingKeepsCaller
<1> QED BY <1>1, <1>2, <1>6

\* futex_wake() empties the slots of the threads it wakes, and no others.
LEMMA WakeKeepsSlots ==
  ASSUME FutexIInv, NEW a, NEW n, futex_wake(a, n), UNCHANGED disturbed
  PROVE  FutexIInv'
<1> DEFINE W == WokenSlots(a, n)
<1>0. /\ CallerOK /\ FutexTypeOK
      /\ fut_slots \in [Slot -> {Free} \cup [used : {TRUE}, uaddr : Addr, waiter : Task]]
      /\ \A i \in Slot : fut_slots[i].used => fut_slots[i].waiter \in Task
      /\ \A i \in W : i \in Slot /\ fut_slots[i].used
  BY SlotFields DEF FutexIInv, FutexTypeOK, WokenSlots, Matching
<1>1. fut_slots' = [i \in Slot |-> IF i \in W THEN Free ELSE fut_slots[i]]  BY DEF futex_wake, WakeEffect
<1>2. /\ CallerOK' /\ UNCHANGED <<current, op, arg, word>>
      /\ \A t \in Task :
            \/ state'[t] = state[t] /\ (state[t] = "freed" \/ \A i \in W : fut_slots[i].waiter # t)
            \/ state'[t] = "ready" /\ \E i \in W : fut_slots[i].waiter = t
  BY WakeFrame
<1>3. next_pid' = next_pid  BY DEF futex_wake
<1> HIDE DEF W
<1>4. \A i \in Slot : fut_slots'[i].used => i \notin W /\ fut_slots'[i] = fut_slots[i]  BY <1>1 DEF Free
<1>5. FutexTypeOK'
  <2>1. fut_slots' \in [Slot -> {Free} \cup [used : {TRUE}, uaddr : Addr, waiter : Task]]  BY <1>0, <1>1
  <2> QED BY <1>0, <1>2, <2>1 DEF FutexTypeOK, CallerOK, LifeSound
<1>6. SlotBorn'  BY <1>3, <1>4 DEF FutexIInv, SlotBorn
<1>7. FutexWaiterHasSlot'
  <2> SUFFICES ASSUME NEW t \in Task, op[t] = "futex", state'[t] = "blocked"
               PROVE  \E i \in Slot : /\ fut_slots'[i].used /\ fut_slots'[i].waiter = t
                                      /\ fut_slots'[i].uaddr = arg[t]
    BY <1>2 DEF FutexWaiterHasSlot
  <2>1. state[t] = "blocked" /\ \A i \in W : fut_slots[i].waiter # t  BY <1>2
  <2>2. PICK i \in Slot : fut_slots[i].used /\ fut_slots[i].waiter = t /\ fut_slots[i].uaddr = arg[t]
    BY <2>1 DEF FutexIInv, FutexWaiterHasSlot
  <2>3. fut_slots'[i] = fut_slots[i]  BY <1>1, <2>1, <2>2
  <2> QED BY <2>2, <2>3
<1>8. SlotExact'
  <2> SUFFICES ASSUME ~disturbed
               PROVE  /\ \A i \in Slot : fut_slots'[i].used =>
                            Parked(fut_slots[i].waiter, fut_slots[i].uaddr)'
                      /\ \A i, j \in Slot : fut_slots'[i].used /\ fut_slots'[j].used
                            /\ fut_slots'[i].waiter = fut_slots'[j].waiter => i = j
    BY DEF SlotExact
  <2>1. /\ \A i \in Slot : fut_slots[i].used =>
              /\ op[fut_slots[i].waiter] = "futex" /\ arg[fut_slots[i].waiter] = fut_slots[i].uaddr
              /\ state[fut_slots[i].waiter] = "blocked"
        /\ \A i, j \in Slot : fut_slots[i].used /\ fut_slots[j].used
              /\ fut_slots[i].waiter = fut_slots[j].waiter => i = j
    BY DEF FutexIInv, SlotExact, Parked
  <2>2. ASSUME NEW i \in Slot, fut_slots'[i].used
        PROVE  /\ op'[fut_slots'[i].waiter] = "futex"
               /\ arg'[fut_slots'[i].waiter] = fut_slots'[i].uaddr
               /\ state'[fut_slots'[i].waiter] = "blocked"
    <3>1. i \notin W /\ fut_slots'[i] = fut_slots[i] /\ fut_slots[i].waiter \in Task  BY <1>0, <1>4, <2>2
    <3>2. \A j \in W : fut_slots[j].waiter # fut_slots[i].waiter  BY <1>0, <2>1, <2>2, <3>1
    <3> QED BY <1>2, <2>1, <2>2, <3>1, <3>2
  <2> QED BY <1>4, <2>1, <2>2 DEF Parked
<1> QED BY <1>2, <1>5, <1>6, <1>7, <1>8 DEF FutexIInv

------------------------------

\* The invariant of the monitor, which speaks of the words, the labels and
\* the items only: it holds whoever is woken or killed.
Labels == Holding \cup {"idle", "wake", "cond_wake", "cond_sleep", "lock", "contend", "sleep", "retry"}

LibTypeOK ==
    /\ word \in [Addr -> 0 .. MaxWord]
    /\ pc \in [Task -> Labels]
    /\ reg \in [Task -> 0 .. MaxWord]
    /\ items \in Nat

\* One thread is at a label where it holds the mutex exactly when the word says
\* that the mutex is locked.
OneHolder == \A t, u \in Task : pc[t] \in Holding /\ pc[u] \in Holding => t = u
HeldLocked == \A t \in Task : pc[t] \in Holding => word[M] # 0
LockedHeld == word[M] # 0 => \E t \in Task : pc[t] \in Holding

\* A producer that is about to signal has room in the sequence number.
SignalRoom == \A t \in Task : pc[t] = "signal" => word[C] < MaxItems

\* Labels of pthread_cond_wait() before it sleeps; only consumers are in it.
Waiting == {"cond_unlock", "cond_wake", "cond_sleep"}
PcConsumer == \A t \in Task : pc[t] \in Waiting \cup {"lock"} => t \in Consumers

\* A consumer that still holds the current sequence number has missed no item,
\* but for the one whose producer has yet to move the number.
RegFresh ==
    \A t \in Task : pc[t] \in Waiting =>
        /\ reg[t] <= word[C]
        /\ reg[t] = word[C] => items = 0 \/ (items = 1 /\ \E u \in Task : pc[u] = "signal")

MonitorInv ==
    LibTypeOK /\ OneHolder /\ HeldLocked /\ LockedHeld /\ SignalRoom /\ PcConsumer /\ RegFresh

\* A thread that does not hold the mutex moves on without taking it.
LEMMA OutsideMove ==
  ASSUME MonitorInv, current \in Task, NEW l \in Labels \ Holding,
         pc[current] \notin Holding, pc' = [pc EXCEPT ![current] = l],
         l \in Waiting => pc[current] \in Waiting /\ reg'[current] = reg[current],
         l = "lock" => pc[current] \in Waiting,
         word' \in [Addr -> 0 .. MaxWord], word'[C] = word[C], word'[M] = 0 <=> word[M] = 0,
         reg' \in [Task -> 0 .. MaxWord],
         \A t \in Task : t # current => reg'[t] = reg[t],
         UNCHANGED items
  PROVE  MonitorInv'
<1>0. /\ pc \in [Task -> Labels] /\ pc'[current] = l
      /\ \A t \in Task : t # current => pc'[t] = pc[t]
      /\ "signal" \in Holding
  BY DEF MonitorInv, LibTypeOK, Holding
<1>1. LibTypeOK'  BY <1>0 DEF MonitorInv, LibTypeOK
<1>2. OneHolder' /\ HeldLocked'  BY <1>0 DEF MonitorInv, OneHolder, HeldLocked
<1>3. LockedHeld'  BY <1>0 DEF MonitorInv, LockedHeld
<1>4. SignalRoom'  BY <1>0 DEF MonitorInv, SignalRoom
<1>5. PcConsumer'  BY <1>0 DEF MonitorInv, PcConsumer
<1>6. RegFresh'
  <2> SUFFICES ASSUME NEW t \in Task, pc'[t] \in Waiting
               PROVE  /\ reg'[t] <= word'[C]
                      /\ reg'[t] = word'[C] => items = 0 \/ (items = 1 /\ \E u \in Task : pc'[u] = "signal")
    BY DEF RegFresh
  <2>1. pc[t] \in Waiting /\ reg'[t] = reg[t]  BY <1>0
  <2>2. /\ reg[t] <= word[C]
        /\ reg[t] = word[C] => items = 0 \/ (items = 1 /\ \E u \in Task : pc[u] = "signal")
    BY <2>1 DEF MonitorInv, RegFresh
  <2>3. \A u \in Task : pc[u] = "signal" => pc'[u] = "signal"  BY <1>0
  <2> QED BY <2>1, <2>2, <2>3
<1> QED BY <1>1, <1>2, <1>3, <1>4, <1>5, <1>6 DEF MonitorInv

\* A thread takes the mutex, which nobody holds because it is open.
LEMMA TakeMove ==
  ASSUME MonitorInv, current \in Task, word[M] = 0, pc' = [pc EXCEPT ![current] = "held"],
         word' \in [Addr -> 0 .. MaxWord], word'[C] = word[C], word'[M] # 0,
         reg' \in [Task -> 0 .. MaxWord],
         \A t \in Task : t # current => reg'[t] = reg[t],
         UNCHANGED items
  PROVE  MonitorInv'
<1>0. /\ pc \in [Task -> Labels] /\ pc'[current] = "held"
      /\ \A t \in Task : t # current => pc'[t] = pc[t]
      /\ \A t \in Task : pc[t] \notin Holding
      /\ "held" \in Holding /\ "signal" \in Holding /\ "held" \in Labels
      /\ "held" \notin Waiting \cup {"lock"} /\ "held" # "signal"
  BY DEF MonitorInv, LibTypeOK, HeldLocked, Holding, Labels, Waiting
<1>1. LibTypeOK'  BY <1>0 DEF MonitorInv, LibTypeOK
<1>2. OneHolder' /\ HeldLocked' /\ LockedHeld'  BY <1>0 DEF OneHolder, HeldLocked, LockedHeld
<1>3. SignalRoom' /\ PcConsumer'  BY <1>0 DEF MonitorInv, SignalRoom, PcConsumer
<1>4. RegFresh'
  <2> SUFFICES ASSUME NEW t \in Task, pc'[t] \in Waiting
               PROVE  /\ reg'[t] <= word'[C]
                      /\ reg'[t] = word'[C] => items = 0
    BY DEF RegFresh
  <2>1. t # current /\ pc[t] \in Waiting /\ reg'[t] = reg[t]  BY <1>0
  <2>2. \A u \in Task : pc[u] # "signal"  BY <1>0
  <2> QED BY <2>1, <2>2 DEF MonitorInv, RegFresh
<1> QED BY <1>1, <1>2, <1>3, <1>4 DEF MonitorInv

\* The holder opens the mutex.
LEMMA OpenMove ==
  ASSUME MonitorInv, current \in Task, NEW from \in Holding \ {"signal"}, NEW l \in {"wake", "cond_wake"},
         pc[current] = from, pc' = [pc EXCEPT ![current] = l],
         l = "cond_wake" => from = "cond_unlock",
         word' = [word EXCEPT ![M] = 0], UNCHANGED <<reg, items>>
  PROVE  MonitorInv'
<1>0. /\ pc \in [Task -> Labels] /\ pc'[current] = l /\ l \in Labels \ Holding
      /\ l # "lock" /\ (l \in Waiting => from \in Waiting)
      /\ \A t \in Task : t # current => pc'[t] = pc[t] /\ pc[t] \notin Holding
      /\ "signal" \in Holding
  BY DEF MonitorInv, LibTypeOK, OneHolder, Holding, Labels, Waiting
<1>a. word' \in [Addr -> 0 .. MaxWord] /\ word'[M] = 0 /\ word'[C] = word[C]
  BY PthreadAssumption, FutexAssumption DEF MonitorInv, LibTypeOK, M, C
<1>1. LibTypeOK'  BY <1>0, <1>a DEF MonitorInv, LibTypeOK
<1>2. OneHolder' /\ HeldLocked' /\ LockedHeld'  BY <1>0, <1>a DEF OneHolder, HeldLocked, LockedHeld
<1>3. SignalRoom' /\ PcConsumer'  BY <1>0, <1>a DEF MonitorInv, SignalRoom, PcConsumer
<1>4. RegFresh'
  <2> SUFFICES ASSUME NEW t \in Task, pc'[t] \in Waiting
               PROVE  reg[t] <= word[C] /\ (reg[t] = word[C] => items = 0)
    BY <1>a DEF RegFresh
  <2>1. pc[t] \in Waiting  BY <1>0
  <2>2. \A u \in Task : pc[u] # "signal"  BY <1>0
  <2> QED BY <2>1, <2>2 DEF MonitorInv, RegFresh
<1> QED BY <1>1, <1>2, <1>3, <1>4 DEF MonitorInv

\* The holder goes on under the mutex: nobody else holds it, and the other
\* parts of the invariant need looking at what it did.
LEMMA InsideMove ==
  ASSUME MonitorInv, current \in Task, NEW l \in Holding,
         pc[current] \in Holding, pc' = [pc EXCEPT ![current] = l],
         word' \in [Addr -> 0 .. MaxWord], word'[M] = word[M],
         reg' \in [Task -> 0 .. MaxWord], items' \in Nat
  PROVE  /\ LibTypeOK' /\ OneHolder' /\ HeldLocked' /\ LockedHeld'
         /\ pc'[current] = l
         /\ \A t \in Task : t # current => pc'[t] = pc[t] /\ pc[t] \notin Holding
<1>0. /\ pc \in [Task -> Labels] /\ pc'[current] = l /\ l \in Labels
      /\ \A t \in Task : t # current => pc'[t] = pc[t] /\ pc[t] \notin Holding
  BY DEF MonitorInv, LibTypeOK, OneHolder, Labels
<1>1. LibTypeOK'  BY <1>0 DEF LibTypeOK
<1> QED BY <1>0, <1>1 DEF MonitorInv, OneHolder, HeldLocked, LockedHeld

\* pthread_mutex_lock() and pthread_mutex_unlock(): every instruction and
\* every call keeps the invariant of the monitor.
LEMMA LockKeepsMonitor ==
  ASSUME MonitorInv, current \in Task,
         \/ LockFast("idle") \/ LockFast("lock") \/ LockContend \/ LockSleep \/ LockRetry
         \/ UnlockOpen("unlock", "wake") \/ UnlockWake("wake", "idle")
         \/ UnlockOpen("cond_unlock", "cond_wake") \/ UnlockWake("cond_wake", "cond_sleep")
  PROVE  MonitorInv'
<1>0. /\ word \in [Addr -> 0 .. MaxWord] /\ reg \in [Task -> 0 .. MaxWord]
      /\ M \in Addr /\ C \in Addr /\ M # C /\ MaxWord \in Nat /\ MaxWord >= 2
  BY PthreadAssumption, FutexAssumption DEF MonitorInv, LibTypeOK, M, C
<1>l. /\ {"contend", "sleep", "retry", "idle", "cond_sleep"} \subseteq Labels \ Holding
      /\ {"idle", "lock", "contend", "sleep", "retry", "wake", "cond_wake"} \cap Holding = {}
      /\ {"contend", "sleep", "retry", "idle", "lock"} \cap Waiting = {}
      /\ {"contend", "sleep", "retry", "idle", "cond_sleep"} \cap {"lock"} = {}
      /\ {"unlock", "cond_unlock"} \subseteq Holding \ {"signal"}
      /\ {"cond_wake", "cond_sleep"} \subseteq Waiting
  BY DEF Labels, Holding, Waiting
<1>1. ASSUME NEW from \in {"idle", "lock"}, LockFast(from) PROVE MonitorInv'
  <2>1. /\ pc[current] = from /\ UNCHANGED items
        /\ pc' = [pc EXCEPT ![current] = IF word[M] = 0 THEN "held" ELSE "contend"]
        /\ word' = [word EXCEPT ![M] = IF @ = 0 THEN 1 ELSE @]
        /\ reg' = [reg EXCEPT ![current] = word[M]]
    BY <1>1 DEF LockFast, At, CAS, Goto
  <2>2. /\ word' \in [Addr -> 0 .. MaxWord] /\ word'[C] = word[C]
        /\ word'[M] = IF word[M] = 0 THEN 1 ELSE word[M]
        /\ reg' \in [Task -> 0 .. MaxWord]
        /\ \A t \in Task : t # current => reg'[t] = reg[t]
    BY <1>0, <2>1
  <2>3. CASE word[M] = 0
    <3>1. pc' = [pc EXCEPT ![current] = "held"] /\ word'[M] # 0  BY <2>1, <2>2, <2>3
    <3> QED BY <2>1, <2>2, <2>3, <3>1, TakeMove
  <2>4. CASE word[M] # 0
    <3>1. pc' = [pc EXCEPT ![current] = "contend"] /\ (word'[M] = 0 <=> word[M] = 0)  BY <2>1, <2>2, <2>4
    <3> QED BY <1>l, <2>1, <2>2, <3>1, OutsideMove
  <2> QED BY <2>3, <2>4
<1>2. CASE LockContend
  <2>1. /\ pc[current] = "contend" /\ UNCHANGED <<reg, items>>
        /\ \/ word' = word \/ word' = [word EXCEPT ![M] = IF @ = 1 THEN 2 ELSE @]
        /\ \E l \in {"sleep", "retry"} : pc' = [pc EXCEPT ![current] = l]
    BY <1>2 DEF LockContend, At, Goto
  <2>2. /\ word' \in [Addr -> 0 .. MaxWord] /\ word'[C] = word[C]
        /\ (word'[M] = 0 <=> word[M] = 0)
    BY <1>0, <2>1
  <2>3. PICK l \in {"sleep", "retry"} : pc' = [pc EXCEPT ![current] = l]  BY <2>1
  <2> QED BY <1>0, <1>l, <2>1, <2>2, <2>3, OutsideMove
<1>3. CASE LockSleep
  <2>1. /\ pc[current] = "sleep" /\ UNCHANGED <<reg, items, word>>
        /\ pc' = [pc EXCEPT ![current] = "retry"]
    BY <1>3 DEF LockSleep, FutexWaitAt, At, Goto, futex_wait, slotVars, futexVars
  <2> QED BY <1>0, <1>l, <2>1, OutsideMove
<1>4. CASE LockRetry
  <2>1. /\ pc[current] = "retry" /\ UNCHANGED items
        /\ pc' = [pc EXCEPT ![current] = IF word[M] = 0 THEN "held" ELSE "contend"]
        /\ word' = [word EXCEPT ![M] = IF @ = 0 THEN 2 ELSE @]
        /\ reg' = [reg EXCEPT ![current] = word[M]]
    BY <1>4 DEF LockRetry, At, CAS, Goto
  <2>2. /\ word' \in [Addr -> 0 .. MaxWord] /\ word'[C] = word[C]
        /\ word'[M] = IF word[M] = 0 THEN 2 ELSE word[M]
        /\ reg' \in [Task -> 0 .. MaxWord]
        /\ \A t \in Task : t # current => reg'[t] = reg[t]
    BY <1>0, <2>1
  <2>3. CASE word[M] = 0
    <3>1. pc' = [pc EXCEPT ![current] = "held"] /\ word'[M] # 0  BY <2>1, <2>2, <2>3
    <3> QED BY <2>1, <2>2, <2>3, <3>1, TakeMove
  <2>4. CASE word[M] # 0
    <3>1. pc' = [pc EXCEPT ![current] = "contend"] /\ (word'[M] = 0 <=> word[M] = 0)  BY <2>1, <2>2, <2>4
    <3> QED BY <1>l, <2>1, <2>2, <3>1, OutsideMove
  <2> QED BY <2>3, <2>4
<1>5. CASE UnlockOpen("unlock", "wake")
  <2>1. /\ pc[current] = "unlock" /\ pc' = [pc EXCEPT ![current] = "wake"]
        /\ word' = [word EXCEPT ![M] = 0] /\ UNCHANGED <<reg, items>>
    BY <1>5 DEF UnlockOpen, At, Goto
  <2> QED BY <1>l, <2>1, OpenMove
<1>6. CASE UnlockOpen("cond_unlock", "cond_wake")
  <2>1. /\ pc[current] = "cond_unlock" /\ pc' = [pc EXCEPT ![current] = "cond_wake"]
        /\ word' = [word EXCEPT ![M] = 0] /\ UNCHANGED <<reg, items>>
    BY <1>6 DEF UnlockOpen, At, Goto
  <2> QED BY <1>l, <2>1, OpenMove
<1>7. CASE UnlockWake("wake", "idle")
  <2>1. /\ pc[current] = "wake" /\ pc' = [pc EXCEPT ![current] = "idle"]
        /\ UNCHANGED <<word, reg, items>>
    BY <1>7 DEF UnlockWake, At, Goto, futex_wake
  <2> QED BY <1>0, <1>l, <2>1, OutsideMove
<1>8. CASE UnlockWake("cond_wake", "cond_sleep")
  <2>1. /\ pc[current] = "cond_wake" /\ pc' = [pc EXCEPT ![current] = "cond_sleep"]
        /\ UNCHANGED <<word, reg, items>>
    BY <1>8 DEF UnlockWake, At, Goto, futex_wake
  <2> QED BY <1>0, <1>l, <2>1, OutsideMove
<1> QED BY <1>1, <1>2, <1>3, <1>4, <1>5, <1>6, <1>7, <1>8

\* pthread_cond_wait(), pthread_cond_signal() and what the threads do
\* under the mutex.
LEMMA CondKeepsMonitor ==
  ASSUME MonitorInv, current \in Task,
         CondWait \/ CondSleep \/ Consume \/ Produce \/ GiveUp \/ SignalSeq \/ SignalWake
  PROVE  MonitorInv'
<1>0. /\ word \in [Addr -> 0 .. MaxWord] /\ reg \in [Task -> 0 .. MaxWord] /\ items \in Nat
      /\ M \in Addr /\ C \in Addr /\ M # C /\ MaxWord \in Nat /\ MaxItems \in Nat /\ MaxItems <= MaxWord
      /\ word[C] \in Nat
  BY PthreadAssumption, FutexAssumption DEF MonitorInv, LibTypeOK, M, C
<1>l. /\ "lock" \in Labels \ Holding /\ "cond_sleep" \notin Holding /\ "lock" \notin Waiting
      /\ "cond_sleep" \in Waiting /\ "cond_unlock" \in Waiting
      /\ {"held", "signal", "signal_wake", "cond_unlock", "unlock"} = Holding
      /\ {"held", "signal", "signal_wake", "unlock"} \cap (Waiting \cup {"lock"}) = {}
  BY DEF Labels, Holding, Waiting
<1>m. ASSUME NEW l \in Holding, pc[current] \in Holding, pc' = [pc EXCEPT ![current] = l],
             word' \in [Addr -> 0 .. MaxWord], word'[M] = word[M],
             reg' \in [Task -> 0 .. MaxWord], items' \in Nat
      PROVE  /\ LibTypeOK' /\ OneHolder' /\ HeldLocked' /\ LockedHeld'
             /\ pc'[current] = l
             /\ \A t \in Task : t # current => pc'[t] = pc[t] /\ pc[t] \notin Holding
  BY <1>m, InsideMove
<1>1. CASE CondWait
  <2>1. /\ pc[current] = "held" /\ pc' = [pc EXCEPT ![current] = "cond_unlock"]
        /\ current \in Consumers /\ items = 0 /\ UNCHANGED <<word, items>>
        /\ reg' = [reg EXCEPT ![current] = word[C]]
    BY <1>1 DEF CondWait, At, Goto
  <2>2. /\ reg' \in [Task -> 0 .. MaxWord] /\ reg'[current] = word[C]
        /\ \A t \in Task : t # current => reg'[t] = reg[t]
    BY <1>0, <2>1
  <2>3. /\ LibTypeOK' /\ OneHolder' /\ HeldLocked' /\ LockedHeld'
        /\ pc'[current] = "cond_unlock"
        /\ \A t \in Task : t # current => pc'[t] = pc[t] /\ pc[t] \notin Holding
    BY <1>0, <1>l, <1>m, <2>1, <2>2
  <2>4. SignalRoom' /\ PcConsumer'  BY <1>l, <2>1, <2>3 DEF MonitorInv, SignalRoom, PcConsumer
  <2>5. RegFresh'  BY <1>0, <2>1, <2>2, <2>3 DEF MonitorInv, RegFresh
  <2> QED BY <2>3, <2>4, <2>5 DEF MonitorInv
<1>2. CASE CondSleep
  <2>1. /\ pc[current] = "cond_sleep" /\ UNCHANGED <<reg, items, word>>
        /\ pc' = [pc EXCEPT ![current] = "lock"]
    BY <1>2 DEF CondSleep, FutexWaitAt, At, Goto, futex_wait, slotVars, futexVars
  <2> QED BY <1>0, <1>l, <2>1, OutsideMove
<1>3. CASE Consume
  <2>1. /\ pc[current] = "held" /\ pc' = [pc EXCEPT ![current] = "unlock"]
        /\ items > 0 /\ items' = items - 1 /\ UNCHANGED <<word, reg>>
    BY <1>3 DEF Consume, At, Goto
  <2>2. items' \in Nat  BY <1>0, <2>1
  <2>3. /\ LibTypeOK' /\ OneHolder' /\ HeldLocked' /\ LockedHeld'
        /\ pc'[current] = "unlock"
        /\ \A t \in Task : t # current => pc'[t] = pc[t] /\ pc[t] \notin Holding
    BY <1>0, <1>l, <1>m, <2>1, <2>2
  <2>4. SignalRoom' /\ PcConsumer'  BY <1>l, <2>1, <2>3 DEF MonitorInv, SignalRoom, PcConsumer
  <2>5. RegFresh'  BY <1>0, <1>l, <2>1, <2>3 DEF MonitorInv, RegFresh
  <2> QED BY <2>3, <2>4, <2>5 DEF MonitorInv
<1>4. CASE Produce
  <2>1. /\ pc[current] = "held" /\ pc' = [pc EXCEPT ![current] = "signal"]
        /\ word[C] < MaxItems /\ items' = items + 1 /\ UNCHANGED <<word, reg>>
    BY <1>4 DEF Produce, At, Goto
  <2>2. items' \in Nat  BY <1>0, <2>1
  <2>3. /\ LibTypeOK' /\ OneHolder' /\ HeldLocked' /\ LockedHeld'
        /\ pc'[current] = "signal"
        /\ \A t \in Task : t # current => pc'[t] = pc[t] /\ pc[t] \notin Holding
    BY <1>0, <1>l, <1>m, <2>1, <2>2
  <2>4. SignalRoom' /\ PcConsumer'  BY <1>l, <2>1, <2>3 DEF MonitorInv, SignalRoom, PcConsumer
  <2>5. RegFresh'
    <3> SUFFICES ASSUME NEW t \in Task, pc'[t] \in Waiting
                 PROVE  reg[t] <= word[C] /\ (reg[t] = word[C] => items' = 1)
      BY <2>1, <2>3 DEF RegFresh
    <3>1. t # current /\ pc[t] \in Waiting  BY <1>l, <2>3
    <3>2. \A u \in Task : pc[u] # "signal"  BY <1>l, <2>1, <2>3
    <3>3. reg[t] <= word[C] /\ (reg[t] = word[C] => items = 0)  BY <3>1, <3>2 DEF MonitorInv, RegFresh
    <3> QED BY <2>1, <3>3
  <2> QED BY <2>3, <2>4, <2>5 DEF MonitorInv
<1>5. CASE GiveUp \/ SignalWake
  <2>1. /\ pc[current] \in {"held", "signal_wake"} /\ pc' = [pc EXCEPT ![current] = "unlock"]
        /\ UNCHANGED <<word, reg, items>>
    BY <1>5 DEF GiveUp, SignalWake, At, Goto, futex_wake
  <2>3. /\ LibTypeOK' /\ OneHolder' /\ HeldLocked' /\ LockedHeld'
        /\ pc'[current] = "unlock"
        /\ \A t \in Task : t # current => pc'[t] = pc[t] /\ pc[t] \notin Holding
    BY <1>0, <1>l, <1>m, <2>1
  <2>4. SignalRoom' /\ PcConsumer'  BY <1>l, <2>1, <2>3 DEF MonitorInv, SignalRoom, PcConsumer
  <2>5. RegFresh'  BY <1>0, <1>l, <2>1, <2>3 DEF MonitorInv, RegFresh
  <2> QED BY <2>3, <2>4, <2>5 DEF MonitorInv
<1>6. CASE SignalSeq
  <2>1. /\ pc[current] = "signal" /\ pc' = [pc EXCEPT ![current] = "signal_wake"]
        /\ word' = [word EXCEPT ![C] = @ + 1] /\ UNCHANGED <<reg, items>>
    BY <1>6 DEF SignalSeq, At, Goto
  <2>2. word[C] < MaxItems  BY <2>1 DEF MonitorInv, SignalRoom
  <2>3. word' \in [Addr -> 0 .. MaxWord] /\ word'[M] = word[M] /\ word'[C] = word[C] + 1  BY <1>0, <2>1, <2>2
  <2>4. /\ LibTypeOK' /\ OneHolder' /\ HeldLocked' /\ LockedHeld'
        /\ pc'[current] = "signal_wake"
        /\ \A t \in Task : t # current => pc'[t] = pc[t] /\ pc[t] \notin Holding
    BY <1>0, <1>l, <1>m, <2>1, <2>3
  <2>5. SignalRoom' /\ PcConsumer'  BY <1>l, <2>1, <2>4 DEF MonitorInv, SignalRoom, PcConsumer
  <2>6. RegFresh'
    <3> SUFFICES ASSUME NEW t \in Task, pc'[t] \in Waiting PROVE reg[t] < word'[C]
      BY <1>0, <2>1, <2>3 DEF RegFresh
    <3>1. pc[t] \in Waiting /\ reg[t] \in Nat  BY <1>0, <1>l, <2>4
    <3> QED BY <1>0, <2>3, <3>1 DEF MonitorInv, RegFresh
  <2> QED BY <2>4, <2>5, <2>6 DEF MonitorInv
<1> QED BY <1>1, <1>2, <1>3, <1>4, <1>5, <1>6

\* Nothing else touches what the monitor is made of.
LEMMA MonitorStep ==
  ASSUME MonitorInv, CallerOK, [PthreadNext]_threadVars
  PROVE  MonitorInv'
<1>1. ASSUME UNCHANGED <<word, pc, reg, items>> PROVE MonitorInv'
  BY <1>1 DEF MonitorInv, LibTypeOK, OneHolder, HeldLocked, LockedHeld, SignalRoom, PcConsumer,
              RegFresh
<1>2. CASE UNCHANGED threadVars  BY <1>1, <1>2 DEF threadVars, slotVars, futexVars, libVars
<1>3. CASE Elsewhere  BY <1>1, <1>3 DEF Elsewhere, futexVars, libVars
<1>4. CASE futex_resume /\ UNCHANGED libVars  BY <1>1, <1>4 DEF futex_resume, futexVars, libVars
<1>5. current \in Task  BY DEF CallerOK, LifeSound, LifeTypeOK
<1> QED BY <1>2, <1>3, <1>4, <1>5, LockKeepsMonitor, CondKeepsMonitor DEF PthreadNext, Library

\* A step of the library is an instruction, a call that fails, or one of
\* the steps of the futex calls.
LEMMA LibraryCalls ==
  ASSUME Library
  PROVE  \/ UserStep
         \/ \E a \in Addr : \E v : futex_wait(a, v)
         \/ \E a \in Addr : \E n \in Nat \ {0} : futex_wake(a, n)
         \/ futex_resume
<1> DEFINE Waits == \E a \in Addr : \E v : futex_wait(a, v)
           WakesUp == \E a \in Addr : \E n \in Nat \ {0} : futex_wake(a, n)
<1>0. M \in Addr /\ C \in Addr /\ {1, Slots} \subseteq Nat \ {0}  BY PthreadAssumption, FutexAssumption
<1>1. ASSUME NEW l, NEW a \in Addr, NEW v, NEW then, FutexWaitAt(l, a, v, then)
      PROVE  UserStep \/ futex_wait(a, v)
  BY <1>1 DEF FutexWaitAt, UserStep, slotVars, futexVars
<1>2. LockSleep \/ CondSleep => UserStep \/ Waits  BY <1>0, <1>1 DEF LockSleep, CondSleep
<1>3. UnlockWake("wake", "idle") \/ UnlockWake("cond_wake", "cond_sleep") \/ SignalWake
        => WakesUp
  BY <1>0 DEF UnlockWake, SignalWake
<1>4. ASSUME \/ LockFast("idle") \/ LockFast("lock") \/ LockContend \/ LockRetry
             \/ UnlockOpen("unlock", "wake") \/ UnlockOpen("cond_unlock", "cond_wake")
             \/ CondWait \/ Consume \/ Produce \/ GiveUp \/ SignalSeq
      PROVE  UserStep
  BY <1>4 DEF LockFast, LockContend, LockRetry, UnlockOpen, CondWait, Consume, Produce, GiveUp, SignalSeq
<1> SUFFICES UserStep \/ Waits \/ WakesUp \/ futex_resume  OBVIOUS
<1> HIDE DEF Waits, WakesUp
<1> QED BY <1>2, <1>3, <1>4 DEF Library

\* The slots and the monitor together.
LockIInv == FutexIInv /\ MonitorInv

\* The table of futexes and the monitor are kept by every step.
LEMMA LockIInvStep == LockIInv /\ [PthreadNext]_threadVars => LockIInv'
<1> SUFFICES ASSUME LockIInv, [PthreadNext]_threadVars PROVE LockIInv'  OBVIOUS
<1>1. MonitorInv'  BY MonitorStep DEF LockIInv, FutexIInv
<1>2. word' \in [Addr -> 0 .. MaxWord]  BY <1>1 DEF MonitorInv, LibTypeOK
<1>3. CASE UNCHANGED threadVars
  <2>1. UserStep /\ UNCHANGED disturbed  BY <1>3 DEF threadVars, slotVars, futexVars, UserStep
  <2> QED BY <1>1, <1>2, <2>1, UserKeepsSlots DEF LockIInv
<1>4. CASE Elsewhere  BY <1>1, <1>4, ElsewhereKeepsSlots DEF LockIInv
<1>5. CASE Library /\ UNCHANGED disturbed
  BY <1>1, <1>2, <1>5, LibraryCalls, UserKeepsSlots, WaitKeepsSlots, WakeKeepsSlots,
     ResumeKeepsSlots DEF LockIInv
<1> QED BY <1>3, <1>4, <1>5 DEF PthreadNext

\* It holds at boot, when no thread is inside of the library.
LEMMA InitLockIInv == PthreadInit => LockIInv
<1> SUFFICES ASSUME PthreadInit PROVE LockIInv  OBVIOUS
<1>0. /\ LifeInit /\ word = [a \in Addr |-> 0] /\ fut_slots = [i \in Slot |-> Free]
      /\ pc = [t \in Task |-> "idle"] /\ reg = [t \in Task |-> 0] /\ items = 0
      /\ MaxWord \in Nat
  BY FutexAssumption DEF PthreadInit, FutexInit
<1>1. CallerOK /\ \A t \in Task : op[t] = "user"  BY <1>0, InitCallerOK DEF LifeInit
<1>2. \A i \in Slot : fut_slots[i] = Free /\ ~fut_slots[i].used  BY <1>0 DEF Free
<1>3. FutexTypeOK  BY <1>0, <1>1 DEF FutexTypeOK, CallerOK, LifeSound
<1>4. SlotBorn /\ FutexWaiterHasSlot /\ SlotExact  BY <1>1, <1>2 DEF SlotBorn, FutexWaiterHasSlot, SlotExact
<1>5. "idle" \in Labels /\ "idle" \notin Holding /\ "idle" \notin Waiting \cup {"lock"}
  BY DEF Labels, Holding, Waiting
<1>6. LibTypeOK  BY <1>0, <1>5 DEF LibTypeOK
<1>7. word[M] = 0  BY <1>0, PthreadAssumption
<1>8. \A t \in Task : pc[t] = "idle" /\ pc[t] # "signal"  BY <1>0
<1>9. OneHolder /\ HeldLocked /\ LockedHeld /\ SignalRoom /\ PcConsumer /\ RegFresh
  BY <1>5, <1>7, <1>8 DEF OneHolder, HeldLocked, LockedHeld, SignalRoom, PcConsumer, RegFresh
<1> QED BY <1>1, <1>3, <1>4, <1>6, <1>9 DEF LockIInv, FutexIInv, MonitorInv

\* futex_wait() and futex_wake() keep the table of slots: every parked
\* thread is in a slot that names its word, whatever signals left stale
\* slots behind, and no slot leaks while only futex_wake reaches waiters.
THEOREM SlotsAreSound == PthreadSpec => []SlotsSound
<1>1. LockIInv => SlotsSound
  <2> SUFFICES ASSUME LockIInv PROVE SlotsSound  OBVIOUS
  <2>1. FutexTypeOK /\ FutexWaiterHasSlot /\ SlotExact  BY DEF LockIInv, FutexIInv
  <2>2. SlotsReturned
    <3> SUFFICES ASSUME ~disturbed, \A t \in Task : op[t] # "futex"
                 PROVE  FreeSlots = Slot
      BY DEF SlotsReturned
    <3>1. \A i \in Slot : fut_slots[i].used => fut_slots[i].waiter \in Task  BY <2>1, SlotFields
    <3>2. \A i \in Slot : ~fut_slots[i].used  BY <2>1, <3>1 DEF SlotExact, Parked
    <3> QED BY <3>2 DEF FreeSlots
  <2> QED BY <2>1, <2>2 DEF SlotsSound
<1> QED BY <1>1, InitLockIInv, LockIInvStep, PTL DEF PthreadSpec

\* pthread_mutex_lock() excludes: at most one living thread holds the
\* mutex and the word says so, for any number of threads, under preemption
\* anywhere, spurious wakeups and the deaths of other threads.
THEOREM MutexExcludes == PthreadSpec => []MutualExclusion
<1>1. LockIInv => MutualExclusion  BY DEF LockIInv, MonitorInv, OneHolder, HeldLocked, MutualExclusion
<1> QED BY <1>1, InitLockIInv, LockIInvStep, PTL DEF PthreadSpec

------------------------------

\* Where the library and the kernel meet: a thread inside of futex_wait is
\* in pthread_mutex_lock() or pthread_cond_wait(), one inside of another
\* call is not in the library; and as long as nothing else has woken or
\* killed a thread, one that is in the library can run or is parked there.
FutexPc ==
    \A t \in Task :
        /\ op[t] = "futex" => \/ arg[t] = M /\ pc[t] = "retry"
                              \/ arg[t] = C /\ pc[t] = "lock"
        /\ op[t] \notin {"user", "futex"} => pc[t] = "idle"

PcAwake ==
    ~disturbed => \A t \in Task : pc[t] # "idle" =>
        state[t] \in {"ready", "running"} \/ (state[t] = "blocked" /\ op[t] = "futex")

BusyLabels == Holding \cup {"wake", "cond_wake", "lock", "contend", "sleep", "retry"}

ThreadIInv == LockIInv /\ FutexPc /\ PcAwake

\* The shapes of a step of the library: an instruction, a call that parks the
\* thread, and a call that wakes others.
Instruction == \E l \in BusyLabels : FutexCalls /\ UserStep /\ pc' = [pc EXCEPT ![current] = l]

ParksOnMutex ==
    pc[current] = "sleep" /\ futex_wait(M, 2) /\ pc' = [pc EXCEPT ![current] = "retry"]

ParksOnCond ==
    pc[current] = "cond_sleep" /\ futex_wait(C, reg[current]) /\ pc' = [pc EXCEPT ![current] = "lock"]

WakesMutex ==
    /\ pc[current] \in {"wake", "cond_wake"} /\ futex_wake(M, 1)
    /\ \E l \in {"idle", "cond_sleep"} : pc' = [pc EXCEPT ![current] = l]

WakesCond ==
    /\ pc[current] = "signal_wake" /\ \E n \in Nat \ {0} : futex_wake(C, n)
    /\ pc' = [pc EXCEPT ![current] = "unlock"]

Resumes == futex_resume /\ UNCHANGED libVars

\* Every step of the library has one of these shapes.
LEMMA LibraryShapes ==
  ASSUME Library
  PROVE  Instruction \/ ParksOnMutex \/ ParksOnCond \/ WakesMutex \/ WakesCond \/ Resumes
<1>l. /\ {"held", "contend", "sleep", "retry", "wake", "cond_wake", "lock", "unlock", "cond_unlock",
          "signal", "signal_wake"} \subseteq BusyLabels
  BY DEF BusyLabels, Holding
<1>1. CASE LockFast("idle") \/ LockFast("lock") \/ LockRetry
  BY <1>l, <1>1 DEF LockFast, LockRetry, At, Goto, Instruction
<1>2. CASE LockContend  BY <1>l, <1>2 DEF LockContend, At, Goto, Instruction
<1>3. CASE UnlockOpen("unlock", "wake") \/ UnlockOpen("cond_unlock", "cond_wake")
  BY <1>l, <1>3 DEF UnlockOpen, At, Goto, Instruction
<1>4. CASE CondWait \/ Consume \/ Produce \/ GiveUp \/ SignalSeq
  BY <1>l, <1>4 DEF CondWait, Consume, Produce, GiveUp, SignalSeq, At, Goto, Instruction
<1>5. CASE LockSleep
  <2>1. CASE futex_wait(M, 2)  BY <1>5, <2>1 DEF LockSleep, FutexWaitAt, At, Goto, ParksOnMutex
  <2>2. CASE UNCHANGED slotVars
    BY <1>l, <1>5, <2>2 DEF LockSleep, FutexWaitAt, At, Goto, Instruction, UserStep, slotVars, futexVars
  <2> QED BY <1>5, <2>1, <2>2 DEF LockSleep, FutexWaitAt
<1>6. CASE CondSleep
  <2>1. CASE futex_wait(C, reg[current])  BY <1>6, <2>1 DEF CondSleep, FutexWaitAt, At, Goto, ParksOnCond
  <2>2. CASE UNCHANGED slotVars
    BY <1>l, <1>6, <2>2 DEF CondSleep, FutexWaitAt, At, Goto, Instruction, UserStep, slotVars, futexVars
  <2> QED BY <1>6, <2>1, <2>2 DEF CondSleep, FutexWaitAt
<1>7. CASE UnlockWake("wake", "idle") \/ UnlockWake("cond_wake", "cond_sleep")
  BY <1>7 DEF UnlockWake, At, Goto, WakesMutex
<1>8. CASE SignalWake
  <2>1. {1, Slots} \subseteq Nat \ {0}  BY FutexAssumption
  <2> QED BY <1>8, <2>1 DEF SignalWake, At, Goto, WakesCond
<1>9. CASE futex_resume /\ UNCHANGED libVars  BY <1>9 DEF Resumes
<1> QED BY <1>1, <1>2, <1>3, <1>4, <1>5, <1>6, <1>7, <1>8, <1>9 DEF Library

\* The library and the kernel agree on where the threads are.
LEMMA ThreadIInvStep == ThreadIInv /\ [PthreadNext]_threadVars => ThreadIInv'
<1> SUFFICES ASSUME ThreadIInv, [PthreadNext]_threadVars PROVE FutexPc' /\ PcAwake'
  BY LockIInvStep DEF ThreadIInv
<1>0. /\ pc \in [Task -> Labels] /\ current \in Task /\ CallerOK /\ FutexIInv
      /\ state[current] \in {"ready", "running"}
      /\ M \in Addr /\ C \in Addr
  BY PthreadAssumption
     DEF ThreadIInv, LockIInv, MonitorInv, LibTypeOK, FutexIInv, CallerOK, LifeSound, LifeTypeOK, CurrentAwake
<1>1. CASE UNCHANGED threadVars
  BY <1>1 DEF threadVars, slotVars, libVars, lifeVars, ThreadIInv, FutexPc, PcAwake
<1>2. CASE Elsewhere
  <2>1. /\ LeavesCalls /\ UNCHANGED pc
        /\ ~disturbed' =>
              /\ ~disturbed /\ SameParked
              /\ \A t \in Task : pc[t] # "idle" /\ state[t] \in {"ready", "running"}
                    => state'[t] \in {"ready", "running"}
        /\ \A t \in Task : pc[t] # "idle" => op'[t] = op[t] /\ arg'[t] = arg[t]
    BY <1>0, <1>2, ElsewhereFrame
  <2>2. FutexPc'  BY <2>1 DEF ThreadIInv, FutexPc, LeavesCalls, OtherCalls
  <2>3. PcAwake'  BY <2>1 DEF ThreadIInv, PcAwake, SameParked
  <2> QED BY <2>2, <2>3
<1>3. ASSUME Library, UNCHANGED disturbed PROVE FutexPc' /\ PcAwake'
  <2>1. CASE Instruction
    <3>1. /\ op[current] = "user" /\ UNCHANGED <<op, arg, state>>
          /\ \A t \in Task : t # current => pc'[t] = pc[t]
      BY <1>0, <2>1 DEF Instruction, FutexCalls, UserStep, lifeVars
    <3> QED BY <1>0, <1>3, <3>1 DEF ThreadIInv, FutexPc, PcAwake
  <2>2. ASSUME NEW a \in {M, C}, NEW v, futex_wait(a, v),
               pc' = [pc EXCEPT ![current] = IF a = M THEN "retry" ELSE "lock"]
        PROVE  FutexPc' /\ PcAwake'
    <3>1. /\ op'[current] = "futex" /\ arg'[current] = a /\ state'[current] = "blocked"
          /\ \A t \in Task \ {current} :
                /\ op'[t] = op[t] /\ arg'[t] = arg[t]
                /\ state[t] \in {"ready", "running"} => state'[t] \in {"ready", "running"}
                /\ op[t] = "futex" => (state'[t] = "blocked" <=> state[t] = "blocked")
      BY <1>0, <2>2, WaitFrame
    <3>2. /\ pc'[current] = IF a = M THEN "retry" ELSE "lock"
          /\ \A t \in Task : t # current => pc'[t] = pc[t]
      BY <1>0, <2>2
    <3>3. FutexPc'  BY <2>2, <3>1, <3>2 DEF ThreadIInv, FutexPc
    <3>4. PcAwake'  BY <1>3, <3>1, <3>2 DEF ThreadIInv, PcAwake
    <3> QED BY <3>3, <3>4
  <2>3. CASE ParksOnMutex  BY <2>2, <2>3 DEF ParksOnMutex
  <2>4. CASE ParksOnCond
    <3>1. C # M  BY DEF C, M
    <3> QED BY <2>2, <2>4, <3>1 DEF ParksOnCond
  <2>5. ASSUME NEW a, NEW n, futex_wake(a, n), NEW l, pc' = [pc EXCEPT ![current] = l]
        PROVE  FutexPc' /\ PcAwake'
    <3>1. /\ UNCHANGED <<op, arg>> /\ op[current] = "user"
          /\ \A t \in Task : state'[t] = state[t] \/ state'[t] = "ready"
      BY <1>0, <2>5, WakeFrame DEF futex_wake, FutexCalls
    <3>2. \A t \in Task : t # current => pc'[t] = pc[t]  BY <1>0, <2>5
    <3> QED BY <1>0, <1>3, <3>1, <3>2 DEF ThreadIInv, FutexPc, PcAwake
  <2>6. CASE WakesMutex \/ WakesCond  BY <2>5, <2>6 DEF WakesMutex, WakesCond
  <2>7. CASE Resumes
    <3>1. /\ op'[current] = "user" /\ UNCHANGED <<state, pc>>
          /\ \A t \in Task : t # current => op'[t] = op[t] /\ arg'[t] = arg[t]
      BY <1>0, <2>7, ReturnKeepsCaller DEF Resumes, futex_resume, libVars
    <3> QED BY <1>0, <1>3, <3>1 DEF ThreadIInv, FutexPc, PcAwake
  <2> QED BY <1>3, <2>1, <2>3, <2>4, <2>6, <2>7, LibraryShapes
<1> QED BY <1>1, <1>2, <1>3 DEF PthreadNext

\* A thread that holds the mutex, or is on its way and not parked, is
\* awake.
LEMMA AwakeIsBusy ==
  ASSUME ThreadIInv, ~disturbed, NEW t \in Task, pc[t] \in BusyLabels,
         ~Parked(t, M), ~Parked(t, C)
  PROVE  Busy(t)
<1>1. pc[t] # "idle"  BY DEF BusyLabels, Holding
<1>2. state[t] \in {"ready", "running"}  BY <1>1 DEF ThreadIInv, PcAwake, FutexPc, Parked
<1> QED BY <1>2 DEF Busy, Alive, BusyLabels

\* The holder of the mutex is never parked.
LEMMA HolderIsBusy ==
  ASSUME ThreadIInv, ~disturbed, NEW t \in Task, pc[t] \in Holding
  PROVE  Busy(t)
<1>1. pc[t] \notin {"retry", "lock"} /\ pc[t] \in BusyLabels  BY DEF BusyLabels, Holding
<1>2. ~Parked(t, M) /\ ~Parked(t, C)  BY <1>1 DEF ThreadIInv, FutexPc, Parked
<1> QED BY <1>1, <1>2, AwakeIsBusy

\* futex_wake() on a word that somebody is parked on makes READY a thread
\* that was parked on it.
LEMMA WakeReaches ==
  ASSUME FutexIInv, ~disturbed, NEW a, NEW n \in Nat \ {0}, futex_wake(a, n),
         NEW t \in Task, Parked(t, a)
  PROVE  \E w \in Task : Parked(w, a) /\ state'[w] = "ready"
<1>1. Matching(a) # {}  BY DEF FutexIInv, FutexWaiterHasSlot, Parked, Matching
<1>2. PICK i \in WokenSlots(a, n) : i \in Slot /\ fut_slots[i].used /\ fut_slots[i].uaddr = a
  BY <1>1, WakeFindsSlot DEF Matching
<1>3. fut_slots[i].waiter \in Task /\ Parked(fut_slots[i].waiter, a)
  BY <1>2, SlotFields DEF FutexIInv, SlotExact
<1>4. state'[fut_slots[i].waiter] = "ready"  BY <1>2, <1>3, WakeFrame DEF Parked
<1> QED BY <1>3, <1>4

\* futex_wake(a) leaves the threads parked on the other word parked, and
\* parks nobody.
LEMMA WakeLeavesOthers ==
  ASSUME FutexIInv, ~disturbed, NEW a, NEW n, futex_wake(a, n), NEW t \in Task, NEW b
  PROVE  /\ Parked(t, b)' => Parked(t, b)
         /\ a # b /\ Parked(t, b) => Parked(t, b)'
         /\ state[t] \in {"ready", "running"} => state'[t] \in {"ready", "running"}
<1>1. /\ UNCHANGED <<op, arg>>
      /\ \/ state'[t] = state[t]
         \/ state'[t] = "ready" /\ \E i \in WokenSlots(a, n) : fut_slots[i].waiter = t
  BY WakeFrame
<1>2. \A i \in WokenSlots(a, n) : Parked(fut_slots[i].waiter, a)
  BY DEF WokenSlots, Matching, FutexIInv, SlotExact
<1> QED BY <1>1, <1>2 DEF Parked

\* Nobody is left parked on the mutex: before its word can be parked on it
\* says contended, so that a thread holds it, and pthread_mutex_unlock()
\* always ends in a wakeup.
LEMMA WakerStep ==
  ASSUME ThreadIInv, SleeperHasWaker, [PthreadNext]_threadVars
  PROVE  SleeperHasWaker'
<1> SUFFICES ASSUME ~disturbed', NEW t \in Task, Parked(t, M)'
             PROVE  \E u \in Task : Busy(u)'
  BY DEF SleeperHasWaker
<1>0. /\ pc \in [Task -> Labels] /\ current \in Task /\ CallerOK /\ FutexIInv
      /\ state[current] \in {"ready", "running"}
      /\ M \in Addr /\ C \in Addr /\ M # C
      /\ "idle" \notin BusyLabels /\ "retry" \in BusyLabels
  BY PthreadAssumption
     DEF ThreadIInv, LockIInv, MonitorInv, LibTypeOK, FutexIInv, CallerOK, LifeSound, LifeTypeOK,
         CurrentAwake, M, C, BusyLabels, Holding
<1>b. \A u \in Task : /\ Busy(u) => pc[u] \in BusyLabels /\ state[u] \in {"ready", "running"}
                      /\ pc'[u] \in BusyLabels /\ state'[u] \in {"ready", "running"} => Busy(u)'
  BY DEF Busy, Alive, BusyLabels
<1>1. CASE UNCHANGED threadVars
  BY <1>1 DEF threadVars, slotVars, libVars, lifeVars, SleeperHasWaker, Parked, Busy, Alive
<1>2. CASE Elsewhere
  <2>1. /\ UNCHANGED pc /\ ~disturbed /\ SameParked /\ LeavesCalls
        /\ \A u \in Task : pc[u] # "idle" /\ state[u] \in {"ready", "running"}
              => state'[u] \in {"ready", "running"}
    BY <1>0, <1>2, ElsewhereFrame
  <2>2. Parked(t, M)  BY <2>1 DEF SameParked, Parked
  <2>3. PICK u \in Task : Busy(u)  BY <2>1, <2>2 DEF SleeperHasWaker
  <2> QED BY <1>0, <1>b, <2>1, <2>3
<1>3. ASSUME Library, UNCHANGED disturbed PROVE \E u \in Task : Busy(u)'
  <2>0. ~disturbed  BY <1>3
  <2>1. CASE Instruction
    <3>1. UNCHANGED state /\ pc'[current] \in BusyLabels  BY <1>0, <2>1 DEF Instruction, UserStep, lifeVars
    <3> QED BY <1>0, <1>b, <3>1
  <2>2. CASE ParksOnMutex
    <3>1. PICK h \in Task : pc[h] \in Holding
      <4>1. word[M] # 0  BY <2>2 DEF ParksOnMutex, futex_wait
      <4> QED BY <4>1 DEF ThreadIInv, LockIInv, MonitorInv, LockedHeld
    <3>2. Busy(h) /\ h # current  BY <2>0, <2>2, <3>1, HolderIsBusy DEF ParksOnMutex, Holding
    <3>3. state'[h] \in {"ready", "running"} /\ pc'[h] = pc[h]
      BY <1>0, <1>b, <2>2, <3>2, WaitFrame DEF ParksOnMutex
    <3> QED BY <1>b, <3>2, <3>3
  <2>3. CASE ParksOnCond
    <3>1. /\ arg'[current] = C
          /\ \A u \in Task \ {current} :
                /\ op'[u] = op[u] /\ arg'[u] = arg[u]
                /\ state[u] \in {"ready", "running"} => state'[u] \in {"ready", "running"}
                /\ op[u] = "futex" => (state'[u] = "blocked" <=> state[u] = "blocked")
      BY <1>0, <2>3, WaitFrame DEF ParksOnCond
    <3>2. t # current  BY <1>0, <3>1 DEF Parked
    <3>3. Parked(t, M)  BY <3>1, <3>2 DEF Parked
    <3>4. PICK u \in Task : Busy(u)  BY <2>0, <3>3 DEF SleeperHasWaker
    <3>5. u # current  BY <1>b, <2>3, <3>4 DEF ParksOnCond, BusyLabels, Holding
    <3>6. pc'[u] = pc[u]  BY <1>0, <2>3, <3>5 DEF ParksOnCond
    <3> QED BY <1>b, <3>1, <3>4, <3>5, <3>6
  <2>4. CASE WakesMutex
    <3>1. futex_wake(M, 1) /\ 1 \in Nat \ {0} /\ \A u \in Task : u # current => pc'[u] = pc[u]
      BY <1>0, <2>4 DEF WakesMutex
    <3>2. Parked(t, M)  BY <1>0, <2>0, <3>1, WakeLeavesOthers
    <3>3. PICK w \in Task : Parked(w, M) /\ state'[w] = "ready"  BY <1>0, <2>0, <3>1, <3>2, WakeReaches
    <3>4. pc[w] = "retry" /\ w # current  BY <1>0, <3>3 DEF ThreadIInv, FutexPc, Parked
    <3> QED BY <1>0, <1>b, <3>1, <3>3, <3>4
  <2>5. CASE WakesCond
    <3>1. pc'[current] = "unlock" /\ "unlock" \in BusyLabels  BY <1>0, <2>5 DEF WakesCond, BusyLabels, Holding
    <3>2. state'[current] \in {"ready", "running"}  BY <1>0, <2>0, <2>5, WakeLeavesOthers DEF WakesCond
    <3> QED BY <1>0, <1>b, <3>1, <3>2
  <2>6. CASE Resumes
    <3>1. op[current] = "futex" /\ UNCHANGED <<state, pc>>  BY <2>6 DEF Resumes, futex_resume, libVars
    <3>2. pc[current] \in BusyLabels  BY <1>0, <3>1 DEF ThreadIInv, FutexPc, BusyLabels
    <3> QED BY <1>0, <1>b, <3>1, <3>2
  <2> QED BY <1>3, <2>1, <2>2, <2>3, <2>4, <2>5, <2>6, LibraryShapes
<1> QED BY <1>1, <1>2, <1>3 DEF PthreadNext

------------------------------

\* The count behind the condition variable: while a consumer is parked on
\* it, every item has somebody that answers for it, a consumer on its way
\* to look at the items or a producer that has yet to wake one.
Lookers ==
    {t \in Task : /\ t \in Consumers
                  /\ \/ pc[t] \in {"contend", "sleep", "retry", "held"}
                     \/ pc[t] = "lock" /\ ~Parked(t, C)}

Signallers == {t \in Task : pc[t] \in {"signal", "signal_wake"}}

Answering == Cardinality(Lookers) + Cardinality(Signallers)

ItemsCovered == ~disturbed /\ (\E t \in Task : Parked(t, C)) => items <= Answering

WakeIInv == ThreadIInv /\ SleeperHasWaker /\ ItemsCovered

\* More lookers and more signallers answer for more items.
LEMMA AnswerMore ==
  ASSUME Lookers \subseteq Lookers', Signallers \subseteq Signallers'
  PROVE  Answering \in Nat /\ Answering' \in Nat /\ Answering <= Answering'
<1>1. Lookers' \subseteq Task /\ Signallers' \subseteq Task  BY DEF Lookers, Signallers
<1>2. /\ Cardinality(Lookers) \in Nat /\ Cardinality(Lookers') \in Nat
      /\ Cardinality(Lookers) <= Cardinality(Lookers')
  BY <1>1, CountTasks
<1>3. /\ Cardinality(Signallers) \in Nat /\ Cardinality(Signallers') \in Nat
      /\ Cardinality(Signallers) <= Cardinality(Signallers')
  BY <1>1, CountTasks
<1> QED BY <1>2, <1>3 DEF Answering

\* One task more in a set of tasks.
LEMMA CountMore ==
  ASSUME NEW A, NEW B, A \subseteq B, B \subseteq Task, NEW x \in B, x \notin A
  PROVE  Cardinality(B) >= Cardinality(A) + 1
<1>1. A \subseteq B \ {x} /\ B \ {x} \subseteq Task  OBVIOUS
<1>2. /\ Cardinality(A) \in Nat /\ Cardinality(B \ {x}) \in Nat
      /\ Cardinality(A) <= Cardinality(B \ {x})
  BY <1>1, CountTasks
<1>3. IsFiniteSet(B) /\ Cardinality(B) \in Nat  BY CountTasks
<1>4. Cardinality(B \ {x}) = Cardinality(B) - 1  BY <1>3, FS_RemoveElement
<1> QED BY <1>2, <1>3, <1>4

\* The instructions of the library, which leave the parked threads alone.
LEMMA InstructionCovers ==
  ASSUME WakeIInv, Library, UserStep, ~disturbed, NEW t \in Task, Parked(t, C)
  PROVE  items' <= Answering'
<1>0. /\ pc \in [Task -> Labels] /\ current \in Task /\ items \in Nat
      /\ state[current] \in {"ready", "running"}
      /\ items <= Answering
  BY DEF WakeIInv, ItemsCovered, ThreadIInv, LockIInv, MonitorInv, LibTypeOK, FutexIInv, CallerOK,
         LifeSound, LifeTypeOK, CurrentAwake
<1>1. \A u \in Task : Parked(u, C)' <=> Parked(u, C)  BY DEF UserStep, lifeVars, Parked
<1>2. ~Parked(current, C)  BY <1>0 DEF Parked
<1>m. ASSUME Lookers \subseteq Lookers', Signallers \subseteq Signallers', items' = items
      PROVE  items' <= Answering'
  BY <1>0, <1>m, AnswerMore
<1>n. Cardinality(Lookers) \in Nat /\ Cardinality(Lookers') \in Nat
      /\ Cardinality(Signallers) \in Nat /\ Cardinality(Signallers') \in Nat
  <2>1. Lookers \subseteq Task /\ Lookers' \subseteq Task
        /\ Signallers \subseteq Task /\ Signallers' \subseteq Task
    BY DEF Lookers, Signallers
  <2> QED BY <2>1, CountTasks
<1>s. ASSUME NEW l, pc' = [pc EXCEPT ![current] = l]
      PROVE  pc'[current] = l /\ \A u \in Task : u # current => pc'[u] = pc[u]
  BY <1>0, <1>s
<1>3. ASSUME NEW l \in {"contend", "sleep", "retry", "held"}, pc' = [pc EXCEPT ![current] = l],
             pc[current] \in {"idle", "lock", "contend", "sleep", "retry"}, items' = items
      PROVE  items' <= Answering'
  BY <1>1, <1>3, <1>m, <1>s DEF Lookers, Signallers
<1>4. CASE LockFast("idle") \/ LockFast("lock") \/ LockRetry  BY <1>3, <1>4 DEF LockFast, LockRetry, At, Goto
<1>5. CASE LockContend \/ LockSleep  BY <1>3, <1>5 DEF LockContend, LockSleep, FutexWaitAt, At, Goto
<1>6. CASE CondSleep
  <2>1. /\ pc[current] = "cond_sleep" /\ items' = items
        /\ pc'[current] = "lock" /\ \A u \in Task : u # current => pc'[u] = pc[u]
    BY <1>6, <1>s DEF CondSleep, FutexWaitAt, At, Goto
  <2> QED BY <1>1, <1>m, <2>1 DEF Lookers, Signallers
<1>7. CASE UnlockOpen("unlock", "wake") \/ UnlockOpen("cond_unlock", "cond_wake")
  <2>1. /\ pc[current] \in {"unlock", "cond_unlock"} /\ items' = items
        /\ \A u \in Task : u # current => pc'[u] = pc[u]
    BY <1>7, <1>s DEF UnlockOpen, At, Goto
  <2> QED BY <1>1, <1>m, <2>1 DEF Lookers, Signallers
<1>8. CASE CondWait
  <2>1. items' = 0  BY <1>8 DEF CondWait
  <2> QED BY <1>n, <2>1 DEF Answering
<1>9. CASE Consume
  <2>1. /\ pc[current] = "held" /\ items' = items - 1
        /\ \A u \in Task : u # current => pc'[u] = pc[u]
    BY <1>9, <1>s DEF Consume, At, Goto
  <2>2. Lookers \ {current} \subseteq Lookers' /\ Signallers \subseteq Signallers'
    BY <1>1, <2>1 DEF Lookers, Signallers
  <2>3. Cardinality(Lookers \ {current}) >= Cardinality(Lookers) - 1  BY CountLess DEF Lookers
  <2>4. /\ Cardinality(Lookers \ {current}) \in Nat
        /\ Cardinality(Lookers \ {current}) <= Cardinality(Lookers')
        /\ Cardinality(Signallers) <= Cardinality(Signallers')
    <3>1. Lookers' \subseteq Task /\ Signallers' \subseteq Task  BY DEF Lookers, Signallers
    <3> QED BY <2>2, <3>1, CountTasks
  <2> QED BY <1>0, <1>n, <2>1, <2>3, <2>4 DEF Answering
<1>10. CASE Produce
  <2>1. /\ pc[current] = "held" /\ items' = items + 1 /\ current \notin Consumers
        /\ pc'[current] = "signal" /\ \A u \in Task : u # current => pc'[u] = pc[u]
    BY <1>10, <1>s DEF Produce, At, Goto
  <2>2. Lookers \subseteq Lookers' /\ Signallers \subseteq Signallers'
        /\ current \in Signallers' /\ current \notin Signallers
    BY <1>0, <1>1, <2>1 DEF Lookers, Signallers
  <2>3. Lookers' \subseteq Task /\ Signallers' \subseteq Task  BY DEF Lookers, Signallers
  <2>4. Cardinality(Signallers') >= Cardinality(Signallers) + 1  BY <2>2, <2>3, CountMore
  <2>5. Cardinality(Lookers) <= Cardinality(Lookers')  BY <2>2, <2>3, CountTasks
  <2> QED BY <1>0, <1>n, <2>1, <2>4, <2>5 DEF Answering
<1>11. CASE GiveUp
  <2>1. /\ pc[current] = "held" /\ items' = items /\ current \notin Consumers
        /\ \A u \in Task : u # current => pc'[u] = pc[u]
    BY <1>11, <1>s DEF GiveUp, At, Goto
  <2> QED BY <1>1, <1>m, <2>1 DEF Lookers, Signallers
<1>12. CASE SignalSeq
  <2>1. /\ pc[current] = "signal" /\ items' = items /\ pc'[current] = "signal_wake"
        /\ \A u \in Task : u # current => pc'[u] = pc[u]
    BY <1>12, <1>s DEF SignalSeq, At, Goto
  <2> QED BY <1>1, <1>m, <2>1 DEF Lookers, Signallers
<1>13. CASE SignalWake \/ UnlockWake("wake", "idle") \/ UnlockWake("cond_wake", "cond_sleep")
  \* The call wakes nobody then, and nobody it was to wake is lost.
  <2>1. CASE SignalWake
    <3>1. PICK n \in Nat \ {0} : futex_wake(C, n)  BY <2>1, FutexAssumption DEF SignalWake
    <3>2. PICK w \in Task : Parked(w, C) /\ state'[w] = "ready"
      BY <3>1, WakeReaches DEF WakeIInv, ThreadIInv, LockIInv
    <3> QED BY <1>1, <3>2 DEF Parked
  <2>2. CASE UnlockWake("wake", "idle") \/ UnlockWake("cond_wake", "cond_sleep")
    <3>1. /\ pc[current] \in {"wake", "cond_wake"} /\ items' = items
          /\ \A u \in Task : u # current => pc'[u] = pc[u]
      BY <2>2, <1>s DEF UnlockWake, At, Goto
    <3> QED BY <1>1, <1>m, <3>1 DEF Lookers, Signallers
  <2> QED BY <1>13, <2>1, <2>2
<1>14. CASE futex_resume /\ UNCHANGED libVars
  <2>1. UNCHANGED <<pc, items>>  BY <1>14 DEF libVars
  <2> QED BY <1>1, <1>m, <2>1 DEF Lookers, Signallers
<1> QED BY <1>4, <1>5, <1>6, <1>7, <1>8, <1>9, <1>10, <1>11, <1>12, <1>13, <1>14 DEF Library

\* No item is stranded: the value that pthread_cond_wait() sleeps on was
\* read under the mutex, and a producer moves it before it wakes.
LEMMA CoveredStep ==
  ASSUME WakeIInv, [PthreadNext]_threadVars
  PROVE  ItemsCovered'
<1> SUFFICES ASSUME ~disturbed', NEW t \in Task, Parked(t, C)'
             PROVE  items' <= Answering'
  BY DEF ItemsCovered
<1>0. /\ pc \in [Task -> Labels] /\ current \in Task /\ items \in Nat /\ CallerOK /\ FutexIInv
      /\ state[current] \in {"ready", "running"}
      /\ M \in Addr /\ C \in Addr /\ M # C
  BY PthreadAssumption
     DEF WakeIInv, ThreadIInv, LockIInv, MonitorInv, LibTypeOK, FutexIInv, CallerOK, LifeSound,
         LifeTypeOK, CurrentAwake, M, C
<1>m. ASSUME ~disturbed, Parked(t, C), Lookers \subseteq Lookers', Signallers \subseteq Signallers',
             items' = items
      PROVE  items' <= Answering'
  BY <1>0, <1>m, AnswerMore DEF WakeIInv, ItemsCovered
<1>n. /\ Lookers \subseteq Task /\ Lookers' \subseteq Task
      /\ Signallers \subseteq Task /\ Signallers' \subseteq Task
      /\ Cardinality(Lookers) \in Nat /\ Cardinality(Lookers') \in Nat
      /\ Cardinality(Signallers) \in Nat /\ Cardinality(Signallers') \in Nat
  <2>1. Lookers \subseteq Task /\ Lookers' \subseteq Task
        /\ Signallers \subseteq Task /\ Signallers' \subseteq Task
    BY DEF Lookers, Signallers
  <2> QED BY <2>1, CountTasks
<1>1. CASE UNCHANGED threadVars
  BY <1>1 DEF threadVars, slotVars, libVars, lifeVars, WakeIInv, ItemsCovered, Answering, Lookers,
              Signallers, Parked
<1>2. CASE Elsewhere
  <2>1. UNCHANGED <<pc, items>> /\ ~disturbed /\ SameParked /\ LeavesCalls  BY <1>0, <1>2, ElsewhereFrame
  <2>2. \A u \in Task : Parked(u, C)' <=> Parked(u, C)  BY <2>1 DEF SameParked, LeavesCalls, OtherCalls, Parked
  <2> QED BY <1>m, <2>1, <2>2 DEF Lookers, Signallers
<1>3. ASSUME Library, UNCHANGED disturbed PROVE items' <= Answering'
  <2>0. ~disturbed  BY <1>3
  <2>1. CASE Instruction
    <3>1. UserStep /\ Parked(t, C)  BY <2>1 DEF Instruction, UserStep, lifeVars, Parked
    <3> QED BY <1>3, <2>0, <3>1, InstructionCovers
  <2>2. CASE ParksOnMutex
    <3>1. /\ arg'[current] = M
          /\ \A u \in Task \ {current} :
                /\ op'[u] = op[u] /\ arg'[u] = arg[u]
                /\ op[u] = "futex" => (state'[u] = "blocked" <=> state[u] = "blocked")
      BY <1>0, <2>2, WaitFrame DEF ParksOnMutex
    <3>2. \A u \in Task : Parked(u, C)' <=> Parked(u, C)  BY <1>0, <3>1 DEF Parked
    <3>3. /\ pc[current] = "sleep" /\ pc'[current] = "retry"
          /\ \A u \in Task : u # current => pc'[u] = pc[u]
      BY <1>0, <2>2 DEF ParksOnMutex
    <3>4. items' = items
      BY <1>3, <3>3 DEF Library, LockFast, LockContend, LockSleep, LockRetry, UnlockOpen, UnlockWake,
            CondWait, CondSleep, Consume, Produce, GiveUp, SignalSeq, SignalWake, FutexWaitAt, At, libVars
    <3> QED BY <1>m, <2>0, <3>2, <3>3, <3>4 DEF Lookers, Signallers
  <2>3. CASE ParksOnCond
    <3>1. /\ pc[current] = "cond_sleep" /\ word[C] = reg[current]
          /\ \A u \in Task : u # current => pc'[u] = pc[u]
      BY <1>0, <2>3 DEF ParksOnCond, futex_wait
    <3>2. items = 0 \/ (items = 1 /\ \E u \in Task : pc[u] = "signal")
      BY <1>0, <3>1 DEF WakeIInv, ThreadIInv, LockIInv, MonitorInv, RegFresh, Waiting
    <3>3. items' = items
      BY <1>3, <3>1 DEF Library, LockFast, LockContend, LockSleep, LockRetry, UnlockOpen, UnlockWake,
            CondWait, CondSleep, Consume, Produce, GiveUp, SignalSeq, SignalWake, FutexWaitAt, At, libVars
    <3>4. CASE items = 0  BY <1>n, <3>3, <3>4 DEF Answering
    <3>5. ASSUME items = 1, NEW u \in Task, pc[u] = "signal" PROVE items' <= Answering'
      <4>1. u \in Signallers'  BY <3>1, <3>5 DEF Signallers
      <4>2. Cardinality(Signallers') >= Cardinality({}) + 1  BY <1>n, <4>1, CountMore
      <4>3. Cardinality({}) = 0  BY FS_EmptySet
      <4> QED BY <1>n, <3>3, <3>5, <4>2, <4>3 DEF Answering
    <3> QED BY <3>2, <3>4, <3>5
  <2>4. CASE WakesMutex
    <3>1. futex_wake(M, 1)  BY <2>4 DEF WakesMutex
    <3>2. \A u \in Task : Parked(u, C)' <=> Parked(u, C)  BY <1>0, <2>0, <3>1, WakeLeavesOthers
    <3>3. pc[current] \in {"wake", "cond_wake"} /\ \A u \in Task : u # current => pc'[u] = pc[u]
      BY <1>0, <2>4 DEF WakesMutex
    <3>4. items' = items
      BY <1>3, <3>3 DEF Library, LockFast, LockContend, LockSleep, LockRetry, UnlockOpen, UnlockWake,
            CondWait, CondSleep, Consume, Produce, GiveUp, SignalSeq, SignalWake, FutexWaitAt, At, libVars
    <3> QED BY <1>m, <2>0, <3>2, <3>3, <3>4 DEF Lookers, Signallers
  <2>5. CASE WakesCond
    <3>1. PICK n \in Nat \ {0} : futex_wake(C, n)  BY <2>5 DEF WakesCond
    <3>2. \A u \in Task : Parked(u, C)' => Parked(u, C)  BY <1>0, <2>0, <3>1, WakeLeavesOthers
    <3>3. PICK w \in Task : Parked(w, C) /\ state'[w] = "ready"  BY <1>0, <2>0, <3>1, <3>2, WakeReaches
    <3>4. pc[current] = "signal_wake" /\ \A u \in Task : u # current => pc'[u] = pc[u]
      BY <1>0, <2>5 DEF WakesCond
    <3>5. items' = items
      BY <1>3, <3>4 DEF Library, LockFast, LockContend, LockSleep, LockRetry, UnlockOpen, UnlockWake,
            CondWait, CondSleep, Consume, Produce, GiveUp, SignalSeq, SignalWake, FutexWaitAt, At, libVars
    <3>6. pc[w] = "lock" /\ w \in Consumers /\ w # current
      BY <1>0, <3>3, <3>4
         DEF WakeIInv, ThreadIInv, FutexPc, Parked, LockIInv, MonitorInv, PcConsumer
    <3>7. w \in Lookers' /\ w \notin Lookers /\ Lookers \subseteq Lookers'
          /\ Signallers \ {current} \subseteq Signallers'
      BY <3>2, <3>3, <3>4, <3>6 DEF Lookers, Signallers, Parked
    <3>8. Cardinality(Lookers') >= Cardinality(Lookers) + 1  BY <1>n, <3>7, CountMore
    <3>9. Cardinality(Signallers \ {current}) >= Cardinality(Signallers) - 1  BY <1>n, CountLess
    <3>10. /\ Cardinality(Signallers \ {current}) \in Nat
           /\ Cardinality(Signallers \ {current}) <= Cardinality(Signallers')
      BY <1>n, <3>7, CountTasks
    <3>11. items <= Answering  BY <2>0, <3>2 DEF WakeIInv, ItemsCovered
    <3> QED BY <1>0, <1>n, <3>5, <3>8, <3>9, <3>10, <3>11 DEF Answering
  <2>6. CASE Resumes
    <3>1. UNCHANGED <<state, pc, items>> /\ op'[current] = "user"
          /\ \A u \in Task : u # current => op'[u] = op[u] /\ arg'[u] = arg[u]
      BY <1>0, <2>6, ReturnKeepsCaller DEF Resumes, futex_resume, libVars
    <3>2. \A u \in Task : Parked(u, C)' <=> Parked(u, C)  BY <1>0, <3>1 DEF Parked
    <3> QED BY <1>m, <2>0, <3>1, <3>2 DEF Lookers, Signallers
  <2> QED BY <1>3, <2>1, <2>2, <2>3, <2>4, <2>5, <2>6, LibraryShapes
<1> QED BY <1>1, <1>2, <1>3 DEF PthreadNext

\* Together they are inductive.
LEMMA WakeIInvStep == WakeIInv /\ [PthreadNext]_threadVars => WakeIInv'
BY ThreadIInvStep, WakerStep, CoveredStep DEF WakeIInv

\* They hold at boot.
LEMMA InitWakeIInv == PthreadInit => WakeIInv
<1> SUFFICES ASSUME PthreadInit PROVE WakeIInv  OBVIOUS
<1>1. /\ \A t \in Task : pc[t] = "idle" /\ op[t] = "user"
      /\ LockIInv
  BY InitLockIInv DEF PthreadInit, FutexInit, LifeInit
<1>2. FutexPc /\ PcAwake  BY <1>1 DEF FutexPc, PcAwake
<1>3. SleeperHasWaker /\ ItemsCovered  BY <1>1 DEF SleeperHasWaker, ItemsCovered, Parked
<1> QED BY <1>1, <1>2, <1>3 DEF WakeIInv, ThreadIInv

\* The library loses no wakeup: while a thread is parked on the mutex, or
\* a consumer on the condition with items there, some thread is awake that
\* will open the mutex or look at the items, for any number of threads and
\* items, as long as the threads are woken and killed by nothing else.
THEOREM NoWakeupIsLost == PthreadSpec => []NoLostWakeup
<1>1. WakeIInv => NoLostWakeup
  <2> SUFFICES ASSUME WakeIInv PROVE NoLostWakeup  OBVIOUS
  <2>1. SleeperHasWaker  BY DEF WakeIInv
  <2>2. NoStrandedItem
    <3> SUFFICES ASSUME ~disturbed, NEW t \in Task, Parked(t, C), items > 0
                 PROVE  \E u \in Task : Busy(u)
      BY DEF NoStrandedItem
    <3>1. items \in Nat /\ items <= Answering
      BY DEF WakeIInv, ItemsCovered, ThreadIInv, LockIInv, MonitorInv, LibTypeOK
    <3>2. Lookers \cup Signallers # {}
      <4> SUFFICES ASSUME Lookers = {}, Signallers = {} PROVE FALSE  OBVIOUS
      <4>1. Answering = 0 + 0  BY FS_EmptySet DEF Answering
      <4> QED BY <3>1, <4>1
    <3>3. PICK u \in Task : u \in Lookers \cup Signallers  BY <3>2 DEF Lookers, Signallers
    <3>4. CASE pc[u] \in Holding  BY <3>4, HolderIsBusy DEF WakeIInv
    <3>5. CASE pc[u] \notin Holding
      <4>1. pc[u] \in {"contend", "sleep", "retry", "lock"} /\ (pc[u] = "lock" => ~Parked(u, C))
        BY <3>3, <3>5 DEF Lookers, Signallers, Holding
      <4>2. ~Parked(u, C)  BY <4>1 DEF WakeIInv, ThreadIInv, FutexPc, Parked, M, C
      <4>3. CASE Parked(u, M)  BY <2>1, <4>3 DEF SleeperHasWaker
      <4>4. CASE ~Parked(u, M)  BY <4>1, <4>2, <4>4, AwakeIsBusy DEF WakeIInv, BusyLabels
      <4> QED BY <4>3, <4>4
    <3> QED BY <3>4, <3>5
  <2> QED BY <2>1, <2>2 DEF NoLostWakeup
<1> QED BY <1>1, InitWakeIInv, WakeIInvStep, PTL DEF PthreadSpec

==============================
