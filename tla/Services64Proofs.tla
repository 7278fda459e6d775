-------------------------- MODULE Services64Proofs --------------------------
(***************************************************************************)
(* The kernel services and the storage of the 64-bit port, proved for      *)
(* every number of tasks, readers, items, timers, locks, channels,         *)
(* descriptors and frames and for tables of every size. Each part has an   *)
(* invariant of its own, XInv, that holds at the start (XStarts), that a   *)
(* step of the part keeps (XKept) and that implies its property (XHolds);  *)
(* the theorem at the end puts those of the kernel services together,      *)
(* module Port64Proofs those of the tables.                                *)
(***************************************************************************)
EXTENDS Port64, NaturalsInduction, WellFoundedInduction, FiniteSetTheorems, SequenceTheorems, TLAPS

\* A set of numbers that is not empty has a least element.
LEMMA LeastIsThere ==
  ASSUME NEW S, S \subseteq Nat, S # {}
  PROVE  Min(S) \in S /\ \A y \in S : Min(S) <= y
<1>1. \E x \in S : \A y \in S : ~(<<y, x>> \in OpToRel(<, Nat))  BY NatLessThanWellFounded, WFMin
<1>2. PICK x \in S : \A y \in S : ~(<<y, x>> \in OpToRel(<, Nat))  BY <1>1
<1>3. \A y \in S : x <= y
  <2> TAKE y \in S
  <2>1. x \in Nat /\ y \in Nat  OBVIOUS
  <2>2. ~(<<y, x>> \in {ss \in Nat \X Nat : ss[1] < ss[2]})  BY <1>2 DEF OpToRel
  <2> QED BY <2>1, <2>2
<1> QED BY <1>3 DEF Min

\* A search of a table finds the first entry that matches, or 0 when none
\* does.
LEMMA FirstMatch ==
  ASSUME NEW S, S \subseteq Nat \ {0}
  PROVE  /\ FirstOf(S) = 0 <=> S = {}
         /\ S # {} => FirstOf(S) \in S /\ \A x \in S : FirstOf(S) <= x
<1>1. CASE S = {}  BY <1>1 DEF FirstOf
<1>2. CASE S # {}
  <2>1. Min(S) \in S /\ \A x \in S : Min(S) <= x  BY <1>2, LeastIsThere
  <2> QED BY <1>2, <2>1 DEF FirstOf
<1> QED BY <1>1, <1>2

\* The first free entry of a table is an entry that is not taken, and 0
\* says that every entry is.
LEMMA FreeEntry ==
  ASSUME NEW tab, DOMAIN tab \subseteq Nat \ {0}
  PROVE  /\ FirstFree(tab) # 0 => /\ FirstFree(tab) \in DOMAIN tab
                                  /\ FirstFree(tab) \notin Taken(tab)
         /\ FirstFree(tab) = 0 => Taken(tab) = DOMAIN tab
<1> DEFINE free == DOMAIN tab \ Taken(tab)
<1>1. Taken(tab) \subseteq DOMAIN tab  BY DEF Taken
<1>2. CASE free = {}  BY <1>1, <1>2 DEF FirstFree
<1>3. CASE free # {}
  <2>1. Min(free) \in free  BY <1>3, LeastIsThere
  <2>2. FirstFree(tab) = Min(free)  BY <1>3 DEF FirstFree
  <2> QED BY <2>1, <2>2
<1> QED BY <1>2, <1>3

\* A sequence without its i-th element: what stands before it keeps its
\* place, what stands behind it moves up.
LEMMA Removed ==
  ASSUME NEW S, NEW s \in Seq(S), NEW i \in 1 .. Len(s)
  PROVE  /\ RemoveAt(s, i) \in Seq(S)
         /\ Len(RemoveAt(s, i)) = Len(s) - 1
         /\ \A k \in 1 .. Len(s) - 1 :
               RemoveAt(s, i)[k] = IF k < i THEN s[k] ELSE s[k + 1]
<1> DEFINE a == SubSeq(s, 1, i - 1)
           b == SubSeq(s, i + 1, Len(s))
<1>1. Len(s) \in Nat /\ i \in Nat  BY LenProperties
<1>2. \A k \in 1 .. Len(s) : s[k] \in S  BY ElementOfSeq
<1>3. a \in Seq(S) /\ Len(a) = i - 1 /\ \A k \in 1 .. i - 1 : a[k] = s[k]  BY <1>1, <1>2, SubSeqProperties
<1>4. b \in Seq(S) /\ Len(b) = Len(s) - i /\ \A k \in 1 .. Len(s) - i : b[k] = s[i + k]
  BY <1>1, <1>2, SubSeqProperties
<1> HIDE DEF a, b
<1> DEFINE c == a \o b
<1>5. /\ c \in Seq(S)
      /\ Len(c) = Len(a) + Len(b)
      /\ \A k \in 1 .. Len(a) + Len(b) : c[k] = IF k <= Len(a) THEN a[k] ELSE b[k - Len(a)]
  BY <1>3, <1>4, ConcatProperties
<1>6. RemoveAt(s, i) = c  BY DEF RemoveAt, a, b, c
<1> HIDE DEF c
<1>7. \A k \in 1 .. Len(s) - 1 : c[k] = IF k < i THEN s[k] ELSE s[k + 1]
  <2> TAKE k \in 1 .. Len(s) - 1
  <2>1. CASE k < i
    <3>1. k \in 1 .. i - 1 /\ k \in 1 .. Len(a) + Len(b) /\ k <= Len(a)  BY <1>1, <1>3, <1>4, <2>1
    <3>2. c[k] = s[k]  BY <1>3, <1>5, <3>1
    <3> QED BY <2>1, <3>2
  <2>2. CASE ~(k < i)
    <3> DEFINE m == k - (i - 1)
    <3>1. k \in Nat /\ k <= Len(s) - 1 /\ k >= i  BY <1>1, <2>2
    <3>2. m \in 1 .. Len(s) - i /\ i + m = k + 1 /\ ~(k <= i - 1)  BY <1>1, <3>1
    <3>3. k \in 1 .. Len(a) + Len(b)  BY <1>1, <1>3, <1>4, <3>1
    <3>4. c[k] = b[m]  BY <1>3, <1>5, <3>2, <3>3
    <3>5. b[m] = s[i + m]  BY <1>4, <3>2
    <3>6. c[k] = s[k + 1]  BY <3>2, <3>4, <3>5
    <3> QED BY <2>2, <3>6
  <2> QED BY <2>1, <2>2
<1>8. Len(c) = Len(s) - 1  BY <1>1, <1>3, <1>4, <1>5
<1> QED BY <1>5, <1>6, <1>7, <1>8

\* The same for a table of N entries.
LEMMA FreeSlot ==
  ASSUME NEW N, NEW tab, DOMAIN tab = 1 .. N, FirstFree(tab) # 0
  PROVE  FirstFree(tab) \in 1 .. N /\ ~tab[FirstFree(tab)].used
<1>1. FirstFree(tab) \in 1 .. N /\ FirstFree(tab) \notin Taken(tab)
  <2>1. DOMAIN tab \subseteq Nat \ {0}  OBVIOUS
  <2> QED BY <2>1, FreeEntry
<1> QED BY <1>1 DEF Taken

\* A set of positions of a sequence that is not empty has a greatest one.
LEMMA GreatestIsThere ==
  ASSUME NEW n \in Nat, NEW S, S \subseteq 1 .. n, S # {}
  PROVE  Max(S) \in S /\ \A y \in S : Max(S) >= y
<1> DEFINE T == {n - x : x \in S}
<1>1. T \subseteq Nat /\ T # {}
  <2>1. \A x \in S : x \in Nat /\ n - x \in Nat  OBVIOUS
  <2>2. PICK x \in S : TRUE  OBVIOUS
  <2>3. n - x \in T  OBVIOUS
  <2> QED BY <2>1, <2>3
<1>2. PICK m \in T : \A y \in T : m <= y
  <2> HIDE DEF T
  <2> QED BY <1>1, LeastIsThere
<1>3. PICK x \in S : m = n - x  BY <1>2
<1>4. \A y \in S : x >= y
  <2> TAKE y \in S
  <2>1. n - y \in T  OBVIOUS
  <2>2. n - x <= n - y  BY <1>2, <1>3, <2>1
  <2>3. x \in Nat /\ y \in Nat  OBVIOUS
  <2> QED BY <2>2, <2>3
<1> QED BY <1>4 DEF Max

------------------------------
(* The scheduler.                                                          *)

\* The strengthening of NeverStarved: what a task has waited and its place
\* in the queue never exceed the size of the table together.  A turn of
\* its class costs a task a tick and moves it up by one place.
SchedTask == [pid : SchedPids, prio : SchedPrios]
SchedInv ==
    /\ run_q \in Seq(SchedTask)
    /\ Len(run_q) <= SCHED_MAX
    /\ sched_wait \in [SchedPids -> Nat]
    /\ \A i, j \in 1 .. Len(run_q) : run_q[i].pid = run_q[j].pid => i = j
    /\ \A i \in 1 .. Len(run_q) : sched_wait[run_q[i].pid] + i <= SCHED_MAX
    /\ \A p \in SchedPids : (\A i \in 1 .. Len(run_q) : run_q[i].pid # p) => sched_wait[p] = 0

\* find_task() gives the place of the task, or 0 when it is not queued.
LEMMA FindTask ==
  ASSUME SchedInv, NEW p
  PROVE  /\ find_task(p) # 0 => find_task(p) \in 1 .. Len(run_q) /\ run_q[find_task(p)].pid = p
         /\ find_task(p) = 0 => \A i \in 1 .. Len(run_q) : run_q[i].pid # p
<1> DEFINE S == {i \in 1 .. Len(run_q) : run_q[i].pid = p}
<1>1. S \subseteq Nat \ {0}  OBVIOUS
<1>2. (FirstOf(S) = 0 <=> S = {}) /\ (S # {} => FirstOf(S) \in S)  BY <1>1, FirstMatch
<1>3. find_task(p) = FirstOf(S)  BY DEF find_task
<1> QED BY <1>2, <1>3

\* pick_next() gives the first place of the best class, when anything is
\* queued.
LEMMA PickNext ==
  ASSUME SchedInv, run_q # <<>>
  PROVE  /\ pick_next \in 1 .. Len(run_q)
         /\ \A j \in 1 .. Len(run_q) :
               run_q[j].prio = run_q[pick_next].prio => pick_next <= j
<1> DEFINE n == Len(run_q)
           S == {i \in 1 .. n : \A j \in 1 .. n : run_q[i].prio <= run_q[j].prio}
           P == {run_q[i].prio : i \in 1 .. n}
<1>1. n \in Nat /\ n # 0  BY EmptySeq, LenProperties DEF SchedInv
<1>2. \A i \in 1 .. n : run_q[i] \in SchedTask  BY ElementOfSeq DEF SchedInv
<1>3. P \subseteq Nat /\ P # {}
  <2>1. run_q[1].prio \in P  BY <1>1
  <2> QED BY <1>2, <2>1, Kernel64Assumption DEF SchedTask
<1>4. PICK m \in P : \A y \in P : m <= y  BY <1>3, LeastIsThere
<1>5. PICK k \in 1 .. n : run_q[k].prio = m  BY <1>4
<1>6. k \in S  BY <1>4, <1>5
<1>7. S \subseteq Nat \ {0} /\ S # {}  BY <1>6
<1>8. pick_next = FirstOf(S)  BY DEF pick_next
<1>9. pick_next \in S /\ \A x \in S : pick_next <= x  BY <1>7, <1>8, FirstMatch
<1>10. ASSUME NEW j \in 1 .. n, run_q[j].prio = run_q[pick_next].prio
       PROVE  pick_next <= j
  <2>1. j \in S  BY <1>9, <1>10
  <2> QED BY <1>9, <2>1
<1> QED BY <1>9, <1>10

LEMMA SchedStarts == SchedInit => SchedInv
<1> SUFFICES ASSUME SchedInit PROVE SchedInv  OBVIOUS
<1>1. run_q \in Seq(SchedTask) /\ Len(run_q) = 0  BY EmptySeq DEF SchedInit
<1> QED BY <1>1, Kernel64Assumption DEF SchedInit, SchedInv

\* Taking one task out of the queue: the others keep their order.
LEMMA SchedRemove ==
  ASSUME SchedInv, NEW p \in SchedPids, sched64_remove(p)
  PROVE  SchedInv'
<1> DEFINE f == find_task(p)
           n == Len(run_q)
<1>1. f \in 1 .. n /\ run_q[f].pid = p  BY FindTask DEF sched64_remove
<1>2. run_q \in Seq(SchedTask) /\ n \in Nat /\ n <= SCHED_MAX /\ SCHED_MAX \in Nat
  BY LenProperties, Kernel64Assumption DEF SchedInv
<1>3. run_q' = RemoveAt(run_q, f)  BY DEF sched64_remove
<1> HIDE DEF f
<1>4. /\ run_q' \in Seq(SchedTask) /\ Len(run_q') = n - 1
      /\ \A k \in 1 .. n - 1 : run_q'[k] = IF k < f THEN run_q[k] ELSE run_q[k + 1]
  BY <1>1, <1>2, <1>3, Removed
<1>5. sched_wait' = [sched_wait EXCEPT ![p] = 0]  BY DEF sched64_remove
<1>6. \A k \in 1 .. n - 1 : \E m \in 1 .. n : /\ run_q'[k] = run_q[m] /\ m # f /\ k <= m
                                            /\ m = IF k < f THEN k ELSE k + 1
  <2> TAKE k \in 1 .. n - 1
  <2> DEFINE m == IF k < f THEN k ELSE k + 1
  <2>1. m \in 1 .. n /\ m # f /\ k <= m  BY <1>1, <1>2
  <2>2. run_q'[k] = run_q[m]  BY <1>4
  <2> QED BY <2>1, <2>2
<1>7. sched_wait' \in [SchedPids -> Nat]  BY <1>5 DEF SchedInv
<1>8. ASSUME NEW i \in 1 .. n - 1, NEW j \in 1 .. n - 1, run_q'[i].pid = run_q'[j].pid
      PROVE  i = j
  <2>1. PICK a \in 1 .. n : run_q'[i] = run_q[a] /\ a = IF i < f THEN i ELSE i + 1  BY <1>6
  <2>2. PICK b \in 1 .. n : run_q'[j] = run_q[b] /\ b = IF j < f THEN j ELSE j + 1  BY <1>6
  <2>3. a = b  BY <1>8, <2>1, <2>2 DEF SchedInv
  <2> QED BY <1>1, <1>2, <2>1, <2>2, <2>3
<1>9. ASSUME NEW i \in 1 .. n - 1 PROVE sched_wait'[run_q'[i].pid] + i <= SCHED_MAX
  <2>1. PICK a \in 1 .. n : run_q'[i] = run_q[a] /\ a # f /\ i <= a  BY <1>6
  <2>2. run_q[a].pid # p /\ run_q[a].pid \in SchedPids
    <3>1. run_q[a] \in SchedTask  BY <1>2, ElementOfSeq
    <3>2. run_q[a].pid # run_q[f].pid  BY <1>1, <2>1 DEF SchedInv
    <3> QED BY <1>1, <3>1, <3>2 DEF SchedTask
  <2>3. sched_wait'[run_q'[i].pid] = sched_wait[run_q[a].pid]  BY <1>5, <2>1, <2>2 DEF SchedInv
  <2>4. sched_wait[run_q[a].pid] + a <= SCHED_MAX /\ sched_wait[run_q[a].pid] \in Nat  BY <2>2 DEF SchedInv
  <2> QED BY <1>2, <2>1, <2>3, <2>4
<1>10. ASSUME NEW q \in SchedPids, \A i \in 1 .. n - 1 : run_q'[i].pid # q
       PROVE  sched_wait'[q] = 0
  <2>1. CASE q = p  BY <1>5, <2>1 DEF SchedInv
  <2>2. CASE q # p
    <3>1. ASSUME NEW a \in 1 .. n, run_q[a].pid = q PROVE FALSE
      <4>1. a # f  BY <1>1, <2>2, <3>1
      <4>2. CASE a < f
        <5>1. a \in 1 .. n - 1 /\ run_q'[a] = run_q[a]  BY <1>1, <1>2, <1>4, <4>2
        <5> QED BY <1>10, <3>1, <5>1
      <4>3. CASE a > f
        <5>1. a - 1 \in 1 .. n - 1 /\ run_q'[a - 1] = run_q[a]
          <6>1. a - 1 \in 1 .. n - 1 /\ ~(a - 1 < f) /\ (a - 1) + 1 = a  BY <1>1, <1>2, <4>3
          <6> QED BY <1>4, <6>1
        <5> QED BY <1>10, <3>1, <5>1
      <4> QED BY <1>1, <1>2, <4>1, <4>2, <4>3
    <3>2. sched_wait[q] = 0  BY <3>1 DEF SchedInv
    <3> QED BY <1>5, <2>2, <3>2 DEF SchedInv
  <2> QED BY <2>1, <2>2
<1> QED BY <1>2, <1>4, <1>7, <1>8, <1>9, <1>10 DEF SchedInv

\* A tick: the task that ran goes to the end of the queue, those behind it
\* move up, and only tasks of its class have waited a turn.
LEMMA SchedRotate ==
  ASSUME SchedInv, rotate_best_class
  PROVE  SchedInv'
<1> DEFINE n == Len(run_q)
<1>1. PICK f \in 1 .. n : /\ f = pick_next
                          /\ \A j \in 1 .. n : run_q[j].prio = run_q[f].prio => f <= j
  BY PickNext DEF rotate_best_class
<1>2. run_q \in Seq(SchedTask) /\ n \in Nat /\ n <= SCHED_MAX /\ SCHED_MAX \in Nat
  BY LenProperties, Kernel64Assumption DEF SchedInv
<1> DEFINE r == RemoveAt(run_q, f)
<1>3. run_q' = Append(r, run_q[f])  BY <1>1 DEF rotate_best_class, Requeued
<1>4. /\ r \in Seq(SchedTask) /\ Len(r) = n - 1
      /\ \A k \in 1 .. n - 1 : r[k] = IF k < f THEN run_q[k] ELSE run_q[k + 1]
  BY <1>1, <1>2, Removed
<1>5. run_q[f] \in SchedTask  BY <1>1, <1>2, ElementOfSeq
<1> HIDE DEF r
<1>6. /\ run_q' \in Seq(SchedTask) /\ Len(run_q') = n
      /\ \A k \in 1 .. n - 1 : run_q'[k] = r[k]
      /\ run_q'[n] = run_q[f]
  BY <1>2, <1>3, <1>4, <1>5, AppendProperties
<1>7. \A k \in 1 .. n - 1 : \E m \in 1 .. n : /\ run_q'[k] = run_q[m] /\ m # f
                                            /\ m = IF k < f THEN k ELSE k + 1
  <2> TAKE k \in 1 .. n - 1
  <2> DEFINE m == IF k < f THEN k ELSE k + 1
  <2>1. m \in 1 .. n /\ m # f  BY <1>1, <1>2
  <2>2. run_q'[k] = run_q[m]  BY <1>4, <1>6
  <2> QED BY <2>1, <2>2
<1>8. \A p \in SchedPids : sched_wait'[p] =
          IF p = run_q[f].pid THEN 0
          ELSE IF find_task(p) # 0 /\ run_q[find_task(p)].prio = run_q[f].prio
          THEN sched_wait[p] + 1 ELSE sched_wait[p]
  BY <1>1 DEF rotate_best_class
<1>9. sched_wait' \in [SchedPids -> Nat]
  <2>1. sched_wait' = [p \in SchedPids |-> sched_wait'[p]]  BY DEF rotate_best_class
  <2>2. \A p \in SchedPids : sched_wait'[p] \in Nat  BY <1>8 DEF SchedInv
  <2> QED BY <2>1, <2>2
<1>10. \A a \in 1 .. n : run_q[a].pid \in SchedPids
  <2>1. \A a \in 1 .. n : run_q[a] \in SchedTask  BY <1>2, ElementOfSeq
  <2> QED BY <2>1 DEF SchedTask
<1>11. ASSUME NEW i \in 1 .. n, NEW j \in 1 .. n, run_q'[i].pid = run_q'[j].pid
       PROVE  i = j
  <2>1. PICK a \in 1 .. n : run_q'[i] = run_q[a] /\ a = IF i = n THEN f ELSE IF i < f THEN i ELSE i + 1
    <3>1. CASE i = n  BY <1>1, <1>6, <3>1
    <3>2. CASE i # n
      <4>1. i \in 1 .. n - 1  BY <1>2, <3>2
      <4> QED BY <1>7, <3>2, <4>1
    <3> QED BY <3>1, <3>2
  <2>2. PICK b \in 1 .. n : run_q'[j] = run_q[b] /\ b = IF j = n THEN f ELSE IF j < f THEN j ELSE j + 1
    <3>1. CASE j = n  BY <1>1, <1>6, <3>1
    <3>2. CASE j # n
      <4>1. j \in 1 .. n - 1  BY <1>2, <3>2
      <4> QED BY <1>7, <3>2, <4>1
    <3> QED BY <3>1, <3>2
  <2>3. a = b  BY <1>11, <2>1, <2>2 DEF SchedInv
  <2> QED BY <1>1, <1>2, <2>1, <2>2, <2>3
<1>12. ASSUME NEW i \in 1 .. n PROVE sched_wait'[run_q'[i].pid] + i <= SCHED_MAX
  <2>1. CASE i = n
    <3>1. run_q'[i].pid = run_q[f].pid /\ run_q[f].pid \in SchedPids  BY <1>1, <1>6, <1>10, <2>1
    <3>2. sched_wait'[run_q'[i].pid] = 0  BY <1>8, <3>1
    <3> QED BY <1>2, <2>1, <3>2
  <2>2. CASE i # n
    <3>1. i \in 1 .. n - 1  BY <1>2, <2>2
    <3>2. PICK a \in 1 .. n : run_q'[i] = run_q[a] /\ a # f /\ a = IF i < f THEN i ELSE i + 1  BY <1>7, <3>1
    <3>3. PICK p \in SchedPids : p = run_q[a].pid  BY <1>10
    <3>4. p # run_q[f].pid  BY <1>1, <3>2, <3>3 DEF SchedInv
    <3>5. sched_wait[p] + a <= SCHED_MAX /\ sched_wait[p] \in Nat  BY <3>3 DEF SchedInv
    <3>6. CASE run_q[a].prio = run_q[f].prio
      <4>1. f <= a  BY <1>1, <3>6
      <4>2. a = i + 1  BY <1>1, <1>2, <3>2, <4>1
      <4>3. sched_wait'[p] <= sched_wait[p] + 1 /\ sched_wait'[p] \in Nat  BY <1>8, <1>9, <3>4, <3>5
      <4> QED BY <1>2, <3>2, <3>3, <3>5, <4>2, <4>3
    <3>7. CASE run_q[a].prio # run_q[f].prio
      <4>1. ~(find_task(p) # 0 /\ run_q[find_task(p)].prio = run_q[f].prio)
        <5>1. SUFFICES ASSUME find_task(p) # 0 PROVE run_q[find_task(p)].prio # run_q[f].prio  OBVIOUS
        <5>2. find_task(p) = a  BY <3>3, <5>1, FindTask DEF SchedInv
        <5> QED BY <3>7, <5>2
      <4>2. sched_wait'[p] = sched_wait[p]  BY <1>8, <3>4, <4>1
      <4>3. i <= a  BY <1>2, <3>2
      <4> QED BY <1>2, <3>2, <3>3, <3>5, <4>2, <4>3
    <3> QED BY <3>6, <3>7
  <2> QED BY <2>1, <2>2
<1>13. ASSUME NEW q \in SchedPids, \A i \in 1 .. n : run_q'[i].pid # q
       PROVE  sched_wait'[q] = 0
  <2>1. ASSUME NEW a \in 1 .. n, run_q[a].pid = q PROVE FALSE
    <3>1. CASE a = f
      <4>1. run_q'[n].pid = q /\ n \in 1 .. n  BY <1>2, <1>6, <2>1, <3>1
      <4> QED BY <1>13, <4>1
    <3>2. CASE a < f
      <4>1. a \in 1 .. n - 1 /\ a \in 1 .. n /\ run_q'[a] = run_q[a]  BY <1>1, <1>2, <1>4, <1>6, <3>2
      <4> QED BY <1>13, <2>1, <4>1
    <3>3. CASE a > f
      <4>1. a - 1 \in 1 .. n - 1 /\ a - 1 \in 1 .. n /\ ~(a - 1 < f) /\ (a - 1) + 1 = a  BY <1>1, <1>2, <3>3
      <4>2. run_q'[a - 1] = run_q[a]  BY <1>4, <1>6, <4>1
      <4> QED BY <1>13, <2>1, <4>1, <4>2
    <3> QED BY <1>1, <1>2, <3>1, <3>2, <3>3
  <2>2. sched_wait[q] = 0  BY <2>1 DEF SchedInv
  <2>3. q # run_q[f].pid /\ find_task(q) = 0  BY <1>1, <2>1, FindTask
  <2> QED BY <1>8, <2>2, <2>3
<1> QED BY <1>2, <1>6, <1>9, <1>11, <1>12, <1>13 DEF SchedInv

LEMMA SchedAdd ==
  ASSUME SchedInv, NEW p \in SchedPids, NEW prio \in SchedPrios, sched64_add(p, prio)
  PROVE  SchedInv'
<1> DEFINE n == Len(run_q)
           t == [pid |-> p, prio |-> prio]
<1>1. run_q \in Seq(SchedTask) /\ n \in Nat /\ n < SCHED_MAX /\ SCHED_MAX \in Nat
  BY LenProperties, Kernel64Assumption DEF SchedInv, sched64_add
<1>2. t \in SchedTask  BY DEF SchedTask
<1>3. /\ run_q' \in Seq(SchedTask) /\ Len(run_q') = n + 1
      /\ \A k \in 1 .. n : run_q'[k] = run_q[k]
      /\ run_q'[n + 1] = t
  BY <1>1, <1>2, AppendProperties DEF sched64_add
<1>4. \A i \in 1 .. n : run_q[i].pid # p  BY FindTask DEF sched64_add
<1>5. sched_wait' = sched_wait  BY DEF sched64_add
<1>6. sched_wait[p] = 0  BY <1>4 DEF SchedInv
<1>7. \A k \in 1 .. n + 1 : k = n + 1 \/ k \in 1 .. n  BY <1>1
<1>8. \A i, j \in 1 .. n + 1 : run_q'[i].pid = run_q'[j].pid => i = j  BY <1>3, <1>4, <1>7 DEF SchedInv
<1>9. \A i \in 1 .. n + 1 : sched_wait[run_q'[i].pid] + i <= SCHED_MAX  BY <1>1, <1>3, <1>6, <1>7 DEF SchedInv
<1>10. \A q \in SchedPids : (\A i \in 1 .. n + 1 : run_q'[i].pid # q) => sched_wait[q] = 0
  <2> TAKE q \in SchedPids
  <2> SUFFICES ASSUME \A i \in 1 .. n + 1 : run_q'[i].pid # q PROVE sched_wait[q] = 0  OBVIOUS
  <2>1. \A i \in 1 .. n : i \in 1 .. n + 1  BY <1>1
  <2>2. \A i \in 1 .. n : run_q[i].pid # q  BY <1>3, <2>1
  <2> QED BY <2>2 DEF SchedInv
<1>11. sched_wait \in [SchedPids -> Nat]  BY DEF SchedInv
<1> QED BY <1>1, <1>3, <1>5, <1>8, <1>9, <1>10, <1>11 DEF SchedInv

LEMMA SchedSetPrio ==
  ASSUME SchedInv, NEW p \in SchedPids, NEW prio \in SchedPrios, sched64_set_prio(p, prio)
  PROVE  SchedInv'
<1> DEFINE f == find_task(p)
           n == Len(run_q)
<1>1. f \in 1 .. n  BY FindTask DEF sched64_set_prio
<1> HIDE DEF f
<1>2. run_q \in Seq(SchedTask) /\ n \in Nat  BY LenProperties DEF SchedInv
<1>3. run_q[f] \in SchedTask  BY <1>1, <1>2, ElementOfSeq
<1>4. run_q' = [run_q EXCEPT ![f] = [run_q[f] EXCEPT !.prio = prio]]  BY DEF sched64_set_prio, f
<1>5. [run_q[f] EXCEPT !.prio = prio] \in SchedTask
      /\ [run_q[f] EXCEPT !.prio = prio].pid = run_q[f].pid
  BY <1>3 DEF SchedTask
<1>6. run_q' \in Seq(SchedTask) /\ Len(run_q') = n  BY <1>1, <1>2, <1>4, <1>5, ExceptSeq
<1>7. \A i \in 1 .. n : run_q'[i].pid = run_q[i].pid  BY <1>1, <1>2, <1>4, <1>5, ExceptSeq
<1>8. sched_wait' = sched_wait  BY DEF sched64_set_prio
<1> QED BY <1>6, <1>7, <1>8 DEF SchedInv

LEMMA SchedKept == ASSUME SchedInv, SchedNext PROVE SchedInv'
BY SchedAdd, SchedSetPrio, SchedRemove, SchedRotate DEF SchedNext

LEMMA SchedHolds == ASSUME SchedInv PROVE NeverStarved
<1>1. ASSUME NEW p \in SchedPids PROVE sched_wait[p] < SCHED_MAX
  <2>1. sched_wait[p] \in Nat /\ SCHED_MAX \in Nat \ {0}  BY Kernel64Assumption DEF SchedInv
  <2>2. CASE \A i \in 1 .. Len(run_q) : run_q[i].pid # p  BY <2>1, <2>2 DEF SchedInv
  <2>3. ASSUME NEW i \in 1 .. Len(run_q), run_q[i].pid = p PROVE sched_wait[p] < SCHED_MAX
    <3>1. sched_wait[p] + i <= SCHED_MAX /\ i \in Nat /\ i >= 1  BY <2>3 DEF SchedInv
    <3> QED BY <2>1, <3>1
  <2> QED BY <2>2, <2>3
<1> QED BY <1>1 DEF NeverStarved

------------------------------
(* Read-copy-update.                                                       *)

\* The strengthening of ReadersSafe: as long as no update of the count was lost
\* the readers between their two updates are counted, an object is
\* in one place only - published, waiting in one entry of the table, or
\* free - and while the table is gone through a reader has nothing but
\* what is published.
RcuCb == [used : BOOLEAN, obj : 0 .. RcuObjects, epoch : Nat]
RcuReader == [pc : {"out", "lock", "in", "leave", "unlock"}, reg : Nat, obj : 0 .. RcuObjects]
RcuInside(r) == rcu_in[r].pc \in {"in", "leave", "unlock"}
RcuState ==
    /\ rcu_in \in [RcuReaders -> RcuReader]
    /\ rcu_cbs \in [1 .. RCU64_MAX_CB -> RcuCb]
    /\ rcu_epoch \in Nat /\ rcu_at \in 0 .. RCU64_MAX_CB
    /\ rcu_ptr \in 1 .. RcuObjects /\ rcu_freed \subseteq 1 .. RcuObjects
    /\ rcu_ptr \notin rcu_freed
    /\ rcu_readers = Cardinality({r \in RcuReaders : RcuInside(r)})
    /\ \A r \in RcuReaders : rcu_in[r].pc # "in" => rcu_in[r].obj = 0
    /\ \A r \in RcuReaders : rcu_in[r].obj \notin rcu_freed
    /\ rcu_at # 0 => \A r \in RcuReaders : rcu_in[r].obj \in {0, rcu_ptr}
    /\ \A i \in Taken(rcu_cbs) :
          rcu_cbs[i].obj \notin rcu_freed /\ rcu_cbs[i].obj # rcu_ptr /\ rcu_cbs[i].obj # 0
    /\ \A i, j \in Taken(rcu_cbs) : rcu_cbs[i].obj = rcu_cbs[j].obj => i = j
RcuInv == rcu_torn \in BOOLEAN /\ (~rcu_torn => RcuState)

LEMMA RcuStarts == rcu64_init => RcuInv
<1> SUFFICES ASSUME rcu64_init PROVE RcuInv  OBVIOUS
<1> USE Kernel64Assumption
<1>1. {r \in RcuReaders : RcuInside(r)} = {}  BY DEF rcu64_init, RcuInside, Outside
<1>2. rcu_readers = Cardinality({r \in RcuReaders : RcuInside(r)})  BY <1>1, FS_EmptySet DEF rcu64_init
<1>3. Taken(rcu_cbs) = {}  BY DEF rcu64_init, Taken, NoCb
<1>4. NoCb \in RcuCb  BY DEF NoCb, RcuCb
<1>5. rcu_cbs \in [1 .. RCU64_MAX_CB -> RcuCb]  BY <1>4 DEF rcu64_init
<1>6. Outside \in RcuReader /\ Outside.obj = 0  BY DEF Outside, RcuReader
<1>7. rcu_in \in [RcuReaders -> RcuReader] /\ \A r \in RcuReaders : rcu_in[r].obj = 0  BY <1>6 DEF rcu64_init
<1>8. /\ rcu_epoch = 0 /\ rcu_at = 0 /\ rcu_ptr = 1 /\ 1 \in 1 .. RcuObjects
      /\ rcu_freed = 2 .. RcuObjects /\ 0 \notin rcu_freed /\ rcu_freed \subseteq 1 .. RcuObjects
      /\ 0 \in 0 .. RCU64_MAX_CB /\ rcu_torn = FALSE
  BY DEF rcu64_init
<1>9. RcuState  BY <1>2, <1>3, <1>5, <1>7, <1>8 DEF RcuState
<1> QED BY <1>8, <1>9 DEF RcuInv

\* What a step of a reader other than RcuRead() has to show: its entry is of the
\* right kind, and the count is right.
LEMMA RcuReaderStep ==
  ASSUME RcuState, NEW r \in RcuReaders, NEW e, e \in RcuReader,
         rcu_in' = [rcu_in EXCEPT ![r] = e], e.obj = 0,
         rcu_readers' = Cardinality({q \in RcuReaders : RcuInside(q)'}),
         UNCHANGED <<rcu_ptr, rcu_cbs, rcu_epoch, rcu_freed, rcu_at>>
  PROVE  RcuState'
<1>1. rcu_in' \in [RcuReaders -> RcuReader]  BY DEF RcuState
<1>2. \A q \in RcuReaders : rcu_in'[q] = IF q = r THEN e ELSE rcu_in[q]  BY DEF RcuState
<1>3. \A q \in RcuReaders : /\ rcu_in'[q].pc # "in" => rcu_in'[q].obj = 0
                            /\ rcu_in'[q].obj \in {0, rcu_in[q].obj}
  BY <1>2 DEF RcuState
<1>4. 0 \notin rcu_freed  BY DEF RcuState
<1>5. \A q \in RcuReaders : rcu_in'[q].obj \notin rcu_freed'  BY <1>3, <1>4 DEF RcuState
<1>6. rcu_at # 0 => \A q \in RcuReaders : rcu_in'[q].obj \in {0, rcu_ptr'}  BY <1>3 DEF RcuState
<1>7. Taken(rcu_cbs)' = Taken(rcu_cbs)  BY DEF Taken
<1> QED BY <1>1, <1>3, <1>5, <1>6, <1>7 DEF RcuState

LEMMA RcuSame ==
  ASSUME RcuState, NEW r \in RcuReaders, NEW e,
         rcu_in' = [rcu_in EXCEPT ![r] = e],
         e.pc \in {"in", "leave", "unlock"} <=> RcuInside(r), rcu_readers' = rcu_readers
  PROVE  rcu_readers' = Cardinality({q \in RcuReaders : RcuInside(q)'})
<1>1. \A q \in RcuReaders : RcuInside(q)' <=> RcuInside(q)  BY DEF RcuInside, RcuState
<1>2. {q \in RcuReaders : RcuInside(q)'} = {q \in RcuReaders : RcuInside(q)}  BY <1>1
<1> QED BY <1>2 DEF RcuState

LEMMA RcuCountIsNat == ASSUME RcuState PROVE rcu_readers \in Nat /\ rcu_readers < RcuCountMax
<1> DEFINE S == {q \in RcuReaders : RcuInside(q)}
<1>1. IsFiniteSet(S) /\ Cardinality(S) <= Cardinality(RcuReaders)  BY FS_Subset, Kernel64Assumption
<1>2. Cardinality(S) \in Nat /\ Cardinality(RcuReaders) \in Nat  BY <1>1, FS_CardinalityType, Kernel64Assumption
<1>3. rcu_readers = Cardinality(S)  BY DEF RcuState
<1> HIDE DEF S
<1> QED BY <1>1, <1>2, <1>3, Kernel64Assumption

\* The two loads, and the test.
LEMMA RcuReadLock ==
  ASSUME RcuState, NEW r \in RcuReaders, rcu64_read_lock(r) \/ RcuLeave(r)
  PROVE  RcuState'
<1>1. PICK pc : /\ RcuLoad(r, pc)
                /\ \/ rcu_in[r].pc = "out" /\ pc = "lock"
                   \/ rcu_in[r].pc = "leave" /\ pc = "unlock"
  BY DEF rcu64_read_lock, RcuLeave
<1>2. PICK e : e = [pc |-> pc, reg |-> rcu_readers, obj |-> 0]  OBVIOUS
<1>4. rcu_in' = [rcu_in EXCEPT ![r] = e]  BY <1>1, <1>2 DEF RcuLoad
<1>5. e \in RcuReader /\ e.obj = 0 /\ e.pc = pc
  <2>1. pc \in {"lock", "unlock"} /\ rcu_readers \in Nat /\ 0 \in 0 .. RcuObjects
    BY <1>1, RcuCountIsNat, Kernel64Assumption
  <2> QED BY <1>2, <2>1 DEF RcuReader
<1>6. rcu_readers' = rcu_readers /\ UNCHANGED <<rcu_ptr, rcu_cbs, rcu_epoch, rcu_freed, rcu_at>>
  BY <1>1 DEF RcuLoad
<1>7. e.pc \in {"in", "leave", "unlock"} <=> RcuInside(r)  BY <1>1, <1>5 DEF RcuInside
<1>8. rcu_readers' = Cardinality({q \in RcuReaders : RcuInside(q)'})  BY <1>4, <1>6, <1>7, RcuSame
<1> QED BY <1>4, <1>5, <1>6, <1>8, RcuReaderStep

LEMMA RcuReadUnlock ==
  ASSUME RcuState, NEW r \in RcuReaders, rcu64_read_unlock(r)
  PROVE  RcuState'
<1> DEFINE S == {q \in RcuReaders : RcuInside(q)}
<1>1. r \in S  BY DEF rcu64_read_unlock, RcuInside
<1>2. IsFiniteSet(S) /\ rcu_readers = Cardinality(S)  BY FS_Subset, Kernel64Assumption DEF RcuState
<1>3. rcu_readers # 0  BY <1>1, <1>2, FS_EmptySet
<1>4. PICK e : e = [pc |-> "leave", reg |-> 0, obj |-> 0]  OBVIOUS
<1>5. e \in RcuReader /\ e.obj = 0 /\ e.pc = "leave"  BY <1>4, Kernel64Assumption DEF RcuReader
<1>6. /\ rcu_in' = [rcu_in EXCEPT ![r] = e] /\ rcu_in[r].pc = "in" /\ rcu_readers' = rcu_readers
      /\ UNCHANGED <<rcu_ptr, rcu_cbs, rcu_epoch, rcu_freed, rcu_at>>
  <2>1. [Outside EXCEPT !.pc = IF rcu_readers = 0 THEN "out" ELSE "leave"] = e  BY <1>3, <1>4 DEF Outside
  <2> QED BY <2>1 DEF rcu64_read_unlock
<1>7. e.pc \in {"in", "leave", "unlock"} <=> RcuInside(r)  BY <1>5, <1>6 DEF RcuInside
<1>8. rcu_readers' = Cardinality({q \in RcuReaders : RcuInside(q)'})  BY <1>6, <1>7, RcuSame
<1> QED BY <1>5, <1>6, <1>8, RcuReaderStep

\* The two stores, when the count is still what was loaded.
LEMMA RcuReadLocked ==
  ASSUME RcuState, NEW r \in RcuReaders, RcuLocked(r), ~rcu_torn'
  PROVE  RcuState'
<1> DEFINE S == {q \in RcuReaders : RcuInside(q)}
           T == {q \in RcuReaders : RcuInside(q)'}
<1>1. PICK e : e = [pc |-> "in", reg |-> 0, obj |-> 0]  OBVIOUS
<1>2. e \in RcuReader /\ e.obj = 0 /\ e.pc = "in"  BY <1>1, Kernel64Assumption DEF RcuReader
<1>3. /\ rcu_in' = [rcu_in EXCEPT ![r] = e] /\ rcu_in[r].pc = "lock"
      /\ UNCHANGED <<rcu_ptr, rcu_cbs, rcu_epoch, rcu_freed, rcu_at>>
      /\ rcu_readers' = CountUp(rcu_readers)
  <2>1. [Outside EXCEPT !.pc = "in"] = e  BY <1>1 DEF Outside
  <2>2. rcu_in[r].reg = rcu_readers  BY DEF RcuLocked, RcuStore
  <2> QED BY <2>1, <2>2 DEF RcuLocked, RcuStore
<1>4. rcu_readers' = rcu_readers + 1  BY <1>3, RcuCountIsNat, Kernel64Assumption DEF CountUp
<1>5. \A q \in RcuReaders : RcuInside(q)' <=> q = r \/ RcuInside(q)  BY <1>2, <1>3 DEF RcuInside, RcuState
<1>6. T = S \cup {r} /\ r \notin S /\ IsFiniteSet(S) /\ rcu_readers = Cardinality(S)
  BY <1>3, <1>5, FS_Subset, Kernel64Assumption DEF RcuInside, RcuState
<1>7. Cardinality(S \cup {r}) = Cardinality(S) + 1  BY <1>6, FS_AddElement
<1>8. rcu_readers' = Cardinality(T)  BY <1>4, <1>6, <1>7
<1> QED BY <1>2, <1>3, <1>8, RcuReaderStep

LEMMA RcuReadUnlocked ==
  ASSUME RcuState, NEW r \in RcuReaders, RcuUnlocked(r), ~rcu_torn'
  PROVE  RcuState'
<1> DEFINE S == {q \in RcuReaders : RcuInside(q)}
           T == {q \in RcuReaders : RcuInside(q)'}
<1>1. PICK e : e = [pc |-> "out", reg |-> 0, obj |-> 0]  OBVIOUS
<1>2. e \in RcuReader /\ e.obj = 0 /\ e.pc = "out"  BY <1>1, Kernel64Assumption DEF RcuReader
<1>3. /\ rcu_in' = [rcu_in EXCEPT ![r] = e] /\ rcu_in[r].pc = "unlock"
      /\ UNCHANGED <<rcu_ptr, rcu_cbs, rcu_epoch, rcu_freed, rcu_at>>
      /\ rcu_readers' = CountDown(rcu_readers)
  BY <1>1 DEF RcuUnlocked, RcuStore, Outside
<1>4. \A q \in RcuReaders : RcuInside(q)' <=> q # r /\ RcuInside(q)  BY <1>2, <1>3 DEF RcuInside, RcuState
<1>5. T = S \ {r} /\ r \in S /\ IsFiniteSet(S) /\ rcu_readers = Cardinality(S)
  BY <1>3, <1>4, FS_Subset, Kernel64Assumption DEF RcuInside, RcuState
<1>6. Cardinality(S \ {r}) = Cardinality(S) - 1 /\ Cardinality(S) \in Nat /\ Cardinality(S) # 0
  BY <1>5, FS_RemoveElement, FS_CardinalityType, FS_EmptySet
<1>7. rcu_readers' = Cardinality(T)  BY <1>3, <1>5, <1>6 DEF CountDown
<1> QED BY <1>2, <1>3, <1>7, RcuReaderStep

LEMMA RcuReadKept ==
  ASSUME RcuState, NEW r \in RcuReaders, RcuRead(r)
  PROVE  RcuState'
<1>1. /\ rcu_in' = [rcu_in EXCEPT ![r].obj = rcu_ptr] /\ rcu_in[r].pc = "in"
      /\ UNCHANGED <<rcu_readers, rcu_ptr, rcu_cbs, rcu_epoch, rcu_freed, rcu_at>>
  BY DEF RcuRead
<1>2. rcu_in' \in [RcuReaders -> RcuReader]  BY <1>1 DEF RcuReader, RcuState
<1>3. \A q \in RcuReaders : /\ rcu_in'[q].obj = IF q = r THEN rcu_ptr ELSE rcu_in[q].obj
                            /\ rcu_in'[q].pc = rcu_in[q].pc
  BY <1>1 DEF RcuReader, RcuState
<1>4. {q \in RcuReaders : RcuInside(q)'} = {q \in RcuReaders : RcuInside(q)}  BY <1>3 DEF RcuInside
<1>5. \A q \in RcuReaders : /\ rcu_in'[q].pc # "in" => rcu_in'[q].obj = 0
                            /\ rcu_in'[q].obj \notin rcu_freed
                            /\ rcu_at # 0 => rcu_in'[q].obj \in {0, rcu_ptr}
  BY <1>1, <1>3 DEF RcuState
<1>6. Taken(rcu_cbs)' = Taken(rcu_cbs)  BY <1>1 DEF Taken
<1>7. rcu_readers' = Cardinality({q \in RcuReaders : RcuInside(q)'})  BY <1>1, <1>4 DEF RcuState
<1> QED BY <1>1, <1>2, <1>5, <1>6, <1>7 DEF RcuState

LEMMA RcuUpdateKept ==
  ASSUME RcuState, RcuUpdate
  PROVE  RcuState'
<1>1. PICK m \in rcu_freed : m = Min(rcu_freed)
  <2>1. rcu_freed \subseteq Nat /\ rcu_freed # {}  BY DEF RcuState, RcuUpdate
  <2> QED BY <2>1, LeastIsThere
<1>2. /\ rcu_ptr' = m /\ rcu_freed' = rcu_freed \ {m} /\ m # rcu_ptr
      /\ rcu_ptr' \in 1 .. RcuObjects /\ rcu_freed' \subseteq 1 .. RcuObjects
  BY <1>1 DEF RcuUpdate, RcuState
<1>3. PICK f : f = FirstFree(rcu_cbs)  OBVIOUS
<1>4. f # 0 => f \in 1 .. RCU64_MAX_CB /\ f \notin Taken(rcu_cbs)
  <2>1. DOMAIN rcu_cbs = 1 .. RCU64_MAX_CB /\ 1 .. RCU64_MAX_CB \subseteq Nat \ {0}  BY DEF RcuState
  <2> QED BY <1>3, <2>1, FreeEntry
<1>5. rcu_cbs' = IF f = 0 THEN rcu_cbs
                 ELSE [rcu_cbs EXCEPT ![f] = [used |-> TRUE, obj |-> rcu_ptr, epoch |-> rcu_epoch]]
  BY <1>3 DEF RcuUpdate
<1>6. rcu_cbs' \in [1 .. RCU64_MAX_CB -> RcuCb]  BY <1>4, <1>5 DEF RcuState, RcuCb
<1>7. \A i \in Taken(rcu_cbs') : \/ i \in Taken(rcu_cbs) /\ i # f /\ rcu_cbs'[i].obj = rcu_cbs[i].obj
                                 \/ i = f /\ rcu_cbs'[i].obj = rcu_ptr
  BY <1>4, <1>5 DEF RcuState, Taken
<1>8. \A i \in Taken(rcu_cbs)' :
         rcu_cbs'[i].obj \notin rcu_freed' /\ rcu_cbs'[i].obj # rcu_ptr' /\ rcu_cbs'[i].obj # 0
  BY <1>1, <1>2, <1>7 DEF RcuState, Taken
<1>9. \A i, j \in Taken(rcu_cbs)' : rcu_cbs'[i].obj = rcu_cbs'[j].obj => i = j  BY <1>7 DEF RcuState, Taken
<1> QED BY <1>2, <1>6, <1>8, <1>9 DEF RcuUpdate, RcuState, RcuInside

LEMMA RcuProcess ==
  ASSUME RcuState, rcu64_process
  PROVE  RcuState'
<1> DEFINE S == {q \in RcuReaders : RcuInside(q)}
<1>1. S = {}
  <2>1. Cardinality(S) = 0 /\ IsFiniteSet(S)
    BY FS_Subset, Kernel64Assumption DEF rcu64_process, NoReaders, RcuState
  <2> QED BY <2>1, FS_EmptySet
<1>2. \A q \in RcuReaders : rcu_in[q].obj = 0  BY <1>1 DEF RcuState, RcuInside
<1>3. 1 \in 0 .. RCU64_MAX_CB  BY Kernel64Assumption
<1> QED BY <1>2, <1>3 DEF rcu64_process, RcuState, RcuInside

LEMMA RcuCallback ==
  ASSUME RcuState, RcuRunCallback
  PROVE  RcuState'
<1>1. PICK a \in 1 .. RCU64_MAX_CB : a = rcu_at  BY DEF RcuRunCallback, RcuState
<1>2. rcu_at' \in 0 .. RCU64_MAX_CB  BY <1>1, Kernel64Assumption DEF RcuRunCallback
<1>3. CASE rcu_cbs[a].used /\ rcu_cbs[a].epoch < rcu_epoch
  <2>1. rcu_cbs' = [rcu_cbs EXCEPT ![a] = NoCb] /\ rcu_freed' = rcu_freed \cup {rcu_cbs[a].obj}
    BY <1>1, <1>3 DEF RcuRunCallback
  <2>2. NoCb \in RcuCb /\ ~NoCb.used  BY Kernel64Assumption DEF NoCb, RcuCb
  <2>3. rcu_cbs' \in [1 .. RCU64_MAX_CB -> RcuCb]  BY <2>1, <2>2 DEF RcuState
  <2>4. a \in Taken(rcu_cbs)  BY <1>1, <1>3 DEF Taken, RcuState
  <2>5. \A i \in Taken(rcu_cbs)' : i \in Taken(rcu_cbs) /\ i # a /\ rcu_cbs'[i].obj = rcu_cbs[i].obj
    BY <1>1, <2>1, <2>2 DEF Taken, RcuState
  <2>6. rcu_freed' \subseteq 1 .. RcuObjects /\ rcu_ptr \notin rcu_freed'
    <3>1. rcu_cbs[a] \in RcuCb  BY DEF RcuState
    <3>2. rcu_cbs[a].obj \in 0 .. RcuObjects  BY <3>1 DEF RcuCb
    <3>3. rcu_cbs[a].obj # 0 /\ rcu_cbs[a].obj # rcu_ptr  BY <2>4 DEF RcuState
    <3>4. rcu_cbs[a].obj \in 1 .. RcuObjects  BY <3>2, <3>3, Kernel64Assumption
    <3> QED BY <2>1, <3>3, <3>4 DEF RcuState
  <2>7. \A r \in RcuReaders : rcu_in[r].obj \notin rcu_freed'  BY <1>1, <2>1, <2>4 DEF RcuState
  <2>8. \A i \in Taken(rcu_cbs)' :
           rcu_cbs'[i].obj \notin rcu_freed' /\ rcu_cbs'[i].obj # rcu_ptr /\ rcu_cbs'[i].obj # 0
    BY <2>1, <2>4, <2>5 DEF RcuState
  <2>9. \A i, j \in Taken(rcu_cbs)' : rcu_cbs'[i].obj = rcu_cbs'[j].obj => i = j  BY <2>5 DEF RcuState
  <2>10. UNCHANGED <<rcu_readers, rcu_in, rcu_ptr, rcu_epoch>> /\ rcu_at # 0  BY DEF RcuRunCallback
  <2> QED BY <1>2, <2>3, <2>6, <2>7, <2>8, <2>9, <2>10 DEF RcuState, RcuInside
<1>4. CASE ~(rcu_cbs[a].used /\ rcu_cbs[a].epoch < rcu_epoch)
  <2>1. UNCHANGED <<rcu_cbs, rcu_freed, rcu_readers, rcu_in, rcu_ptr, rcu_epoch>> /\ rcu_at # 0
    BY <1>1, <1>4 DEF RcuRunCallback
  <2> QED BY <1>2, <2>1 DEF RcuState, RcuInside
<1> QED BY <1>3, <1>4

LEMMA RcuTornStays ==
  ASSUME rcu_torn \in BOOLEAN, RcuNext
  PROVE  rcu_torn' \in BOOLEAN /\ (rcu_torn => rcu_torn')
BY DEF RcuNext, rcu64_read_lock, RcuLocked, RcuRead, rcu64_read_unlock, RcuLeave, RcuUnlocked,
       RcuLoad, RcuStore, RcuUpdate, rcu64_quiescent, rcu64_process, RcuRunCallback

LEMMA RcuKept == ASSUME RcuInv, RcuNext PROVE RcuInv'
<1>1. rcu_torn' \in BOOLEAN /\ (rcu_torn => rcu_torn')  BY RcuTornStays DEF RcuInv
<1>2. SUFFICES ASSUME ~rcu_torn' PROVE RcuState'  BY <1>1 DEF RcuInv
<1>3. RcuState  BY <1>1, <1>2 DEF RcuInv
<1>4. ASSUME rcu64_quiescent PROVE RcuState'  BY <1>3, <1>4 DEF rcu64_quiescent, RcuState, RcuInside
<1>5. ASSUME NEW r \in RcuReaders, rcu64_read_lock(r) \/ RcuLeave(r) PROVE RcuState'  BY <1>3, <1>5, RcuReadLock
<1> QED BY <1>2, <1>3, <1>4, <1>5, RcuReadLocked, RcuReadKept, RcuReadUnlock, RcuReadUnlocked,
     RcuUpdateKept, RcuProcess, RcuCallback DEF RcuNext

LEMMA RcuHolds == ASSUME RcuInv PROVE ReadersSafe
BY DEF RcuInv, RcuState, ReadersSafe

------------------------------
(* The work queue.                                                         *)

\* The strengthening of WorkOnce: as long as no entry was run early, every
\* number given out is either in one entry of the pool or at one place among
\* those that ran, and an entry in use that is not the one being filled holds
\* its own function and argument.
WqState ==
    /\ wq_pool \in [1 .. WQ64_MAX -> Nat] /\ wq_at \in 0 .. WQ64_MAX
    /\ wq_left \in [1 .. WQ64_MAX -> Nat] /\ wq_fill \in 0 .. WQ64_MAX
    /\ wq_next \in Nat \ {0} /\ wq_ran \in Seq(Nat)
    /\ \A i \in 1 .. WQ64_MAX : wq_pool[i] < wq_next
    /\ \A i, j \in 1 .. WQ64_MAX : wq_pool[i] = wq_pool[j] /\ wq_pool[i] # 0 => i = j
    /\ \A k \in 1 .. Len(wq_ran) : wq_ran[k] # 0 /\ wq_ran[k] < wq_next
    /\ \A k, l \in 1 .. Len(wq_ran) : wq_ran[k] = wq_ran[l] => k = l
    /\ \A k \in 1 .. Len(wq_ran), i \in 1 .. WQ64_MAX : wq_ran[k] # wq_pool[i]
    /\ \A v \in 1 .. wq_next - 1 : \/ \E i \in 1 .. WQ64_MAX : wq_pool[i] = v
                                   \/ \E k \in 1 .. Len(wq_ran) : wq_ran[k] = v
    /\ \A i \in 1 .. WQ64_MAX :
          i # wq_fill /\ wq_pool[i] # 0 => wq_left[i] = wq_pool[i]
    /\ wq_fill # 0 => wq_pool[wq_fill] = wq_next - 1 /\ wq_next # 1
WqInv == wq_early \in BOOLEAN /\ (~wq_early => WqState)

LEMMA WqStarts == wq64_init => WqInv
<1> SUFFICES ASSUME wq64_init PROVE WqInv  OBVIOUS
<1>1. /\ wq_pool = [i \in 1 .. WQ64_MAX |-> 0] /\ wq_left = [i \in 1 .. WQ64_MAX |-> 0]
      /\ wq_fill = 0 /\ wq_at = 0 /\ wq_next = 1 /\ wq_ran = <<>> /\ wq_early = FALSE
  BY DEF wq64_init
<1>2. 0 \in 0 .. WQ64_MAX  BY Kernel64Assumption
<1>3. wq_ran \in Seq(Nat) /\ Len(wq_ran) = 0  BY <1>1
<1>4. WqState  BY <1>1, <1>2, <1>3 DEF WqState
<1> QED BY <1>1, <1>4 DEF WqInv

LEMMA WqEnqueue ==
  ASSUME WqState, wq64_enqueue
  PROVE  WqState'
<1> DEFINE S == {i \in 1 .. WQ64_MAX : wq_pool[i] = 0}
<1>1. PICK m \in S : m = Min(S) /\ wq_fill' = m /\ wq_fill = 0
  <2>1. S \subseteq Nat /\ S # {}  BY DEF wq64_enqueue
  <2> QED BY <2>1, LeastIsThere DEF wq64_enqueue
<1>2. /\ wq_left' = wq_left /\ wq_left \in [1 .. WQ64_MAX -> Nat]
      /\ wq_pool' = [wq_pool EXCEPT ![m] = wq_next] /\ wq_next' = wq_next + 1
      /\ wq_at' = wq_at /\ wq_ran' = wq_ran /\ wq_next \in Nat \ {0}
  BY <1>1 DEF wq64_enqueue, WqState
<1>3. wq_pool' \in [1 .. WQ64_MAX -> Nat]  BY <1>2 DEF WqState
<1>4. m \in 1 .. WQ64_MAX /\ wq_pool[m] = 0 /\ wq_pool'[m] = wq_next
      /\ \A i \in 1 .. WQ64_MAX : i # m => wq_pool'[i] = wq_pool[i]
  BY <1>1, <1>2 DEF WqState
<1>5. \A i \in 1 .. WQ64_MAX : wq_pool'[i] < wq_next'
  <2> TAKE i \in 1 .. WQ64_MAX
  <2>1. wq_pool[i] < wq_next /\ wq_pool[i] \in Nat  BY DEF WqState
  <2> QED BY <1>2, <1>4, <2>1
<1>6. \A i, j \in 1 .. WQ64_MAX : wq_pool'[i] = wq_pool'[j] /\ wq_pool'[i] # 0 => i = j
  <2> TAKE i, j \in 1 .. WQ64_MAX
  <2>1. wq_pool[i] < wq_next /\ wq_pool[j] < wq_next /\ wq_pool[i] \in Nat /\ wq_pool[j] \in Nat  BY DEF WqState
  <2>2. wq_pool[i] = wq_pool[j] /\ wq_pool[i] # 0 => i = j  BY DEF WqState
  <2> QED BY <1>2, <1>4, <2>1, <2>2
<1>7. \A k \in 1 .. Len(wq_ran) : wq_ran[k] \in Nat /\ wq_ran[k] # 0 /\ wq_ran[k] < wq_next
  <2>1. \A k \in 1 .. Len(wq_ran) : wq_ran[k] \in Nat  BY ElementOfSeq DEF WqState
  <2> QED BY <2>1 DEF WqState
<1>8. \A k \in 1 .. Len(wq_ran) : wq_ran[k] < wq_next + 1  BY <1>2, <1>7
<1>9. \A k \in 1 .. Len(wq_ran), i \in 1 .. WQ64_MAX : wq_ran[k] # wq_pool'[i]
  <2> TAKE k \in 1 .. Len(wq_ran), i \in 1 .. WQ64_MAX
  <2>1. CASE i = m  BY <1>2, <1>4, <1>7, <2>1
  <2>2. CASE i # m  BY <1>4, <2>2 DEF WqState
  <2> QED BY <2>1, <2>2
<1>10. ASSUME NEW v \in 1 .. wq_next
       PROVE  \/ \E i \in 1 .. WQ64_MAX : wq_pool'[i] = v
              \/ \E k \in 1 .. Len(wq_ran) : wq_ran[k] = v
  <2>1. CASE v = wq_next  BY <1>4, <2>1
  <2>2. CASE v # wq_next
    <3>1. v \in 1 .. wq_next - 1  BY <1>2, <2>2
    <3>2. CASE \E i \in 1 .. WQ64_MAX : wq_pool[i] = v
      <4>1. PICK i \in 1 .. WQ64_MAX : wq_pool[i] = v  BY <3>2
      <4>2. wq_pool'[i] = v  BY <1>4, <3>1, <4>1
      <4> QED BY <4>2
    <3> QED BY <3>1, <3>2 DEF WqState
  <2> QED BY <2>1, <2>2
<1>11. wq_next' \in Nat \ {0} /\ wq_next' - 1 = wq_next  BY <1>2
<1>12. \A i \in 1 .. WQ64_MAX :
          i # wq_fill' /\ wq_pool'[i] # 0 => wq_left'[i] = wq_pool'[i]
  <2> TAKE i \in 1 .. WQ64_MAX
  <2>1. wq_pool[i] # 0 => wq_left[i] = wq_pool[i]  BY <1>1 DEF WqState
  <2> QED BY <1>1, <1>2, <1>4, <2>1
<1>13. /\ wq_fill' \in 0 .. WQ64_MAX /\ wq_pool'[wq_fill'] = wq_next' - 1 /\ wq_next' # 1  BY <1>1, <1>2, <1>4
<1> QED BY <1>2, <1>3, <1>5, <1>6, <1>7, <1>8, <1>9, <1>10, <1>11, <1>12, <1>13 DEF WqState

LEMMA WqStored ==
  ASSUME WqState, WqStore
  PROVE  WqState'
<1>1. PICK m \in 1 .. WQ64_MAX : m = wq_fill  BY Kernel64Assumption DEF WqStore, WqState
<1>2. PICK n \in Nat : n = wq_next - 1 /\ n = wq_pool[m]  BY <1>1, Kernel64Assumption DEF WqStore, WqState
<1>3. UNCHANGED <<wq_pool, wq_at, wq_next, wq_ran>>  BY DEF WqStore
<1>4. CASE wq_left[m] # 0
  <2>1. wq_left' = [wq_left EXCEPT ![m] = 0] /\ wq_fill' = m  BY <1>1, <1>4 DEF WqStore
  <2>2. /\ wq_left' \in [1 .. WQ64_MAX -> Nat]
        /\ \A i \in 1 .. WQ64_MAX : i # m => wq_left'[i] = wq_left[i]
    BY <2>1 DEF WqState
  <2> QED BY <1>1, <1>3, <2>1, <2>2 DEF WqState
<1>5. CASE wq_left[m] = 0
  <2>1. wq_left' = [wq_left EXCEPT ![m] = n] /\ wq_fill' = 0  BY <1>1, <1>2, <1>5 DEF WqStore
  <2>2. /\ wq_left' \in [1 .. WQ64_MAX -> Nat]
        /\ \A i \in 1 .. WQ64_MAX : wq_left'[i] = IF i = m THEN n ELSE wq_left[i]
    BY <2>1 DEF WqState
  <2>3. \A i \in 1 .. WQ64_MAX : wq_pool[i] # 0 => wq_left'[i] = wq_pool[i]  BY <1>1, <1>2, <2>2 DEF WqState
  <2>4. 0 \in 0 .. WQ64_MAX  BY Kernel64Assumption
  <2> QED BY <1>3, <2>1, <2>2, <2>3, <2>4 DEF WqState
<1> QED BY <1>4, <1>5

LEMMA WqRun ==
  ASSUME WqState, wq64_run, ~wq_early'
  PROVE  WqState'
<1>1. wq_at' \in 0 .. WQ64_MAX  BY Kernel64Assumption DEF wq64_run, WqState
<1>2. CASE wq_at # 0 /\ wq_pool[wq_at] # 0
  <2>1. PICK a \in 1 .. WQ64_MAX : a = wq_at  BY <1>2, Kernel64Assumption DEF WqState
  <2> DEFINE n == Len(wq_ran)
             x == wq_pool[a]
  <2>0. a # wq_fill /\ wq_left[a] = x  BY <1>2, <2>1 DEF wq64_run, WqState
  <2>2. /\ wq_ran' = Append(wq_ran, x) /\ wq_pool' = [wq_pool EXCEPT ![a] = 0]
        /\ wq_next' = wq_next /\ x # 0 /\ x \in Nat /\ x < wq_next
    BY <1>2, <2>0, <2>1 DEF wq64_run, WqState, Emptied
  <2>3. n \in Nat /\ wq_ran \in Seq(Nat)  BY LenProperties DEF WqState
  <2>4. /\ wq_ran' \in Seq(Nat) /\ Len(wq_ran') = n + 1
        /\ \A k \in 1 .. n : wq_ran'[k] = wq_ran[k]
        /\ wq_ran'[n + 1] = x
    BY <2>2, <2>3, AppendProperties
  <2>5. \A k \in 1 .. n + 1 : k = n + 1 \/ k \in 1 .. n  BY <2>3
  <2>6. wq_pool' \in [1 .. WQ64_MAX -> Nat] /\ wq_pool'[a] = 0
        /\ \A i \in 1 .. WQ64_MAX : i # a => wq_pool'[i] = wq_pool[i]
    BY <2>2 DEF WqState
  <2>7. \A k \in 1 .. n : wq_ran[k] # 0 /\ wq_ran[k] < wq_next /\ wq_ran[k] # x  BY DEF WqState
  <2>8. \A k \in 1 .. n + 1 : wq_ran'[k] # 0 /\ wq_ran'[k] < wq_next  BY <2>2, <2>4, <2>5, <2>7
  <2>9. \A k, l \in 1 .. n + 1 : wq_ran'[k] = wq_ran'[l] => k = l
    <3>1. \A k, l \in 1 .. n : wq_ran[k] = wq_ran[l] => k = l  BY DEF WqState
    <3> QED BY <2>4, <2>5, <2>7, <3>1
  <2>10. \A k \in 1 .. n + 1, i \in 1 .. WQ64_MAX : wq_ran'[k] # wq_pool'[i]
    <3> TAKE k \in 1 .. n + 1, i \in 1 .. WQ64_MAX
    <3>1. CASE i = a  BY <2>6, <2>8, <3>1
    <3>2. CASE i # a /\ k = n + 1
      <4>1. wq_pool[i] # x  BY <2>2, <3>2 DEF WqState
      <4> QED BY <2>4, <2>6, <3>2, <4>1
    <3>3. CASE i # a /\ k \in 1 .. n
      <4>1. wq_ran[k] # wq_pool[i]  BY <3>3 DEF WqState
      <4> QED BY <2>4, <2>6, <3>3, <4>1
    <3> QED BY <2>5, <3>1, <3>2, <3>3
  <2>11. \A i \in 1 .. WQ64_MAX : wq_pool'[i] < wq_next
    <3>1. 0 < wq_next  BY DEF WqState
    <3> QED BY <2>6, <3>1 DEF WqState
  <2>12. \A i, j \in 1 .. WQ64_MAX : wq_pool'[i] = wq_pool'[j] /\ wq_pool'[i] # 0 => i = j  BY <2>6 DEF WqState
  <2>13. ASSUME NEW v \in 1 .. wq_next - 1
         PROVE  \/ \E i \in 1 .. WQ64_MAX : wq_pool'[i] = v
                \/ \E k \in 1 .. n + 1 : wq_ran'[k] = v
    <3>1. CASE v = x
      <4>1. n + 1 \in 1 .. n + 1  BY <2>3
      <4> QED BY <2>4, <3>1, <4>1
    <3>2. ASSUME NEW i \in 1 .. WQ64_MAX, wq_pool[i] = v, v # x
          PROVE  \E j \in 1 .. WQ64_MAX : wq_pool'[j] = v
      BY <2>6, <3>2
    <3>3. ASSUME NEW k \in 1 .. n, wq_ran[k] = v PROVE \E l \in 1 .. n + 1 : wq_ran'[l] = v
      <4>1. k \in 1 .. n + 1  BY <2>3
      <4> QED BY <2>4, <3>3, <4>1
    <3> QED BY <3>1, <3>2, <3>3 DEF WqState
  <2>14. wq_next \in Nat \ {0}  BY DEF WqState
  <2> HIDE DEF n, x
  <2>15. Len(wq_ran') = n + 1 /\ wq_next' = wq_next /\ wq_ran' \in Seq(Nat)
         /\ wq_pool' \in [1 .. WQ64_MAX -> Nat]
    BY <2>2, <2>4, <2>6
  <2>16. /\ \A i \in 1 .. WQ64_MAX : wq_pool'[i] < wq_next'
         /\ \A i, j \in 1 .. WQ64_MAX : wq_pool'[i] = wq_pool'[j] /\ wq_pool'[i] # 0 => i = j
    BY <2>11, <2>12, <2>15
  <2>17. /\ \A k \in 1 .. Len(wq_ran') : wq_ran'[k] # 0 /\ wq_ran'[k] < wq_next'
         /\ \A k, l \in 1 .. Len(wq_ran') : wq_ran'[k] = wq_ran'[l] => k = l
         /\ \A k \in 1 .. Len(wq_ran'), i \in 1 .. WQ64_MAX : wq_ran'[k] # wq_pool'[i]
    BY <2>8, <2>9, <2>10, <2>15
  <2>18. \A v \in 1 .. wq_next' - 1 : \/ \E i \in 1 .. WQ64_MAX : wq_pool'[i] = v
                                      \/ \E k \in 1 .. Len(wq_ran') : wq_ran'[k] = v
    BY <2>13, <2>15
  <2>19. /\ UNCHANGED <<wq_left, wq_fill>>
         /\ wq_left \in [1 .. WQ64_MAX -> Nat] /\ wq_fill \in 0 .. WQ64_MAX
    BY DEF wq64_run, WqState
  <2>20. \A i \in 1 .. WQ64_MAX :
            i # wq_fill' /\ wq_pool'[i] # 0 => wq_left'[i] = wq_pool'[i]
    BY <2>6, <2>19 DEF WqState
  <2>21. wq_fill' # 0 => wq_pool'[wq_fill'] = wq_next' - 1 /\ wq_next' # 1
    <3>1. wq_fill # 0 => wq_pool[wq_fill] = wq_next - 1 /\ wq_next # 1  BY DEF WqState
    <3>2. wq_fill # 0 => wq_fill \in 1 .. WQ64_MAX  BY <2>19, Kernel64Assumption
    <3> QED BY <2>0, <2>6, <2>15, <2>19, <3>1, <3>2
  <2> QED BY <1>1, <2>14, <2>15, <2>16, <2>17, <2>18, <2>19, <2>20, <2>21 DEF WqState
<1>3. CASE ~(wq_at # 0 /\ wq_pool[wq_at] # 0)
  <2>1. UNCHANGED <<wq_pool, wq_left, wq_fill, wq_next, wq_ran>>  BY <1>3 DEF wq64_run
  <2> QED BY <1>1, <2>1 DEF WqState
<1> QED BY <1>2, <1>3

LEMMA WqKept == ASSUME WqInv, WqNext PROVE WqInv'
<1>1. wq_early' \in BOOLEAN /\ (wq_early => wq_early')  BY DEF WqInv, WqNext, wq64_enqueue, WqStore, wq64_run
<1>2. SUFFICES ASSUME ~wq_early' PROVE WqState'  BY <1>1 DEF WqInv
<1> QED BY <1>1, <1>2, WqEnqueue, WqStored, WqRun DEF WqInv, WqNext

LEMMA WqOnce == ASSUME WqState PROVE WorkOnce
<1> DEFINE waiting == ToSet(wq_pool) \ {0}
           n == Len(wq_ran)
<1>1. DOMAIN wq_pool = 1 .. WQ64_MAX /\ DOMAIN wq_ran = 1 .. n  BY LenProperties DEF WqState
<1>2. ToSet(wq_pool) = {wq_pool[i] : i \in 1 .. WQ64_MAX} /\ ToSet(wq_ran) = {wq_ran[k] : k \in 1 .. n}
  BY <1>1 DEF ToSet
<1>3. IsInjective(wq_ran)  BY <1>1 DEF WqState, IsInjective
<1>4. waiting \cap ToSet(wq_ran) = {}  BY <1>2 DEF WqState
<1>5. ASSUME NEW v \in waiting \cup ToSet(wq_ran) PROVE v \in 1 .. wq_next - 1
  <2>1. CASE v \in waiting
    <3>1. PICK i \in 1 .. WQ64_MAX : v = wq_pool[i]  BY <1>2, <2>1
    <3>2. v \in Nat /\ v # 0 /\ v < wq_next /\ wq_next \in Nat  BY <2>1, <3>1 DEF WqState
    <3> QED BY <3>2
  <2>2. CASE v \in ToSet(wq_ran)
    <3>1. PICK k \in 1 .. n : v = wq_ran[k]  BY <1>2, <2>2
    <3>2. v \in Nat  BY <3>1, ElementOfSeq DEF WqState
    <3>3. v # 0 /\ v < wq_next /\ wq_next \in Nat  BY <3>1 DEF WqState
    <3> QED BY <3>2, <3>3
  <2> QED BY <1>5, <2>1, <2>2
<1>6. ASSUME NEW v \in 1 .. wq_next - 1 PROVE v \in waiting \cup ToSet(wq_ran)
  <2>1. v # 0  OBVIOUS
  <2>2. \/ \E i \in 1 .. WQ64_MAX : wq_pool[i] = v
        \/ \E k \in 1 .. n : wq_ran[k] = v
    BY DEF WqState
  <2> QED BY <1>2, <2>1, <2>2
<1>7. waiting \cup ToSet(wq_ran) = 1 .. wq_next - 1  BY <1>5, <1>6
<1> QED BY <1>3, <1>4, <1>7 DEF WorkOnce

LEMMA WqHolds == ASSUME WqInv PROVE WorkOnce
<1>1. CASE wq_early  BY <1>1 DEF WorkOnce
<1>2. CASE ~wq_early  BY <1>2, WqOnce DEF WqInv
<1> QED BY <1>1, <1>2

------------------------------
(* Periodic timers.                                                        *)

\* The strengthening of TimersInPace: the time a timer is due next leaves
\* room for one interval more than it has fired.
Timer64 == [used : BOOLEAN, interval : Nat, next : Nat]
TimerInv ==
    /\ timer_tab \in [1 .. TIMER64_MAX -> Timer64]
    /\ timer_now \in Nat
    /\ timer_fired \in [1 .. TIMER64_MAX -> Nat]
    /\ \A i \in 1 .. TIMER64_MAX : ~timer_tab[i].used => timer_fired[i] = 0
    /\ \A i \in 1 .. TIMER64_MAX :
          timer_tab[i].used => /\ (timer_fired[i] + 1) * timer_tab[i].interval <= timer_tab[i].next
                               /\ timer_fired[i] * timer_tab[i].interval <= timer_now

LEMMA TimerStarts == Timer64Init => TimerInv
BY Kernel64Assumption DEF Timer64Init, TimerInv, NoTimer, Timer64

LEMMA TimerAdd ==
  ASSUME TimerInv, NEW v \in TimerIntervals, timer64_add(v)
  PROVE  TimerInv'
<1>1. PICK f : f = FirstFree(timer_tab)  OBVIOUS
<1>2. f \in 1 .. TIMER64_MAX /\ ~timer_tab[f].used
  <2>1. DOMAIN timer_tab = 1 .. TIMER64_MAX /\ 1 .. TIMER64_MAX \subseteq Nat \ {0}  BY DEF TimerInv
  <2>2. f # 0  BY <1>1 DEF timer64_add
  <2>3. f \in DOMAIN timer_tab /\ f \notin Taken(timer_tab)  BY <1>1, <2>1, <2>2, FreeEntry
  <2> QED BY <2>1, <2>3 DEF Taken
<1> DEFINE e == [used |-> TRUE, interval |-> v, next |-> v]
<1>3. timer_tab' = [timer_tab EXCEPT ![f] = e] /\ timer_now' = timer_now /\ timer_fired' = timer_fired
  BY <1>1 DEF timer64_add
<1>4. v \in Nat /\ e \in Timer64 /\ timer_fired[f] = 0 /\ (0 + 1) * v = v /\ 0 * v = 0
  BY <1>2, Kernel64Assumption DEF TimerInv, Timer64
<1>5. timer_tab' \in [1 .. TIMER64_MAX -> Timer64] /\ timer_tab'[f] = e
      /\ \A i \in 1 .. TIMER64_MAX : i # f => timer_tab'[i] = timer_tab[i]
  BY <1>2, <1>3, <1>4 DEF TimerInv
<1>6. ASSUME NEW i \in 1 .. TIMER64_MAX, timer_tab'[i].used
      PROVE  /\ (timer_fired[i] + 1) * timer_tab'[i].interval <= timer_tab'[i].next
             /\ timer_fired[i] * timer_tab'[i].interval <= timer_now
  <2>1. CASE i = f
    <3>1. timer_tab'[i].interval = v /\ timer_tab'[i].next = v /\ timer_fired[i] = 0 /\ timer_now \in Nat
      BY <1>4, <1>5, <2>1 DEF TimerInv
    <3> QED BY <1>4, <3>1
  <2>2. CASE i # f  BY <1>5, <1>6, <2>2 DEF TimerInv
  <2> QED BY <2>1, <2>2
<1>7. \A i \in 1 .. TIMER64_MAX : ~timer_tab'[i].used => timer_fired[i] = 0  BY <1>5 DEF TimerInv
<1> QED BY <1>3, <1>5, <1>6, <1>7 DEF TimerInv

LEMMA TimerTick ==
  ASSUME TimerInv, NEW max \in 1 .. 2, timer64_tick(max)
  PROVE  TimerInv'
<1> DEFINE due == {i \in Taken(timer_tab) : timer_tab[i].next <= timer_now}
<1>1. PICK hit : /\ hit \subseteq due
                 /\ timer_tab' = [i \in 1 .. TIMER64_MAX |->
                       IF i \in hit THEN [timer_tab[i] EXCEPT !.next = NextDue(timer_tab[i])] ELSE timer_tab[i]]
                 /\ timer_fired' = [i \in 1 .. TIMER64_MAX |->
                       IF i \in hit THEN timer_fired[i] + 1 ELSE timer_fired[i]]
                 /\ timer_now' = timer_now
  BY DEF timer64_tick
<1>2. ASSUME NEW i \in 1 .. TIMER64_MAX
      PROVE  /\ timer_tab'[i] \in Timer64 /\ timer_fired'[i] \in Nat
             /\ ~timer_tab'[i].used => timer_fired'[i] = 0
             /\ timer_tab'[i].used =>
                   /\ (timer_fired'[i] + 1) * timer_tab'[i].interval <= timer_tab'[i].next
                   /\ timer_fired'[i] * timer_tab'[i].interval <= timer_now
  <2>1. CASE i \notin hit
    <3>1. timer_tab'[i] = timer_tab[i] /\ timer_fired'[i] = timer_fired[i]  BY <1>1, <2>1
    <3> QED BY <3>1 DEF TimerInv
  <2>2. CASE i \in hit
    <3> DEFINE v == timer_tab[i].interval
               n == timer_tab[i].next
               k == timer_fired[i]
    <3>1. timer_tab[i].used /\ n <= timer_now  BY <1>1, <2>2 DEF Taken
    <3>2. timer_tab[i] \in Timer64 /\ k \in Nat /\ timer_now \in Nat  BY DEF TimerInv
    <3>3. v \in Nat /\ n \in Nat  BY <3>2 DEF Timer64
    <3>4. (k + 1) * v <= n  BY <3>1 DEF TimerInv
    <3>5. timer_tab'[i] = [timer_tab[i] EXCEPT !.next = NextDue(timer_tab[i])] /\ timer_fired'[i] = k + 1
      BY <1>1, <2>2
    <3>6. NextDue(timer_tab[i]) \in Nat /\ n + v <= NextDue(timer_tab[i])  BY <3>1, <3>2, <3>3 DEF NextDue
    <3>7. timer_tab'[i] \in Timer64 /\ timer_tab'[i].used /\ timer_tab'[i].interval = v
          /\ timer_tab'[i].next = NextDue(timer_tab[i])
      BY <3>1, <3>2, <3>5, <3>6 DEF Timer64
    <3> HIDE DEF v, n, k
    <3>8. (k + 1) * v \in Nat /\ ((k + 1) + 1) * v = (k + 1) * v + v  BY <3>2, <3>3
    <3>9. ((k + 1) + 1) * v <= NextDue(timer_tab[i])  BY <3>3, <3>4, <3>6, <3>8
    <3>10. (k + 1) * v <= timer_now  BY <3>1, <3>2, <3>3, <3>4, <3>8
    <3> QED BY <3>2, <3>5, <3>7, <3>9, <3>10
  <2> QED BY <2>1, <2>2
<1>3. timer_tab' = [i \in 1 .. TIMER64_MAX |-> timer_tab'[i]]
      /\ timer_fired' = [i \in 1 .. TIMER64_MAX |-> timer_fired'[i]]
  BY <1>1
<1>4. timer_tab' \in [1 .. TIMER64_MAX -> Timer64] /\ timer_fired' \in [1 .. TIMER64_MAX -> Nat]  BY <1>2, <1>3
<1> QED BY <1>1, <1>2, <1>4 DEF TimerInv

LEMMA TimerPasses ==
  ASSUME TimerInv, NEW d \in {1, 3}, Timer64Passes(d)
  PROVE  TimerInv'
<1>1. timer_now' \in Nat /\ timer_now < timer_now' /\ timer_tab' = timer_tab /\ timer_fired' = timer_fired
  BY DEF Timer64Passes, TimerInv
<1>2. ASSUME NEW i \in 1 .. TIMER64_MAX, timer_tab[i].used
      PROVE  timer_fired[i] * timer_tab[i].interval <= timer_now'
  <2> DEFINE x == timer_fired[i] * timer_tab[i].interval
  <2>1. timer_fired[i] \in Nat /\ timer_tab[i] \in Timer64 /\ timer_now \in Nat  BY DEF TimerInv
  <2>2. timer_tab[i].interval \in Nat  BY <2>1 DEF Timer64
  <2>3. x \in Nat /\ x <= timer_now  BY <1>2, <2>1, <2>2 DEF TimerInv
  <2> HIDE DEF x
  <2>4. x <= timer_now'  BY <1>1, <2>1, <2>3
  <2> QED BY <2>4 DEF x
<1> QED BY <1>1, <1>2 DEF TimerInv

LEMMA TimerKept == ASSUME TimerInv, Timer64Next PROVE TimerInv'
BY TimerAdd, TimerTick, TimerPasses DEF Timer64Next

LEMMA TimerHolds == ASSUME TimerInv PROVE TimersInPace
<1>1. DOMAIN timer_tab = 1 .. TIMER64_MAX  BY DEF TimerInv
<1> QED BY <1>1 DEF TimerInv, TimersInPace, Taken

------------------------------
(* Locks by number.                                                        *)

\* The strengthening of LockHeldOnce: numbers grow and are never given out
\* again, so those who hold a number that is gone hold nobody's lock; a
\* lock that is taken has exactly one holder and a mutex has its name.
Lock64 == [used : BOOLEAN, id : Nat, kind : {"none", "mutex", "spin"}, locked : BOOLEAN,
           owner : SyncOwners \cup {0}]
HoldersOf(id, held) == {o \in SyncOwners : <<id, o>> \in held}
OneHolder(e, held, ctr) ==
    /\ e.id \in 1 .. ctr
    /\ ~e.locked => HoldersOf(e.id, held) = {}
    /\ e.locked => \E o \in SyncOwners : /\ HoldersOf(e.id, held) = {o}
                                         /\ e.kind = "mutex" => e.owner = o
SyncInv ==
    /\ sync_ctr \in Nat
    /\ sync_tab \in [1 .. SYNC_MAX -> Lock64]
    /\ sync_held \subseteq (1 .. sync_ctr) \X SyncOwners
    /\ \A i \in 1 .. SYNC_MAX : sync_tab[i].used => OneHolder(sync_tab[i], sync_held, sync_ctr)
    /\ \A i, j \in 1 .. SYNC_MAX :
          sync_tab[i].used /\ sync_tab[j].used /\ sync_tab[i].id = sync_tab[j].id => i = j

LEMMA SyncStarts == sync64_init => SyncInv
BY Kernel64Assumption DEF sync64_init, SyncInv, NoLock, Lock64

LEMMA FindMutex ==
  ASSUME SyncInv, NEW id, find_mutex(id) # 0
  PROVE  \E i \in 1 .. SYNC_MAX : i = find_mutex(id) /\ sync_tab[i].used /\ sync_tab[i].id = id
<1> DEFINE S == {i \in Taken(sync_tab) : sync_tab[i].id = id}
<1>1. S \subseteq 1 .. SYNC_MAX /\ S \subseteq Nat \ {0}  BY DEF SyncInv, Taken
<1>2. find_mutex(id) \in S  BY <1>1, FirstMatch DEF find_mutex
<1> QED BY <1>1, <1>2 DEF Taken

LEMMA NoMutex ==
  ASSUME SyncInv, NEW id, find_mutex(id) = 0
  PROVE  \A i \in 1 .. SYNC_MAX : sync_tab[i].used => sync_tab[i].id # id
<1> DEFINE S == {i \in Taken(sync_tab) : sync_tab[i].id = id}
<1>1. DOMAIN sync_tab = 1 .. SYNC_MAX /\ S \subseteq Nat \ {0}  BY DEF SyncInv, Taken
<1>2. S = {}  BY <1>1, FirstMatch DEF find_mutex
<1> QED BY <1>1, <1>2 DEF Taken

LEMMA SyncCreate ==
  ASSUME SyncInv, NEW kind \in {"mutex", "spin"}, mutex64_create(kind)
  PROVE  SyncInv'
<1>1. PICK f : f = FirstFree(sync_tab)  OBVIOUS
<1>2. f \in 1 .. SYNC_MAX
  <2>1. DOMAIN sync_tab = 1 .. SYNC_MAX /\ 1 .. SYNC_MAX \subseteq Nat \ {0} /\ f # 0
    BY <1>1 DEF SyncInv, mutex64_create
  <2> QED BY <1>1, <2>1, FreeEntry
<1> DEFINE n == sync_ctr + 1
           e == [NoLock EXCEPT !.used = TRUE, !.id = n, !.kind = kind]
<1>3. /\ sync_tab' = [sync_tab EXCEPT ![f] = e] /\ sync_ctr' = n /\ sync_held' = sync_held
      /\ sync_ctr \in Nat /\ n \in Nat
  BY <1>1 DEF mutex64_create, SyncInv, SyncNumber
<1>4. e \in Lock64 /\ e.used /\ ~e.locked /\ e.id = n  BY <1>3 DEF NoLock, Lock64
<1> HIDE DEF e
<1>5. sync_tab' \in [1 .. SYNC_MAX -> Lock64] /\ sync_tab'[f] = e
      /\ \A i \in 1 .. SYNC_MAX : i # f => sync_tab'[i] = sync_tab[i]
  BY <1>2, <1>3, <1>4 DEF SyncInv
<1>6. 1 .. sync_ctr \subseteq 1 .. n /\ n \notin 1 .. sync_ctr  BY <1>3
<1>7. HoldersOf(n, sync_held) = {}  BY <1>6 DEF HoldersOf, SyncInv
<1>8. \A i \in 1 .. SYNC_MAX : sync_tab'[i].used => OneHolder(sync_tab'[i], sync_held', sync_ctr')
  <2> SUFFICES ASSUME NEW i \in 1 .. SYNC_MAX, sync_tab'[i].used PROVE OneHolder(sync_tab'[i], sync_held', sync_ctr')
    OBVIOUS
  <2>1. CASE i = f  BY <1>3, <1>4, <1>5, <1>7, <2>1 DEF OneHolder
  <2>2. CASE i # f
    <3>1. sync_tab'[i] = sync_tab[i] /\ OneHolder(sync_tab[i], sync_held, sync_ctr)  BY <1>5, <2>2 DEF SyncInv
    <3> QED BY <1>3, <1>6, <3>1 DEF OneHolder
  <2> QED BY <2>1, <2>2
<1>9. \A i \in 1 .. SYNC_MAX : sync_tab[i].used => sync_tab[i].id # n  BY <1>6 DEF SyncInv, OneHolder
<1>10. \A i, j \in 1 .. SYNC_MAX :
          sync_tab'[i].used /\ sync_tab'[j].used /\ sync_tab'[i].id = sync_tab'[j].id => i = j
  BY <1>4, <1>5, <1>9 DEF SyncInv
<1>11. sync_held' \subseteq (1 .. sync_ctr') \X SyncOwners  BY <1>3, <1>6 DEF SyncInv
<1> QED BY <1>3, <1>5, <1>8, <1>10, <1>11 DEF SyncInv

LEMMA SyncLock ==
  ASSUME SyncInv, NEW id \in 1 .. SyncIds, NEW o \in SyncOwners, mutex64_lock(id, o)
  PROVE  SyncInv'
<1>1. PICK f \in 1 .. SYNC_MAX : f = find_mutex(id) /\ sync_tab[f].used /\ sync_tab[f].id = id
  BY FindMutex DEF mutex64_lock
<1> DEFINE e == [sync_tab[f] EXCEPT !.locked = TRUE,
                                    !.owner = IF sync_tab[f].kind = "mutex" THEN o ELSE 0]
<1>2. /\ sync_tab' = [sync_tab EXCEPT ![f] = e]
      /\ sync_held' = sync_held \cup {<<id, o>>}
      /\ sync_ctr' = sync_ctr /\ ~sync_tab[f].locked
  BY <1>1 DEF mutex64_lock, SyncInv
<1>3. sync_tab[f] \in Lock64  BY DEF SyncInv
<1>4. e \in Lock64 /\ e.used = sync_tab[f].used /\ e.id = id /\ e.kind = sync_tab[f].kind /\ e.locked
      /\ (e.kind = "mutex" => e.owner = o)
  BY <1>1, <1>3 DEF Lock64
<1> HIDE DEF e
<1>5. sync_tab' \in [1 .. SYNC_MAX -> Lock64] /\ sync_tab'[f] = e
      /\ \A i \in 1 .. SYNC_MAX : i # f => sync_tab'[i] = sync_tab[i]
  BY <1>2, <1>4 DEF SyncInv
<1>6. OneHolder(sync_tab[f], sync_held, sync_ctr)  BY <1>1 DEF SyncInv
<1>7. HoldersOf(id, sync_held') = {o} /\ id \in 1 .. sync_ctr  BY <1>1, <1>2, <1>6 DEF OneHolder, HoldersOf
<1>8. \A i \in 1 .. SYNC_MAX : sync_tab'[i].used => OneHolder(sync_tab'[i], sync_held', sync_ctr')
  <2> SUFFICES ASSUME NEW i \in 1 .. SYNC_MAX, sync_tab'[i].used PROVE OneHolder(sync_tab'[i], sync_held', sync_ctr')
    OBVIOUS
  <2>1. CASE i = f  BY <1>2, <1>4, <1>5, <1>7, <2>1 DEF OneHolder
  <2>2. CASE i # f
    <3>1. sync_tab'[i] = sync_tab[i] /\ OneHolder(sync_tab[i], sync_held, sync_ctr) /\ sync_tab[i].id # id
      BY <1>1, <1>5, <2>2 DEF SyncInv
    <3>2. HoldersOf(sync_tab[i].id, sync_held') = HoldersOf(sync_tab[i].id, sync_held)
      BY <1>2, <3>1 DEF HoldersOf
    <3> QED BY <1>2, <3>1, <3>2 DEF OneHolder
  <2> QED BY <2>1, <2>2
<1>9. \A i \in 1 .. SYNC_MAX : sync_tab'[i].used = sync_tab[i].used /\ sync_tab'[i].id = sync_tab[i].id
  BY <1>1, <1>4, <1>5
<1>10. sync_held' \subseteq (1 .. sync_ctr') \X SyncOwners  BY <1>2, <1>7 DEF SyncInv
<1>11. \A i, j \in 1 .. SYNC_MAX :
          sync_tab'[i].used /\ sync_tab'[j].used /\ sync_tab'[i].id = sync_tab'[j].id => i = j
  BY <1>9 DEF SyncInv
<1> QED BY <1>2, <1>5, <1>8, <1>10, <1>11 DEF SyncInv

LEMMA SyncUnlock ==
  ASSUME SyncInv, NEW id \in 1 .. SyncIds, NEW o \in SyncOwners, mutex64_unlock(id, o)
  PROVE  SyncInv'
<1>1. /\ <<id, o>> \in sync_held /\ sync_held' = sync_held \ {<<id, o>>} /\ sync_ctr' = sync_ctr
      /\ sync_held' \subseteq (1 .. sync_ctr') \X SyncOwners
  BY DEF mutex64_unlock, SyncInv
<1>2. \A n : n # id => HoldersOf(n, sync_held') = HoldersOf(n, sync_held)  BY <1>1 DEF HoldersOf
<1>3. CASE find_mutex(id) = 0
  <2>1. sync_tab' = sync_tab  BY <1>3 DEF mutex64_unlock
  <2>2. \A i \in 1 .. SYNC_MAX : sync_tab[i].used => sync_tab[i].id # id  BY <1>3, NoMutex
  <2>3. \A i \in 1 .. SYNC_MAX : sync_tab'[i].used => OneHolder(sync_tab'[i], sync_held', sync_ctr')
    BY <1>1, <1>2, <2>1, <2>2 DEF OneHolder, SyncInv
  <2> QED BY <1>1, <2>1, <2>3 DEF SyncInv
<1>4. CASE find_mutex(id) # 0
  <2>1. PICK f \in 1 .. SYNC_MAX : f = find_mutex(id) /\ sync_tab[f].used /\ sync_tab[f].id = id
    BY <1>4, FindMutex
  <2>2. OneHolder(sync_tab[f], sync_held, sync_ctr) /\ o \in HoldersOf(id, sync_held) /\ sync_tab[f] \in Lock64
    BY <1>1, <2>1 DEF SyncInv, HoldersOf
  <2>3. sync_tab[f].locked /\ HoldersOf(id, sync_held) = {o} /\ (sync_tab[f].kind = "mutex" => sync_tab[f].owner = o)
    BY <2>1, <2>2 DEF OneHolder
  <2> DEFINE e == [sync_tab[f] EXCEPT !.locked = FALSE, !.owner = 0]
  <2>4. sync_tab' = [sync_tab EXCEPT ![f] = e]  BY <1>4, <2>1, <2>3 DEF mutex64_unlock, SyncInv
  <2>5. e \in Lock64 /\ e.used = sync_tab[f].used /\ e.id = id /\ ~e.locked  BY <2>1, <2>2 DEF Lock64
  <2> HIDE DEF e
  <2>6. sync_tab' \in [1 .. SYNC_MAX -> Lock64] /\ sync_tab'[f] = e
        /\ \A i \in 1 .. SYNC_MAX : i # f => sync_tab'[i] = sync_tab[i]
    BY <2>4, <2>5 DEF SyncInv
  <2>7. HoldersOf(id, sync_held') = {} /\ id \in 1 .. sync_ctr
    BY <1>1, <2>1, <2>2, <2>3 DEF HoldersOf, OneHolder
  <2>8. \A i \in 1 .. SYNC_MAX : sync_tab'[i].used => OneHolder(sync_tab'[i], sync_held', sync_ctr')
    <3> SUFFICES ASSUME NEW i \in 1 .. SYNC_MAX, sync_tab'[i].used PROVE OneHolder(sync_tab'[i], sync_held', sync_ctr')
      OBVIOUS
    <3>1. CASE i = f  BY <1>1, <2>5, <2>6, <2>7, <3>1 DEF OneHolder
    <3>2. CASE i # f
      <4>1. sync_tab'[i] = sync_tab[i] /\ OneHolder(sync_tab[i], sync_held, sync_ctr) /\ sync_tab[i].id # id
        BY <2>1, <2>6, <3>2 DEF SyncInv
      <4> QED BY <1>1, <1>2, <4>1 DEF OneHolder
    <3> QED BY <3>1, <3>2
  <2>9. \A i \in 1 .. SYNC_MAX : sync_tab'[i].used = sync_tab[i].used /\ sync_tab'[i].id = sync_tab[i].id
    BY <2>1, <2>5, <2>6
  <2> QED BY <1>1, <2>6, <2>8, <2>9 DEF SyncInv
<1> QED BY <1>3, <1>4

LEMMA SyncDestroy ==
  ASSUME SyncInv, NEW id \in 1 .. SyncIds, mutex64_destroy(id)
  PROVE  SyncInv'
<1>1. PICK f \in 1 .. SYNC_MAX : f = find_mutex(id)  BY FindMutex DEF mutex64_destroy
<1>2. /\ sync_tab' = [sync_tab EXCEPT ![f] = NoLock]
      /\ sync_held' = sync_held /\ sync_ctr' = sync_ctr
      /\ NoLock \in Lock64 /\ ~NoLock.used
  BY <1>1 DEF mutex64_destroy, NoLock, Lock64
<1>3. sync_tab' \in [1 .. SYNC_MAX -> Lock64]
      /\ \A i \in 1 .. SYNC_MAX : sync_tab'[i].used => sync_tab'[i] = sync_tab[i] /\ sync_tab[i].used
  BY <1>2 DEF SyncInv
<1>4. \A i \in 1 .. SYNC_MAX : sync_tab'[i].used => OneHolder(sync_tab'[i], sync_held', sync_ctr')
  BY <1>2, <1>3 DEF SyncInv, OneHolder
<1> QED BY <1>2, <1>3, <1>4 DEF SyncInv

LEMMA SyncKept == ASSUME SyncInv, SyncNext PROVE SyncInv'
BY SyncCreate, SyncLock, SyncUnlock, SyncDestroy DEF SyncNext

LEMMA SyncHolds == ASSUME SyncInv PROVE LockHeldOnce
<1> SUFFICES ASSUME NEW i \in Taken(sync_tab)
             PROVE  LET holders == {o \in SyncOwners : <<sync_tab[i].id, o>> \in sync_held}
                    IN /\ Cardinality(holders) = IF sync_tab[i].locked THEN 1 ELSE 0
                       /\ sync_tab[i].kind = "mutex" /\ sync_tab[i].locked => sync_tab[i].owner \in holders
  BY DEF LockHeldOnce
<1> DEFINE holders == HoldersOf(sync_tab[i].id, sync_held)
<1>1. OneHolder(sync_tab[i], sync_held, sync_ctr)  BY DEF SyncInv, Taken
<1>2. CASE ~sync_tab[i].locked
  <2>1. holders = {}  BY <1>1, <1>2 DEF OneHolder
  <2> QED BY <1>2, <2>1, FS_EmptySet DEF HoldersOf
<1>3. CASE sync_tab[i].locked
  <2>1. PICK o \in SyncOwners : holders = {o} /\ (sync_tab[i].kind = "mutex" => sync_tab[i].owner = o)
    BY <1>1, <1>3 DEF OneHolder
  <2>2. Cardinality(holders) = 1  BY <2>1, FS_Singleton
  <2> QED BY <1>3, <2>1, <2>2 DEF HoldersOf
<1> QED BY <1>2, <1>3

------------------------------
(* Channels of one message.                                                *)

\* The strengthening of ChannelKeepsMessage: numbers grow, no two channels
\* have the same, and nothing is owed on a number not given out yet.
Channel64 == [used : BOOLEAN, chan : Nat, msg : IpcMessages \cup {0}, valid : BOOLEAN]
IpcInv ==
    /\ ipc_ctr \in 0 .. IpcIds
    /\ ipc_tab \in [1 .. IPC_MAX -> Channel64]
    /\ DOMAIN ipc_owed = 1 .. IpcIds /\ ipc_owed = [c \in 1 .. IpcIds |-> ipc_owed[c]]
    /\ \A i \in 1 .. IPC_MAX : ipc_tab[i].used =>
          /\ ipc_tab[i].chan \in 1 .. ipc_ctr
          /\ ipc_owed[ipc_tab[i].chan] = IF ipc_tab[i].valid THEN <<ipc_tab[i].msg>> ELSE <<>>
    /\ \A i, j \in 1 .. IPC_MAX :
          ipc_tab[i].used /\ ipc_tab[j].used /\ ipc_tab[i].chan = ipc_tab[j].chan => i = j
    /\ \A c \in 1 .. IpcIds : c > ipc_ctr => ipc_owed[c] = <<>>

LEMMA IpcStarts == ipc64_init => IpcInv
<1> SUFFICES ASSUME ipc64_init PROVE IpcInv  OBVIOUS
<1>1. NoChan \in Channel64 /\ ~NoChan.used  BY DEF NoChan, Channel64
<1> QED BY <1>1, Kernel64Assumption DEF ipc64_init, IpcInv

LEMMA FindChan ==
  ASSUME IpcInv, NEW c, find_chan(c) # 0
  PROVE  \E i \in 1 .. IPC_MAX : i = find_chan(c) /\ ipc_tab[i].used /\ ipc_tab[i].chan = c
<1> DEFINE S == {i \in Taken(ipc_tab) : ipc_tab[i].chan = c}
<1>1. S \subseteq 1 .. IPC_MAX /\ S \subseteq Nat \ {0}  BY DEF IpcInv, Taken
<1>2. find_chan(c) \in S  BY <1>1, FirstMatch DEF find_chan
<1> QED BY <1>1, <1>2 DEF Taken

LEMMA IpcCreate ==
  ASSUME IpcInv, ipc64_create
  PROVE  IpcInv'
<1>1. PICK f : f = FirstFree(ipc_tab)  OBVIOUS
<1>2. f \in 1 .. IPC_MAX
  <2>1. DOMAIN ipc_tab = 1 .. IPC_MAX /\ 1 .. IPC_MAX \subseteq Nat \ {0} /\ f # 0
    BY <1>1 DEF IpcInv, ipc64_create
  <2> QED BY <1>1, <2>1, FreeEntry
<1> DEFINE n == ipc_ctr + 1
           e == [NoChan EXCEPT !.used = TRUE, !.chan = n]
<1>3. /\ ipc_tab' = [ipc_tab EXCEPT ![f] = e] /\ ipc_ctr' = n /\ ipc_owed' = ipc_owed
      /\ n \in 1 .. IpcIds /\ n \in Nat /\ ipc_ctr \in Nat /\ IpcIds \in Nat
  BY <1>1, Kernel64Assumption DEF ipc64_create, IpcInv
<1>4. e \in Channel64 /\ e.used /\ ~e.valid /\ e.chan = n  BY <1>3 DEF NoChan, Channel64
<1> HIDE DEF e
<1>5. ipc_tab' \in [1 .. IPC_MAX -> Channel64] /\ ipc_tab'[f] = e
      /\ \A i \in 1 .. IPC_MAX : i # f => ipc_tab'[i] = ipc_tab[i]
  BY <1>2, <1>3, <1>4 DEF IpcInv
<1>6. ipc_owed[n] = <<>> /\ 1 .. ipc_ctr \subseteq 1 .. n /\ n \notin 1 .. ipc_ctr /\ n \in 1 .. n
  BY <1>3 DEF IpcInv
<1>7. ASSUME NEW i \in 1 .. IPC_MAX, ipc_tab'[i].used
      PROVE  /\ ipc_tab'[i].chan \in 1 .. n
             /\ ipc_owed[ipc_tab'[i].chan] = IF ipc_tab'[i].valid THEN <<ipc_tab'[i].msg>> ELSE <<>>
  <2>1. CASE i = f  BY <1>4, <1>5, <1>6, <2>1
  <2>2. CASE i # f  BY <1>5, <1>6, <1>7, <2>2 DEF IpcInv
  <2> QED BY <2>1, <2>2
<1>8. \A i, j \in 1 .. IPC_MAX :
         ipc_tab'[i].used /\ ipc_tab'[j].used /\ ipc_tab'[i].chan = ipc_tab'[j].chan => i = j
  <2>1. \A i \in 1 .. IPC_MAX : ipc_tab[i].used => ipc_tab[i].chan # n  BY <1>6 DEF IpcInv
  <2> QED BY <1>4, <1>5, <2>1 DEF IpcInv
<1>9. \A c \in 1 .. IpcIds : c > n => ipc_owed[c] = <<>>  BY <1>3 DEF IpcInv
<1>10. ipc_ctr' \in 0 .. IpcIds  BY <1>3
<1> QED BY <1>3, <1>5, <1>7, <1>8, <1>9, <1>10 DEF IpcInv

\* What the steps on one channel have in common: its entry and what is owed on
\* it change together.
LEMMA IpcChange ==
  ASSUME IpcInv, NEW f \in 1 .. IPC_MAX, ipc_tab[f].used, NEW e \in Channel64, NEW m,
         ipc_tab' = [ipc_tab EXCEPT ![f] = e], ipc_ctr' = ipc_ctr,
         ipc_owed' = [ipc_owed EXCEPT ![ipc_tab[f].chan] = m],
         e.used => e.chan = ipc_tab[f].chan /\ m = IF e.valid THEN <<e.msg>> ELSE <<>>
  PROVE  IpcInv'
<1>1. PICK c \in 1 .. IpcIds : c = ipc_tab[f].chan /\ c \in 1 .. ipc_ctr
  <2>1. ipc_tab[f].chan \in 1 .. ipc_ctr /\ ipc_ctr \in 0 .. IpcIds  BY DEF IpcInv
  <2>2. ipc_tab[f].chan \in 1 .. IpcIds  BY <2>1, Kernel64Assumption
  <2> QED BY <2>1, <2>2
<1>2. ipc_tab' \in [1 .. IPC_MAX -> Channel64] /\ ipc_tab'[f] = e
      /\ \A i \in 1 .. IPC_MAX : i # f => ipc_tab'[i] = ipc_tab[i]
  BY DEF IpcInv
<1>3. /\ DOMAIN ipc_owed' = 1 .. IpcIds /\ ipc_owed' = [d \in 1 .. IpcIds |-> ipc_owed'[d]]
      /\ ipc_owed'[c] = m /\ \A d \in 1 .. IpcIds : d # c => ipc_owed'[d] = ipc_owed[d]
  BY <1>1 DEF IpcInv
<1>4. ASSUME NEW i \in 1 .. IPC_MAX, ipc_tab'[i].used
      PROVE  /\ ipc_tab'[i].chan \in 1 .. ipc_ctr
             /\ ipc_owed'[ipc_tab'[i].chan] = IF ipc_tab'[i].valid THEN <<ipc_tab'[i].msg>> ELSE <<>>
  <2>1. CASE i = f  BY <1>1, <1>2, <1>3, <1>4, <2>1
  <2>2. CASE i # f
    <3>1. ipc_tab'[i] = ipc_tab[i] /\ ipc_tab[i].chan \in 1 .. ipc_ctr /\ ipc_tab[i].chan # c
      BY <1>1, <1>2, <1>4, <2>2 DEF IpcInv
    <3>2. ipc_tab[i].chan \in 1 .. IpcIds  BY <3>1, Kernel64Assumption DEF IpcInv
    <3>3. ipc_owed'[ipc_tab[i].chan] = ipc_owed[ipc_tab[i].chan]  BY <1>3, <3>1, <3>2
    <3> QED BY <1>4, <3>1, <3>3 DEF IpcInv
  <2> QED BY <2>1, <2>2
<1>5. \A i, j \in 1 .. IPC_MAX :
         ipc_tab'[i].used /\ ipc_tab'[j].used /\ ipc_tab'[i].chan = ipc_tab'[j].chan => i = j
  BY <1>2 DEF IpcInv
<1>6. ASSUME NEW d \in 1 .. IpcIds, d > ipc_ctr PROVE ipc_owed'[d] = <<>>
  <2>1. d # c  BY <1>1, <1>6, Kernel64Assumption DEF IpcInv
  <2> QED BY <1>3, <1>6, <2>1 DEF IpcInv
<1> QED BY <1>2, <1>3, <1>4, <1>5, <1>6 DEF IpcInv

LEMMA IpcDestroy ==
  ASSUME IpcInv, NEW c \in 1 .. IpcIds, ipc64_destroy(c)
  PROVE  IpcInv'
<1>1. PICK f \in 1 .. IPC_MAX : f = find_chan(c) /\ ipc_tab[f].used /\ ipc_tab[f].chan = c
  BY FindChan DEF ipc64_destroy
<1>2. NoChan \in Channel64 /\ ~NoChan.used  BY DEF NoChan, Channel64
<1>3. /\ ipc_tab' = [ipc_tab EXCEPT ![f] = NoChan] /\ ipc_ctr' = ipc_ctr
      /\ ipc_owed' = [ipc_owed EXCEPT ![ipc_tab[f].chan] = <<>>]
  BY <1>1 DEF ipc64_destroy
<1> QED BY <1>1, <1>2, <1>3, IpcChange

LEMMA IpcSend ==
  ASSUME IpcInv, NEW c \in 1 .. IpcIds, NEW m \in IpcMessages, ipc64_send(c, m)
  PROVE  IpcInv'
<1>1. PICK f \in 1 .. IPC_MAX : f = find_chan(c) /\ ipc_tab[f].used /\ ipc_tab[f].chan = c
  BY FindChan DEF ipc64_send, Sendable
<1> DEFINE e == [ipc_tab[f] EXCEPT !.msg = m, !.valid = TRUE]
<1>2. ipc_tab[f] \in Channel64 /\ ~ipc_tab[f].valid  BY <1>1 DEF IpcInv, ipc64_send, Sendable
<1>3. e \in Channel64 /\ e.chan = c /\ e.valid /\ e.msg = m  BY <1>1, <1>2 DEF Channel64
<1>4. ipc_tab' = [ipc_tab EXCEPT ![f] = e] /\ ipc_ctr' = ipc_ctr  BY <1>1 DEF ipc64_send, IpcInv
<1>5. ipc_owed[c] = <<>>  BY <1>1, <1>2 DEF IpcInv
<1>6. Append(ipc_owed[c], m) = <<m>>  BY <1>5
<1>7. ipc_owed' = [ipc_owed EXCEPT ![ipc_tab[f].chan] = <<m>>]  BY <1>1, <1>6 DEF ipc64_send
<1> HIDE DEF e
<1> QED BY <1>1, <1>3, <1>4, <1>7, IpcChange

LEMMA IpcRecv ==
  ASSUME IpcInv, NEW c \in 1 .. IpcIds, ipc64_recv(c)
  PROVE  IpcInv'
<1>1. PICK f \in 1 .. IPC_MAX : f = find_chan(c) /\ ipc_tab[f].used /\ ipc_tab[f].chan = c
  BY FindChan DEF ipc64_recv
<1> DEFINE e == [ipc_tab[f] EXCEPT !.valid = FALSE, !.msg = 0]
<1>2. ipc_tab[f] \in Channel64 /\ ipc_tab[f].valid  BY <1>1 DEF IpcInv, ipc64_recv
<1>3. e \in Channel64 /\ e.chan = c /\ ~e.valid  BY <1>1, <1>2 DEF Channel64
<1>4. ipc_tab' = [ipc_tab EXCEPT ![f] = e] /\ ipc_ctr' = ipc_ctr  BY <1>1 DEF ipc64_recv, IpcInv
<1>5. ipc_owed[c] = <<ipc_tab[f].msg>>  BY <1>1, <1>2 DEF IpcInv
<1>6. Tail(ipc_owed[c]) = <<>>  BY <1>5
<1>7. ipc_owed' = [ipc_owed EXCEPT ![ipc_tab[f].chan] = <<>>]  BY <1>1, <1>6 DEF ipc64_recv
<1> HIDE DEF e
<1> QED BY <1>1, <1>3, <1>4, <1>7, IpcChange

LEMMA IpcKept == ASSUME IpcInv, IpcNext PROVE IpcInv'
BY IpcCreate, IpcDestroy, IpcSend, IpcRecv DEF IpcNext

LEMMA IpcHolds == ASSUME IpcInv PROVE ChannelKeepsMessage
BY DEF IpcInv, ChannelKeepsMessage, Taken

------------------------------
(* Readiness.                                                              *)

\* The strengthening of WaitReportsReady: a descriptor is in the set once,
\* the two arrays agree place by place, and nothing is asked of those that
\* are not in the set.
PollInv ==
    /\ poll_ready \in [PollFds -> PollEvents]
    /\ ep_fds \in Seq(PollFds) /\ ep_events \in Seq(PollEvents) /\ Len(ep_events) = Len(ep_fds)
    /\ ep_want \in [PollFds -> PollEvents]
    /\ \A i, j \in 1 .. Len(ep_fds) : ep_fds[i] = ep_fds[j] => i = j
    /\ \A i \in 1 .. Len(ep_fds) : ep_want[ep_fds[i]] = ep_events[i]
    /\ \A f \in PollFds : (\A i \in 1 .. Len(ep_fds) : ep_fds[i] # f) => ep_want[f] = {}

LEMMA PollStarts == PollInit => PollInv
<1> SUFFICES ASSUME PollInit PROVE PollInv  OBVIOUS
<1>1. {} \in PollEvents  BY DEF PollEvents
<1> QED BY <1>1 DEF PollInit, PollInv

LEMMA FindPolled ==
  ASSUME PollInv, NEW f
  PROVE  /\ EpIndex(f) # 0 => EpIndex(f) \in 1 .. Len(ep_fds) /\ ep_fds[EpIndex(f)] = f
         /\ EpIndex(f) = 0 => \A i \in 1 .. Len(ep_fds) : ep_fds[i] # f
<1> DEFINE S == {i \in 1 .. Len(ep_fds) : ep_fds[i] = f}
<1>1. S \subseteq Nat \ {0}  OBVIOUS
<1>2. (FirstOf(S) = 0 <=> S = {}) /\ (S # {} => FirstOf(S) \in S)  BY <1>1, FirstMatch
<1> QED BY <1>2 DEF EpIndex

LEMMA PollSet ==
  ASSUME PollInv, NEW f \in PollFds, NEW ev \in PollEvents, poll64_set(f, ev)
  PROVE  PollInv'
BY DEF PollInv, poll64_set

LEMMA PollAdd ==
  ASSUME PollInv, NEW f \in PollFds, NEW ev \in PollEvents, epoll64_add(f, ev)
  PROVE  PollInv'
<1> DEFINE n == Len(ep_fds)
<1>1. n \in Nat /\ ep_fds \in Seq(PollFds) /\ ep_events \in Seq(PollEvents) /\ Len(ep_events) = n
  BY LenProperties DEF PollInv
<1>2. /\ ep_fds' = Append(ep_fds, f) /\ ep_events' = Append(ep_events, ev)
      /\ ep_want' = [ep_want EXCEPT ![f] = ev] /\ poll_ready' = poll_ready
  BY DEF epoll64_add
<1>3. \A i \in 1 .. n : ep_fds[i] # f /\ ep_fds[i] \in PollFds
  <2>1. \A i \in 1 .. n : ep_fds[i] # f  BY FindPolled DEF epoll64_add
  <2> QED BY <1>1, <2>1, ElementOfSeq
<1>4. /\ ep_fds' \in Seq(PollFds) /\ Len(ep_fds') = n + 1
      /\ ep_fds'[n + 1] = f /\ \A i \in 1 .. n : ep_fds'[i] = ep_fds[i]
  BY <1>1, <1>2, AppendProperties
<1>5. /\ ep_events' \in Seq(PollEvents) /\ Len(ep_events') = n + 1
      /\ ep_events'[n + 1] = ev /\ \A i \in 1 .. n : ep_events'[i] = ep_events[i]
  BY <1>1, <1>2, AppendProperties
<1>6. \A i \in 1 .. n + 1 : i = n + 1 \/ i \in 1 .. n  BY <1>1
<1>7. ep_want' \in [PollFds -> PollEvents] /\ ep_want'[f] = ev
      /\ \A g \in PollFds : g # f => ep_want'[g] = ep_want[g]
  BY <1>2 DEF PollInv
<1> HIDE DEF n
<1>8. \A i, j \in 1 .. n + 1 : ep_fds'[i] = ep_fds'[j] => i = j  BY <1>3, <1>4, <1>6 DEF PollInv, n
<1>9. \A i \in 1 .. n + 1 : ep_want'[ep_fds'[i]] = ep_events'[i]
  <2> TAKE i \in 1 .. n + 1
  <2>1. CASE i = n + 1  BY <1>4, <1>5, <1>7, <2>1
  <2>2. CASE i \in 1 .. n
    <3>1. ep_want[ep_fds[i]] = ep_events[i]  BY <2>2 DEF PollInv, n
    <3> QED BY <1>3, <1>4, <1>5, <1>7, <2>2, <3>1
  <2> QED BY <1>6, <2>1, <2>2
<1>10. ASSUME NEW g \in PollFds, \A i \in 1 .. n + 1 : ep_fds'[i] # g PROVE ep_want'[g] = {}
  <2>1. n + 1 \in 1 .. n + 1 /\ \A i \in 1 .. n : i \in 1 .. n + 1  BY <1>1 DEF n
  <2>2. g # f /\ \A i \in 1 .. n : ep_fds[i] # g  BY <1>4, <1>10, <2>1
  <2> QED BY <1>7, <2>2 DEF PollInv, n
<1> QED BY <1>2, <1>4, <1>5, <1>7, <1>8, <1>9, <1>10 DEF PollInv

LEMMA PollMod ==
  ASSUME PollInv, NEW f \in PollFds, NEW ev \in PollEvents, epoll64_mod(f, ev)
  PROVE  PollInv'
<1>1. PICK m : m = EpIndex(f)  OBVIOUS
<1>2. m \in 1 .. Len(ep_fds) /\ ep_fds[m] = f  BY <1>1, FindPolled DEF epoll64_mod
<1>3. /\ ep_events' = [ep_events EXCEPT ![m] = ev] /\ ep_want' = [ep_want EXCEPT ![f] = ev]
      /\ poll_ready' = poll_ready /\ ep_fds' = ep_fds
  BY <1>1 DEF epoll64_mod
<1>4. ep_events \in Seq(PollEvents) /\ Len(ep_events) = Len(ep_fds)  BY DEF PollInv
<1>5. ep_events' \in Seq(PollEvents) /\ Len(ep_events') = Len(ep_fds)
      /\ ep_events'[m] = ev /\ \A i \in 1 .. Len(ep_fds) : i # m => ep_events'[i] = ep_events[i]
  BY <1>2, <1>3, <1>4, ExceptSeq
<1>6. ep_want' \in [PollFds -> PollEvents] /\ ep_want'[f] = ev
      /\ \A g \in PollFds : g # f => ep_want'[g] = ep_want[g]
  BY <1>3 DEF PollInv
<1>7. \A i \in 1 .. Len(ep_fds) : ep_fds[i] \in PollFds /\ (ep_fds[i] = f => i = m)
  <2>1. \A i \in 1 .. Len(ep_fds) : ep_fds[i] \in PollFds  BY ElementOfSeq DEF PollInv
  <2> QED BY <1>2, <2>1 DEF PollInv
<1>8. \A i \in 1 .. Len(ep_fds) : ep_want'[ep_fds[i]] = ep_events'[i]
  <2> TAKE i \in 1 .. Len(ep_fds)
  <2>1. CASE i = m  BY <1>2, <1>5, <1>6, <2>1
  <2>2. CASE i # m  BY <1>5, <1>6, <1>7, <2>2 DEF PollInv
  <2> QED BY <2>1, <2>2
<1>9. \A g \in PollFds : (\A i \in 1 .. Len(ep_fds) : ep_fds[i] # g) => ep_want'[g] = {}
  BY <1>2, <1>6 DEF PollInv
<1> QED BY <1>3, <1>5, <1>6, <1>8, <1>9 DEF PollInv

LEMMA PollDel ==
  ASSUME PollInv, NEW f \in PollFds, epoll64_del(f)
  PROVE  PollInv'
<1> DEFINE n == Len(ep_fds)
<1>1. PICK m : m = EpIndex(f)  OBVIOUS
<1>2. m \in 1 .. n /\ ep_fds[m] = f  BY <1>1, FindPolled DEF epoll64_del
<1>3. /\ ep_fds' = RemoveAt(ep_fds, m) /\ ep_events' = RemoveAt(ep_events, m)
      /\ ep_want' = [ep_want EXCEPT ![f] = {}] /\ poll_ready' = poll_ready
  BY <1>1 DEF epoll64_del, EventsWithout
<1>4. n \in Nat /\ ep_fds \in Seq(PollFds) /\ ep_events \in Seq(PollEvents) /\ Len(ep_events) = n
  BY LenProperties DEF PollInv
<1>5. /\ ep_fds' \in Seq(PollFds) /\ Len(ep_fds') = n - 1
      /\ \A k \in 1 .. n - 1 : ep_fds'[k] = IF k < m THEN ep_fds[k] ELSE ep_fds[k + 1]
  BY <1>2, <1>3, <1>4, Removed
<1>6. /\ ep_events' \in Seq(PollEvents) /\ Len(ep_events') = n - 1
      /\ \A k \in 1 .. n - 1 : ep_events'[k] = IF k < m THEN ep_events[k] ELSE ep_events[k + 1]
  BY <1>2, <1>3, <1>4, Removed
<1>7. ep_want' \in [PollFds -> PollEvents] /\ ep_want'[f] = {}
      /\ \A g \in PollFds : g # f => ep_want'[g] = ep_want[g]
  <2>1. {} \in PollEvents  BY DEF PollEvents
  <2> QED BY <1>3, <2>1 DEF PollInv
<1>8. \A k \in 1 .. n - 1 : \E a \in 1 .. n : /\ ep_fds'[k] = ep_fds[a] /\ ep_events'[k] = ep_events[a]
                                            /\ a # m /\ a = IF k < m THEN k ELSE k + 1
  <2> TAKE k \in 1 .. n - 1
  <2> DEFINE a == IF k < m THEN k ELSE k + 1
  <2>1. a \in 1 .. n /\ a # m  BY <1>2, <1>4
  <2>2. ep_fds'[k] = ep_fds[a] /\ ep_events'[k] = ep_events[a]  BY <1>5, <1>6
  <2> QED BY <2>1, <2>2
<1>9. \A i \in 1 .. n : ep_fds[i] \in PollFds  BY <1>4, ElementOfSeq
<1>10. ASSUME NEW i \in 1 .. n - 1, NEW j \in 1 .. n - 1, ep_fds'[i] = ep_fds'[j] PROVE i = j
  <2>1. PICK a \in 1 .. n : ep_fds'[i] = ep_fds[a] /\ a = IF i < m THEN i ELSE i + 1  BY <1>8
  <2>2. PICK b \in 1 .. n : ep_fds'[j] = ep_fds[b] /\ b = IF j < m THEN j ELSE j + 1  BY <1>8
  <2>3. a = b  BY <1>10, <2>1, <2>2 DEF PollInv
  <2> QED BY <1>2, <1>4, <2>1, <2>2, <2>3
<1>11. ASSUME NEW i \in 1 .. n - 1 PROVE ep_want'[ep_fds'[i]] = ep_events'[i]
  <2>1. PICK a \in 1 .. n : ep_fds'[i] = ep_fds[a] /\ ep_events'[i] = ep_events[a] /\ a # m  BY <1>8
  <2>2. ep_fds[a] # f /\ ep_fds[a] \in PollFds  BY <1>2, <1>9, <2>1 DEF PollInv
  <2> QED BY <1>7, <2>1, <2>2 DEF PollInv
<1>12. ASSUME NEW g \in PollFds, \A i \in 1 .. n - 1 : ep_fds'[i] # g PROVE ep_want'[g] = {}
  <2>1. CASE g = f  BY <1>7, <2>1
  <2>2. CASE g # f
    <3>1. ASSUME NEW a \in 1 .. n, ep_fds[a] = g PROVE FALSE
      <4>1. a # m  BY <1>2, <2>2, <3>1
      <4> DEFINE k == IF a < m THEN a ELSE a - 1
      <4>2. k \in 1 .. n - 1 /\ a = IF k < m THEN k ELSE k + 1  BY <1>2, <1>4, <4>1
      <4>3. ep_fds'[k] = ep_fds[a]  BY <1>5, <4>2
      <4> QED BY <1>12, <3>1, <4>2, <4>3
    <3> QED BY <1>7, <2>2, <3>1 DEF PollInv
  <2> QED BY <2>1, <2>2
<1> HIDE DEF n
<1> QED BY <1>3, <1>5, <1>6, <1>7, <1>10, <1>11, <1>12 DEF PollInv

LEMMA PollKept == ASSUME PollInv, PollNext PROVE PollInv'
BY PollSet, PollAdd, PollMod, PollDel DEF PollNext

LEMMA PollHolds == ASSUME PollInv PROVE WaitReportsReady
<1> DEFINE n == Len(ep_fds)
           D == {<<f, poll_ready[f] \cap ep_want[f]>> :
                    f \in {g \in PollFds : poll_ready[g] \cap ep_want[g] # {}}}
<1>1. \A i \in 1 .. n : ep_fds[i] \in PollFds /\ ep_want[ep_fds[i]] = ep_events[i]
  <2>1. \A i \in 1 .. n : ep_fds[i] \in PollFds  BY ElementOfSeq DEF PollInv
  <2> QED BY <2>1 DEF PollInv
<1>2. ASSUME NEW x \in epoll64_wait PROVE x \in D
  <2>1. PICK i \in 1 .. n : /\ poll_ready[ep_fds[i]] \cap ep_events[i] # {}
                            /\ x = <<ep_fds[i], poll_ready[ep_fds[i]] \cap ep_events[i]>>
    BY DEF epoll64_wait
  <2> QED BY <1>1, <2>1
<1>3. ASSUME NEW x \in D PROVE x \in epoll64_wait
  <2>1. PICK f \in PollFds : poll_ready[f] \cap ep_want[f] # {} /\ x = <<f, poll_ready[f] \cap ep_want[f]>>
    OBVIOUS
  <2>2. PICK i \in 1 .. n : ep_fds[i] = f  BY <2>1 DEF PollInv
  <2> QED BY <1>1, <2>1, <2>2 DEF epoll64_wait
<1> QED BY <1>2, <1>3 DEF WaitReportsReady

------------------------------
(* Shared frames.                                                          *)

\* The strengthening of SharersApart and CowCounted: a frame that is not
\* to change is named by an entry of the table with the hash of what it
\* holds, frames with one hash are one frame, and it is never free.
MapsTo(f) == {p \in CowPages : cow_at[p] = f}
KsmEntry == [used : BOOLEAN, hash : PageData \cup {0}, frame : 0 .. CowFrames]
CowInv ==
    /\ cow_free \subseteq 1 .. CowFrames
    /\ cow_frame \in [1 .. CowFrames -> PageData \cup {0}]
    /\ cow_refs \in [1 .. CowFrames -> Nat]
    /\ cow_at \in [CowPages -> 0 .. CowFrames]
    /\ cow_want \in [CowPages -> PageData \cup {0}]
    /\ ksm_tab \in [1 .. KSM64_MAX -> KsmEntry]
    /\ ksm_frozen \subseteq 1 .. CowFrames
    /\ \A p \in CowPages : cow_at[p] \notin cow_free
    /\ \A f \in 1 .. CowFrames : Cardinality(MapsTo(f)) <= cow_refs[f]
    /\ \A f \in ksm_frozen : f \notin cow_free /\ \E i \in Taken(ksm_tab) : ksm_tab[i].frame = f
    /\ \A i \in Taken(ksm_tab) :
          ksm_tab[i].frame \in ksm_frozen /\ ksm_tab[i].hash = cow_frame[ksm_tab[i].frame]
    /\ \A i, j \in Taken(ksm_tab) : ksm_tab[i].hash = ksm_tab[j].hash => ksm_tab[i].frame = ksm_tab[j].frame
    /\ \A p \in CowPages : cow_at[p] # 0 => cow_frame[cow_at[p]] = cow_want[p]

LEMMA MappersCounted ==
  ASSUME NEW f PROVE IsFiniteSet(MapsTo(f)) /\ Cardinality(MapsTo(f)) \in Nat
<1>1. IsFiniteSet(MapsTo(f))  BY FS_Subset, Paging64Assumption DEF MapsTo
<1> QED BY <1>1, FS_CardinalityType

\* A page that moves from one frame to another: the first has one mapper less,
\* the second one more.
LEMMA PageMoves ==
  ASSUME CowInv, NEW p \in CowPages, NEW g \in 0 .. CowFrames, NEW o, o = cow_at[p], o # g,
         cow_at' = [cow_at EXCEPT ![p] = g]
  PROVE  /\ cow_at' \in [CowPages -> 0 .. CowFrames] /\ cow_at'[p] = g
         /\ \A q \in CowPages : q # p => cow_at'[q] = cow_at[q]
         /\ Cardinality(MapsTo(o)') = Cardinality(MapsTo(o)) - 1
         /\ Cardinality(MapsTo(g)') = Cardinality(MapsTo(g)) + 1
         /\ \A f : f # g /\ f # o => MapsTo(f)' = MapsTo(f)
<1>2. /\ cow_at' \in [CowPages -> 0 .. CowFrames] /\ cow_at'[p] = g
      /\ \A q \in CowPages : q # p => cow_at'[q] = cow_at[q]
  BY DEF CowInv
<1>3. MapsTo(o)' = MapsTo(o) \ {p} /\ p \in MapsTo(o)  BY <1>2 DEF MapsTo
<1>4. MapsTo(g)' = MapsTo(g) \cup {p} /\ p \notin MapsTo(g)  BY <1>2 DEF MapsTo
<1>5. \A f : f # g /\ f # o => MapsTo(f)' = MapsTo(f)  BY <1>2 DEF MapsTo
<1>6. Cardinality(MapsTo(o) \ {p}) = Cardinality(MapsTo(o)) - 1  BY <1>3, MappersCounted, FS_RemoveElement
<1>7. Cardinality(MapsTo(g) \cup {p}) = Cardinality(MapsTo(g)) + 1  BY <1>4, MappersCounted, FS_AddElement
<1>8. Cardinality(MapsTo(o)') = Cardinality(MapsTo(o)) - 1 /\ Cardinality(MapsTo(g)') = Cardinality(MapsTo(g)) + 1
  BY <1>3, <1>4, <1>6, <1>7
<1> QED BY <1>2, <1>5, <1>8

LEMMA CowStarts == CowInit => CowInv
<1> SUFFICES ASSUME CowInit PROVE CowInv  OBVIOUS
<1>1. ksm_tab \in [1 .. KSM64_MAX -> KsmEntry] /\ Taken(ksm_tab) = {}
  BY Paging64Assumption DEF CowInit, KsmEntry, Taken
<1>2. \A f \in 1 .. CowFrames : MapsTo(f) = {}  BY DEF CowInit, MapsTo
<1>3. Cardinality({}) = 0  BY FS_EmptySet
<1>4. \A f \in 1 .. CowFrames : cow_refs[f] = 0  BY DEF CowInit
<1>5. \A f \in 1 .. CowFrames : Cardinality(MapsTo(f)) <= cow_refs[f]  BY <1>2, <1>3, <1>4
<1>6. /\ cow_refs \in [1 .. CowFrames -> Nat] /\ cow_at \in [CowPages -> 0 .. CowFrames]
      /\ cow_frame \in [1 .. CowFrames -> PageData \cup {0}] /\ cow_want \in [CowPages -> PageData \cup {0}]
      /\ \A p \in CowPages : cow_at[p] = 0
  BY Paging64Assumption DEF CowInit
<1>7. cow_free \subseteq 1 .. CowFrames /\ \A p \in CowPages : cow_at[p] \notin cow_free
  BY <1>6, Paging64Assumption DEF CowInit
<1>8. ksm_frozen = {}  BY DEF CowInit
<1> QED BY <1>1, <1>5, <1>6, <1>7, <1>8 DEF CowInv

LEMMA CowMapKept ==
  ASSUME CowInv, NEW p \in CowPages, CowMap(p)
  PROVE  CowInv'
<1>1. PICK g \in cow_free : g = Min(cow_free)
  <2>1. cow_free \subseteq Nat /\ cow_free # {}  BY DEF CowInv, CowMap
  <2> QED BY <2>1, LeastIsThere
<1>2. /\ cow_at[p] = 0 /\ cow_free' = cow_free \ {g} /\ cow_frame' = [cow_frame EXCEPT ![g] = 0]
      /\ cow_refs' = [cow_refs EXCEPT ![g] = @ + 1] /\ cow_at' = [cow_at EXCEPT ![p] = g]
      /\ cow_want' = [cow_want EXCEPT ![p] = 0] /\ ksm_tab' = ksm_tab /\ ksm_frozen' = ksm_frozen
  BY <1>1 DEF CowMap, cow64_retain
<1>3. g \in 1 .. CowFrames /\ g \in 0 .. CowFrames /\ g # 0 /\ g \notin ksm_frozen
  BY <1>1, Paging64Assumption DEF CowInv
<1>4. /\ cow_at' \in [CowPages -> 0 .. CowFrames] /\ cow_at'[p] = g
      /\ \A q \in CowPages : q # p => cow_at'[q] = cow_at[q]
      /\ Cardinality(MapsTo(g)') = Cardinality(MapsTo(g)) + 1
      /\ \A f : f # g /\ f # 0 => MapsTo(f)' = MapsTo(f)
  BY <1>2, <1>3, PageMoves
<1>5. /\ cow_refs' \in [1 .. CowFrames -> Nat] /\ cow_refs'[g] = cow_refs[g] + 1
      /\ \A f \in 1 .. CowFrames : f # g => cow_refs'[f] = cow_refs[f]
  <2>1. cow_refs \in [1 .. CowFrames -> Nat] /\ cow_refs[g] + 1 \in Nat  BY <1>3 DEF CowInv
  <2> QED BY <1>2, <1>3, <2>1
<1>6. \A f \in 1 .. CowFrames : Cardinality(MapsTo(f)') <= cow_refs'[f]
  <2> TAKE f \in 1 .. CowFrames
  <2>0. f # 0  BY Paging64Assumption
  <2>1. Cardinality(MapsTo(f)) <= cow_refs[f] /\ Cardinality(MapsTo(f)) \in Nat /\ cow_refs[f] \in Nat
    BY MappersCounted DEF CowInv
  <2>2. CASE f = g  BY <1>4, <1>5, <2>0, <2>1, <2>2
  <2>3. CASE f # g  BY <1>4, <1>5, <2>0, <2>1, <2>3
  <2> QED BY <2>2, <2>3
<1>7. /\ cow_frame' \in [1 .. CowFrames -> PageData \cup {0}] /\ cow_frame'[g] = 0
      /\ \A f \in 1 .. CowFrames : f # g => cow_frame'[f] = cow_frame[f]
  BY <1>2, <1>3 DEF CowInv
<1>8. cow_want' \in [CowPages -> PageData \cup {0}] /\ cow_want'[p] = 0
      /\ \A q \in CowPages : q # p => cow_want'[q] = cow_want[q]
  BY <1>2 DEF CowInv
<1>9. \A q \in CowPages : q # p => cow_at[q] # g /\ (cow_at[q] # 0 => cow_at[q] \in 1 .. CowFrames)
  <2>1. \A q \in CowPages : cow_at[q] \in 0 .. CowFrames /\ cow_at[q] # g  BY <1>1 DEF CowInv
  <2> QED BY <2>1, Paging64Assumption
<1>10. \A q \in CowPages : cow_at'[q] # 0 => cow_frame'[cow_at'[q]] = cow_want'[q]
  <2> TAKE q \in CowPages
  <2>1. CASE q = p  BY <1>4, <1>7, <1>8, <2>1
  <2>2. CASE q # p  BY <1>4, <1>7, <1>8, <1>9, <2>2 DEF CowInv
  <2> QED BY <2>1, <2>2
<1>11. \A q \in CowPages : cow_at'[q] \notin cow_free'  BY <1>2, <1>4 DEF CowInv
<1>12. \A i \in Taken(ksm_tab) :
          ksm_tab[i].frame \in ksm_frozen /\ ksm_tab[i].hash = cow_frame'[ksm_tab[i].frame]
  BY <1>3, <1>7 DEF CowInv
<1>13. cow_free' \subseteq 1 .. CowFrames /\ \A f \in ksm_frozen : f \notin cow_free'  BY <1>2 DEF CowInv
<1> QED BY <1>2, <1>4, <1>5, <1>6, <1>7, <1>8, <1>10, <1>11, <1>12, <1>13 DEF CowInv

LEMMA CowShareKept ==
  ASSUME CowInv, NEW p \in CowPages, NEW q \in CowPages, CowShare(p, q)
  PROVE  CowInv'
<1>1. PICK g \in 1 .. CowFrames : g = cow_at[p]  BY Paging64Assumption DEF CowInv, CowShare
<1>2. /\ cow_at[q] = 0 /\ cow_refs' = [cow_refs EXCEPT ![g] = @ + 1] /\ cow_at' = [cow_at EXCEPT ![q] = g]
      /\ cow_want' = [cow_want EXCEPT ![q] = cow_want[p]]
      /\ UNCHANGED <<cow_free, cow_frame, ksm_tab, ksm_frozen>>
  BY <1>1 DEF CowShare, cow64_retain
<1>3. g \in 0 .. CowFrames /\ g # 0  BY Paging64Assumption
<1>4. /\ cow_at' \in [CowPages -> 0 .. CowFrames] /\ cow_at'[q] = g
      /\ \A x \in CowPages : x # q => cow_at'[x] = cow_at[x]
      /\ Cardinality(MapsTo(g)') = Cardinality(MapsTo(g)) + 1
      /\ \A f : f # g /\ f # 0 => MapsTo(f)' = MapsTo(f)
  BY <1>2, <1>3, PageMoves
<1>5. /\ cow_refs' \in [1 .. CowFrames -> Nat] /\ cow_refs'[g] = cow_refs[g] + 1
      /\ \A f \in 1 .. CowFrames : f # g => cow_refs'[f] = cow_refs[f]
  BY <1>2 DEF CowInv
<1>6. \A f \in 1 .. CowFrames : Cardinality(MapsTo(f)') <= cow_refs'[f]
  <2> TAKE f \in 1 .. CowFrames
  <2>0. f # 0  BY Paging64Assumption
  <2>1. Cardinality(MapsTo(f)) <= cow_refs[f] /\ Cardinality(MapsTo(f)) \in Nat /\ cow_refs[f] \in Nat
    BY MappersCounted DEF CowInv
  <2>2. CASE f = g  BY <1>4, <1>5, <2>0, <2>1, <2>2
  <2>3. CASE f # g  BY <1>4, <1>5, <2>0, <2>1, <2>3
  <2> QED BY <2>2, <2>3
<1>7. cow_want' \in [CowPages -> PageData \cup {0}] /\ cow_want'[q] = cow_want[p]
      /\ \A x \in CowPages : x # q => cow_want'[x] = cow_want[x]
  BY <1>2 DEF CowInv
<1>8. \A x \in CowPages : cow_at'[x] # 0 => cow_frame[cow_at'[x]] = cow_want'[x]
  BY <1>1, <1>3, <1>4, <1>7 DEF CowInv
<1>9. \A x \in CowPages : cow_at'[x] \notin cow_free  BY <1>1, <1>4 DEF CowInv
<1> QED BY <1>2, <1>4, <1>5, <1>6, <1>7, <1>8, <1>9 DEF CowInv

LEMMA CowResolveKept ==
  ASSUME CowInv, NEW p \in CowPages, NEW v \in PageData, cow64_resolve(p, v)
  PROVE  CowInv'
<1>1. PICK o \in 1 .. CowFrames : o = cow_at[p] /\ o \notin ksm_frozen
  BY Paging64Assumption DEF CowInv, cow64_resolve
<1>2. cow_want' \in [CowPages -> PageData \cup {0}] /\ cow_want'[p] = v
      /\ \A q \in CowPages : q # p => cow_want'[q] = cow_want[q]
  BY DEF CowInv, cow64_resolve
<1>3. ksm_tab' = ksm_tab /\ ksm_frozen' = ksm_frozen  BY DEF cow64_resolve
<1>4. CASE ~cow64_is_shared(o)
  <2>1. cow_frame' = [cow_frame EXCEPT ![o] = v] /\ cow_free' = cow_free /\ cow_refs' = cow_refs /\ cow_at' = cow_at
    BY <1>1, <1>4 DEF cow64_resolve
  <2>2. /\ cow_frame' \in [1 .. CowFrames -> PageData \cup {0}] /\ cow_frame'[o] = v
        /\ \A f \in 1 .. CowFrames : f # o => cow_frame'[f] = cow_frame[f]
    BY <2>1 DEF CowInv
  <2>3. \A q \in CowPages : q # p => cow_at[q] # o
    <3> SUFFICES ASSUME NEW q \in CowPages, q # p, cow_at[q] = o PROVE FALSE  OBVIOUS
    <3>1. {p} \cup {q} \subseteq MapsTo(o)  BY <1>1 DEF MapsTo
    <3>2. Cardinality({p}) = 1 /\ IsFiniteSet({p})  BY FS_Singleton
    <3>3. Cardinality({p} \cup {q}) = 2
      <4>1. q \notin {p}  OBVIOUS
      <4>2. Cardinality({p} \cup {q}) = Cardinality({p}) + 1  BY <3>2, <4>1, FS_AddElement
      <4> QED BY <3>2, <4>2
    <3>4. Cardinality({p} \cup {q}) <= Cardinality(MapsTo(o))  BY <3>1, MappersCounted, FS_Subset
    <3>5. Cardinality(MapsTo(o)) <= cow_refs[o] /\ cow_refs[o] \in Nat /\ ~(cow_refs[o] > 1)
      BY <1>4 DEF CowInv, cow64_is_shared
    <3> QED BY <3>3, <3>4, <3>5, MappersCounted
  <2>4. \A q \in CowPages : cow_at[q] # 0 => cow_at[q] \in 1 .. CowFrames  BY Paging64Assumption DEF CowInv
  <2>5. \A q \in CowPages : cow_at[q] # 0 => cow_frame'[cow_at[q]] = cow_want'[q]
    <3> TAKE q \in CowPages
    <3>1. CASE q = p  BY <1>1, <1>2, <2>2, <3>1
    <3>2. CASE q # p  BY <1>2, <2>2, <2>3, <2>4, <3>2 DEF CowInv
    <3> QED BY <3>1, <3>2
  <2>6. \A i \in Taken(ksm_tab) : ksm_tab[i].hash = cow_frame'[ksm_tab[i].frame]  BY <1>1, <2>2 DEF CowInv
  <2>7. \A f \in 1 .. CowFrames : MapsTo(f)' = MapsTo(f)  BY <2>1 DEF MapsTo
  <2> QED BY <1>2, <1>3, <2>1, <2>2, <2>5, <2>6, <2>7 DEF CowInv
<1>5. CASE cow64_is_shared(o)
  <2>1. PICK g \in cow_free : g = Min(cow_free)
    <3>1. cow_free \subseteq Nat /\ cow_free # {}  BY <1>1, <1>5 DEF CowInv, cow64_resolve
    <3> QED BY <3>1, LeastIsThere
  <2>2. /\ cow_free' = cow_free \ {g} /\ cow_frame' = [cow_frame EXCEPT ![g] = v]
        /\ cow_refs' = cow64_retain([cow_refs EXCEPT ![o] = @ - 1], g)
        /\ cow_at' = [cow_at EXCEPT ![p] = g]
    BY <1>1, <1>5, <2>1 DEF cow64_resolve
  <2>3. g \in 1 .. CowFrames /\ g \in 0 .. CowFrames /\ g # 0 /\ g \notin ksm_frozen /\ g # o
    BY <1>1, <2>1, Paging64Assumption DEF CowInv
  <2>4. /\ cow_at' \in [CowPages -> 0 .. CowFrames] /\ cow_at'[p] = g
        /\ \A q \in CowPages : q # p => cow_at'[q] = cow_at[q]
        /\ Cardinality(MapsTo(o)') = Cardinality(MapsTo(o)) - 1
        /\ Cardinality(MapsTo(g)') = Cardinality(MapsTo(g)) + 1
        /\ \A f : f # g /\ f # o => MapsTo(f)' = MapsTo(f)
    BY <1>1, <2>2, <2>3, PageMoves
  <2>5. cow_refs[o] > 1 /\ \A f \in 1 .. CowFrames : cow_refs[f] \in Nat  BY <1>5 DEF cow64_is_shared, CowInv
  <2>6. /\ cow_refs' \in [1 .. CowFrames -> Nat] /\ cow_refs'[g] = cow_refs[g] + 1
        /\ cow_refs'[o] = cow_refs[o] - 1
        /\ \A f \in 1 .. CowFrames : f # g /\ f # o => cow_refs'[f] = cow_refs[f]
    <3> DEFINE r == [cow_refs EXCEPT ![o] = @ - 1]
    <3>1. /\ r \in [1 .. CowFrames -> Nat] /\ r[o] = cow_refs[o] - 1
          /\ \A f \in 1 .. CowFrames : f # o => r[f] = cow_refs[f]
      BY <2>5 DEF CowInv
    <3> HIDE DEF r
    <3>2. cow_refs' = [r EXCEPT ![g] = @ + 1]  BY <2>2 DEF cow64_retain, r
    <3> QED BY <2>3, <3>1, <3>2
  <2>7. \A f \in 1 .. CowFrames : Cardinality(MapsTo(f)') <= cow_refs'[f]
    <3> TAKE f \in 1 .. CowFrames
    <3>1. Cardinality(MapsTo(f)) <= cow_refs[f] /\ Cardinality(MapsTo(f)) \in Nat /\ cow_refs[f] \in Nat
      BY MappersCounted DEF CowInv
    <3>2. CASE f = g  BY <2>4, <2>6, <3>1, <3>2
    <3>3. CASE f = o  BY <2>4, <2>6, <3>1, <3>3
    <3>4. CASE f # g /\ f # o  BY <2>4, <2>6, <3>1, <3>4
    <3> QED BY <3>2, <3>3, <3>4
  <2>8. /\ cow_frame' \in [1 .. CowFrames -> PageData \cup {0}] /\ cow_frame'[g] = v
        /\ \A f \in 1 .. CowFrames : f # g => cow_frame'[f] = cow_frame[f]
    BY <2>2, <2>3 DEF CowInv
  <2>9. \A q \in CowPages : cow_at[q] # g /\ (cow_at[q] # 0 => cow_at[q] \in 1 .. CowFrames)
    <3>1. \A q \in CowPages : cow_at[q] \in 0 .. CowFrames /\ cow_at[q] # g  BY <2>1 DEF CowInv
    <3> QED BY <3>1, Paging64Assumption
  <2>10. \A q \in CowPages : cow_at'[q] # 0 => cow_frame'[cow_at'[q]] = cow_want'[q]
    <3> TAKE q \in CowPages
    <3>1. CASE q = p  BY <1>2, <2>4, <2>8, <3>1
    <3>2. CASE q # p  BY <1>2, <2>4, <2>8, <2>9, <3>2 DEF CowInv
    <3> QED BY <3>1, <3>2
  <2>11. \A q \in CowPages : cow_at'[q] \notin cow_free'  BY <2>2, <2>4 DEF CowInv
  <2>12. \A i \in Taken(ksm_tab) :
            ksm_tab[i].frame \in ksm_frozen /\ ksm_tab[i].hash = cow_frame'[ksm_tab[i].frame]
    BY <2>3, <2>8 DEF CowInv
  <2>13. cow_free' \subseteq 1 .. CowFrames /\ \A f \in ksm_frozen : f \notin cow_free'  BY <2>2 DEF CowInv
  <2> QED BY <1>2, <1>3, <2>4, <2>6, <2>7, <2>8, <2>10, <2>11, <2>12, <2>13 DEF CowInv
<1> QED BY <1>4, <1>5

LEMMA CowUnmapKept ==
  ASSUME CowInv, NEW p \in CowPages, CowUnmap(p)
  PROVE  CowInv'
<1>1. PICK o \in 1 .. CowFrames : o = cow_at[p] /\ o \notin ksm_frozen
  BY Paging64Assumption DEF CowInv, CowUnmap
<1> DEFINE n == IF cow_refs[o] > 0 THEN cow_refs[o] - 1 ELSE 0
<1>2. /\ cow_refs' = [cow_refs EXCEPT ![o] = n]
      /\ cow_free' = IF n = 0 THEN cow_free \cup {o} ELSE cow_free
      /\ cow_at' = [cow_at EXCEPT ![p] = 0]
      /\ UNCHANGED <<cow_frame, cow_want, ksm_tab, ksm_frozen>>
  BY <1>1 DEF CowUnmap, cow64_release, CowInv
<1>3. 0 \in 0 .. CowFrames /\ o # 0  BY Paging64Assumption
<1>4. /\ cow_at' \in [CowPages -> 0 .. CowFrames] /\ cow_at'[p] = 0
      /\ \A q \in CowPages : q # p => cow_at'[q] = cow_at[q]
      /\ Cardinality(MapsTo(o)') = Cardinality(MapsTo(o)) - 1
      /\ \A f : f # 0 /\ f # o => MapsTo(f)' = MapsTo(f)
  BY <1>1, <1>2, <1>3, PageMoves
<1>5. /\ Cardinality(MapsTo(o)) <= cow_refs[o] /\ Cardinality(MapsTo(o)) \in Nat /\ cow_refs[o] \in Nat
      /\ Cardinality(MapsTo(o)') \in Nat /\ IsFiniteSet(MapsTo(o)')
  <2>1. MapsTo(o)' \subseteq CowPages  BY DEF MapsTo
  <2>2. IsFiniteSet(MapsTo(o)')  BY <2>1, FS_Subset, Paging64Assumption
  <2> QED BY <2>2, MappersCounted, FS_CardinalityType DEF CowInv
<1>6. n \in Nat /\ Cardinality(MapsTo(o)') <= n  BY <1>4, <1>5
<1>7. n = 0 => MapsTo(o)' = {}  BY <1>5, <1>6, FS_EmptySet
<1>8. /\ cow_refs' \in [1 .. CowFrames -> Nat] /\ cow_refs'[o] = n
      /\ \A f \in 1 .. CowFrames : f # o => cow_refs'[f] = cow_refs[f]
  BY <1>2, <1>6 DEF CowInv
<1> HIDE DEF n
<1>9. \A f \in 1 .. CowFrames : Cardinality(MapsTo(f)') <= cow_refs'[f]
  <2> TAKE f \in 1 .. CowFrames
  <2>1. CASE f = o  BY <1>6, <1>8, <2>1
  <2>2. CASE f # o
    <3>1. f # 0  OBVIOUS
    <3> QED BY <1>4, <1>8, <2>2, <3>1 DEF CowInv
  <2> QED BY <2>1, <2>2
<1>10. \A q \in CowPages : cow_at'[q] \notin cow_free'
  <2> TAKE q \in CowPages
  <2>1. cow_at'[q] \notin cow_free
    <3>1. 0 \notin cow_free  BY DEF CowInv
    <3> QED BY <1>4, <3>1 DEF CowInv
  <2>2. n = 0 => cow_at'[q] # o  BY <1>7 DEF MapsTo
  <2> QED BY <1>2, <2>1, <2>2
<1>11. cow_free' \subseteq 1 .. CowFrames /\ \A f \in ksm_frozen : f \notin cow_free'  BY <1>1, <1>2 DEF CowInv
<1>12. \A q \in CowPages : cow_at'[q] # 0 => cow_frame[cow_at'[q]] = cow_want[q]  BY <1>4 DEF CowInv
<1> QED BY <1>2, <1>4, <1>8, <1>9, <1>10, <1>11, <1>12 DEF CowInv

LEMMA KsmScanKept ==
  ASSUME CowInv, NEW p \in CowPages, ksm64_scan(p)
  PROVE  CowInv'
<1>1. PICK o \in 1 .. CowFrames : o = cow_at[p]  BY Paging64Assumption DEF CowInv, ksm64_scan
<1>2. \A q \in CowPages : q # p => cow_at[q] # o  BY <1>1 DEF ksm64_scan
<1>3. CASE KsmTwins(o) # {}
  <2>1. PICK i \in KsmTwins(o) : i = Min(KsmTwins(o))
    <3>1. KsmTwins(o) \subseteq Nat  BY DEF KsmTwins, Taken, CowInv
    <3> QED BY <1>3, <3>1, LeastIsThere
  <2>2. i \in Taken(ksm_tab) /\ ksm_tab[i].hash = cow_frame[o] /\ ksm_tab[i].frame # o  BY <2>1 DEF KsmTwins
  <2>3. PICK g \in ksm_frozen : g = ksm_tab[i].frame  BY <2>2 DEF CowInv
  <2>4. g \in 1 .. CowFrames /\ g \in 0 .. CowFrames /\ g # 0 /\ g # o /\ cow_frame[g] = cow_frame[o]
    BY <2>2, <2>3, Paging64Assumption DEF CowInv
  <2>5. /\ cow_refs' = [cow_refs EXCEPT ![g] = @ + 1] /\ cow_free' = cow_free \cup {o}
        /\ cow_at' = [cow_at EXCEPT ![p] = g]
        /\ UNCHANGED <<ksm_tab, ksm_frozen, cow_frame, cow_want>>
    BY <1>1, <1>3, <2>1, <2>3 DEF ksm64_scan, cow64_retain
  <2>6. o \notin ksm_frozen
    <3> SUFFICES ASSUME o \in ksm_frozen PROVE FALSE  OBVIOUS
    <3>1. PICK j \in Taken(ksm_tab) : ksm_tab[j].frame = o  BY DEF CowInv
    <3>2. ksm_tab[j].hash = cow_frame[o]  BY <3>1 DEF CowInv
    <3> QED BY <2>2, <3>1, <3>2 DEF CowInv
  <2>7. /\ cow_at' \in [CowPages -> 0 .. CowFrames] /\ cow_at'[p] = g
        /\ \A q \in CowPages : q # p => cow_at'[q] = cow_at[q]
        /\ Cardinality(MapsTo(o)') = Cardinality(MapsTo(o)) - 1
        /\ Cardinality(MapsTo(g)') = Cardinality(MapsTo(g)) + 1
        /\ \A f : f # g /\ f # o => MapsTo(f)' = MapsTo(f)
    <3>1. g \in 0 .. CowFrames /\ o = cow_at[p] /\ o # g /\ cow_at' = [cow_at EXCEPT ![p] = g]
      BY <1>1, <2>4, <2>5
    <3>2. cow_at' \in [CowPages -> 0 .. CowFrames] /\ cow_at'[p] = g  BY <3>1, PageMoves
    <3>3. \A q \in CowPages : q # p => cow_at'[q] = cow_at[q]  BY <3>1, PageMoves
    <3>4. Cardinality(MapsTo(o)') = Cardinality(MapsTo(o)) - 1  BY <3>1, PageMoves
    <3>5. Cardinality(MapsTo(g)') = Cardinality(MapsTo(g)) + 1
      <4>1. MapsTo(g)' = MapsTo(g) \cup {p} /\ p \notin MapsTo(g)  BY <3>1, <3>2, <3>3 DEF MapsTo
      <4>2. Cardinality(MapsTo(g) \cup {p}) = Cardinality(MapsTo(g)) + 1  BY <4>1, MappersCounted, FS_AddElement
      <4> QED BY <4>1, <4>2
    <3>6. \A f : f # g /\ f # o => MapsTo(f)' = MapsTo(f)  BY <3>1, PageMoves
    <3> QED BY <3>2, <3>3, <3>4, <3>5, <3>6
  <2>8. /\ cow_refs' \in [1 .. CowFrames -> Nat] /\ cow_refs'[g] = cow_refs[g] + 1
        /\ \A f \in 1 .. CowFrames : f # g => cow_refs'[f] = cow_refs[f]
    BY <2>4, <2>5 DEF CowInv
  <2>9. \A f \in 1 .. CowFrames : Cardinality(MapsTo(f)') <= cow_refs'[f]
    <3> TAKE f \in 1 .. CowFrames
    <3>1. Cardinality(MapsTo(f)) <= cow_refs[f] /\ Cardinality(MapsTo(f)) \in Nat /\ cow_refs[f] \in Nat
      BY MappersCounted DEF CowInv
    <3>2. CASE f = g  BY <2>7, <2>8, <3>1, <3>2
    <3>3. CASE f = o  BY <2>4, <2>7, <2>8, <3>1, <3>3
    <3>4. CASE f # g /\ f # o  BY <2>7, <2>8, <3>1, <3>4
    <3> QED BY <3>2, <3>3, <3>4
  <2>10. \A q \in CowPages : cow_at'[q] \notin cow_free'
    <3> TAKE q \in CowPages
    <3>1. CASE q = p  BY <2>3, <2>4, <2>5, <2>7, <3>1 DEF CowInv
    <3>2. CASE q # p  BY <1>2, <2>5, <2>7, <3>2 DEF CowInv
    <3> QED BY <3>1, <3>2
  <2>11. cow_free' \subseteq 1 .. CowFrames /\ \A f \in ksm_frozen : f \notin cow_free'
    BY <2>5, <2>6 DEF CowInv
  <2>12. \A q \in CowPages : cow_at'[q] # 0 => cow_frame[cow_at'[q]] = cow_want[q]
    <3> TAKE q \in CowPages
    <3>1. CASE q = p
      <4>1. cow_frame[o] = cow_want[p]  BY <1>1 DEF CowInv
      <4> QED BY <2>4, <2>7, <3>1, <4>1
    <3>2. CASE q # p  BY <2>7, <3>2 DEF CowInv
    <3> QED BY <3>1, <3>2
  <2> QED BY <2>5, <2>7, <2>8, <2>9, <2>10, <2>11, <2>12 DEF CowInv
<1>4. CASE KsmTwins(o) = {}
  <2>1. PICK i : i = FirstFree(ksm_tab)  OBVIOUS
  <2>2. i \in 1 .. KSM64_MAX /\ i \notin Taken(ksm_tab)
    <3>1. DOMAIN ksm_tab = 1 .. KSM64_MAX /\ 1 .. KSM64_MAX \subseteq Nat \ {0}  BY DEF CowInv
    <3>2. i # 0  BY <1>1, <1>4, <2>1 DEF ksm64_scan
    <3> QED BY <2>1, <3>1, <3>2, FreeEntry
  <2> DEFINE e == [used |-> TRUE, hash |-> cow_frame[o], frame |-> o]
  <2>3. /\ ksm_tab' = [ksm_tab EXCEPT ![i] = e] /\ ksm_frozen' = ksm_frozen \cup {o}
        /\ UNCHANGED <<cow_refs, cow_free, cow_at, cow_frame, cow_want>>
    BY <1>1, <1>4, <2>1 DEF ksm64_scan
  <2>4. e \in KsmEntry
    <3>1. cow_frame[o] \in PageData \cup {0} /\ o \in 0 .. CowFrames  BY Paging64Assumption DEF CowInv
    <3> QED BY <3>1 DEF KsmEntry
  <2>5. /\ ksm_tab' \in [1 .. KSM64_MAX -> KsmEntry] /\ ksm_tab'[i] = e
        /\ \A j \in 1 .. KSM64_MAX : j # i => ksm_tab'[j] = ksm_tab[j]
    BY <2>2, <2>3, <2>4 DEF CowInv
  <2>6. \A j : j \in Taken(ksm_tab)' <=> j = i \/ j \in Taken(ksm_tab)
    <3>1. DOMAIN ksm_tab = 1 .. KSM64_MAX /\ DOMAIN ksm_tab' = 1 .. KSM64_MAX  BY <2>5 DEF CowInv
    <3>2. ksm_tab'[i].used  BY <2>5
    <3>3. \A j : j \in Taken(ksm_tab)' <=> j \in DOMAIN ksm_tab' /\ ksm_tab'[j].used  BY DEF Taken
    <3>4. \A j : j \in Taken(ksm_tab) <=> j \in DOMAIN ksm_tab /\ ksm_tab[j].used  BY DEF Taken
    <3> TAKE j
    <3>5. CASE j = i  BY <2>2, <3>1, <3>2, <3>3, <3>5
    <3>6. CASE j # i  BY <2>5, <3>1, <3>3, <3>4, <3>6
    <3> QED BY <3>5, <3>6
  <2>7. \A j \in Taken(ksm_tab) : j # i /\ j \in 1 .. KSM64_MAX  BY <2>2 DEF Taken, CowInv
  <2>8. \A f \in ksm_frozen' : f \notin cow_free /\ \E j \in Taken(ksm_tab)' : ksm_tab'[j].frame = f
    <3> TAKE f \in ksm_frozen'
    <3>1. CASE f = o  BY <1>1, <2>5, <2>6, <3>1 DEF CowInv
    <3>2. CASE f # o
      <4>1. f \in ksm_frozen  BY <2>3, <3>2
      <4>2. PICK j \in Taken(ksm_tab) : ksm_tab[j].frame = f  BY <4>1 DEF CowInv
      <4>3. j \in Taken(ksm_tab)' /\ ksm_tab'[j].frame = f  BY <2>5, <2>6, <2>7, <4>2
      <4> QED BY <4>1, <4>3 DEF CowInv
    <3> QED BY <3>1, <3>2
  <2>9. \A j \in Taken(ksm_tab)' :
           ksm_tab'[j].frame \in ksm_frozen' /\ ksm_tab'[j].hash = cow_frame[ksm_tab'[j].frame]
    BY <2>3, <2>5, <2>6, <2>7 DEF CowInv
  <2>10. \A j \in Taken(ksm_tab) : ksm_tab[j].hash = cow_frame[o] => ksm_tab[j].frame = o  BY <1>4 DEF KsmTwins
  <2>11. \A j, k \in Taken(ksm_tab)' :
            ksm_tab'[j].hash = ksm_tab'[k].hash => ksm_tab'[j].frame = ksm_tab'[k].frame
    BY <2>5, <2>6, <2>7, <2>10 DEF CowInv
  <2>12. ksm_frozen' \subseteq 1 .. CowFrames  BY <2>3 DEF CowInv
  <2>13. \A f \in 1 .. CowFrames : MapsTo(f)' = MapsTo(f)  BY <2>3 DEF MapsTo
  <2>14. \A f \in 1 .. CowFrames : Cardinality(MapsTo(f)') <= cow_refs'[f]  BY <2>3, <2>13 DEF CowInv
  <2>15. /\ cow_free' \subseteq 1 .. CowFrames
         /\ cow_frame' \in [1 .. CowFrames -> PageData \cup {0}]
         /\ cow_refs' \in [1 .. CowFrames -> Nat]
         /\ cow_at' \in [CowPages -> 0 .. CowFrames]
         /\ cow_want' \in [CowPages -> PageData \cup {0}]
         /\ \A q \in CowPages : cow_at'[q] \notin cow_free'
         /\ \A q \in CowPages : cow_at'[q] # 0 => cow_frame'[cow_at'[q]] = cow_want'[q]
    BY <2>3 DEF CowInv
  <2>16. \A f \in ksm_frozen' : f \notin cow_free' /\ \E j \in Taken(ksm_tab)' : ksm_tab'[j].frame = f
    BY <2>3, <2>8
  <2>17. \A j \in Taken(ksm_tab)' :
            ksm_tab'[j].frame \in ksm_frozen' /\ ksm_tab'[j].hash = cow_frame'[ksm_tab'[j].frame]
    BY <2>3, <2>9
  <2>18. ksm_tab' \in [1 .. KSM64_MAX -> KsmEntry]  BY <2>5
  <2> HIDE DEF e
  <2> QED BY <2>11, <2>12, <2>14, <2>15, <2>16, <2>17, <2>18 DEF CowInv
<1> QED BY <1>3, <1>4

LEMMA CowKept == ASSUME CowInv, CowNext PROVE CowInv'
BY CowMapKept, CowShareKept, CowResolveKept, CowUnmapKept, KsmScanKept DEF CowNext

LEMMA CowHolds == ASSUME CowInv PROVE SharersApart /\ CowCounted
<1>1. SharersApart  BY DEF CowInv, SharersApart
<1>2. ASSUME NEW f \in 1 .. CowFrames
      PROVE  LET mapped == {p \in CowPages : cow_at[p] = f}
             IN mapped # {} => f \notin cow_free /\ cow_refs[f] >= Cardinality(mapped)
  <2>1. Cardinality(MapsTo(f)) <= cow_refs[f] /\ Cardinality(MapsTo(f)) \in Nat /\ cow_refs[f] \in Nat
    BY MappersCounted DEF CowInv
  <2>2. MapsTo(f) # {} => f \notin cow_free  BY DEF MapsTo, CowInv
  <2> QED BY <2>1, <2>2 DEF MapsTo
<1>3. CowCounted  BY <1>2 DEF CowCounted
<1> QED BY <1>1, <1>3

------------------------------
(* Inodes and descriptors.                                                 *)

\* The strengthening of DescriptorsRead: numbers are given once and not
\* ahead of the counters, an inode holds what was written to its number,
\* the inode of a descriptor is there.
VnodeEntry == [used : BOOLEAN, ino : Nat, val : VfsValues \cup {0}]
FdEntry == [used : BOOLEAN, fd : Nat, ino : Nat]
VfsInv ==
    /\ v_inodes \in [1 .. VFS_INODES -> VnodeEntry] /\ v_fds \in [1 .. VFS_FDS -> FdEntry]
    /\ v_ino_ctr \in Nat /\ v_fd_ctr \in Nat
    /\ v_owed \in [1 .. VfsNumbers -> VfsValues \cup {0}]
    /\ \A i \in 1 .. VFS_INODES : v_inodes[i].used =>
          /\ v_inodes[i].ino \in 1 .. VfsNumbers /\ v_inodes[i].ino <= v_ino_ctr
          /\ v_inodes[i].val = v_owed[v_inodes[i].ino]
    /\ \A i, j \in 1 .. VFS_INODES :
          v_inodes[i].used /\ v_inodes[j].used /\ v_inodes[i].ino = v_inodes[j].ino => i = j
    /\ \A i \in 1 .. VFS_FDS : v_fds[i].used =>
          /\ v_fds[i].fd <= v_fd_ctr
          /\ \E j \in 1 .. VFS_INODES : v_inodes[j].used /\ v_inodes[j].ino = v_fds[i].ino
    /\ \A i, j \in 1 .. VFS_FDS :
          v_fds[i].used /\ v_fds[j].used /\ v_fds[i].fd = v_fds[j].fd => i = j
    /\ \A n \in 1 .. VfsNumbers : n > v_ino_ctr => v_owed[n] = 0

LEMMA VfsStarts == vfs64_init => VfsInv
BY Storage64Assumption DEF vfs64_init, VfsInv, VnodeEntry, FdEntry, NoVnode, NoFd

LEMMA FindIno ==
  ASSUME VfsInv, NEW n
  PROVE  /\ find_ino(n) # 0 => /\ find_ino(n) \in 1 .. VFS_INODES
                               /\ v_inodes[find_ino(n)].used /\ v_inodes[find_ino(n)].ino = n
         /\ find_ino(n) = 0 => \A i \in 1 .. VFS_INODES : ~(v_inodes[i].used /\ v_inodes[i].ino = n)
<1> DEFINE S == {i \in Taken(v_inodes) : v_inodes[i].ino = n}
<1>1. S = {i \in 1 .. VFS_INODES : v_inodes[i].used /\ v_inodes[i].ino = n}  BY DEF Taken, VfsInv
<1>2. (FirstOf(S) = 0 <=> S = {}) /\ (S # {} => FirstOf(S) \in S)  BY <1>1, FirstMatch
<1>3. find_ino(n) = FirstOf(S)  BY DEF find_ino
<1> HIDE DEF S
<1> QED BY <1>1, <1>2, <1>3

LEMMA FindFd ==
  ASSUME VfsInv, NEW d
  PROVE  /\ find_fd(d) # 0 => /\ find_fd(d) \in 1 .. VFS_FDS
                              /\ v_fds[find_fd(d)].used /\ v_fds[find_fd(d)].fd = d
         /\ find_fd(d) = 0 => \A i \in 1 .. VFS_FDS : ~(v_fds[i].used /\ v_fds[i].fd = d)
<1> DEFINE S == {i \in Taken(v_fds) : v_fds[i].fd = d}
<1>1. S = {i \in 1 .. VFS_FDS : v_fds[i].used /\ v_fds[i].fd = d}  BY DEF Taken, VfsInv
<1>2. (FirstOf(S) = 0 <=> S = {}) /\ (S # {} => FirstOf(S) \in S)  BY <1>1, FirstMatch
<1>3. find_fd(d) = FirstOf(S)  BY DEF find_fd
<1> HIDE DEF S
<1> QED BY <1>1, <1>2, <1>3

LEMMA VfsCreateKept == ASSUME VfsInv, vfs64_create PROVE VfsInv'
<1>1. PICK k \in 1 .. VFS_INODES : k = FirstFree(v_inodes) /\ ~v_inodes[k].used
  <2>1. DOMAIN v_inodes = 1 .. VFS_INODES /\ FirstFree(v_inodes) # 0  BY DEF VfsInv, vfs64_create
  <2> QED BY <2>1, FreeSlot
<1> DEFINE e == [used |-> TRUE, ino |-> v_ino_ctr + 1, val |-> 0]
<1>2. /\ v_ino_ctr' = v_ino_ctr + 1 /\ v_ino_ctr < VfsNumbers
      /\ v_inodes' = [v_inodes EXCEPT ![k] = e] /\ UNCHANGED <<v_fds, v_fd_ctr, v_owed>>
  BY <1>1 DEF vfs64_create
<1>3. v_ino_ctr + 1 \in 1 .. VfsNumbers /\ v_ino_ctr' \in Nat
  <2>1. VfsNumbers \in Nat /\ v_ino_ctr \in Nat  BY Storage64Assumption DEF VfsInv
  <2> QED BY <1>2, <2>1
<1>4. /\ v_inodes' \in [1 .. VFS_INODES -> VnodeEntry] /\ v_inodes'[k] = e
      /\ \A i \in 1 .. VFS_INODES : i # k => v_inodes'[i] = v_inodes[i]
  <2>1. e \in VnodeEntry  BY <1>3 DEF VnodeEntry, VfsInv
  <2> QED BY <1>2, <2>1 DEF VfsInv
<1>5. e.used /\ e.ino = v_ino_ctr + 1 /\ e.val = 0  OBVIOUS
<1> HIDE DEF e
<1>6. \A i \in 1 .. VFS_INODES : i # k /\ v_inodes'[i].used => v_inodes[i].ino <= v_ino_ctr /\ v_inodes[i].ino \in Nat
  BY <1>4 DEF VfsInv, VnodeEntry
<1>7. \A i \in 1 .. VFS_INODES : v_inodes'[i].used =>
          /\ v_inodes'[i].ino \in 1 .. VfsNumbers /\ v_inodes'[i].ino <= v_ino_ctr'
          /\ v_inodes'[i].val = v_owed'[v_inodes'[i].ino]
  <2> TAKE i \in 1 .. VFS_INODES
  <2>1. CASE i = k  BY <1>2, <1>3, <1>4, <1>5, <2>1 DEF VfsInv
  <2>2. CASE i # k  BY <1>2, <1>4, <1>6, <2>2 DEF VfsInv
  <2> QED BY <2>1, <2>2
<1>8. \A i, j \in 1 .. VFS_INODES :
          v_inodes'[i].used /\ v_inodes'[j].used /\ v_inodes'[i].ino = v_inodes'[j].ino => i = j
  BY <1>4, <1>5, <1>6 DEF VfsInv
<1>9. \A i \in 1 .. VFS_FDS : v_fds[i].used =>
          \E j \in 1 .. VFS_INODES : v_inodes'[j].used /\ v_inodes'[j].ino = v_fds[i].ino
  <2> SUFFICES ASSUME NEW i \in 1 .. VFS_FDS, v_fds[i].used
               PROVE  \E j \in 1 .. VFS_INODES : v_inodes'[j].used /\ v_inodes'[j].ino = v_fds[i].ino
    OBVIOUS
  <2>1. PICK j \in 1 .. VFS_INODES : v_inodes[j].used /\ v_inodes[j].ino = v_fds[i].ino  BY DEF VfsInv
  <2>2. v_inodes'[j] = v_inodes[j]  BY <1>1, <1>4, <2>1
  <2> QED BY <2>1, <2>2
<1>10. \A n \in 1 .. VfsNumbers : n > v_ino_ctr' => v_owed'[n] = 0  BY <1>2 DEF VfsInv
<1>11. /\ v_fds' \in [1 .. VFS_FDS -> FdEntry] /\ v_fd_ctr' \in Nat
       /\ v_owed' \in [1 .. VfsNumbers -> VfsValues \cup {0}]
       /\ \A i \in 1 .. VFS_FDS : v_fds'[i].used => v_fds'[i].fd <= v_fd_ctr'
       /\ \A i, j \in 1 .. VFS_FDS :
             v_fds'[i].used /\ v_fds'[j].used /\ v_fds'[i].fd = v_fds'[j].fd => i = j
  BY <1>2 DEF VfsInv
<1>12. v_fds' = v_fds  BY <1>2
<1> QED BY <1>3, <1>4, <1>7, <1>8, <1>9, <1>10, <1>11, <1>12 DEF VfsInv

LEMMA VfsUnlinkKept == ASSUME VfsInv, NEW n \in 1 .. VfsNumbers, vfs64_unlink(n) PROVE VfsInv'
<1>1. PICK k \in 1 .. VFS_INODES : k = find_ino(n) /\ v_inodes[k].used /\ v_inodes[k].ino = n
  BY FindIno DEF vfs64_unlink
<1>2. /\ v_inodes' = [v_inodes EXCEPT ![k] = NoVnode]
      /\ UNCHANGED <<v_fds, v_ino_ctr, v_fd_ctr, v_owed>>
  BY <1>1 DEF vfs64_unlink
<1>3. /\ v_inodes' \in [1 .. VFS_INODES -> VnodeEntry] /\ ~v_inodes'[k].used
      /\ \A i \in 1 .. VFS_INODES : i # k => v_inodes'[i] = v_inodes[i]
  <2>1. NoVnode \in VnodeEntry /\ ~NoVnode.used  BY DEF NoVnode, VnodeEntry
  <2> QED BY <1>2, <2>1 DEF VfsInv
<1>4. \A i \in 1 .. VFS_FDS : v_fds[i].used => v_fds[i].ino # n  BY DEF vfs64_unlink, ino_busy, Taken, VfsInv
<1>5. \A i \in 1 .. VFS_FDS : v_fds[i].used =>
          \E j \in 1 .. VFS_INODES : v_inodes'[j].used /\ v_inodes'[j].ino = v_fds[i].ino
  <2> SUFFICES ASSUME NEW i \in 1 .. VFS_FDS, v_fds[i].used
               PROVE  \E j \in 1 .. VFS_INODES : v_inodes'[j].used /\ v_inodes'[j].ino = v_fds[i].ino
    OBVIOUS
  <2>1. PICK j \in 1 .. VFS_INODES : v_inodes[j].used /\ v_inodes[j].ino = v_fds[i].ino  BY DEF VfsInv
  <2>2. v_inodes'[j] = v_inodes[j]  BY <1>1, <1>3, <1>4, <2>1
  <2> QED BY <2>1, <2>2
<1>6. \A i \in 1 .. VFS_INODES : v_inodes'[i].used => v_inodes[i].used /\ v_inodes'[i] = v_inodes[i]  BY <1>3
<1> QED BY <1>2, <1>3, <1>5, <1>6 DEF VfsInv

LEMMA VfsOpenKept == ASSUME VfsInv, NEW n \in 1 .. VfsNumbers, vfs64_open(n) PROVE VfsInv'
<1>1. PICK k \in 1 .. VFS_FDS : k = FirstFree(v_fds) /\ ~v_fds[k].used
  <2>1. DOMAIN v_fds = 1 .. VFS_FDS /\ FirstFree(v_fds) # 0  BY DEF VfsInv, vfs64_open
  <2> QED BY <2>1, FreeSlot
<1>2. PICK m \in 1 .. VFS_INODES : v_inodes[m].used /\ v_inodes[m].ino = n  BY FindIno DEF vfs64_open
<1> DEFINE e == [used |-> TRUE, fd |-> v_fd_ctr + 1, ino |-> n]
<1>3. /\ v_fd_ctr' = v_fd_ctr + 1 /\ v_fds' = [v_fds EXCEPT ![k] = e]
      /\ UNCHANGED <<v_inodes, v_ino_ctr, v_owed>>
  BY <1>1 DEF vfs64_open
<1>4. /\ v_fds' \in [1 .. VFS_FDS -> FdEntry] /\ v_fds'[k] = e
      /\ \A i \in 1 .. VFS_FDS : i # k => v_fds'[i] = v_fds[i]
  <2>1. e \in FdEntry  BY DEF FdEntry, VfsInv
  <2> QED BY <1>3, <2>1 DEF VfsInv
<1>5. e.fd = v_fd_ctr + 1 /\ e.ino = n  OBVIOUS
<1> HIDE DEF e
<1>6. \A i \in 1 .. VFS_FDS : i # k /\ v_fds'[i].used => v_fds[i].fd <= v_fd_ctr /\ v_fds[i].fd \in Nat
  BY <1>4 DEF VfsInv, FdEntry
<1>7. \A i \in 1 .. VFS_FDS : v_fds'[i].used =>
          /\ v_fds'[i].fd <= v_fd_ctr'
          /\ \E j \in 1 .. VFS_INODES : v_inodes[j].used /\ v_inodes[j].ino = v_fds'[i].ino
  <2> TAKE i \in 1 .. VFS_FDS
  <2>1. CASE i = k  BY <1>2, <1>3, <1>4, <1>5, <2>1 DEF VfsInv
  <2>2. CASE i # k  BY <1>3, <1>4, <1>6, <2>2 DEF VfsInv
  <2> QED BY <2>1, <2>2
<1>8. \A i, j \in 1 .. VFS_FDS :
          v_fds'[i].used /\ v_fds'[j].used /\ v_fds'[i].fd = v_fds'[j].fd => i = j
  BY <1>4, <1>5, <1>6 DEF VfsInv
<1>9. v_fd_ctr' \in Nat  BY <1>3 DEF VfsInv
<1> QED BY <1>3, <1>4, <1>7, <1>8, <1>9 DEF VfsInv

LEMMA VfsCloseKept == ASSUME VfsInv, NEW d, vfs64_close(d) PROVE VfsInv'
<1>1. PICK k \in 1 .. VFS_FDS : k = find_fd(d)  BY FindFd DEF vfs64_close
<1>2. v_fds' = [v_fds EXCEPT ![k] = NoFd] /\ UNCHANGED <<v_inodes, v_ino_ctr, v_fd_ctr, v_owed>>
  BY <1>1 DEF vfs64_close
<1>3. /\ v_fds' \in [1 .. VFS_FDS -> FdEntry] /\ ~v_fds'[k].used
      /\ \A i \in 1 .. VFS_FDS : i # k => v_fds'[i] = v_fds[i]
  <2>1. NoFd \in FdEntry /\ ~NoFd.used  BY DEF NoFd, FdEntry
  <2> QED BY <1>2, <2>1 DEF VfsInv
<1>4. \A i \in 1 .. VFS_FDS : v_fds'[i].used => v_fds[i].used /\ v_fds'[i] = v_fds[i]  BY <1>3
<1> QED BY <1>2, <1>3, <1>4 DEF VfsInv

LEMMA VfsWriteKept ==
  ASSUME VfsInv, NEW d, NEW x \in VfsValues, vfs64_write(d, x)
  PROVE  VfsInv'
<1>1. PICK n : n = v_fds[find_fd(d)].ino  OBVIOUS
<1>2. PICK k \in 1 .. VFS_INODES : k = find_ino(n) /\ v_inodes[k].used /\ v_inodes[k].ino = n
  BY <1>1, FindIno DEF vfs64_write
<1>3. /\ v_inodes' = [v_inodes EXCEPT ![k].val = x] /\ v_owed' = [v_owed EXCEPT ![n] = x]
      /\ UNCHANGED <<v_fds, v_ino_ctr, v_fd_ctr>>
  BY <1>1, <1>2 DEF vfs64_write
<1>4. v_inodes[k] \in VnodeEntry  BY DEF VfsInv
<1>5. /\ v_inodes' \in [1 .. VFS_INODES -> VnodeEntry]
      /\ v_inodes'[k].used /\ v_inodes'[k].ino = n /\ v_inodes'[k].val = x
      /\ \A i \in 1 .. VFS_INODES : i # k => v_inodes'[i] = v_inodes[i]
  BY <1>2, <1>3, <1>4 DEF VfsInv, VnodeEntry
<1>6. n \in 1 .. VfsNumbers /\ n <= v_ino_ctr  BY <1>2 DEF VfsInv
<1>7. v_owed' \in [1 .. VfsNumbers -> VfsValues \cup {0}] /\ v_owed'[n] = x
      /\ \A m \in 1 .. VfsNumbers : m # n => v_owed'[m] = v_owed[m]
  BY <1>3, <1>6 DEF VfsInv
<1>8. \A i \in 1 .. VFS_INODES : (v_inodes'[i].used <=> v_inodes[i].used) /\ v_inodes'[i].ino = v_inodes[i].ino
  BY <1>2, <1>5
<1>9. \A i \in 1 .. VFS_INODES : i # k /\ v_inodes[i].used => v_inodes[i].ino # n  BY <1>2 DEF VfsInv
<1>10. \A i \in 1 .. VFS_INODES : v_inodes'[i].used => v_inodes'[i].val = v_owed'[v_inodes'[i].ino]
  <2> TAKE i \in 1 .. VFS_INODES
  <2>1. CASE i = k  BY <1>5, <1>7, <2>1
  <2>2. CASE i # k  BY <1>5, <1>7, <1>8, <1>9, <2>2 DEF VfsInv
  <2> QED BY <2>1, <2>2
<1>11. \A m \in 1 .. VfsNumbers : m > v_ino_ctr => v_owed'[m] = 0
  <2> TAKE m \in 1 .. VfsNumbers
  <2>1. m > v_ino_ctr => m # n  BY <1>6 DEF VfsInv
  <2> QED BY <1>7, <2>1 DEF VfsInv
<1> QED BY <1>3, <1>5, <1>7, <1>8, <1>10, <1>11 DEF VfsInv

LEMMA VfsKept == ASSUME VfsInv, VfsNext PROVE VfsInv'
BY VfsCreateKept, VfsUnlinkKept, VfsOpenKept, VfsCloseKept, VfsWriteKept DEF VfsNext

LEMMA VfsHolds == ASSUME VfsInv PROVE DescriptorsRead
<1> SUFFICES ASSUME NEW i \in Taken(v_fds) PROVE vfs64_read(v_fds[i].fd) = v_owed[v_fds[i].ino]
  BY DEF DescriptorsRead
<1>1. i \in 1 .. VFS_FDS /\ v_fds[i].used  BY DEF Taken, VfsInv
<1>2. find_fd(v_fds[i].fd) = i  BY <1>1, FindFd DEF VfsInv
<1>3. PICK k : k = find_ino(v_fds[i].ino)  OBVIOUS
<1>4. k # 0 /\ k \in 1 .. VFS_INODES /\ v_inodes[k].used /\ v_inodes[k].ino = v_fds[i].ino
  BY <1>1, <1>3, FindIno DEF VfsInv
<1> QED BY <1>2, <1>3, <1>4 DEF vfs64_read, VfsInv

------------------------------
(* Dirty blocks.                                                           *)

\* The strengthening of SyncedLast: a block is in the table once, with
\* what it was last marked with.
FsyncInv ==
    /\ DOMAIN fs_tab = 1 .. FSYNC64_MAX /\ fs_tab = [i \in 1 .. FSYNC64_MAX |-> fs_tab[i]]
    /\ fs_owed = [b \in SnapBlocks |-> fs_owed[b]]
    /\ \A i \in 1 .. FSYNC64_MAX : fs_tab[i].used =>
          fs_tab[i].block \in SnapBlocks /\ fs_tab[i].data = fs_owed[fs_tab[i].block]
    /\ \A i, j \in 1 .. FSYNC64_MAX :
          fs_tab[i].used /\ fs_tab[j].used /\ fs_tab[i].block = fs_tab[j].block => i = j
    /\ \A b \in SnapBlocks :
          (\A i \in 1 .. FSYNC64_MAX : ~(fs_tab[i].used /\ fs_tab[i].block = b)) => fs_dev[b] = fs_owed[b]

LEMMA FsyncStarts == FsyncInit => FsyncInv
BY DEF FsyncInit, FsyncInv, NoDirty

LEMMA DirtyPlace ==
  ASSUME FsyncInv, NEW b, DirtyAt(b) # 0
  PROVE  /\ DirtyAt(b) \in 1 .. FSYNC64_MAX
         /\ \A i \in 1 .. FSYNC64_MAX : fs_tab[i].used /\ fs_tab[i].block = b => i = DirtyAt(b)
         /\ fs_tab[DirtyAt(b)].used => fs_tab[DirtyAt(b)].block = b
<1> DEFINE S == {i \in Taken(fs_tab) : fs_tab[i].block = b}
<1>1. S = {i \in 1 .. FSYNC64_MAX : fs_tab[i].used /\ fs_tab[i].block = b}  BY DEF Taken, FsyncInv
<1>2. (FirstOf(S) = 0 <=> S = {}) /\ (S # {} => FirstOf(S) \in S)  BY <1>1, FirstMatch
<1>3. DirtyAt(b) = IF FirstOf(S) # 0 THEN FirstOf(S) ELSE FirstFree(fs_tab)  BY DEF DirtyAt
<1> HIDE DEF S
<1>4. CASE S # {}  BY <1>1, <1>2, <1>3, <1>4 DEF FsyncInv
<1>5. CASE S = {}
  <2>1. DirtyAt(b) = FirstFree(fs_tab) /\ DOMAIN fs_tab = 1 .. FSYNC64_MAX  BY <1>2, <1>3, <1>5 DEF FsyncInv
  <2>2. DirtyAt(b) \in 1 .. FSYNC64_MAX /\ ~fs_tab[DirtyAt(b)].used  BY <2>1, FreeSlot
  <2> QED BY <1>1, <1>5, <2>2
<1> QED BY <1>4, <1>5

LEMMA MarkKept ==
  ASSUME FsyncInv, NEW b \in SnapBlocks, NEW v, fsync64_mark_dirty(b, v)
  PROVE  FsyncInv'
<1>1. PICK k \in 1 .. FSYNC64_MAX : k = DirtyAt(b)  BY DirtyPlace DEF fsync64_mark_dirty
<1>2. /\ \A i \in 1 .. FSYNC64_MAX : fs_tab[i].used /\ fs_tab[i].block = b => i = k
      /\ fs_tab[k].used => fs_tab[k].block = b
  BY <1>1, DirtyPlace DEF fsync64_mark_dirty
<1> DEFINE e == [used |-> TRUE, block |-> b, data |-> v]
<1>3. fs_tab' = [fs_tab EXCEPT ![k] = e] /\ fs_owed' = [fs_owed EXCEPT ![b] = v] /\ fs_dev' = fs_dev
  BY <1>1 DEF fsync64_mark_dirty
<1>4. e.used /\ e.block = b /\ e.data = v  OBVIOUS
<1> HIDE DEF e
<1>5. /\ DOMAIN fs_tab' = 1 .. FSYNC64_MAX /\ fs_tab' = [i \in 1 .. FSYNC64_MAX |-> fs_tab'[i]]
      /\ fs_tab'[k] = e /\ \A i \in 1 .. FSYNC64_MAX : i # k => fs_tab'[i] = fs_tab[i]
  BY <1>3 DEF FsyncInv
<1>6. /\ fs_owed' = [c \in SnapBlocks |-> fs_owed'[c]] /\ fs_owed'[b] = v
      /\ \A c \in SnapBlocks : c # b => fs_owed'[c] = fs_owed[c]
  <2>1. DOMAIN fs_owed = SnapBlocks  BY DEF FsyncInv
  <2> QED BY <1>3, <2>1
<1>7. \A i \in 1 .. FSYNC64_MAX : fs_tab'[i].used =>
          fs_tab'[i].block \in SnapBlocks /\ fs_tab'[i].data = fs_owed'[fs_tab'[i].block]
  <2> TAKE i \in 1 .. FSYNC64_MAX
  <2>1. CASE i = k  BY <1>4, <1>5, <1>6, <2>1
  <2>2. CASE i # k  BY <1>2, <1>5, <1>6, <2>2 DEF FsyncInv
  <2> QED BY <2>1, <2>2
<1>8. \A i, j \in 1 .. FSYNC64_MAX :
          fs_tab'[i].used /\ fs_tab'[j].used /\ fs_tab'[i].block = fs_tab'[j].block => i = j
  BY <1>2, <1>4, <1>5 DEF FsyncInv
<1>9. ASSUME NEW c \in SnapBlocks, \A i \in 1 .. FSYNC64_MAX : ~(fs_tab'[i].used /\ fs_tab'[i].block = c)
      PROVE  fs_dev'[c] = fs_owed'[c]
  <2>1. c # b  BY <1>4, <1>5, <1>9
  <2>2. \A i \in 1 .. FSYNC64_MAX : ~(fs_tab[i].used /\ fs_tab[i].block = c)  BY <1>2, <1>5, <1>9, <2>1
  <2> QED BY <1>3, <1>6, <2>1, <2>2 DEF FsyncInv
<1> QED BY <1>5, <1>6, <1>7, <1>8, <1>9 DEF FsyncInv

LEMMA FsyncAllKept == ASSUME FsyncInv, fsync64_sync PROVE FsyncInv'
<1> DEFINE hits(b) == {i \in Taken(fs_tab) : fs_tab[i].block = b}
<1>1. /\ fs_dev' = [b \in SnapBlocks |-> IF hits(b) = {} THEN fs_dev[b] ELSE fs_tab[Max(hits(b))].data]
      /\ fs_tab' = [i \in 1 .. FSYNC64_MAX |-> NoDirty] /\ fs_owed' = fs_owed
  BY DEF fsync64_sync
<1>2. \A i \in 1 .. FSYNC64_MAX : ~fs_tab'[i].used  BY <1>1 DEF NoDirty
<1>3. \A b \in SnapBlocks : fs_dev'[b] = fs_owed[b]
  <2> TAKE b \in SnapBlocks
  <2>1. hits(b) = {i \in 1 .. FSYNC64_MAX : fs_tab[i].used /\ fs_tab[i].block = b}  BY DEF Taken, FsyncInv
  <2>2. CASE hits(b) = {}
    <3>1. fs_dev'[b] = fs_dev[b]  BY <1>1, <2>2
    <3> QED BY <2>1, <2>2, <3>1 DEF FsyncInv
  <2>3. CASE hits(b) # {}
    <3>1. PICK i \in 1 .. FSYNC64_MAX : fs_tab[i].used /\ fs_tab[i].block = b  BY <2>1, <2>3
    <3>2. hits(b) = {i}  BY <2>1, <3>1 DEF FsyncInv
    <3>3. Max({i}) = i  BY DEF Max
    <3>4. fs_dev'[b] = fs_tab[i].data  BY <1>1, <2>3, <3>2, <3>3
    <3> QED BY <3>1, <3>4 DEF FsyncInv
  <2> QED BY <2>2, <2>3
<1> HIDE DEF hits
<1> QED BY <1>1, <1>2, <1>3 DEF FsyncInv

LEMMA FsyncKept == ASSUME FsyncInv, FsyncNext PROVE FsyncInv'
BY MarkKept, FsyncAllKept DEF FsyncNext

LEMMA FsyncHolds == ASSUME FsyncInv PROVE SyncedLast
BY DEF FsyncInv, SyncedLast, Taken

------------------------------
(* Transactions by number and subvolumes.                                  *)

\* ReplayCounts is inductive: a transaction is counted when it is
\* committed, and all of them are cleared at once.
TxEntry == [tx : Nat, state : {"free", "active", "committed", "aborted"}]
Committed64 == {i \in 1 .. JRNL_MAX : jr_tab[i].state = "committed"}
JrnlInv ==
    /\ jr_tab \in [1 .. JRNL_MAX -> TxEntry] /\ jr_ctr \in Nat
    /\ jr_committed = Cardinality(Committed64)

LEMMA JrnlStarts == jrnl64_init => JrnlInv
<1> SUFFICES ASSUME jrnl64_init PROVE JrnlInv  OBVIOUS
<1>1. Committed64 = {}  BY DEF jrnl64_init, Committed64
<1>2. jr_tab \in [1 .. JRNL_MAX -> TxEntry] /\ jr_ctr \in Nat /\ jr_committed = 0  BY DEF jrnl64_init, TxEntry
<1> QED BY <1>1, <1>2, FS_EmptySet DEF JrnlInv

LEMMA FindTx ==
  ASSUME JrnlInv, NEW t, find_tx(t) # 0
  PROVE  find_tx(t) \in 1 .. JRNL_MAX
<1> DEFINE S == {i \in 1 .. JRNL_MAX : jr_tab[i].state # "free" /\ jr_tab[i].tx = t}
<1>1. (FirstOf(S) = 0 <=> S = {}) /\ (S # {} => FirstOf(S) \in S)  BY FirstMatch
<1> QED BY <1>1 DEF find_tx

LEMMA CommittedFinite == IsFiniteSet(Committed64)
<1>1. IsFiniteSet(1 .. JRNL_MAX)
  <2>1. JRNL_MAX \in Int  BY Storage64Assumption
  <2> QED BY <2>1, FS_Interval
<1> QED BY <1>1, FS_Subset DEF Committed64

\* One transaction changes its state.
LEMMA TxChanges ==
  ASSUME JrnlInv, NEW k \in 1 .. JRNL_MAX, NEW e \in TxEntry,
         jr_tab[k].state # "committed", jr_tab' = [jr_tab EXCEPT ![k] = e], jr_ctr' \in Nat,
         jr_committed' = IF e.state = "committed" THEN jr_committed + 1 ELSE jr_committed
  PROVE  JrnlInv'
<1>1. /\ jr_tab' \in [1 .. JRNL_MAX -> TxEntry] /\ jr_tab'[k] = e
      /\ \A i \in 1 .. JRNL_MAX : i # k => jr_tab'[i] = jr_tab[i]
  BY DEF JrnlInv
<1>2. CASE e.state = "committed"
  <2>1. Committed64' = Committed64 \cup {k} /\ k \notin Committed64  BY <1>1, <1>2 DEF Committed64
  <2>2. Cardinality(Committed64 \cup {k}) = Cardinality(Committed64) + 1
    BY <2>1, CommittedFinite, FS_AddElement
  <2> QED BY <1>1, <1>2, <2>1, <2>2 DEF JrnlInv
<1>3. CASE e.state # "committed"
  <2>1. Committed64' = Committed64  BY <1>1, <1>3 DEF Committed64
  <2> QED BY <1>1, <1>3, <2>1 DEF JrnlInv
<1> QED BY <1>2, <1>3

LEMMA JrnlKept == ASSUME JrnlInv, JrnlNext PROVE JrnlInv'
<1>1. ASSUME jrnl64_begin PROVE JrnlInv'
  <2> DEFINE free == {i \in 1 .. JRNL_MAX : jr_tab[i].state = "free"}
  <2>1. PICK k \in free : k = Min(free)
    <3>1. free \subseteq Nat /\ free # {}  BY <1>1 DEF jrnl64_begin
    <3> QED BY <3>1, LeastIsThere
  <2> DEFINE e == [tx |-> jr_ctr + 1, state |-> "active"]
  <2>2. jr_tab' = [jr_tab EXCEPT ![k] = e] /\ jr_ctr' = jr_ctr + 1 /\ jr_committed' = jr_committed
    BY <1>1, <2>1 DEF jrnl64_begin
  <2>3. e \in TxEntry /\ e.state # "committed" /\ jr_ctr' \in Nat  BY <2>2 DEF TxEntry, JrnlInv
  <2>4. k \in 1 .. JRNL_MAX /\ jr_tab[k].state # "committed"  BY <2>1
  <2> HIDE DEF e, free
  <2> QED BY <2>2, <2>3, <2>4, TxChanges
<1>2. ASSUME jrnl64_replay PROVE JrnlInv'
  <2>1. /\ jr_committed' = 0 /\ jr_ctr' = jr_ctr
        /\ jr_tab' = [i \in 1 .. JRNL_MAX |->
              IF jr_tab[i].state = "active" THEN jr_tab[i] ELSE [tx |-> 0, state |-> "free"]]
    BY <1>2 DEF jrnl64_replay
  <2>2. jr_tab' \in [1 .. JRNL_MAX -> TxEntry]
    <3>1. [tx |-> 0, state |-> "free"] \in TxEntry /\ \A i \in 1 .. JRNL_MAX : jr_tab[i] \in TxEntry
      BY DEF TxEntry, JrnlInv
    <3> QED BY <2>1, <3>1
  <2>3. Committed64' = {}  BY <2>1 DEF Committed64
  <2> QED BY <2>1, <2>2, <2>3, FS_EmptySet DEF JrnlInv
<1>3. ASSUME NEW t, NEW s \in {"committed", "aborted"}, Ends(t),
             jr_tab' = [jr_tab EXCEPT ![find_tx(t)].state = s],
             jr_committed' = IF s = "committed" THEN jr_committed + 1 ELSE jr_committed,
             jr_ctr' = jr_ctr
      PROVE  JrnlInv'
  <2>1. PICK k \in 1 .. JRNL_MAX : k = find_tx(t) /\ jr_tab[k].state = "active"  BY <1>3, FindTx DEF Ends
  <2>2. PICK e : e = [jr_tab[k] EXCEPT !.state = s]  OBVIOUS
  <2>3. jr_tab[k] \in TxEntry  BY DEF JrnlInv
  <2>4. e \in TxEntry /\ e.state = s  BY <2>2, <2>3 DEF TxEntry
  <2>5. jr_tab' = [jr_tab EXCEPT ![k] = e]  BY <1>3, <2>1, <2>2
  <2>6. jr_ctr' \in Nat  BY <1>3 DEF JrnlInv
  <2> QED BY <1>3, <2>1, <2>4, <2>5, <2>6, TxChanges
<1>4. ASSUME NEW t, jrnl64_commit(t) PROVE JrnlInv'  BY <1>3, <1>4 DEF jrnl64_commit
<1>5. ASSUME NEW t, jrnl64_abort(t) PROVE JrnlInv'  BY <1>3, <1>5 DEF jrnl64_abort
<1> QED BY <1>1, <1>2, <1>4, <1>5 DEF JrnlNext

LEMMA JrnlHolds == ASSUME JrnlInv PROVE ReplayCounts
BY DEF JrnlInv, ReplayCounts, Committed64

\* ParentsLive is inductive with the shape of the table: what has a child
\* stays.
SubvolInv ==
    /\ sv_tab = [i \in 1 .. BTRFS64_MAX |-> sv_tab[i]]
    /\ \A i \in 1 .. BTRFS64_MAX : sv_tab[i].used /\ sv_tab[i].parent # 0 =>
          \E j \in 1 .. BTRFS64_MAX : sv_tab[j].used /\ sv_tab[j].id = sv_tab[i].parent

LEMMA SubvolStarts == SubvolInit => SubvolInv
<1> SUFFICES ASSUME SubvolInit PROVE SubvolInv  OBVIOUS
<1>1. ~NoSubvol.used  BY DEF NoSubvol
<1>2. sv_tab = [i \in 1 .. BTRFS64_MAX |-> NoSubvol]  BY DEF SubvolInit
<1> QED BY <1>1, <1>2 DEF SubvolInv

LEMMA SubvolCreateKept ==
  ASSUME SubvolInv, NEW n, NEW parent, NEW ro, btrfs64_subvol_create(n, parent, ro),
         parent # 0 => \E j \in 1 .. BTRFS64_MAX : sv_tab[j].used /\ sv_tab[j].id = parent
  PROVE  SubvolInv'
<1>1. PICK k \in 1 .. BTRFS64_MAX : k = FirstFree(sv_tab) /\ ~sv_tab[k].used
  <2>1. DOMAIN sv_tab = 1 .. BTRFS64_MAX /\ FirstFree(sv_tab) # 0  BY DEF SubvolInv, btrfs64_subvol_create
  <2> QED BY <2>1, FreeSlot
<1> DEFINE e == [used |-> TRUE, name |-> n, readonly |-> ro, parent |-> parent, id |-> sv_next]
<1>2. sv_tab' = [sv_tab EXCEPT ![k] = e]  BY <1>1 DEF btrfs64_subvol_create
<1>3. e.used /\ e.parent = parent  OBVIOUS
<1> HIDE DEF e
<1>4. /\ sv_tab' = [i \in 1 .. BTRFS64_MAX |-> sv_tab'[i]] /\ sv_tab'[k] = e
      /\ \A i \in 1 .. BTRFS64_MAX : i # k => sv_tab'[i] = sv_tab[i]
  BY <1>2 DEF SubvolInv
<1>5. \A j \in 1 .. BTRFS64_MAX : sv_tab[j].used => sv_tab'[j] = sv_tab[j]  BY <1>1, <1>4
<1>6. ASSUME NEW i \in 1 .. BTRFS64_MAX, sv_tab'[i].used, sv_tab'[i].parent # 0
      PROVE  \E j \in 1 .. BTRFS64_MAX : sv_tab'[j].used /\ sv_tab'[j].id = sv_tab'[i].parent
  <2>1. PICK j \in 1 .. BTRFS64_MAX : sv_tab[j].used /\ sv_tab[j].id = sv_tab'[i].parent
    BY <1>3, <1>4, <1>6 DEF SubvolInv
  <2> QED BY <1>5, <2>1
<1> QED BY <1>4, <1>6 DEF SubvolInv

LEMMA SubvolDeleteKept ==
  ASSUME SubvolInv, NEW n, btrfs64_subvol_delete(n)
  PROVE  SubvolInv'
<1> DEFINE S == {i \in Taken(sv_tab) : sv_tab[i].name = n}
<1>1. S = {i \in 1 .. BTRFS64_MAX : sv_tab[i].used /\ sv_tab[i].name = n}  BY DEF Taken, SubvolInv
<1>2. (FirstOf(S) = 0 <=> S = {}) /\ (S # {} => FirstOf(S) \in S)  BY <1>1, FirstMatch
<1>3. PICK k \in 1 .. BTRFS64_MAX : k = btrfs_find(n)  BY <1>1, <1>2 DEF btrfs_find, btrfs64_subvol_delete
<1>4. sv_tab' = [sv_tab EXCEPT ![k] = NoSubvol] /\ ~HasChild(k)  BY <1>3 DEF btrfs64_subvol_delete
<1>5. /\ sv_tab' = [i \in 1 .. BTRFS64_MAX |-> sv_tab'[i]] /\ ~sv_tab'[k].used
      /\ \A i \in 1 .. BTRFS64_MAX : i # k => sv_tab'[i] = sv_tab[i]
  BY <1>4 DEF SubvolInv, NoSubvol
<1>6. \A i \in 1 .. BTRFS64_MAX : sv_tab[i].used => sv_tab[i].parent # sv_tab[k].id
  BY <1>4 DEF HasChild, Taken, SubvolInv
<1>7. ASSUME NEW i \in 1 .. BTRFS64_MAX, sv_tab'[i].used, sv_tab'[i].parent # 0
      PROVE  \E j \in 1 .. BTRFS64_MAX : sv_tab'[j].used /\ sv_tab'[j].id = sv_tab'[i].parent
  <2>1. i # k /\ sv_tab'[i] = sv_tab[i]  BY <1>5, <1>7
  <2>2. PICK j \in 1 .. BTRFS64_MAX : sv_tab[j].used /\ sv_tab[j].id = sv_tab[i].parent
    BY <1>7, <2>1 DEF SubvolInv
  <2>3. j # k  BY <1>6, <1>7, <2>1, <2>2
  <2> QED BY <1>5, <2>1, <2>2, <2>3
<1> QED BY <1>5, <1>7 DEF SubvolInv

LEMMA SubvolKept == ASSUME SubvolInv, SubvolNext PROVE SubvolInv'
<1>1. ASSUME NEW n, btrfs64_subvol_create(n, 0, FALSE) PROVE SubvolInv'  BY <1>1, SubvolCreateKept
<1>2. ASSUME NEW n, NEW i \in Taken(sv_tab), NEW ro, btrfs64_subvol_create(n, sv_tab[i].id, ro)
      PROVE  SubvolInv'
  <2>1. i \in 1 .. BTRFS64_MAX /\ sv_tab[i].used  BY DEF Taken, SubvolInv
  <2> QED BY <1>2, <2>1, SubvolCreateKept
<1> QED BY <1>1, <1>2, SubvolDeleteKept DEF SubvolNext

LEMMA SubvolHolds == ASSUME SubvolInv PROVE ParentsLive
<1>1. Taken(sv_tab) = {i \in 1 .. BTRFS64_MAX : sv_tab[i].used}  BY DEF Taken, SubvolInv
<1> QED BY <1>1 DEF SubvolInv, ParentsLive

------------------------------
(* Disks, partitions and range locks.                                      *)

\* The strengthening of DisksKeep: a number is given once, and nothing was
\* written to a disk that is yet to come.
Sectors64 == 0 .. BLK_SECTORS - 1
DiskEntry == [used : BOOLEAN, dev : Nat, n : Nat, data : [Sectors64 -> {0, 1}]]
DiskInv ==
    /\ bd_tab \in [1 .. BLK_MAX -> DiskEntry] /\ bd_ctr \in Nat /\ bd_ctr <= DiskNumbers
    /\ bd_owed \in [1 .. DiskNumbers -> [Sectors64 -> {0, 1}]]
    /\ \A i \in 1 .. BLK_MAX : bd_tab[i].used =>
          /\ bd_tab[i].dev \in 1 .. DiskNumbers /\ bd_tab[i].dev <= bd_ctr
          /\ bd_tab[i].n <= BLK_SECTORS
          /\ \A s \in Sectors64 : s < bd_tab[i].n => bd_tab[i].data[s] = bd_owed[bd_tab[i].dev][s]
    /\ \A i, j \in 1 .. BLK_MAX :
          bd_tab[i].used /\ bd_tab[j].used /\ bd_tab[i].dev = bd_tab[j].dev => i = j
    /\ \A d \in 1 .. DiskNumbers : d > bd_ctr => \A s \in Sectors64 : bd_owed[d][s] = 0

LEMMA DiskStarts == blk64_init => DiskInv
<1> SUFFICES ASSUME blk64_init PROVE DiskInv  OBVIOUS
<1>1. [s \in Sectors64 |-> 0] \in [Sectors64 -> {0, 1}]  OBVIOUS
<1>2. NoDisk \in DiskEntry /\ ~NoDisk.used  BY <1>1 DEF NoDisk, DiskEntry, Sectors64
<1>3. bd_tab = [i \in 1 .. BLK_MAX |-> NoDisk] /\ bd_ctr = 0
      /\ bd_owed = [d \in 1 .. DiskNumbers |-> [s \in Sectors64 |-> 0]]
  BY DEF blk64_init, Sectors64
<1>4. DiskNumbers \in Nat  BY Storage64Assumption
<1> QED BY <1>1, <1>2, <1>3, <1>4 DEF DiskInv

LEMMA FindBlk ==
  ASSUME DiskInv, NEW d, find_blk(d) # 0
  PROVE  /\ find_blk(d) \in 1 .. BLK_MAX
         /\ bd_tab[find_blk(d)].used /\ bd_tab[find_blk(d)].dev = d
<1> DEFINE S == {i \in Taken(bd_tab) : bd_tab[i].dev = d}
<1>1. S = {i \in 1 .. BLK_MAX : bd_tab[i].used /\ bd_tab[i].dev = d}  BY DEF Taken, DiskInv
<1>2. (FirstOf(S) = 0 <=> S = {}) /\ (S # {} => FirstOf(S) \in S)  BY <1>1, FirstMatch
<1>3. find_blk(d) = FirstOf(S)  BY DEF find_blk
<1> HIDE DEF S
<1> QED BY <1>1, <1>2, <1>3

LEMMA DiskCreateKept ==
  ASSUME DiskInv, NEW n \in 1 .. BLK_SECTORS, blk64_create(n)
  PROVE  DiskInv'
<1>1. PICK k \in 1 .. BLK_MAX : k = FirstFree(bd_tab) /\ ~bd_tab[k].used
  <2>1. DOMAIN bd_tab = 1 .. BLK_MAX /\ FirstFree(bd_tab) # 0  BY DEF DiskInv, blk64_create
  <2> QED BY <2>1, FreeSlot
<1> DEFINE w == Wiped(bd_tab[k].data, n)
           e == [used |-> TRUE, dev |-> bd_ctr + 1, n |-> n, data |-> w]
<1>2. bd_ctr < DiskNumbers /\ bd_ctr' = bd_ctr + 1 /\ bd_tab' = [bd_tab EXCEPT ![k] = e] /\ bd_owed' = bd_owed
  BY <1>1 DEF blk64_create
<1>3. bd_tab[k] \in DiskEntry /\ DiskNumbers \in Nat /\ BLK_SECTORS \in Nat /\ bd_ctr \in Nat
  BY Storage64Assumption DEF DiskInv
<1>4. w \in [Sectors64 -> {0, 1}] /\ \A s \in Sectors64 : s < n => w[s] = 0
  <2>1. bd_tab[k].data \in [Sectors64 -> {0, 1}]  BY <1>3 DEF DiskEntry
  <2>2. w = [s \in Sectors64 |-> IF s < n THEN 0 ELSE bd_tab[k].data[s]]  BY DEF Wiped, Sectors64
  <2> QED BY <2>1, <2>2
<1> HIDE DEF w
<1>5. n \in Nat /\ n <= BLK_SECTORS  BY <1>3
<1>6. e \in DiskEntry /\ e.used /\ e.dev = bd_ctr + 1 /\ e.n = n /\ e.data = w
  BY <1>3, <1>4, <1>5 DEF DiskEntry
<1> HIDE DEF e
<1>7. /\ bd_tab' \in [1 .. BLK_MAX -> DiskEntry] /\ bd_tab'[k] = e
      /\ \A i \in 1 .. BLK_MAX : i # k => bd_tab'[i] = bd_tab[i]
  BY <1>2, <1>6 DEF DiskInv
<1>8. bd_ctr + 1 \in 1 .. DiskNumbers /\ \A s \in Sectors64 : bd_owed[bd_ctr + 1][s] = 0
  BY <1>2, <1>3 DEF DiskInv
<1>9. \A i \in 1 .. BLK_MAX : i # k /\ bd_tab'[i].used => bd_tab[i].dev <= bd_ctr /\ bd_tab[i].dev \in Nat
  BY <1>7 DEF DiskInv, DiskEntry
<1>10. \A i \in 1 .. BLK_MAX : bd_tab'[i].used =>
          /\ bd_tab'[i].dev \in 1 .. DiskNumbers /\ bd_tab'[i].dev <= bd_ctr'
          /\ bd_tab'[i].n <= BLK_SECTORS
          /\ \A s \in Sectors64 : s < bd_tab'[i].n => bd_tab'[i].data[s] = bd_owed'[bd_tab'[i].dev][s]
  <2> TAKE i \in 1 .. BLK_MAX
  <2>1. CASE i = k  BY <1>2, <1>3, <1>4, <1>5, <1>6, <1>7, <1>8, <2>1
  <2>2. CASE i # k  BY <1>2, <1>3, <1>7, <1>9, <2>2 DEF DiskInv
  <2> QED BY <2>1, <2>2
<1>11. \A i, j \in 1 .. BLK_MAX :
          bd_tab'[i].used /\ bd_tab'[j].used /\ bd_tab'[i].dev = bd_tab'[j].dev => i = j
  BY <1>3, <1>6, <1>7, <1>9 DEF DiskInv
<1>12. \A d \in 1 .. DiskNumbers : d > bd_ctr' => \A s \in Sectors64 : bd_owed'[d][s] = 0
  BY <1>2, <1>3 DEF DiskInv
<1>13. bd_ctr' \in Nat /\ bd_ctr' <= DiskNumbers  BY <1>2, <1>3
<1> QED BY <1>2, <1>7, <1>10, <1>11, <1>12, <1>13 DEF DiskInv

LEMMA DiskDestroyKept == ASSUME DiskInv, NEW d, blk64_destroy(d) PROVE DiskInv'
<1>1. PICK k \in 1 .. BLK_MAX : k = find_blk(d)  BY FindBlk DEF blk64_destroy
<1>2. bd_tab' = [bd_tab EXCEPT ![k] = [NoDisk EXCEPT !.data = bd_tab[k].data]]
      /\ bd_ctr' = bd_ctr /\ bd_owed' = bd_owed
  BY <1>1 DEF blk64_destroy
<1>3. bd_tab[k].data \in [Sectors64 -> {0, 1}]  BY DEF DiskInv, DiskEntry
<1>4. [NoDisk EXCEPT !.data = bd_tab[k].data] \in DiskEntry /\ ~[NoDisk EXCEPT !.data = bd_tab[k].data].used
  BY <1>3 DEF NoDisk, DiskEntry
<1>5. /\ bd_tab' \in [1 .. BLK_MAX -> DiskEntry] /\ ~bd_tab'[k].used
      /\ \A i \in 1 .. BLK_MAX : i # k => bd_tab'[i] = bd_tab[i]
  BY <1>2, <1>4 DEF DiskInv
<1>6. \A i \in 1 .. BLK_MAX : bd_tab'[i].used => bd_tab[i].used /\ bd_tab'[i] = bd_tab[i]  BY <1>5
<1> QED BY <1>2, <1>5, <1>6 DEF DiskInv

LEMMA DiskWriteKept ==
  ASSUME DiskInv, NEW d \in 1 .. DiskNumbers, NEW s \in Sectors64, blk64_write(d, s, 1)
  PROVE  DiskInv'
<1>1. PICK k \in 1 .. BLK_MAX : k = find_blk(d) /\ bd_tab[k].used /\ bd_tab[k].dev = d
  BY FindBlk DEF blk64_write
<1>2. bd_tab' = [bd_tab EXCEPT ![k].data[s] = 1] /\ bd_owed' = [bd_owed EXCEPT ![d][s] = 1] /\ bd_ctr' = bd_ctr
  BY <1>1 DEF blk64_write
<1>3. bd_tab[k] \in DiskEntry /\ bd_tab[k].data \in [Sectors64 -> {0, 1}]  BY DEF DiskInv, DiskEntry
<1>4. PICK e : e = [bd_tab[k] EXCEPT !.data = [bd_tab[k].data EXCEPT ![s] = 1]]  OBVIOUS
<1>5. /\ e \in DiskEntry /\ e.used /\ e.dev = d /\ e.n = bd_tab[k].n /\ e.data[s] = 1
      /\ \A x \in Sectors64 : x # s => e.data[x] = bd_tab[k].data[x]
  <2>1. [bd_tab[k].data EXCEPT ![s] = 1] \in [Sectors64 -> {0, 1}]  BY <1>3
  <2> QED BY <1>1, <1>3, <1>4, <2>1 DEF DiskEntry
<1>6. bd_tab' = [bd_tab EXCEPT ![k] = e]  BY <1>2, <1>4
<1>7. /\ bd_tab' \in [1 .. BLK_MAX -> DiskEntry] /\ bd_tab'[k] = e
      /\ \A i \in 1 .. BLK_MAX : i # k => bd_tab'[i] = bd_tab[i]
  BY <1>5, <1>6 DEF DiskInv
<1>8. bd_owed[d] \in [Sectors64 -> {0, 1}]  BY DEF DiskInv
<1>9. /\ bd_owed' \in [1 .. DiskNumbers -> [Sectors64 -> {0, 1}]] /\ bd_owed'[d][s] = 1
      /\ \A x \in Sectors64 : x # s => bd_owed'[d][x] = bd_owed[d][x]
      /\ \A c \in 1 .. DiskNumbers : c # d => bd_owed'[c] = bd_owed[c]
  BY <1>2, <1>8 DEF DiskInv
<1>10. \A i \in 1 .. BLK_MAX :
          /\ bd_tab'[i].used <=> bd_tab[i].used
          /\ bd_tab'[i].dev = bd_tab[i].dev /\ bd_tab'[i].n = bd_tab[i].n
  BY <1>1, <1>5, <1>7
<1>11. \A i \in 1 .. BLK_MAX : i # k /\ bd_tab[i].used => bd_tab[i].dev # d  BY <1>1 DEF DiskInv
<1>12. ASSUME NEW i \in 1 .. BLK_MAX, bd_tab'[i].used, NEW x \in Sectors64, x < bd_tab'[i].n
       PROVE  bd_tab'[i].data[x] = bd_owed'[bd_tab'[i].dev][x]
  <2>1. CASE i = k
    <3>1. bd_tab[k].data[x] = bd_owed[d][x]  BY <1>1, <1>5, <1>7, <1>12, <2>1 DEF DiskInv
    <3> QED BY <1>5, <1>7, <1>9, <2>1, <3>1
  <2>2. CASE i # k  BY <1>7, <1>9, <1>10, <1>11, <1>12, <2>2 DEF DiskInv
  <2> QED BY <2>1, <2>2
<1>13. \A c \in 1 .. DiskNumbers : c > bd_ctr' => \A x \in Sectors64 : bd_owed'[c][x] = 0
  <2>1. d <= bd_ctr /\ bd_ctr \in Nat  BY <1>1 DEF DiskInv
  <2>2. \A c \in 1 .. DiskNumbers : c > bd_ctr => c # d  BY <2>1
  <2> QED BY <1>2, <1>9, <2>2 DEF DiskInv
<1> QED BY <1>2, <1>7, <1>9, <1>10, <1>12, <1>13 DEF DiskInv

LEMMA DiskKept == ASSUME DiskInv, DiskNext PROVE DiskInv'
BY DiskCreateKept, DiskDestroyKept, DiskWriteKept DEF DiskNext, Sectors64

LEMMA DiskHolds == ASSUME DiskInv PROVE DisksKeep
<1> SUFFICES ASSUME NEW i \in Taken(bd_tab), NEW s \in 0 .. bd_tab[i].n - 1
             PROVE  bd_tab[i].data[s] = bd_owed[bd_tab[i].dev][s]
  BY DEF DisksKeep
<1>1. i \in 1 .. BLK_MAX /\ bd_tab[i].used /\ BLK_SECTORS \in Nat  BY Storage64Assumption DEF Taken, DiskInv
<1>2. bd_tab[i].n \in Nat /\ bd_tab[i].n <= BLK_SECTORS  BY <1>1 DEF DiskInv, DiskEntry
<1>3. s \in Sectors64 /\ s < bd_tab[i].n  BY <1>1, <1>2 DEF Sectors64
<1> QED BY <1>1, <1>3 DEF DiskInv

\* PartsApart is inductive with the shape of the table: the check of a new
\* partition against the others uses the same wrapped ends.
PartEntry == [used : BOOLEAN, start : Nat, len : Nat]
PartInv ==
    /\ pa_tab \in [1 .. PART_MAX -> PartEntry]
    /\ \A i, j \in 1 .. PART_MAX :
          /\ i # j /\ pa_tab[i].used /\ pa_tab[j].used
          /\ pa_tab[i].start + pa_tab[i].len < 2 ^ PartBits
          /\ pa_tab[j].start + pa_tab[j].len < 2 ^ PartBits
          => \/ pa_tab[i].start + pa_tab[i].len <= pa_tab[j].start
             \/ pa_tab[j].start + pa_tab[j].len <= pa_tab[i].start

\* A range that does not wrap ends where it should.
LEMMA EndExact ==
  ASSUME NEW s \in Nat, NEW l \in Nat, s + l < 2 ^ PartBits
  PROVE  PartEnd(s, l) = s + l
<1>1. ASSUME NEW B \in Nat \ {0}, s + l < B PROVE (s + l) % B = s + l  BY <1>1
<1> QED BY <1>1, Storage64Assumption DEF PartEnd

LEMMA PartStarts == PartInit => PartInv
BY DEF PartInit, PartInv, PartEntry

LEMMA PartAddKept ==
  ASSUME PartInv, NEW s \in Nat, NEW l \in Nat, part64_add(s, l)
  PROVE  PartInv'
<1>1. PICK k \in 1 .. PART_MAX : k = FirstFree(pa_tab) /\ ~pa_tab[k].used
  <2>1. DOMAIN pa_tab = 1 .. PART_MAX /\ FirstFree(pa_tab) # 0  BY DEF PartInv, part64_add
  <2> QED BY <2>1, FreeSlot
<1> DEFINE e == [used |-> TRUE, start |-> s, len |-> l]
<1>2. pa_tab' = [pa_tab EXCEPT ![k] = e]  BY <1>1 DEF part64_add
<1>3. e \in PartEntry /\ e.start = s /\ e.len = l  BY DEF PartEntry
<1> HIDE DEF e
<1>4. /\ pa_tab' \in [1 .. PART_MAX -> PartEntry] /\ pa_tab'[k] = e
      /\ \A i \in 1 .. PART_MAX : i # k => pa_tab'[i] = pa_tab[i]
  BY <1>2, <1>3 DEF PartInv
<1>5. ASSUME NEW i \in 1 .. PART_MAX, pa_tab[i].used, s + l < 2 ^ PartBits,
             pa_tab[i].start + pa_tab[i].len < 2 ^ PartBits
      PROVE  pa_tab[i].start + pa_tab[i].len <= s \/ s + l <= pa_tab[i].start
  <2>1. pa_tab[i].start \in Nat /\ pa_tab[i].len \in Nat  BY DEF PartInv, PartEntry
  <2>2. i \in Taken(pa_tab)  BY <1>5 DEF Taken, PartInv
  <2>3. ~(s < PartEnd(pa_tab[i].start, pa_tab[i].len) /\ pa_tab[i].start < PartEnd(s, l))
    BY <2>2 DEF part64_add, overlaps
  <2>4. PartEnd(pa_tab[i].start, pa_tab[i].len) = pa_tab[i].start + pa_tab[i].len /\ PartEnd(s, l) = s + l
    BY <1>5, <2>1, EndExact
  <2> QED BY <2>1, <2>3, <2>4
<1>6. ASSUME NEW i \in 1 .. PART_MAX, NEW j \in 1 .. PART_MAX, i # j, pa_tab'[i].used, pa_tab'[j].used,
             pa_tab'[i].start + pa_tab'[i].len < 2 ^ PartBits,
             pa_tab'[j].start + pa_tab'[j].len < 2 ^ PartBits
      PROVE  \/ pa_tab'[i].start + pa_tab'[i].len <= pa_tab'[j].start
             \/ pa_tab'[j].start + pa_tab'[j].len <= pa_tab'[i].start
  <2>1. CASE i = k  BY <1>3, <1>4, <1>5, <1>6, <2>1
  <2>2. CASE j = k  BY <1>3, <1>4, <1>5, <1>6, <2>2
  <2>3. CASE i # k /\ j # k  BY <1>4, <1>6, <2>3 DEF PartInv
  <2> QED BY <2>1, <2>2, <2>3
<1> QED BY <1>4, <1>6 DEF PartInv

LEMMA PartDelKept ==
  ASSUME PartInv, NEW k \in 1 .. PART_MAX, part64_del(k)
  PROVE  PartInv'
<1> DEFINE e == [used |-> FALSE, start |-> 0, len |-> 0]
<1>1. pa_tab' = [pa_tab EXCEPT ![k] = e] /\ e \in PartEntry /\ ~e.used  BY DEF part64_del, PartEntry
<1> HIDE DEF e
<1>2. /\ pa_tab' \in [1 .. PART_MAX -> PartEntry]
      /\ \A i \in 1 .. PART_MAX : pa_tab'[i].used => pa_tab[i].used /\ pa_tab'[i] = pa_tab[i]
  BY <1>1 DEF PartInv
<1> QED BY <1>2 DEF PartInv

LEMMA PartKept == ASSUME PartInv, PartNext PROVE PartInv'
<1>1. ASSUME NEW s \in 0 .. 2 ^ PartBits - 1, NEW l \in 0 .. 2 ^ PartBits - 1, part64_add(s, l) PROVE PartInv'
  <2>1. s \in Nat /\ l \in Nat  OBVIOUS
  <2> QED BY <1>1, <2>1, PartAddKept
<1> QED BY <1>1, PartDelKept DEF PartNext

LEMMA PartHolds == ASSUME PartInv PROVE PartsApart
BY DEF PartInv, PartsApart, Taken

\* The strengthening of LocksExclude: every lock that was given is in the
\* table, so the next one is checked against it.
RangeLock == [owner : LockOwners, type : {"sh", "ex"}, start : Nat, len : Nat]
Spans64(k) == IF k.len = 0 THEN k.start .. 2 ^ PartBits - 2 ELSE k.start .. k.start + k.len - 1
Excludes(a, b) ==
    /\ a.owner # b.owner /\ a.start + a.len < 2 ^ PartBits /\ b.start + b.len < 2 ^ PartBits
    /\ Spans64(a) \cap Spans64(b) # {}
    => a.type = "sh" /\ b.type = "sh"
FlockInv ==
    /\ fl_tab = [i \in 1 .. FLOCK64_MAX |-> fl_tab[i]]
    /\ fl_owed \subseteq RangeLock
    /\ \A k \in fl_owed : \E i \in 1 .. FLOCK64_MAX :
          /\ fl_tab[i].used /\ fl_tab[i].owner = k.owner /\ fl_tab[i].type = k.type
          /\ fl_tab[i].start = k.start /\ fl_tab[i].len = k.len
    /\ \A a, b \in fl_owed : Excludes(a, b)

LEMMA FlockStarts == FlockInit => FlockInv
BY DEF FlockInit, FlockInv

LEMMA SpansMeet ==
  ASSUME NEW a \in RangeLock, NEW b \in RangeLock, NEW x \in Spans64(a), x \in Spans64(b),
         a.start + a.len < 2 ^ PartBits, b.start + b.len < 2 ^ PartBits
  PROVE  flock_overlap(a.start, a.len, b.start, b.len)
<1> DEFINE B == 2 ^ PartBits
<1>1. B \in Nat \ {0}  BY Storage64Assumption
<1>2. a.start \in Nat /\ a.len \in Nat /\ b.start \in Nat /\ b.len \in Nat  BY DEF RangeLock
<1>3. ASSUME NEW k \in RangeLock, x \in Spans64(k), k.start + k.len < B
      PROVE  x \in Int /\ k.start <= x /\ x < FlockEnd(k.start, k.len)
  <2>1. k.start \in Nat /\ k.len \in Nat  BY DEF RangeLock
  <2>2. CASE k.len = 0
    <3>1. x \in k.start .. B - 2 /\ FlockEnd(k.start, k.len) = B - 1  BY <1>3, <2>2 DEF Spans64, FlockEnd
    <3> HIDE DEF B
    <3> QED BY <1>1, <2>1, <3>1
  <2>3. CASE k.len # 0
    <3>1. x \in k.start .. k.start + k.len - 1 /\ FlockEnd(k.start, k.len) = k.start + k.len
      BY <1>3, <2>1, <2>3, EndExact DEF Spans64, FlockEnd
    <3> QED BY <2>1, <3>1
  <2> QED BY <2>2, <2>3
<1>4. /\ x \in Int /\ a.start <= x /\ x < FlockEnd(a.start, a.len)
      /\ b.start <= x /\ x < FlockEnd(b.start, b.len)
  BY <1>3
<1>5. FlockEnd(a.start, a.len) \in Int /\ FlockEnd(b.start, b.len) \in Int
  <2>1. ASSUME NEW s \in Nat, NEW l \in Nat, s + l < B PROVE FlockEnd(s, l) \in Int
    <3>1. FlockEnd(s, l) = IF l = 0 THEN B - 1 ELSE s + l  BY <2>1, EndExact DEF FlockEnd
    <3> HIDE DEF B
    <3> QED BY <1>1, <3>1
  <2> QED BY <1>2, <2>1
<1> QED BY <1>2, <1>4, <1>5 DEF flock_overlap

LEMMA FlockLockKept ==
  ASSUME FlockInv, NEW o \in LockOwners, NEW t \in {"sh", "ex"}, NEW s \in Nat, NEW l \in Nat,
         flock64_lock(o, t, s, l)
  PROVE  FlockInv'
<1>1. PICK n \in 1 .. FLOCK64_MAX : n = FirstFree(fl_tab) /\ ~fl_tab[n].used
  <2>1. DOMAIN fl_tab = 1 .. FLOCK64_MAX /\ FirstFree(fl_tab) # 0  BY DEF FlockInv, flock64_lock
  <2> QED BY <2>1, FreeSlot
<1> DEFINE e == [used |-> TRUE, owner |-> o, type |-> t, start |-> s, len |-> l]
           c == [owner |-> o, type |-> t, start |-> s, len |-> l]
<1>2. fl_tab' = [fl_tab EXCEPT ![n] = e] /\ fl_owed' = fl_owed \cup {c}  BY <1>1 DEF flock64_lock
<1>3. /\ e.used /\ e.owner = o /\ e.type = t /\ e.start = s /\ e.len = l
      /\ c \in RangeLock /\ c.owner = o /\ c.type = t /\ c.start = s /\ c.len = l
  BY DEF RangeLock
<1> HIDE DEF e, c
<1>4. /\ fl_tab' = [i \in 1 .. FLOCK64_MAX |-> fl_tab'[i]] /\ fl_tab'[n] = e
      /\ \A i \in 1 .. FLOCK64_MAX : i # n => fl_tab'[i] = fl_tab[i]
  BY <1>2 DEF FlockInv
<1>5. \A i \in 1 .. FLOCK64_MAX : fl_tab[i].used => fl_tab'[i] = fl_tab[i]  BY <1>1, <1>4
<1>6. ASSUME NEW k \in fl_owed'
      PROVE  \E i \in 1 .. FLOCK64_MAX :
                /\ fl_tab'[i].used /\ fl_tab'[i].owner = k.owner /\ fl_tab'[i].type = k.type
                /\ fl_tab'[i].start = k.start /\ fl_tab'[i].len = k.len
  <2>1. CASE k = c  BY <1>3, <1>4, <2>1
  <2>2. CASE k # c
    <3>1. PICK i \in 1 .. FLOCK64_MAX :
             /\ fl_tab[i].used /\ fl_tab[i].owner = k.owner /\ fl_tab[i].type = k.type
             /\ fl_tab[i].start = k.start /\ fl_tab[i].len = k.len
      BY <1>2, <2>2 DEF FlockInv
    <3> QED BY <1>5, <3>1
  <2> QED BY <2>1, <2>2
<1>7. ASSUME NEW b \in fl_owed, b.owner # o, b.start + b.len < 2 ^ PartBits, s + l < 2 ^ PartBits,
             NEW x \in Spans64(b), x \in Spans64(c)
      PROVE  b.type = "sh" /\ t = "sh"
  <2>1. PICK i \in 1 .. FLOCK64_MAX :
           /\ fl_tab[i].used /\ fl_tab[i].owner = b.owner /\ fl_tab[i].type = b.type
           /\ fl_tab[i].start = b.start /\ fl_tab[i].len = b.len
    BY DEF FlockInv
  <2>2. b \in RangeLock  BY DEF FlockInv
  <2>3. flock_overlap(b.start, b.len, s, l)  BY <1>3, <1>7, <2>2, SpansMeet
  <2>4. i \in Taken(fl_tab)  BY <2>1 DEF Taken, FlockInv
  <2>5. b.type # "ex" /\ t # "ex"  BY <1>7, <2>1, <2>3, <2>4 DEF flock64_lock, flock64_check
  <2> QED BY <2>2, <2>5 DEF RangeLock
<1>8. ASSUME NEW b \in fl_owed PROVE Excludes(b, c) /\ Excludes(c, b)  BY <1>3, <1>7 DEF Excludes
<1>9. Excludes(c, c)  BY DEF Excludes
<1>10. \A a, b \in fl_owed' : Excludes(a, b)  BY <1>2, <1>8, <1>9 DEF FlockInv
<1>11. fl_owed' \subseteq RangeLock  BY <1>2, <1>3 DEF FlockInv
<1> QED BY <1>4, <1>6, <1>10, <1>11 DEF FlockInv, Excludes, Spans64

LEMMA FlockUnlockKept == ASSUME FlockInv, NEW o, flock64_unlock(o) PROVE FlockInv'
<1>1. /\ fl_tab' = [i \in 1 .. FLOCK64_MAX |-> IF fl_tab[i].owner = o THEN NoRange ELSE fl_tab[i]]
      /\ fl_owed' = {k \in fl_owed : k.owner # o}
  BY DEF flock64_unlock
<1>2. ASSUME NEW k \in fl_owed'
      PROVE  \E i \in 1 .. FLOCK64_MAX :
                /\ fl_tab'[i].used /\ fl_tab'[i].owner = k.owner /\ fl_tab'[i].type = k.type
                /\ fl_tab'[i].start = k.start /\ fl_tab'[i].len = k.len
  <2>1. PICK i \in 1 .. FLOCK64_MAX :
           /\ fl_tab[i].used /\ fl_tab[i].owner = k.owner /\ fl_tab[i].type = k.type
           /\ fl_tab[i].start = k.start /\ fl_tab[i].len = k.len
    BY <1>1 DEF FlockInv
  <2>2. fl_tab'[i] = fl_tab[i]  BY <1>1, <2>1
  <2> QED BY <2>1, <2>2
<1>3. fl_tab' = [i \in 1 .. FLOCK64_MAX |-> fl_tab'[i]]  BY <1>1
<1> QED BY <1>1, <1>2, <1>3 DEF FlockInv, Excludes, Spans64

LEMMA FlockKept == ASSUME FlockInv, FlockNext PROVE FlockInv'
<1>1. ASSUME NEW o \in LockOwners, NEW t \in {"sh", "ex"}, NEW s \in {0, 1, 3, 2 ^ PartBits - 2},
             NEW l \in {0, 1, 3, 2 ^ PartBits - 2}, flock64_lock(o, t, s, l)
      PROVE  FlockInv'
  <2>1. s \in Nat /\ l \in Nat  BY Storage64Assumption
  <2> QED BY <1>1, <2>1, FlockLockKept
<1> QED BY <1>1, FlockUnlockKept DEF FlockNext

LEMMA FlockHolds == ASSUME FlockInv PROVE LocksExclude
BY DEF FlockInv, LocksExclude, Excludes, Spans64

------------------------------
(* Access lists: MaskLimits holds of every table.                          *)

LEMMA AclHolds == MaskLimits
<1> SUFFICES ASSUME NEW uid \in AclIds, NEW gid \in AclIds, NEW req \in AclPerms,
                    acl64_check(uid, gid, req), acl64_perm("user", uid) # 0 \/ GroupClass(gid) # {}
             PROVE  /\ acl64_perm("mask", 0) # 0 => req \subseteq PermOf(acl64_perm("mask", 0))
                    /\ acl64_perm("user", uid) # 0 => req \subseteq PermOf(acl64_perm("user", uid))
  BY DEF MaskLimits
<1>1. uid # 0  BY Storage64Assumption
<1>2. CASE acl64_perm("user", uid) # 0
  <2>1. req \subseteq Masked(PermOf(acl64_perm("user", uid)))  BY <1>1, <1>2 DEF acl64_check
  <2> QED BY <2>1 DEF Masked
<1>3. CASE acl64_perm("user", uid) = 0
  <2>1. req \subseteq Masked(UNION {PermOf(i) : i \in GroupClass(gid)})  BY <1>1, <1>3 DEF acl64_check
  <2> QED BY <1>3, <2>1 DEF Masked
<1> QED BY <1>2, <1>3

------------------------------
(* Quotas and link counts.                                                 *)

\* The strengthening of QuotaExact: a user has one entry, whose usage is
\* what was charged, and nothing was charged to a user without one.
QuotaEntry == [used : BOOLEAN, uid : QuotaUids \cup {0}, blocks : Nat, inodes : Nat, blim : Nat, ilim : Nat]
Usage64 == [blocks : Nat, inodes : Nat]
QuotaInv ==
    /\ qu_tab \in [1 .. QUOTA64_MAX -> QuotaEntry] /\ qu_owed \in [QuotaUids -> Usage64]
    /\ \A i \in 1 .. QUOTA64_MAX : qu_tab[i].used =>
          /\ qu_tab[i].uid \in QuotaUids
          /\ qu_tab[i].blocks = qu_owed[qu_tab[i].uid].blocks
          /\ qu_tab[i].inodes = qu_owed[qu_tab[i].uid].inodes
    /\ \A i, j \in 1 .. QUOTA64_MAX :
          qu_tab[i].used /\ qu_tab[j].used /\ qu_tab[i].uid = qu_tab[j].uid => i = j
    /\ \A u \in QuotaUids : (\A i \in 1 .. QUOTA64_MAX : ~(qu_tab[i].used /\ qu_tab[i].uid = u)) =>
          qu_owed[u].blocks = 0 /\ qu_owed[u].inodes = 0

LEMMA QuotaStarts == QuotaInit => QuotaInv
<1> SUFFICES ASSUME QuotaInit PROVE QuotaInv  OBVIOUS
<1>1. NoQuota \in QuotaEntry /\ ~NoQuota.used /\ [blocks |-> 0, inodes |-> 0] \in Usage64
  BY DEF NoQuota, QuotaEntry, Usage64
<1> QED BY <1>1 DEF QuotaInit, QuotaInv

LEMMA FindQuota ==
  ASSUME QuotaInv, NEW u
  PROVE  /\ quota64_get(u) # 0 => /\ quota64_get(u) \in 1 .. QUOTA64_MAX
                                  /\ qu_tab[quota64_get(u)].used /\ qu_tab[quota64_get(u)].uid = u
         /\ quota64_get(u) = 0 => \A i \in 1 .. QUOTA64_MAX : ~(qu_tab[i].used /\ qu_tab[i].uid = u)
<1> DEFINE S == {i \in Taken(qu_tab) : qu_tab[i].uid = u}
<1>1. S = {i \in 1 .. QUOTA64_MAX : qu_tab[i].used /\ qu_tab[i].uid = u}  BY DEF Taken, QuotaInv
<1>2. (FirstOf(S) = 0 <=> S = {}) /\ (S # {} => FirstOf(S) \in S)  BY <1>1, FirstMatch
<1>3. quota64_get(u) = FirstOf(S)  BY DEF quota64_get
<1> HIDE DEF S
<1> QED BY <1>1, <1>2, <1>3

\* The entry a user has or gets.
LEMMA QuotaPlace ==
  ASSUME QuotaInv, NEW u \in QuotaUids, quota64_get(u) # 0 \/ FirstFree(qu_tab) # 0,
         NEW k, k = IF quota64_get(u) # 0 THEN quota64_get(u) ELSE FirstFree(qu_tab)
  PROVE  /\ k \in 1 .. QUOTA64_MAX
         /\ \A i \in 1 .. QUOTA64_MAX : qu_tab[i].used /\ qu_tab[i].uid = u => i = k
         /\ qu_tab[k].used => qu_tab[k].uid = u
         /\ quota64_get(u) = 0 => qu_owed[u].blocks = 0 /\ qu_owed[u].inodes = 0
         /\ quota64_get(u) # 0 => /\ qu_tab[k].used /\ qu_tab[k].uid = u
                                  /\ qu_tab[k].blocks = qu_owed[u].blocks
                                  /\ qu_tab[k].inodes = qu_owed[u].inodes
<1>1. CASE quota64_get(u) # 0  BY <1>1, FindQuota DEF QuotaInv
<1>2. CASE quota64_get(u) = 0
  <2>1. k = FirstFree(qu_tab) /\ FirstFree(qu_tab) # 0 /\ DOMAIN qu_tab = 1 .. QUOTA64_MAX  BY <1>2 DEF QuotaInv
  <2>2. k \in 1 .. QUOTA64_MAX /\ ~qu_tab[k].used  BY <2>1, FreeSlot
  <2>3. \A i \in 1 .. QUOTA64_MAX : ~(qu_tab[i].used /\ qu_tab[i].uid = u)  BY <1>2, FindQuota
  <2> QED BY <1>2, <2>2, <2>3 DEF QuotaInv
<1> QED BY <1>1, <1>2

\* The entry of a user changes as what was charged does.
LEMMA QuotaPut ==
  ASSUME QuotaInv, NEW u \in QuotaUids, NEW k \in 1 .. QUOTA64_MAX,
         \A i \in 1 .. QUOTA64_MAX : qu_tab[i].used /\ qu_tab[i].uid = u => i = k,
         qu_tab[k].used => qu_tab[k].uid = u,
         NEW e \in QuotaEntry, e.used, e.uid = u, qu_tab' = [qu_tab EXCEPT ![k] = e],
         NEW w \in Usage64, w.blocks = e.blocks, w.inodes = e.inodes,
         qu_owed' = [qu_owed EXCEPT ![u] = w]
  PROVE  QuotaInv'
<1>1. /\ qu_tab' \in [1 .. QUOTA64_MAX -> QuotaEntry] /\ qu_tab'[k] = e
      /\ \A i \in 1 .. QUOTA64_MAX : i # k => qu_tab'[i] = qu_tab[i]
  BY DEF QuotaInv
<1>2. /\ qu_owed' \in [QuotaUids -> Usage64] /\ qu_owed'[u] = w
      /\ \A x \in QuotaUids : x # u => qu_owed'[x] = qu_owed[x]
  BY DEF QuotaInv
<1>3. \A i \in 1 .. QUOTA64_MAX : qu_tab'[i].used =>
          /\ qu_tab'[i].uid \in QuotaUids
          /\ qu_tab'[i].blocks = qu_owed'[qu_tab'[i].uid].blocks
          /\ qu_tab'[i].inodes = qu_owed'[qu_tab'[i].uid].inodes
  <2> TAKE i \in 1 .. QUOTA64_MAX
  <2>1. CASE i = k  BY <1>1, <1>2, <2>1
  <2>2. CASE i # k  BY <1>1, <1>2, <2>2 DEF QuotaInv
  <2> QED BY <2>1, <2>2
<1>4. \A i, j \in 1 .. QUOTA64_MAX :
          qu_tab'[i].used /\ qu_tab'[j].used /\ qu_tab'[i].uid = qu_tab'[j].uid => i = j
  BY <1>1 DEF QuotaInv
<1>5. ASSUME NEW x \in QuotaUids, \A i \in 1 .. QUOTA64_MAX : ~(qu_tab'[i].used /\ qu_tab'[i].uid = x)
      PROVE  qu_owed'[x].blocks = 0 /\ qu_owed'[x].inodes = 0
  <2>1. x # u  BY <1>1, <1>5
  <2>2. \A i \in 1 .. QUOTA64_MAX : ~(qu_tab[i].used /\ qu_tab[i].uid = x)  BY <1>1, <1>5, <2>1
  <2> QED BY <1>2, <2>1, <2>2 DEF QuotaInv
<1> QED BY <1>1, <1>2, <1>3, <1>4, <1>5 DEF QuotaInv

LEMMA SetLimitKept ==
  ASSUME QuotaInv, NEW u \in QuotaUids, NEW bl \in Nat, NEW il \in Nat, quota64_set_limit(u, bl, il)
  PROVE  QuotaInv'
<1>1. PICK k : k = IF quota64_get(u) # 0 THEN quota64_get(u) ELSE FirstFree(qu_tab)  OBVIOUS
<1>2. quota64_get(u) # 0 \/ FirstFree(qu_tab) # 0  BY DEF quota64_set_limit
<1>3. /\ k \in 1 .. QUOTA64_MAX
      /\ \A i \in 1 .. QUOTA64_MAX : qu_tab[i].used /\ qu_tab[i].uid = u => i = k
      /\ qu_tab[k].used => qu_tab[k].uid = u
      /\ quota64_get(u) = 0 => qu_owed[u].blocks = 0 /\ qu_owed[u].inodes = 0
      /\ quota64_get(u) # 0 => /\ qu_tab[k].used /\ qu_tab[k].uid = u
                               /\ qu_tab[k].blocks = qu_owed[u].blocks
                               /\ qu_tab[k].inodes = qu_owed[u].inodes
  BY <1>1, <1>2, QuotaPlace
<1>4. PICK w \in Usage64 : w = qu_owed[u]  BY DEF QuotaInv
<1>5. qu_owed' = [qu_owed EXCEPT ![u] = w]  BY <1>4 DEF quota64_set_limit, QuotaInv
<1>6. CASE quota64_get(u) # 0
  <2>1. PICK e : e = [qu_tab[k] EXCEPT !.blim = bl, !.ilim = il]  OBVIOUS
  <2>2. qu_tab[k] \in QuotaEntry  BY <1>3 DEF QuotaInv
  <2>3. /\ e \in QuotaEntry /\ e.used /\ e.uid = u
        /\ e.blocks = w.blocks /\ e.inodes = w.inodes
    BY <1>3, <1>4, <1>6, <2>1, <2>2 DEF QuotaEntry
  <2>4. qu_tab' = [qu_tab EXCEPT ![k] = e]  BY <1>1, <1>6, <2>1 DEF quota64_set_limit
  <2> QED BY <1>3, <1>5, <2>3, <2>4, QuotaPut
<1>7. CASE quota64_get(u) = 0
  <2>1. PICK e : e = [NoQuota EXCEPT !.used = TRUE, !.uid = u, !.blim = bl, !.ilim = il]  OBVIOUS
  <2>2. /\ e \in QuotaEntry /\ e.used /\ e.uid = u /\ e.blocks = w.blocks /\ e.inodes = w.inodes
    BY <1>3, <1>4, <1>7, <2>1 DEF QuotaEntry, NoQuota
  <2>3. qu_tab' = [qu_tab EXCEPT ![k] = e]  BY <1>1, <1>7, <2>1 DEF quota64_set_limit
  <2> QED BY <1>3, <1>5, <2>2, <2>3, QuotaPut
<1> QED BY <1>6, <1>7

LEMMA ChargeKept ==
  ASSUME QuotaInv, NEW u \in QuotaUids, NEW b \in Nat, NEW n \in Nat, quota64_charge(u, b, n)
  PROVE  QuotaInv'
<1>1. PICK k : k = IF quota64_get(u) # 0 THEN quota64_get(u) ELSE FirstFree(qu_tab)  OBVIOUS
<1>2. quota64_get(u) # 0 \/ FirstFree(qu_tab) # 0  BY DEF quota64_charge
<1>3. /\ k \in 1 .. QUOTA64_MAX
      /\ \A i \in 1 .. QUOTA64_MAX : qu_tab[i].used /\ qu_tab[i].uid = u => i = k
      /\ qu_tab[k].used => qu_tab[k].uid = u
      /\ quota64_get(u) = 0 => qu_owed[u].blocks = 0 /\ qu_owed[u].inodes = 0
      /\ quota64_get(u) # 0 => /\ qu_tab[k].used /\ qu_tab[k].uid = u
                               /\ qu_tab[k].blocks = qu_owed[u].blocks
                               /\ qu_tab[k].inodes = qu_owed[u].inodes
  BY <1>1, <1>2, QuotaPlace
<1>4. PICK e : e = IF quota64_get(u) # 0 THEN qu_tab[k] ELSE [NoQuota EXCEPT !.used = TRUE, !.uid = u]  OBVIOUS
<1> DEFINE over == (e.blim # 0 /\ e.blocks + b > e.blim) \/ (e.ilim # 0 /\ e.inodes + n > e.ilim)
<1>5. /\ qu_tab' = [qu_tab EXCEPT ![k] = Charged(e, b, n)]
      /\ qu_owed' = IF over THEN qu_owed
                    ELSE [qu_owed EXCEPT ![u] = [blocks |-> @.blocks + b, inodes |-> @.inodes + n]]
  BY <1>1, <1>4 DEF quota64_charge
<1>6. /\ e \in QuotaEntry /\ e.used /\ e.uid = u
      /\ e.blocks = qu_owed[u].blocks /\ e.inodes = qu_owed[u].inodes
  <2>1. CASE quota64_get(u) # 0  BY <1>3, <1>4, <2>1 DEF QuotaInv
  <2>2. CASE quota64_get(u) = 0  BY <1>3, <1>4, <2>2 DEF QuotaEntry, NoQuota
  <2> QED BY <2>1, <2>2
<1>7. qu_owed[u] \in Usage64  BY DEF QuotaInv
<1>8. CASE over
  <2>1. Charged(e, b, n) = e  BY <1>8 DEF Charged
  <2>2. qu_owed' = [qu_owed EXCEPT ![u] = qu_owed[u]]  BY <1>5, <1>8 DEF QuotaInv
  <2>3. qu_tab' = [qu_tab EXCEPT ![k] = e]  BY <1>5, <2>1
  <2> HIDE DEF over
  <2> QED BY <1>3, <1>6, <1>7, <2>2, <2>3, QuotaPut
<1>9. CASE ~over
  <2>1. PICK c : c = [e EXCEPT !.blocks = @ + b, !.inodes = @ + n]  OBVIOUS
  <2>2. PICK w : w = [blocks |-> qu_owed[u].blocks + b, inodes |-> qu_owed[u].inodes + n]  OBVIOUS
  <2>3. Charged(e, b, n) = c /\ qu_tab' = [qu_tab EXCEPT ![k] = c]  BY <1>5, <1>9, <2>1 DEF Charged
  <2>4. /\ c \in QuotaEntry /\ c.used /\ c.uid = u
        /\ c.blocks = qu_owed[u].blocks + b /\ c.inodes = qu_owed[u].inodes + n
    <3>1. e.blocks \in Nat /\ e.inodes \in Nat /\ e.blocks + b \in Nat /\ e.inodes + n \in Nat
      BY <1>6 DEF QuotaEntry
    <3>2. PICK x \in Nat : x = e.blocks + b  BY <3>1
    <3>3. PICK y \in Nat : y = e.inodes + n  BY <3>1
    <3>4. c = [e EXCEPT !.blocks = x, !.inodes = y]  BY <2>1, <3>2, <3>3
    <3>5. c \in QuotaEntry /\ c.used /\ c.uid = u /\ c.blocks = x /\ c.inodes = y  BY <1>6, <3>4 DEF QuotaEntry
    <3> QED BY <1>6, <3>2, <3>3, <3>5
  <2>5. w \in Usage64 /\ w.blocks = c.blocks /\ w.inodes = c.inodes  BY <1>7, <2>2, <2>4 DEF Usage64
  <2>6. qu_owed' = [qu_owed EXCEPT ![u] = w]  BY <1>5, <1>9, <2>2 DEF QuotaInv
  <2> HIDE DEF over
  <2> QED BY <1>3, <2>3, <2>4, <2>5, <2>6, QuotaPut
<1> QED BY <1>8, <1>9

LEMMA ReleaseKept ==
  ASSUME QuotaInv, NEW u \in QuotaUids, NEW b \in Nat, NEW n \in Nat, quota64_release(u, b, n)
  PROVE  QuotaInv'
<1>1. PICK k : k = quota64_get(u)  OBVIOUS
<1>2. /\ k \in 1 .. QUOTA64_MAX
      /\ \A i \in 1 .. QUOTA64_MAX : qu_tab[i].used /\ qu_tab[i].uid = u => i = k
      /\ qu_tab[k].used /\ qu_tab[k].uid = u
      /\ qu_tab[k].blocks = qu_owed[u].blocks
      /\ qu_tab[k].inodes = qu_owed[u].inodes
  <2>1. quota64_get(u) # 0  BY DEF quota64_release
  <2>2. k = IF quota64_get(u) # 0 THEN quota64_get(u) ELSE FirstFree(qu_tab)  BY <1>1, <2>1
  <2> QED BY <2>1, <2>2, QuotaPlace
<1>3. /\ qu_owed[u].blocks >= b /\ qu_owed[u].inodes >= n
      /\ qu_tab' = [qu_tab EXCEPT
             ![k].blocks = IF qu_tab[k].blocks >= b THEN qu_tab[k].blocks - b ELSE 0,
             ![k].inodes = IF qu_tab[k].inodes >= n THEN qu_tab[k].inodes - n ELSE 0]
      /\ qu_owed' = [qu_owed EXCEPT ![u] = [blocks |-> @.blocks - b, inodes |-> @.inodes - n]]
  BY <1>1 DEF quota64_release
<1>4. PICK x : x = qu_tab[k].blocks - b  OBVIOUS
<1>5. PICK y : y = qu_tab[k].inodes - n  OBVIOUS
<1>6. qu_tab[k] \in QuotaEntry /\ qu_owed[u] \in Usage64  BY <1>2 DEF QuotaInv
<1>7. x \in Nat /\ y \in Nat /\ x = qu_owed[u].blocks - b /\ y = qu_owed[u].inodes - n
  <2>1. qu_owed[u].blocks \in Nat /\ qu_owed[u].inodes \in Nat  BY <1>6 DEF Usage64
  <2> QED BY <1>2, <1>3, <1>4, <1>5, <2>1
<1>8. PICK e : e = [qu_tab[k] EXCEPT !.blocks = x, !.inodes = y]  OBVIOUS
<1>9. e \in QuotaEntry /\ e.used /\ e.uid = u /\ e.blocks = x /\ e.inodes = y
  BY <1>2, <1>6, <1>7, <1>8 DEF QuotaEntry
<1>10. qu_tab' = [qu_tab EXCEPT ![k] = e]
  <2>1. qu_tab[k].blocks >= b /\ qu_tab[k].inodes >= n  BY <1>2, <1>3
  <2>2. qu_tab' = [qu_tab EXCEPT ![k].blocks = x, ![k].inodes = y]  BY <1>3, <1>4, <1>5, <2>1
  <2> QED BY <1>2, <1>8, <2>2 DEF QuotaInv
<1>11. PICK w : w = [blocks |-> x, inodes |-> y]  OBVIOUS
<1>12. w \in Usage64 /\ w.blocks = e.blocks /\ w.inodes = e.inodes  BY <1>7, <1>9, <1>11 DEF Usage64
<1>13. qu_owed' = [qu_owed EXCEPT ![u] = w]  BY <1>3, <1>7, <1>11 DEF QuotaInv
<1> QED BY <1>2, <1>9, <1>10, <1>12, <1>13, QuotaPut

LEMMA QuotaKept == ASSUME QuotaInv, QuotaNext PROVE QuotaInv'
<1>1. \A x \in 0 .. 1 : x \in Nat  OBVIOUS
<1> QED BY <1>1, SetLimitKept, ChargeKept, ReleaseKept DEF QuotaNext

LEMMA QuotaHolds == ASSUME QuotaInv PROVE QuotaExact
<1> SUFFICES ASSUME NEW u \in QuotaUids
             PROVE  [blocks |-> IF quota64_get(u) = 0 THEN 0 ELSE qu_tab[quota64_get(u)].blocks,
                     inodes |-> IF quota64_get(u) = 0 THEN 0 ELSE qu_tab[quota64_get(u)].inodes] = qu_owed[u]
  BY DEF QuotaExact
<1>1. /\ (IF quota64_get(u) = 0 THEN 0 ELSE qu_tab[quota64_get(u)].blocks) = qu_owed[u].blocks
      /\ (IF quota64_get(u) = 0 THEN 0 ELSE qu_tab[quota64_get(u)].inodes) = qu_owed[u].inodes
  BY FindQuota DEF QuotaInv
<1>2. qu_owed[u] = [blocks |-> qu_owed[u].blocks, inodes |-> qu_owed[u].inodes]  BY DEF QuotaInv, Usage64
<1> QED BY <1>1, <1>2

\* The strengthening of InodeWhileLinked: the count of an entry is the
\* number of links, and numbers are given once.
LinkEntry == [used : BOOLEAN, ino : Nat, nlink : Nat]
LinkInv ==
    /\ vo_tab \in [1 .. VFSOPS64_MAX -> LinkEntry] /\ vo_next \in Nat \ {0}
    /\ vo_links \in [1 .. LinkInodes -> Nat]
    /\ \A i \in 1 .. VFSOPS64_MAX : vo_tab[i].used =>
          /\ vo_tab[i].ino \in 1 .. LinkInodes /\ vo_tab[i].ino < vo_next
          /\ vo_tab[i].nlink > 0 /\ vo_tab[i].nlink = vo_links[vo_tab[i].ino]
    /\ \A i, j \in 1 .. VFSOPS64_MAX :
          vo_tab[i].used /\ vo_tab[j].used /\ vo_tab[i].ino = vo_tab[j].ino => i = j
    /\ \A n \in 1 .. LinkInodes :
          (\A i \in 1 .. VFSOPS64_MAX : ~(vo_tab[i].used /\ vo_tab[i].ino = n)) => vo_links[n] = 0

LEMMA LinkStarts == LinkInit => LinkInv
<1> SUFFICES ASSUME LinkInit PROVE LinkInv  OBVIOUS
<1>1. NoLink \in LinkEntry /\ ~NoLink.used  BY DEF NoLink, LinkEntry
<1> QED BY <1>1 DEF LinkInit, LinkInv

LEMMA FindLink ==
  ASSUME LinkInv, NEW n
  PROVE  /\ vfsops64_get(n) # 0 => /\ vfsops64_get(n) \in 1 .. VFSOPS64_MAX
                                   /\ vo_tab[vfsops64_get(n)].used /\ vo_tab[vfsops64_get(n)].ino = n
         /\ vfsops64_get(n) = 0 => \A i \in 1 .. VFSOPS64_MAX : ~(vo_tab[i].used /\ vo_tab[i].ino = n)
<1> DEFINE S == {i \in Taken(vo_tab) : vo_tab[i].ino = n}
<1>1. S = {i \in 1 .. VFSOPS64_MAX : vo_tab[i].used /\ vo_tab[i].ino = n}  BY DEF Taken, LinkInv
<1>2. (FirstOf(S) = 0 <=> S = {}) /\ (S # {} => FirstOf(S) \in S)  BY <1>1, FirstMatch
<1>3. vfsops64_get(n) = FirstOf(S)  BY DEF vfsops64_get
<1> HIDE DEF S
<1> QED BY <1>1, <1>2, <1>3

LEMMA LinkCreateKept == ASSUME LinkInv, vfsops64_create PROVE LinkInv'
<1>1. PICK k \in 1 .. VFSOPS64_MAX : k = FirstFree(vo_tab) /\ ~vo_tab[k].used
  <2>1. DOMAIN vo_tab = 1 .. VFSOPS64_MAX /\ FirstFree(vo_tab) # 0  BY DEF LinkInv, vfsops64_create
  <2> QED BY <2>1, FreeSlot
<1> DEFINE e == [used |-> TRUE, ino |-> vo_next, nlink |-> 1]
<1>2. /\ vo_next <= LinkInodes /\ vo_tab' = [vo_tab EXCEPT ![k] = e] /\ vo_next' = vo_next + 1
      /\ vo_links' = [vo_links EXCEPT ![vo_next] = 1]
  BY <1>1 DEF vfsops64_create
<1>3. LinkInodes \in Nat /\ vo_next \in Nat /\ vo_next > 0  BY Storage64Assumption DEF LinkInv
<1>4. vo_next \in 1 .. LinkInodes /\ vo_next' \in Nat \ {0} /\ vo_next < vo_next'  BY <1>2, <1>3
<1>5. e \in LinkEntry /\ e.used /\ e.ino = vo_next /\ e.nlink = 1  BY <1>3 DEF LinkEntry
<1> HIDE DEF e
<1>6. /\ vo_tab' \in [1 .. VFSOPS64_MAX -> LinkEntry] /\ vo_tab'[k] = e
      /\ \A i \in 1 .. VFSOPS64_MAX : i # k => vo_tab'[i] = vo_tab[i]
  BY <1>2, <1>5 DEF LinkInv
<1>7. /\ vo_links' \in [1 .. LinkInodes -> Nat] /\ vo_links'[vo_next] = 1
      /\ \A n \in 1 .. LinkInodes : n # vo_next => vo_links'[n] = vo_links[n]
  BY <1>2, <1>4 DEF LinkInv
<1>8. \A i \in 1 .. VFSOPS64_MAX : vo_tab[i].used => vo_tab[i].ino \in Nat /\ vo_tab[i].ino < vo_next
  BY DEF LinkInv, LinkEntry
<1>9. \A i \in 1 .. VFSOPS64_MAX : vo_tab'[i].used =>
          /\ vo_tab'[i].ino \in 1 .. LinkInodes /\ vo_tab'[i].ino < vo_next'
          /\ vo_tab'[i].nlink > 0 /\ vo_tab'[i].nlink = vo_links'[vo_tab'[i].ino]
  <2> TAKE i \in 1 .. VFSOPS64_MAX
  <2>1. CASE i = k  BY <1>4, <1>5, <1>6, <1>7, <2>1
  <2>2. CASE i # k /\ vo_tab'[i].used
    <3>1. vo_tab'[i] = vo_tab[i] /\ vo_tab[i].used /\ vo_tab[i].ino < vo_next /\ vo_tab[i].ino \in Nat
      BY <1>6, <1>8, <2>2
    <3>2. vo_tab[i].ino < vo_next' /\ vo_tab[i].ino # vo_next  BY <1>2, <1>3, <3>1
    <3> QED BY <1>7, <3>1, <3>2 DEF LinkInv
  <2> QED BY <2>1, <2>2
<1>10. \A i, j \in 1 .. VFSOPS64_MAX :
          vo_tab'[i].used /\ vo_tab'[j].used /\ vo_tab'[i].ino = vo_tab'[j].ino => i = j
  BY <1>3, <1>5, <1>6, <1>8 DEF LinkInv
<1>11. ASSUME NEW n \in 1 .. LinkInodes,
              \A i \in 1 .. VFSOPS64_MAX : ~(vo_tab'[i].used /\ vo_tab'[i].ino = n)
       PROVE  vo_links'[n] = 0
  <2>1. n # vo_next  BY <1>5, <1>6, <1>11
  <2>2. \A i \in 1 .. VFSOPS64_MAX : ~(vo_tab[i].used /\ vo_tab[i].ino = n)  BY <1>1, <1>6, <1>11
  <2> QED BY <1>7, <2>1, <2>2 DEF LinkInv
<1> QED BY <1>4, <1>6, <1>7, <1>9, <1>10, <1>11 DEF LinkInv

\* The count of an inode changes, its entry with it.
LEMMA LinkChanges ==
  ASSUME LinkInv, NEW n \in 1 .. LinkInodes, NEW k \in 1 .. VFSOPS64_MAX, vo_tab[k].used, vo_tab[k].ino = n,
         NEW c \in Nat, NEW e \in LinkEntry, e.used => e.ino = n /\ e.nlink = c /\ c > 0, ~e.used => c = 0,
         vo_tab' = [vo_tab EXCEPT ![k] = e], vo_links' = [vo_links EXCEPT ![n] = c], vo_next' = vo_next
  PROVE  LinkInv'
<1>1. /\ vo_tab' \in [1 .. VFSOPS64_MAX -> LinkEntry] /\ vo_tab'[k] = e
      /\ \A i \in 1 .. VFSOPS64_MAX : i # k => vo_tab'[i] = vo_tab[i]
  BY DEF LinkInv
<1>2. /\ vo_links' \in [1 .. LinkInodes -> Nat] /\ vo_links'[n] = c
      /\ \A m \in 1 .. LinkInodes : m # n => vo_links'[m] = vo_links[m]
  BY DEF LinkInv
<1>3. \A i \in 1 .. VFSOPS64_MAX : i # k /\ vo_tab[i].used => vo_tab[i].ino # n  BY DEF LinkInv
<1>4. \A i \in 1 .. VFSOPS64_MAX : vo_tab'[i].used =>
          /\ vo_tab'[i].ino \in 1 .. LinkInodes /\ vo_tab'[i].ino < vo_next'
          /\ vo_tab'[i].nlink > 0 /\ vo_tab'[i].nlink = vo_links'[vo_tab'[i].ino]
  <2> TAKE i \in 1 .. VFSOPS64_MAX
  <2>1. CASE i = k  BY <1>1, <1>2, <2>1 DEF LinkInv
  <2>2. CASE i # k  BY <1>1, <1>2, <1>3, <2>2 DEF LinkInv
  <2> QED BY <2>1, <2>2
<1>5. \A i, j \in 1 .. VFSOPS64_MAX :
          vo_tab'[i].used /\ vo_tab'[j].used /\ vo_tab'[i].ino = vo_tab'[j].ino => i = j
  BY <1>1, <1>3 DEF LinkInv
<1>6. ASSUME NEW m \in 1 .. LinkInodes,
             \A i \in 1 .. VFSOPS64_MAX : ~(vo_tab'[i].used /\ vo_tab'[i].ino = m)
      PROVE  vo_links'[m] = 0
  <2>1. CASE m = n  BY <1>1, <1>2, <1>6, <2>1
  <2>2. CASE m # n
    <3>1. \A i \in 1 .. VFSOPS64_MAX : ~(vo_tab[i].used /\ vo_tab[i].ino = m)  BY <1>1, <1>6, <2>2
    <3> QED BY <1>2, <2>2, <3>1 DEF LinkInv
  <2> QED BY <2>1, <2>2
<1> QED BY <1>1, <1>2, <1>4, <1>5, <1>6 DEF LinkInv

LEMMA LinkKept == ASSUME LinkInv, LinkNext PROVE LinkInv'
<1>1. ASSUME NEW n \in 1 .. LinkInodes, vfsops64_get(n) # 0
      PROVE  \E k \in 1 .. VFSOPS64_MAX :
                /\ k = vfsops64_get(n) /\ vo_tab[k].used /\ vo_tab[k].ino = n
                /\ vo_tab[k] \in LinkEntry /\ vo_tab[k].nlink = vo_links[n] /\ vo_links[n] \in Nat /\ vo_links[n] > 0
  BY <1>1, FindLink DEF LinkInv
<1>2. ASSUME NEW n \in 1 .. LinkInodes, vfsops64_link(n) PROVE LinkInv'
  <2>1. PICK k \in 1 .. VFSOPS64_MAX :
           /\ k = vfsops64_get(n) /\ vo_tab[k].used /\ vo_tab[k].ino = n
           /\ vo_tab[k] \in LinkEntry /\ vo_tab[k].nlink = vo_links[n] /\ vo_links[n] \in Nat /\ vo_links[n] > 0
    BY <1>1, <1>2 DEF vfsops64_link
  <2>2. PICK e : e = [vo_tab[k] EXCEPT !.nlink = @ + 1]  OBVIOUS
  <2>3. vo_tab' = [vo_tab EXCEPT ![k] = e] /\ vo_links' = [vo_links EXCEPT ![n] = vo_links[n] + 1] /\ vo_next' = vo_next
    BY <1>2, <2>1, <2>2 DEF vfsops64_link
  <2>4. e \in LinkEntry /\ e.used /\ e.ino = n /\ e.nlink = vo_links[n] + 1  BY <2>1, <2>2 DEF LinkEntry
  <2>5. vo_links[n] + 1 \in Nat /\ vo_links[n] + 1 > 0  BY <2>1
  <2> QED BY <2>1, <2>3, <2>4, <2>5, LinkChanges
<1>3. ASSUME NEW n \in 1 .. LinkInodes, vfsops64_unlink(n) PROVE LinkInv'
  <2>1. PICK k \in 1 .. VFSOPS64_MAX :
           /\ k = vfsops64_get(n) /\ vo_tab[k].used /\ vo_tab[k].ino = n
           /\ vo_tab[k] \in LinkEntry /\ vo_tab[k].nlink = vo_links[n] /\ vo_links[n] \in Nat /\ vo_links[n] > 0
    BY <1>1, <1>3 DEF vfsops64_unlink
  <2>2. PICK e : e = Unlinked64(vo_tab[k])  OBVIOUS
  <2>3. vo_tab' = [vo_tab EXCEPT ![k] = e] /\ vo_links' = [vo_links EXCEPT ![n] = vo_links[n] - 1] /\ vo_next' = vo_next
    BY <1>3, <2>1, <2>2 DEF vfsops64_unlink
  <2>4. vo_links[n] - 1 \in Nat  BY <2>1
  <2>5. CASE vo_links[n] - 1 <= 0
    <3>1. e = NoLink /\ vo_links[n] - 1 = 0  BY <2>1, <2>2, <2>5 DEF Unlinked64
    <3>2. e \in LinkEntry /\ ~e.used  BY <3>1 DEF NoLink, LinkEntry
    <3> QED BY <2>1, <2>3, <2>4, <3>1, <3>2, LinkChanges
  <2>6. CASE ~(vo_links[n] - 1 <= 0)
    <3>1. e = [vo_tab[k] EXCEPT !.nlink = @ - 1]  BY <2>1, <2>2, <2>6 DEF Unlinked64
    <3>2. e \in LinkEntry /\ e.used /\ e.ino = n /\ e.nlink = vo_links[n] - 1  BY <2>1, <2>4, <3>1 DEF LinkEntry
    <3>3. vo_links[n] - 1 > 0  BY <2>4, <2>6
    <3> QED BY <2>1, <2>3, <2>4, <3>2, <3>3, LinkChanges
  <2> QED BY <2>5, <2>6
<1> QED BY <1>2, <1>3, LinkCreateKept DEF LinkNext

LEMMA LinkHolds == ASSUME LinkInv PROVE InodeWhileLinked
<1> SUFFICES ASSUME NEW n \in 1 .. LinkInodes PROVE (vfsops64_get(n) # 0) = (vo_links[n] > 0)
  BY DEF InodeWhileLinked
<1>1. CASE vfsops64_get(n) # 0  BY <1>1, FindLink DEF LinkInv
<1>2. CASE vfsops64_get(n) = 0  BY <1>2, FindLink DEF LinkInv
<1> QED BY <1>1, <1>2

------------------------------
(* Names and attributes.                                                   *)

\* The strengthening of CacheCurrent and AttributesKept, the same for both
\* tables: a key is in the table once, with the value it is to have, and a
\* key that is not there has none.
KeyEntry == [used : BOOLEAN, ino : KeyInodes \cup {0}, name : KeyNames \cup {""}, val : Nat]
KeysSound(tab, owed, n) ==
    /\ tab \in [1 .. n -> KeyEntry] /\ owed \in [Keys64 -> Nat]
    /\ \A i \in 1 .. n : tab[i].used =>
          /\ tab[i].ino \in KeyInodes /\ tab[i].name \in KeyNames
          /\ tab[i].val # 0 /\ tab[i].val = owed[<<tab[i].ino, tab[i].name>>]
    /\ \A i, j \in 1 .. n :
          tab[i].used /\ tab[j].used /\ tab[i].ino = tab[j].ino /\ tab[i].name = tab[j].name => i = j
    /\ \A ino \in KeyInodes, nm \in KeyNames :
          (\A i \in 1 .. n : ~(tab[i].used /\ tab[i].ino = ino /\ tab[i].name = nm)) => owed[<<ino, nm>>] = 0
KeyAt(tab, ino, nm) == FirstOf({i \in Taken(tab) : tab[i].ino = ino /\ tab[i].name = nm})
UsedKeys == {i \in 1 .. DENTRY64_MAX : de_tab[i].used}
DentryInv == KeysSound(de_tab, de_owed, DENTRY64_MAX) /\ de_n = Cardinality(UsedKeys)
XattrInv == KeysSound(xa_tab, xa_owed, XATTR64_MAX)

LEMMA NoKeys ==
  ASSUME NEW n, NEW tab, NEW owed, tab = [i \in 1 .. n |-> NoKey], owed = [k \in Keys64 |-> 0]
  PROVE  KeysSound(tab, owed, n) /\ \A i \in 1 .. n : ~tab[i].used
<1>1. NoKey \in KeyEntry /\ ~NoKey.used  BY DEF NoKey, KeyEntry
<1>2. \A ino \in KeyInodes, nm \in KeyNames : <<ino, nm>> \in Keys64  BY DEF Keys64
<1> QED BY <1>1, <1>2 DEF KeysSound

LEMMA KeyPut ==
  ASSUME NEW n, NEW tab, NEW owed, KeysSound(tab, owed, n),
         NEW ino \in KeyInodes, NEW nm \in KeyNames, NEW v \in Nat, v # 0, NEW k \in 1 .. n,
         \A i \in 1 .. n : tab[i].used /\ tab[i].ino = ino /\ tab[i].name = nm => i = k,
         tab[k].used => tab[k].ino = ino /\ tab[k].name = nm,
         NEW e \in KeyEntry, e.used, e.ino = ino, e.name = nm, e.val = v,
         NEW t, t = [tab EXCEPT ![k] = e], NEW o, o = [owed EXCEPT ![<<ino, nm>>] = v]
  PROVE  KeysSound(t, o, n)
<1>1. t \in [1 .. n -> KeyEntry] /\ t[k] = e /\ \A i \in 1 .. n : i # k => t[i] = tab[i]  BY DEF KeysSound
<1>2. /\ o \in [Keys64 -> Nat] /\ o[<<ino, nm>>] = v
      /\ \A a \in KeyInodes, b \in KeyNames : ~(a = ino /\ b = nm) => o[<<a, b>>] = owed[<<a, b>>]
  <2>1. \A a \in KeyInodes, b \in KeyNames : <<a, b>> \in Keys64  BY DEF Keys64
  <2> QED BY <2>1 DEF KeysSound
<1>3. \A i \in 1 .. n : t[i].used =>
          /\ t[i].ino \in KeyInodes /\ t[i].name \in KeyNames
          /\ t[i].val # 0 /\ t[i].val = o[<<t[i].ino, t[i].name>>]
  <2> TAKE i \in 1 .. n
  <2>1. CASE i = k  BY <1>1, <1>2, <2>1
  <2>2. CASE i # k /\ t[i].used
    <3>1. t[i] = tab[i] /\ ~(tab[i].ino = ino /\ tab[i].name = nm)  BY <1>1, <2>2
    <3> QED BY <1>2, <2>2, <3>1 DEF KeysSound
  <2> QED BY <2>1, <2>2
<1>4. \A i, j \in 1 .. n :
          t[i].used /\ t[j].used /\ t[i].ino = t[j].ino /\ t[i].name = t[j].name => i = j
  BY <1>1 DEF KeysSound
<1>5. ASSUME NEW a \in KeyInodes, NEW b \in KeyNames,
             \A i \in 1 .. n : ~(t[i].used /\ t[i].ino = a /\ t[i].name = b)
      PROVE  o[<<a, b>>] = 0
  <2>1. ~(a = ino /\ b = nm)  BY <1>1, <1>5
  <2>2. \A i \in 1 .. n : ~(tab[i].used /\ tab[i].ino = a /\ tab[i].name = b)  BY <1>1, <1>5, <2>1
  <2> QED BY <1>2, <2>1, <2>2 DEF KeysSound
<1> QED BY <1>1, <1>2, <1>3, <1>4, <1>5 DEF KeysSound

LEMMA KeyDrop ==
  ASSUME NEW n, NEW tab, NEW owed, KeysSound(tab, owed, n),
         NEW ino \in KeyInodes, NEW nm \in KeyNames, NEW k \in 1 .. n,
         tab[k].used, tab[k].ino = ino, tab[k].name = nm, NEW e \in KeyEntry, ~e.used,
         NEW t, t = [tab EXCEPT ![k] = e], NEW o, o = [owed EXCEPT ![<<ino, nm>>] = 0]
  PROVE  KeysSound(t, o, n)
<1>1. t \in [1 .. n -> KeyEntry] /\ t[k] = e /\ \A i \in 1 .. n : i # k => t[i] = tab[i]  BY DEF KeysSound
<1>2. /\ o \in [Keys64 -> Nat] /\ o[<<ino, nm>>] = 0
      /\ \A a \in KeyInodes, b \in KeyNames : ~(a = ino /\ b = nm) => o[<<a, b>>] = owed[<<a, b>>]
  <2>1. \A a \in KeyInodes, b \in KeyNames : <<a, b>> \in Keys64  BY DEF Keys64
  <2> QED BY <2>1 DEF KeysSound
<1>3. ASSUME NEW i \in 1 .. n, t[i].used PROVE t[i] = tab[i] /\ tab[i].used /\ ~(tab[i].ino = ino /\ tab[i].name = nm)
  <2>1. i # k /\ t[i] = tab[i]  BY <1>1, <1>3
  <2> QED BY <1>3, <2>1 DEF KeysSound
<1>4. \A i \in 1 .. n : t[i].used =>
          /\ t[i].ino \in KeyInodes /\ t[i].name \in KeyNames
          /\ t[i].val # 0 /\ t[i].val = o[<<t[i].ino, t[i].name>>]
  BY <1>2, <1>3 DEF KeysSound
<1>5. \A i, j \in 1 .. n :
          t[i].used /\ t[j].used /\ t[i].ino = t[j].ino /\ t[i].name = t[j].name => i = j
  BY <1>3 DEF KeysSound
<1>6. ASSUME NEW a \in KeyInodes, NEW b \in KeyNames,
             \A i \in 1 .. n : ~(t[i].used /\ t[i].ino = a /\ t[i].name = b)
      PROVE  o[<<a, b>>] = 0
  <2>1. CASE a = ino /\ b = nm  BY <1>2, <2>1
  <2>2. CASE ~(a = ino /\ b = nm)
    <3>1. \A i \in 1 .. n : ~(tab[i].used /\ tab[i].ino = a /\ tab[i].name = b)  BY <1>1, <1>6, <2>2
    <3> QED BY <1>2, <2>2, <3>1 DEF KeysSound
  <2> QED BY <2>1, <2>2
<1> QED BY <1>1, <1>2, <1>4, <1>5, <1>6 DEF KeysSound

\* The first entry of a key.
LEMMA FindKey ==
  ASSUME NEW n, NEW tab, NEW owed, KeysSound(tab, owed, n), NEW ino, NEW nm,
         NEW f, f = KeyAt(tab, ino, nm)
  PROVE  /\ f # 0 => f \in 1 .. n /\ tab[f].used /\ tab[f].ino = ino /\ tab[f].name = nm
         /\ f = 0 => \A i \in 1 .. n : ~(tab[i].used /\ tab[i].ino = ino /\ tab[i].name = nm)
<1> DEFINE S == {i \in Taken(tab) : tab[i].ino = ino /\ tab[i].name = nm}
<1>1. S = {i \in 1 .. n : tab[i].used /\ tab[i].ino = ino /\ tab[i].name = nm}  BY DEF Taken, KeysSound
<1>2. (FirstOf(S) = 0 <=> S = {}) /\ (S # {} => FirstOf(S) \in S)  BY <1>1, FirstMatch
<1> HIDE DEF S
<1>3. f = FirstOf(S)  BY DEF S, KeyAt
<1> QED BY <1>1, <1>2, <1>3

\* The entry a key has or gets.
LEMMA KeyPlace ==
  ASSUME NEW n, NEW tab, NEW owed, KeysSound(tab, owed, n), NEW ino, NEW nm,
         NEW f, f = KeyAt(tab, ino, nm),
         NEW k, k = IF f # 0 THEN f ELSE FirstFree(tab), k # 0
  PROVE  /\ k \in 1 .. n
         /\ \A i \in 1 .. n : tab[i].used /\ tab[i].ino = ino /\ tab[i].name = nm => i = k
         /\ tab[k].used => tab[k].ino = ino /\ tab[k].name = nm
<1>1. /\ f # 0 => f \in 1 .. n /\ tab[f].used /\ tab[f].ino = ino /\ tab[f].name = nm
      /\ f = 0 => \A i \in 1 .. n : ~(tab[i].used /\ tab[i].ino = ino /\ tab[i].name = nm)
  BY FindKey
<1>2. CASE f # 0  BY <1>1, <1>2 DEF KeysSound
<1>3. CASE f = 0
  <2>1. FirstFree(tab) # 0 /\ DOMAIN tab = 1 .. n  BY <1>3 DEF KeysSound
  <2>2. k \in 1 .. n /\ ~tab[k].used  BY <1>3, <2>1, FreeSlot
  <2> QED BY <1>1, <1>3, <2>2
<1> QED BY <1>2, <1>3

LEMMA DentryStarts == DentryInit => DentryInv
<1> SUFFICES ASSUME DentryInit PROVE DentryInv  OBVIOUS
<1>1. KeysSound(de_tab, de_owed, DENTRY64_MAX) /\ \A i \in 1 .. DENTRY64_MAX : ~de_tab[i].used
  BY NoKeys DEF DentryInit
<1>2. UsedKeys = {} /\ de_n = 0  BY <1>1 DEF UsedKeys, DentryInit
<1> QED BY <1>1, <1>2, FS_EmptySet DEF DentryInv

LEMMA UsedFinite == IsFiniteSet(UsedKeys)
<1>1. IsFiniteSet(1 .. DENTRY64_MAX)
  <2>1. DENTRY64_MAX \in Int  BY Storage64Assumption
  <2> QED BY <2>1, FS_Interval
<1> QED BY <1>1, FS_Subset DEF UsedKeys

LEMMA DentryInsertKept ==
  ASSUME DentryInv, NEW ino \in KeyInodes, NEW nm \in KeyNames, NEW v \in Nat, v # 0,
         dentry64_insert(ino, nm, v)
  PROVE  DentryInv'
<1>1. PICK f : f = KeyAt(de_tab, ino, nm)  OBVIOUS
<1>2. f = dentry_find(ino, nm)  BY <1>1 DEF dentry_find, KeyAt
<1>3. PICK k : k = (IF f # 0 THEN f ELSE FirstFree(de_tab)) /\ k # 0  BY <1>2 DEF dentry64_insert
<1>4. KeysSound(de_tab, de_owed, DENTRY64_MAX)  BY DEF DentryInv
<1>5. /\ k \in 1 .. DENTRY64_MAX
      /\ \A i \in 1 .. DENTRY64_MAX : de_tab[i].used /\ de_tab[i].ino = ino /\ de_tab[i].name = nm => i = k
      /\ de_tab[k].used => de_tab[k].ino = ino /\ de_tab[k].name = nm
  BY <1>1, <1>3, <1>4, KeyPlace
<1>6. PICK e : e = IF de_tab[k].used THEN [de_tab[k] EXCEPT !.val = v]
                   ELSE [used |-> TRUE, ino |-> ino, name |-> nm, val |-> v]
  OBVIOUS
<1>7. de_tab[k] \in KeyEntry /\ de_tab \in [1 .. DENTRY64_MAX -> KeyEntry]  BY <1>4, <1>5 DEF KeysSound
<1>8. e \in KeyEntry /\ e.used /\ e.ino = ino /\ e.name = nm /\ e.val = v
  <2>1. CASE de_tab[k].used  BY <1>5, <1>6, <1>7, <2>1 DEF KeyEntry
  <2>2. CASE ~de_tab[k].used  BY <1>6, <2>2 DEF KeyEntry
  <2> QED BY <2>1, <2>2
<1>9. /\ de_tab' = [de_tab EXCEPT ![k] = e] /\ de_owed' = [de_owed EXCEPT ![<<ino, nm>>] = v]
      /\ de_n' = IF de_tab[k].used THEN de_n ELSE de_n + 1
  BY <1>2, <1>3, <1>5, <1>6, <1>7 DEF dentry64_insert
<1>10. KeysSound(de_tab', de_owed', DENTRY64_MAX)  BY <1>4, <1>5, <1>8, <1>9, KeyPut
<1>11. de_tab'[k] = e /\ \A i \in 1 .. DENTRY64_MAX : i # k => de_tab'[i] = de_tab[i]  BY <1>5, <1>7, <1>9
<1>12. UsedKeys' = UsedKeys \cup {k}  BY <1>5, <1>8, <1>11 DEF UsedKeys
<1>13. k \in UsedKeys <=> de_tab[k].used  BY <1>5 DEF UsedKeys
<1>14. k \notin UsedKeys => Cardinality(UsedKeys \cup {k}) = Cardinality(UsedKeys) + 1
  BY UsedFinite, FS_AddElement
<1>15. k \in UsedKeys => UsedKeys \cup {k} = UsedKeys  OBVIOUS
<1>16. de_n' = Cardinality(UsedKeys')  BY <1>9, <1>12, <1>13, <1>14, <1>15 DEF DentryInv
<1> QED BY <1>10, <1>16 DEF DentryInv

LEMMA DentryInvalidateKept ==
  ASSUME DentryInv, NEW ino \in KeyInodes, NEW nm \in KeyNames, dentry64_invalidate(ino, nm)
  PROVE  DentryInv'
<1>1. PICK f : f = KeyAt(de_tab, ino, nm)  OBVIOUS
<1>2. f = dentry_find(ino, nm) /\ f # 0  BY <1>1 DEF dentry_find, dentry64_invalidate, KeyAt
<1>3. KeysSound(de_tab, de_owed, DENTRY64_MAX)  BY DEF DentryInv
<1>4. f \in 1 .. DENTRY64_MAX /\ de_tab[f].used /\ de_tab[f].ino = ino /\ de_tab[f].name = nm
  <2>1. f # 0 => f \in 1 .. DENTRY64_MAX /\ de_tab[f].used /\ de_tab[f].ino = ino /\ de_tab[f].name = nm
    BY <1>1, <1>3, FindKey
  <2> QED BY <1>2, <2>1
<1>5. NoKey \in KeyEntry /\ ~NoKey.used  BY DEF NoKey, KeyEntry
<1>6. /\ de_tab' = [de_tab EXCEPT ![f] = NoKey] /\ de_owed' = [de_owed EXCEPT ![<<ino, nm>>] = 0]
      /\ de_n' = de_n - 1
  BY <1>2 DEF dentry64_invalidate
<1>7. KeysSound(de_tab', de_owed', DENTRY64_MAX)  BY <1>3, <1>4, <1>5, <1>6, KeyDrop
<1>8. de_tab'[f] = NoKey /\ \A i \in 1 .. DENTRY64_MAX : i # f => de_tab'[i] = de_tab[i]
  BY <1>3, <1>4, <1>6 DEF KeysSound
<1>9. UsedKeys' = UsedKeys \ {f} /\ f \in UsedKeys  BY <1>4, <1>5, <1>8 DEF UsedKeys
<1>10. Cardinality(UsedKeys \ {f}) = Cardinality(UsedKeys) - 1  BY <1>9, UsedFinite, FS_RemoveElement
<1>11. de_n' = Cardinality(UsedKeys')  BY <1>6, <1>9, <1>10 DEF DentryInv
<1> QED BY <1>7, <1>11 DEF DentryInv

LEMMA DentryKept == ASSUME DentryInv, DentryNext PROVE DentryInv'
<1>1. \A k \in Keys64 : k[1] \in KeyInodes /\ k[2] \in KeyNames  BY DEF Keys64
<1>2. \A v \in 1 .. 2 : v \in Nat /\ v # 0  OBVIOUS
<1> QED BY <1>1, <1>2, DentryInsertKept, DentryInvalidateKept DEF DentryNext

LEMMA DentryHolds == ASSUME DentryInv PROVE CacheCurrent
<1>1. KeysSound(de_tab, de_owed, DENTRY64_MAX)  BY DEF DentryInv
<1>2. ASSUME NEW k \in Keys64 PROVE dentry64_lookup(k[1], k[2]) = de_owed[k]
  <2>1. k[1] \in KeyInodes /\ k[2] \in KeyNames /\ k = <<k[1], k[2]>>  BY DEF Keys64
  <2>2. PICK f : f = KeyAt(de_tab, k[1], k[2])  OBVIOUS
  <2>3. /\ f # 0 => f \in 1 .. DENTRY64_MAX /\ de_tab[f].used /\ de_tab[f].ino = k[1] /\ de_tab[f].name = k[2]
        /\ f = 0 => \A i \in 1 .. DENTRY64_MAX : ~(de_tab[i].used /\ de_tab[i].ino = k[1] /\ de_tab[i].name = k[2])
    BY <1>1, <2>2, FindKey
  <2>4. dentry64_lookup(k[1], k[2]) = IF f = 0 THEN 0 ELSE de_tab[f].val
    BY <2>2 DEF dentry64_lookup, dentry_find, KeyAt
  <2>5. dentry64_lookup(k[1], k[2]) = de_owed[<<k[1], k[2]>>]  BY <1>1, <2>1, <2>3, <2>4 DEF KeysSound
  <2> QED BY <2>1, <2>5
<1>3. Taken(de_tab) = UsedKeys  BY <1>1 DEF Taken, UsedKeys, KeysSound
<1> QED BY <1>2, <1>3 DEF CacheCurrent, DentryInv

LEMMA XattrStarts == XattrInit => XattrInv
BY NoKeys DEF XattrInit, XattrInv

LEMMA XattrSetKept ==
  ASSUME XattrInv, NEW ino \in KeyInodes, NEW nm \in KeyNames, NEW v \in Nat, v # 0, xattr64_set(ino, nm, v)
  PROVE  XattrInv'
<1>1. PICK f : f = KeyAt(xa_tab, ino, nm)  OBVIOUS
<1>2. f = xattr_find(ino, nm)  BY <1>1 DEF xattr_find, KeyAt
<1>3. PICK k : k = (IF f # 0 THEN f ELSE FirstFree(xa_tab)) /\ k # 0  BY <1>2 DEF xattr64_set
<1>4. KeysSound(xa_tab, xa_owed, XATTR64_MAX)  BY DEF XattrInv
<1>5. /\ k \in 1 .. XATTR64_MAX
      /\ \A i \in 1 .. XATTR64_MAX : xa_tab[i].used /\ xa_tab[i].ino = ino /\ xa_tab[i].name = nm => i = k
      /\ xa_tab[k].used => xa_tab[k].ino = ino /\ xa_tab[k].name = nm
  BY <1>1, <1>3, <1>4, KeyPlace
<1>6. PICK e : e = [used |-> TRUE, ino |-> ino, name |-> nm, val |-> v]  OBVIOUS
<1>7. e \in KeyEntry /\ e.used /\ e.ino = ino /\ e.name = nm /\ e.val = v  BY <1>6 DEF KeyEntry
<1>8. xa_tab' = [xa_tab EXCEPT ![k] = e] /\ xa_owed' = [xa_owed EXCEPT ![<<ino, nm>>] = v]
  BY <1>2, <1>3, <1>6 DEF xattr64_set
<1>9. KeysSound(xa_tab', xa_owed', XATTR64_MAX)  BY <1>4, <1>5, <1>7, <1>8, KeyPut
<1> QED BY <1>9 DEF XattrInv

LEMMA XattrRemoveKept ==
  ASSUME XattrInv, NEW ino \in KeyInodes, NEW nm \in KeyNames, xattr64_remove(ino, nm)
  PROVE  XattrInv'
<1>1. PICK f : f = KeyAt(xa_tab, ino, nm)  OBVIOUS
<1>2. f = xattr_find(ino, nm) /\ f # 0  BY <1>1 DEF xattr_find, xattr64_remove, KeyAt
<1>3. KeysSound(xa_tab, xa_owed, XATTR64_MAX)  BY DEF XattrInv
<1>4. f \in 1 .. XATTR64_MAX /\ xa_tab[f].used /\ xa_tab[f].ino = ino /\ xa_tab[f].name = nm
  <2>1. f # 0 => f \in 1 .. XATTR64_MAX /\ xa_tab[f].used /\ xa_tab[f].ino = ino /\ xa_tab[f].name = nm
    BY <1>1, <1>3, FindKey
  <2> QED BY <1>2, <2>1
<1>5. PICK e : e = [xa_tab[f] EXCEPT !.used = FALSE]  OBVIOUS
<1>6. xa_tab[f] \in KeyEntry  BY <1>3, <1>4 DEF KeysSound
<1>7. e \in KeyEntry /\ ~e.used  BY <1>5, <1>6 DEF KeyEntry
<1>8. xa_tab' = [xa_tab EXCEPT ![f] = e] /\ xa_owed' = [xa_owed EXCEPT ![<<ino, nm>>] = 0]
  BY <1>2, <1>5 DEF xattr64_remove
<1>9. KeysSound(xa_tab', xa_owed', XATTR64_MAX)  BY <1>3, <1>4, <1>7, <1>8, KeyDrop
<1> QED BY <1>9 DEF XattrInv

LEMMA XattrKept == ASSUME XattrInv, XattrNext PROVE XattrInv'
<1>1. \A k \in Keys64 : k[1] \in KeyInodes /\ k[2] \in KeyNames  BY DEF Keys64
<1>2. \A v \in 1 .. 2 : v \in Nat /\ v # 0  OBVIOUS
<1> QED BY <1>1, <1>2, XattrSetKept, XattrRemoveKept DEF XattrNext

LEMMA XattrHolds == ASSUME XattrInv PROVE AttributesKept
<1>1. KeysSound(xa_tab, xa_owed, XATTR64_MAX)  BY DEF XattrInv
<1>2. ASSUME NEW k \in Keys64 PROVE xattr64_get(k[1], k[2]) = xa_owed[k]
  <2>1. k[1] \in KeyInodes /\ k[2] \in KeyNames /\ k = <<k[1], k[2]>>  BY DEF Keys64
  <2>2. PICK f : f = KeyAt(xa_tab, k[1], k[2])  OBVIOUS
  <2>3. /\ f # 0 => f \in 1 .. XATTR64_MAX /\ xa_tab[f].used /\ xa_tab[f].ino = k[1] /\ xa_tab[f].name = k[2]
        /\ f = 0 => \A i \in 1 .. XATTR64_MAX : ~(xa_tab[i].used /\ xa_tab[i].ino = k[1] /\ xa_tab[i].name = k[2])
    BY <1>1, <2>2, FindKey
  <2>4. xattr64_get(k[1], k[2]) = IF f = 0 THEN 0 ELSE xa_tab[f].val  BY <2>2 DEF xattr64_get, xattr_find, KeyAt
  <2>5. xattr64_get(k[1], k[2]) = xa_owed[<<k[1], k[2]>>]  BY <1>1, <2>1, <2>3, <2>4 DEF KeysSound
  <2> QED BY <2>1, <2>5
<1>3. ASSUME NEW ino \in KeyInodes PROVE xattr64_list(ino) = {n \in KeyNames : xa_owed[<<ino, n>>] # 0}
  <2>1. ASSUME NEW x \in xattr64_list(ino) PROVE x \in KeyNames /\ xa_owed[<<ino, x>>] # 0
    <3>1. PICK i \in 1 .. XATTR64_MAX : xa_tab[i].used /\ xa_tab[i].ino = ino /\ x = xa_tab[i].name
      BY <1>1 DEF xattr64_list, Taken, KeysSound
    <3> QED BY <1>1, <3>1 DEF KeysSound
  <2>2. ASSUME NEW x \in KeyNames, xa_owed[<<ino, x>>] # 0 PROVE x \in xattr64_list(ino)
    <3>1. PICK i \in 1 .. XATTR64_MAX : xa_tab[i].used /\ xa_tab[i].ino = ino /\ xa_tab[i].name = x
      BY <1>1, <2>2 DEF KeysSound
    <3>2. i \in Taken(xa_tab)  BY <1>1, <3>1 DEF Taken, KeysSound
    <3> QED BY <3>1, <3>2 DEF xattr64_list
  <2> QED BY <2>1, <2>2
<1> QED BY <1>2, <1>3 DEF AttributesKept

------------------------------
(* Lists and journals.                                                     *)

\* The strengthening of ListExact: no entry is in the list twice, because
\* one that overlaps another is refused.
GptEntry == [type : {"efi", "data"}, first : Nat, last : Nat]
GptInv ==
    /\ pt_parts \in Seq(GptEntry) /\ IsFiniteSet(pt_owed) /\ Len(pt_parts) = Cardinality(pt_owed)
    /\ \A x : x \in pt_owed <=> \E i \in 1 .. Len(pt_parts) : pt_parts[i] = x
    /\ \A i, j \in 1 .. Len(pt_parts) : pt_parts[i] = pt_parts[j] => i = j

LEMMA GptStarts == GptInit => GptInv
<1> SUFFICES ASSUME GptInit PROVE GptInv  OBVIOUS
<1>1. pt_parts = <<>> /\ pt_owed = {}  BY DEF GptInit
<1>2. pt_parts \in Seq(GptEntry) /\ Len(pt_parts) = 0  BY <1>1, EmptySeq
<1> QED BY <1>1, <1>2, FS_EmptySet DEF GptInv

LEMMA GptAddKept ==
  ASSUME GptInv, NEW t \in {"efi", "data"}, NEW f \in Nat, NEW l \in Nat, parttool64_gpt_add(t, f, l)
  PROVE  GptInv'
<1> DEFINE n == Len(pt_parts)
           e == [type |-> t, first |-> f, last |-> l]
<1>1. pt_parts' = Append(pt_parts, e) /\ pt_owed' = pt_owed \cup {e} /\ f < l
      /\ \A i \in 1 .. n : ~(f < pt_parts[i].last /\ pt_parts[i].first < l)
  BY DEF parttool64_gpt_add
<1>2. pt_parts \in Seq(GptEntry) /\ n \in Nat /\ e \in GptEntry /\ e.first = f /\ e.last = l
  BY LenProperties DEF GptInv, GptEntry
<1> HIDE DEF e
<1>3. /\ pt_parts' \in Seq(GptEntry) /\ Len(pt_parts') = n + 1
      /\ pt_parts'[n + 1] = e /\ \A i \in 1 .. n : pt_parts'[i] = pt_parts[i]
  BY <1>1, <1>2, AppendProperties
<1>4. \A i \in 1 .. n : pt_parts[i] # e  BY <1>1, <1>2
<1>5. e \notin pt_owed  BY <1>4 DEF GptInv
<1>6. IsFiniteSet(pt_owed) /\ Cardinality(pt_owed \cup {e}) = Cardinality(pt_owed) + 1 /\ IsFiniteSet(pt_owed \cup {e})
  BY <1>5, FS_AddElement DEF GptInv
<1>7. \A i \in 1 .. n + 1 : i = n + 1 \/ i \in 1 .. n  BY <1>2
<1>8. n + 1 \in 1 .. n + 1 /\ \A i \in 1 .. n : i \in 1 .. n + 1  BY <1>2
<1>9. n = Cardinality(pt_owed)  BY DEF GptInv
<1>10. \A x : x \in pt_owed <=> \E i \in 1 .. n : pt_parts[i] = x  BY DEF GptInv
<1>11. \A i, j \in 1 .. n : pt_parts[i] = pt_parts[j] => i = j  BY DEF GptInv
<1> HIDE DEF n
<1>12. \A x : x \in pt_owed' <=> \E i \in 1 .. n + 1 : pt_parts'[i] = x  BY <1>1, <1>3, <1>7, <1>8, <1>10
<1>13. \A i, j \in 1 .. n + 1 : pt_parts'[i] = pt_parts'[j] => i = j  BY <1>3, <1>4, <1>7, <1>11
<1> QED BY <1>1, <1>3, <1>6, <1>9, <1>12, <1>13 DEF GptInv

LEMMA GptDeleteKept ==
  ASSUME GptInv, NEW m \in Nat \ {0}, parttool64_gpt_delete(m)
  PROVE  GptInv'
<1> DEFINE n == Len(pt_parts)
<1>1. pt_parts \in Seq(GptEntry) /\ n \in Nat  BY LenProperties DEF GptInv
<1>2. m \in 1 .. n  BY <1>1 DEF parttool64_gpt_delete
<1>3. pt_parts' = RemoveAt(pt_parts, m) /\ pt_owed' = pt_owed \ {pt_parts[m]}
  BY DEF parttool64_gpt_delete, Compacted
<1>4. /\ pt_parts' \in Seq(GptEntry) /\ Len(pt_parts') = n - 1
      /\ \A k \in 1 .. n - 1 : pt_parts'[k] = IF k < m THEN pt_parts[k] ELSE pt_parts[k + 1]
  BY <1>1, <1>2, <1>3, Removed
<1>5. pt_parts[m] \in pt_owed  BY <1>2 DEF GptInv
<1>6. /\ IsFiniteSet(pt_owed \ {pt_parts[m]})
      /\ Cardinality(pt_owed \ {pt_parts[m]}) = Cardinality(pt_owed) - 1
  BY <1>5, FS_RemoveElement DEF GptInv
<1>7. n = Cardinality(pt_owed)  BY DEF GptInv
<1>8. \A k \in 1 .. n - 1 : \E a \in 1 .. n : /\ pt_parts'[k] = pt_parts[a] /\ a # m
                                             /\ a = IF k < m THEN k ELSE k + 1
  <2> TAKE k \in 1 .. n - 1
  <2> DEFINE a == IF k < m THEN k ELSE k + 1
  <2>1. a \in 1 .. n /\ a # m  BY <1>1, <1>2
  <2>2. pt_parts'[k] = pt_parts[a]  BY <1>4
  <2> QED BY <2>1, <2>2
<1>9. \A a \in 1 .. n : a # m => \E k \in 1 .. n - 1 : pt_parts'[k] = pt_parts[a]
  <2> TAKE a \in 1 .. n
  <2> DEFINE k == IF a < m THEN a ELSE a - 1
  <2> SUFFICES ASSUME a # m PROVE \E x \in 1 .. n - 1 : pt_parts'[x] = pt_parts[a]  OBVIOUS
  <2>1. k \in 1 .. n - 1 /\ a = IF k < m THEN k ELSE k + 1  BY <1>1, <1>2
  <2>2. pt_parts'[k] = pt_parts[a]  BY <1>4, <2>1
  <2> QED BY <2>1, <2>2
<1>10. \A i, j \in 1 .. n : pt_parts[i] = pt_parts[j] => i = j  BY DEF GptInv
<1>11. \A x : x \in pt_owed <=> \E i \in 1 .. n : pt_parts[i] = x  BY DEF GptInv
<1> HIDE DEF n
<1>12. ASSUME NEW i \in 1 .. n - 1, NEW j \in 1 .. n - 1, pt_parts'[i] = pt_parts'[j] PROVE i = j
  <2>1. PICK a \in 1 .. n : pt_parts'[i] = pt_parts[a] /\ a = IF i < m THEN i ELSE i + 1  BY <1>8
  <2>2. PICK b \in 1 .. n : pt_parts'[j] = pt_parts[b] /\ b = IF j < m THEN j ELSE j + 1  BY <1>8
  <2>3. a = b  BY <1>10, <1>12, <2>1, <2>2
  <2> QED BY <1>1, <1>2, <2>1, <2>2, <2>3
<1>13. ASSUME NEW x PROVE x \in pt_owed' <=> \E i \in 1 .. n - 1 : pt_parts'[i] = x
  <2>1. ASSUME x \in pt_owed' PROVE \E i \in 1 .. n - 1 : pt_parts'[i] = x
    <3>1. PICK a \in 1 .. n : pt_parts[a] = x /\ a # m  BY <1>3, <1>11, <2>1
    <3> QED BY <1>9, <3>1
  <2>2. ASSUME NEW i \in 1 .. n - 1, pt_parts'[i] = x PROVE x \in pt_owed'
    <3>1. PICK a \in 1 .. n : x = pt_parts[a] /\ a # m  BY <1>8, <2>2
    <3> QED BY <1>2, <1>3, <1>10, <1>11, <3>1
  <2> QED BY <2>1, <2>2
<1> QED BY <1>3, <1>4, <1>6, <1>7, <1>12, <1>13 DEF GptInv

LEMMA GptKept == ASSUME GptInv, GptNext PROVE GptInv'
<1>1. ASSUME NEW t \in {"efi", "data"}, NEW f \in 0 .. PartLba, NEW l \in 0 .. PartLba,
             parttool64_gpt_add(t, f, l)
      PROVE  GptInv'
  <2>1. f \in Nat /\ l \in Nat  OBVIOUS
  <2> QED BY <1>1, <2>1, GptAddKept
<1>2. ASSUME NEW m \in 1 .. PARTTOOL64_MAX_PARTS, parttool64_gpt_delete(m) PROVE GptInv'
  <2>1. m \in Nat \ {0}  OBVIOUS
  <2> QED BY <1>2, <2>1, GptDeleteKept
<1> QED BY <1>1, <1>2 DEF GptNext

LEMMA GptHolds == ASSUME GptInv PROVE ListExact
<1>1. DOMAIN pt_parts = 1 .. Len(pt_parts)  BY LenProperties DEF GptInv
<1>2. ToSet(pt_parts) = pt_owed  BY <1>1 DEF ToSet, GptInv
<1> QED BY <1>2 DEF ListExact, GptInv

\* SnapshotFrozen is inductive with the shape of the table.
SnapChange == [block : SnapBlocks, data : {0, 1}]
SnapEntry == [used : BOOLEAN, changes : Seq(SnapChange)]
SnapInv ==
    /\ sn_tab \in [1 .. SNAP64_MAX -> SnapEntry] /\ sn_dev \in [SnapBlocks -> {0, 1}]
    /\ sn_owed = [i \in 1 .. SNAP64_MAX |-> sn_owed[i]]
    /\ \A i \in 1 .. SNAP64_MAX : sn_tab[i].used => \A b \in SnapBlocks : snap64_read(i, b) = sn_owed[i][b]

LEMMA SnapStarts == SnapInit => SnapInv
<1> SUFFICES ASSUME SnapInit PROVE SnapInv  OBVIOUS
<1>1. <<>> \in Seq(SnapChange)  BY EmptySeq
<1>2. NoSnap \in SnapEntry /\ ~NoSnap.used  BY <1>1 DEF NoSnap, SnapEntry
<1> QED BY <1>2 DEF SnapInit, SnapInv

LEMMA FindChange ==
  ASSUME NEW s \in SnapEntry, NEW b
  PROVE  /\ Len(s.changes) \in Nat /\ s.changes \in Seq(SnapChange)
         /\ ChangeOf(s, b) # 0 => ChangeOf(s, b) \in 1 .. Len(s.changes) /\ s.changes[ChangeOf(s, b)].block = b
         /\ ChangeOf(s, b) = 0 => \A i \in 1 .. Len(s.changes) : s.changes[i].block # b
<1> DEFINE S == {i \in 1 .. Len(s.changes) : s.changes[i].block = b}
<1>1. s.changes \in Seq(SnapChange)  BY DEF SnapEntry
<1>2. Len(s.changes) \in Nat  BY <1>1, LenProperties
<1>3. S \subseteq Nat \ {0}  BY <1>2
<1>4. (FirstOf(S) = 0 <=> S = {}) /\ (S # {} => FirstOf(S) \in S)
  <2> HIDE DEF S
  <2> QED BY <1>3, FirstMatch
<1>5. ChangeOf(s, b) = FirstOf(S)  BY DEF ChangeOf
<1> QED BY <1>1, <1>2, <1>4, <1>5

\* What a snapshot says of every block stays when the device has written one.
LEMMA FrozenReads ==
  ASSUME NEW s \in SnapEntry, NEW b \in SnapBlocks, sn_dev \in [SnapBlocks -> {0, 1}],
         NEW t, t = Frozen(s, b), NEW c \in SnapBlocks
  PROVE  /\ t \in SnapEntry /\ (t.used <=> s.used)
         /\ ChangeOf(t, b) # 0
         /\ ChangeOf(s, c) # 0 => ChangeOf(t, c) = ChangeOf(s, c)
                                  /\ t.changes[ChangeOf(t, c)] = s.changes[ChangeOf(s, c)]
         /\ ChangeOf(s, c) = 0 => IF c = b THEN t.changes[ChangeOf(t, c)].data = sn_dev[c]
                                  ELSE ChangeOf(t, c) = 0
<1>1. CASE ChangeOf(s, b) # 0
  <2>1. t = s  BY <1>1 DEF Frozen
  <2> QED BY <1>1, <2>1
<1>2. CASE ChangeOf(s, b) = 0
  <2> DEFINE n == Len(s.changes)
             r == [block |-> b, data |-> sn_dev[b]]
  <2>1. s.changes \in Seq(SnapChange) /\ n \in Nat /\ \A i \in 1 .. n : s.changes[i].block # b
    BY <1>2, FindChange
  <2>2. r \in SnapChange /\ r.block = b /\ r.data = sn_dev[b]  BY DEF SnapChange
  <2>3. t = [s EXCEPT !.changes = Append(s.changes, r)]  BY <1>2 DEF Frozen
  <2> HIDE DEF r
  <2>4. PICK q : q = Append(s.changes, r)  OBVIOUS
  <2>5. q \in Seq(SnapChange) /\ Len(q) = n + 1 /\ q[n + 1] = r /\ \A i \in 1 .. n : q[i] = s.changes[i]
    BY <2>1, <2>2, <2>4, AppendProperties
  <2>6. t \in SnapEntry /\ (t.used <=> s.used) /\ t.changes = q  BY <2>3, <2>4, <2>5 DEF SnapEntry
  <2>7. \A i \in 1 .. n + 1 : i = n + 1 \/ i \in 1 .. n  BY <2>1
  <2>8. n + 1 \in 1 .. n + 1 /\ \A i \in 1 .. n : i \in 1 .. n + 1  BY <2>1
  <2> DEFINE T(x) == {i \in 1 .. n + 1 : q[i].block = x}
             S(x) == {i \in 1 .. n : s.changes[i].block = x}
  <2>9. ChangeOf(t, b) = FirstOf(T(b)) /\ ChangeOf(t, c) = FirstOf(T(c)) /\ ChangeOf(s, c) = FirstOf(S(c))
    BY <2>5, <2>6 DEF ChangeOf
  <2>10. T(b) = {n + 1}  BY <2>1, <2>2, <2>5, <2>7, <2>8
  <2>11. c # b => T(c) = S(c)  BY <2>2, <2>5, <2>7, <2>8
  <2>12. ChangeOf(t, b) = n + 1
    <3>1. n + 1 \in Nat \ {0}  BY <2>1
    <3>2. FirstOf({n + 1}) \in {n + 1}  BY <3>1, FirstMatch
    <3> QED BY <2>9, <2>10, <3>2
  <2>13. ChangeOf(t, b) # 0 /\ t.changes[ChangeOf(t, b)].data = sn_dev[b]  BY <2>1, <2>2, <2>5, <2>6, <2>12
  <2>14. c # b => ChangeOf(t, c) = ChangeOf(s, c)  BY <2>9, <2>11
  <2>15. ChangeOf(s, c) # 0 => c # b /\ ChangeOf(s, c) \in 1 .. n  BY <1>2, FindChange
  <2> HIDE DEF n, T, S
  <2> QED BY <1>2, <2>5, <2>6, <2>13, <2>14, <2>15
<1> QED BY <1>1, <1>2

LEMMA SnapCreateKept == ASSUME SnapInv, snap64_create PROVE SnapInv'
<1>1. PICK k \in 1 .. SNAP64_MAX : k = FirstFree(sn_tab) /\ ~sn_tab[k].used
  <2>1. DOMAIN sn_tab = 1 .. SNAP64_MAX /\ FirstFree(sn_tab) # 0  BY DEF SnapInv, snap64_create
  <2> QED BY <2>1, FreeSlot
<1> DEFINE e == [used |-> TRUE, changes |-> <<>>]
<1>2. sn_tab' = [sn_tab EXCEPT ![k] = e] /\ sn_owed' = [sn_owed EXCEPT ![k] = sn_dev] /\ sn_dev' = sn_dev
  BY <1>1 DEF snap64_create
<1>3. e \in SnapEntry /\ e.used /\ e.changes = <<>>  BY EmptySeq DEF SnapEntry
<1> HIDE DEF e
<1>4. /\ sn_tab' \in [1 .. SNAP64_MAX -> SnapEntry] /\ sn_tab'[k] = e
      /\ \A i \in 1 .. SNAP64_MAX : i # k => sn_tab'[i] = sn_tab[i]
  BY <1>2, <1>3 DEF SnapInv
<1>5. /\ sn_owed' = [i \in 1 .. SNAP64_MAX |-> sn_owed'[i]] /\ sn_owed'[k] = sn_dev
      /\ \A i \in 1 .. SNAP64_MAX : i # k => sn_owed'[i] = sn_owed[i]
  BY <1>2 DEF SnapInv
<1>6. \A b : ChangeOf(e, b) = 0
  <2> TAKE b
  <2>1. Len(e.changes) = 0  BY <1>3, EmptySeq
  <2> QED BY <1>3, <2>1, FindChange
<1>7. ASSUME NEW i \in 1 .. SNAP64_MAX, sn_tab'[i].used, NEW b \in SnapBlocks
      PROVE  snap64_read(i, b)' = sn_owed'[i][b]
  <2>1. snap64_read(i, b)' = IF ChangeOf(sn_tab'[i], b) = 0 THEN sn_dev'[b]
                             ELSE sn_tab'[i].changes[ChangeOf(sn_tab'[i], b)].data
    BY DEF snap64_read
  <2>2. snap64_read(i, b) = IF ChangeOf(sn_tab[i], b) = 0 THEN sn_dev[b]
                            ELSE sn_tab[i].changes[ChangeOf(sn_tab[i], b)].data
    BY DEF snap64_read
  <2>3. CASE i = k  BY <1>2, <1>4, <1>5, <1>6, <2>1, <2>3
  <2>4. CASE i # k
    <3>1. sn_tab'[i] = sn_tab[i] /\ sn_owed'[i] = sn_owed[i] /\ sn_tab[i].used  BY <1>4, <1>5, <1>7, <2>4
    <3>2. snap64_read(i, b) = sn_owed[i][b]  BY <3>1 DEF SnapInv
    <3> QED BY <1>2, <2>1, <2>2, <3>1, <3>2
  <2> QED BY <2>3, <2>4
<1>8. sn_dev' \in [SnapBlocks -> {0, 1}]  BY <1>2 DEF SnapInv
<1> QED BY <1>4, <1>5, <1>7, <1>8 DEF SnapInv

LEMMA SnapWriteKept ==
  ASSUME SnapInv, NEW b \in SnapBlocks, NEW v \in {0, 1}, SnapBlockWrite(b, v)
  PROVE  SnapInv'
<1>1. /\ sn_tab' = [i \in 1 .. SNAP64_MAX |-> IF sn_tab[i].used THEN Frozen(sn_tab[i], b) ELSE sn_tab[i]]
      /\ sn_dev' = [sn_dev EXCEPT ![b] = v] /\ sn_owed' = sn_owed
  BY DEF SnapBlockWrite
<1>2. sn_dev \in [SnapBlocks -> {0, 1}] /\ \A i \in 1 .. SNAP64_MAX : sn_tab[i] \in SnapEntry  BY DEF SnapInv
<1>3. sn_dev' \in [SnapBlocks -> {0, 1}] /\ sn_dev'[b] = v /\ \A c \in SnapBlocks : c # b => sn_dev'[c] = sn_dev[c]
  BY <1>1, <1>2
<1>4. \A i \in 1 .. SNAP64_MAX : sn_tab'[i] \in SnapEntry /\ (sn_tab'[i].used <=> sn_tab[i].used)
  <2> TAKE i \in 1 .. SNAP64_MAX
  <2>1. Frozen(sn_tab[i], b) \in SnapEntry /\ (Frozen(sn_tab[i], b).used <=> sn_tab[i].used)
    BY <1>2, FrozenReads
  <2> QED BY <1>1, <1>2, <2>1
<1>5. ASSUME NEW i \in 1 .. SNAP64_MAX, sn_tab'[i].used, NEW c \in SnapBlocks
      PROVE  snap64_read(i, c)' = sn_owed'[i][c]
  <2>1. PICK s \in SnapEntry : s = sn_tab[i] /\ s.used  BY <1>2, <1>4, <1>5
  <2>2. PICK t : t = Frozen(s, b) /\ t = sn_tab'[i]  BY <1>1, <2>1
  <2>2a. t = Frozen(s, b) /\ b \in SnapBlocks /\ c \in SnapBlocks  BY <1>1, <1>5, <2>1, <2>2
  <2>3. /\ ChangeOf(t, b) # 0
        /\ ChangeOf(s, c) # 0 => ChangeOf(t, c) = ChangeOf(s, c)
                                 /\ t.changes[ChangeOf(t, c)] = s.changes[ChangeOf(s, c)]
        /\ ChangeOf(s, c) = 0 => IF c = b THEN t.changes[ChangeOf(t, c)].data = sn_dev[c]
                                 ELSE ChangeOf(t, c) = 0
    BY <1>2, <2>2a, FrozenReads
  <2>4. snap64_read(i, c)' = IF ChangeOf(t, c) = 0 THEN sn_dev'[c] ELSE t.changes[ChangeOf(t, c)].data
    BY <2>2 DEF snap64_read
  <2>5. snap64_read(i, c) = IF ChangeOf(s, c) = 0 THEN sn_dev[c] ELSE s.changes[ChangeOf(s, c)].data
    BY <2>1 DEF snap64_read
  <2>6. snap64_read(i, c)' = snap64_read(i, c)  BY <1>3, <2>3, <2>4, <2>5
  <2> QED BY <1>1, <2>1, <2>6 DEF SnapInv
<1>6. sn_tab' \in [1 .. SNAP64_MAX -> SnapEntry]  BY <1>1, <1>4
<1>7. sn_owed' = [i \in 1 .. SNAP64_MAX |-> sn_owed'[i]]  BY <1>1 DEF SnapInv
<1> QED BY <1>3, <1>5, <1>6, <1>7 DEF SnapInv

LEMMA SnapDeleteKept ==
  ASSUME SnapInv, NEW k \in 1 .. SNAP64_MAX, snap64_delete(k)
  PROVE  SnapInv'
<1>1. sn_tab' = [sn_tab EXCEPT ![k] = NoSnap] /\ sn_owed' = [sn_owed EXCEPT ![k] = <<>>] /\ sn_dev' = sn_dev
  BY DEF snap64_delete
<1>2. NoSnap \in SnapEntry /\ ~NoSnap.used  BY EmptySeq DEF NoSnap, SnapEntry
<1>3. /\ sn_tab' \in [1 .. SNAP64_MAX -> SnapEntry] /\ ~sn_tab'[k].used
      /\ \A i \in 1 .. SNAP64_MAX : i # k => sn_tab'[i] = sn_tab[i]
  BY <1>1, <1>2 DEF SnapInv
<1>4. /\ sn_owed' = [i \in 1 .. SNAP64_MAX |-> sn_owed'[i]]
      /\ \A i \in 1 .. SNAP64_MAX : i # k => sn_owed'[i] = sn_owed[i]
  BY <1>1 DEF SnapInv
<1>5. ASSUME NEW i \in 1 .. SNAP64_MAX, sn_tab'[i].used, NEW b \in SnapBlocks
      PROVE  snap64_read(i, b)' = sn_owed'[i][b]
  <2>1. sn_tab'[i] = sn_tab[i] /\ sn_owed'[i] = sn_owed[i] /\ sn_tab[i].used  BY <1>3, <1>4, <1>5
  <2>2. snap64_read(i, b) = sn_owed[i][b]  BY <2>1 DEF SnapInv
  <2> QED BY <1>1, <2>1, <2>2 DEF snap64_read
<1>6. sn_dev' \in [SnapBlocks -> {0, 1}]  BY <1>1 DEF SnapInv
<1> QED BY <1>3, <1>4, <1>5, <1>6 DEF SnapInv

LEMMA SnapKept == ASSUME SnapInv, SnapNext PROVE SnapInv'
<1>1. 0 .. 1 = {0, 1}  OBVIOUS
<1> QED BY <1>1, SnapCreateKept, SnapWriteKept, SnapDeleteKept DEF SnapNext

LEMMA SnapHolds == ASSUME SnapInv PROVE SnapshotFrozen
BY DEF SnapInv, SnapshotFrozen, Taken

------------------------------
(* The journal.                                                            *)

\* The strengthening of RecoverRestores: the copies and the entries of the
\* open transaction are copies of blocks, and while there is room a replay
\* gives each block its last committed value.
JournalCopy == [block : JournalBlocks, data : Nat]
JnInv ==
    /\ jn_stage \in Seq(JournalCopy) /\ jn_committed \in Seq(JournalCopy)
    /\ jn_dev \in [JournalBlocks -> Nat] /\ jn_owed.last \in [JournalBlocks -> Nat] /\ jn_owed.n \in Nat
    /\ Len(jn_committed) < JOURNAL64_MAX =>
          \A b \in JournalBlocks : After64(jn_committed, jn_dev, {})[b] = jn_owed.last[b]

\* The m-th write is the last of block b that was not lost.
LastHit(s, lost, b, m) ==
    /\ s[m].block = b /\ m \notin lost
    /\ \A i \in 1 .. Len(s) : i > m /\ s[i].block = b => i \in lost
Untouched(s, lost, b) == \A i \in 1 .. Len(s) : s[i].block = b => i \in lost

LEMMA OneLast ==
  ASSUME NEW s \in Seq(JournalCopy), NEW b, NEW m \in 1 .. Len(s), NEW n \in 1 .. Len(s),
         LastHit(s, {}, b, m), LastHit(s, {}, b, n)
  PROVE  m = n
<1>1. m \in Nat /\ n \in Nat  BY LenProperties
<1> QED BY <1>1 DEF LastHit

\* What a block holds after a sequence of writes, some of them lost: what the
\* last one that was not lost wrote, or what it held before.
LEMMA AfterWrites ==
  ASSUME NEW s \in Seq(JournalCopy), NEW dev, NEW lost, NEW b \in JournalBlocks
  PROVE  \/ Untouched(s, lost, b) /\ After64(s, dev, lost)[b] = dev[b]
         \/ \E m \in 1 .. Len(s) : LastHit(s, lost, b, m) /\ After64(s, dev, lost)[b] = s[m].data
<1> DEFINE hits == {i \in 1 .. Len(s) : s[i].block = b /\ i \notin lost}
<1>1. Len(s) \in Nat  BY LenProperties
<1>2. After64(s, dev, lost)[b] = IF hits = {} THEN dev[b] ELSE s[Max(hits)].data  BY DEF After64
<1>3. CASE hits = {}  BY <1>2, <1>3 DEF Untouched
<1>4. CASE hits # {}
  <2>1. hits \subseteq 1 .. Len(s)  OBVIOUS
  <2>2. PICK m \in hits : m = Max(hits) /\ \A y \in hits : m >= y
    <3> HIDE DEF hits
    <3> QED BY <1>1, <1>4, <2>1, GreatestIsThere
  <2>3. \A i \in 1 .. Len(s) : i > m /\ s[i].block = b => i \in lost  BY <1>1, <2>2
  <2>4. After64(s, dev, lost)[b] = s[m].data  BY <1>2, <1>4, <2>2
  <2> QED BY <2>2, <2>3, <2>4 DEF LastHit
<1> QED BY <1>3, <1>4

LEMMA AfterType ==
  ASSUME NEW s \in Seq(JournalCopy), NEW dev \in [JournalBlocks -> Nat], NEW lost
  PROVE  After64(s, dev, lost) \in [JournalBlocks -> Nat]
<1>1. \A b \in JournalBlocks : After64(s, dev, lost)[b] \in Nat
  <2> TAKE b \in JournalBlocks
  <2>1. \A m \in 1 .. Len(s) : s[m].data \in Nat
    <3>1. \A m \in 1 .. Len(s) : s[m] \in JournalCopy  BY ElementOfSeq
    <3> QED BY <3>1 DEF JournalCopy
  <2> QED BY <2>1, AfterWrites
<1> QED BY <1>1 DEF After64

\* While the table of copies has room it takes every entry.
LEMMA KeptAll ==
  ASSUME JnInv, Len(Kept) < JOURNAL64_MAX
  PROVE  /\ Len(jn_committed) \in Nat /\ Len(jn_stage) \in Nat
         /\ Len(jn_committed) < JOURNAL64_MAX
         /\ Len(Kept) = Len(jn_committed) + Len(jn_stage)
         /\ \A i \in 1 .. Len(jn_committed) : Kept[i] = jn_committed[i]
         /\ \A i \in 1 .. Len(jn_stage) : Kept[Len(jn_committed) + i] = jn_stage[i]
<1> DEFINE c == jn_committed
           w == c \o jn_stage
           q == Min({JOURNAL64_MAX, Len(c) + Len(jn_stage)})
<1>1. c \in Seq(JournalCopy) /\ jn_stage \in Seq(JournalCopy) /\ Len(c) \in Nat /\ Len(jn_stage) \in Nat
  BY LenProperties DEF JnInv
<1>2. /\ w \in Seq(JournalCopy) /\ Len(w) = Len(c) + Len(jn_stage)
      /\ \A i \in 1 .. Len(c) + Len(jn_stage) : w[i] = IF i <= Len(c) THEN c[i] ELSE jn_stage[i - Len(c)]
  BY <1>1, ConcatProperties
<1>3. JOURNAL64_MAX \in Nat  BY Storage64Assumption DEF Storage64Assumption
<1>4. q \in {JOURNAL64_MAX, Len(c) + Len(jn_stage)} /\ q <= JOURNAL64_MAX /\ q <= Len(c) + Len(jn_stage)
  <2> DEFINE S == {JOURNAL64_MAX, Len(c) + Len(jn_stage)}
  <2>1. S \subseteq Nat /\ S # {}  BY <1>1, <1>3
  <2>2. Min(S) \in S /\ \A y \in S : Min(S) <= y
    <3> HIDE DEF S
    <3> QED BY <2>1, LeastIsThere
  <2> QED BY <2>2
<1>5. Kept = SubSeq(w, 1, q)  BY DEF Kept
<1> HIDE DEF w, q
<1>6. q \in Nat /\ q <= Len(w)  BY <1>1, <1>2, <1>3, <1>4
<1>7. Len(Kept) = q /\ \A i \in 1 .. q : Kept[i] = w[i]
  <2>1. \A i \in 1 .. q : w[i] \in JournalCopy  BY <1>2, <1>6, ElementOfSeq
  <2>2. 1 \in Int /\ q \in Int /\ 1 <= q + 1 /\ q - 1 + 1 = q  BY <1>6
  <2>3. CASE q = 0  BY <1>5, <2>3, SubSeqProperties
  <2>4. CASE q # 0  BY <1>5, <1>6, <2>1, <2>4, SubSeqProperties
  <2> QED BY <2>3, <2>4
<1>8. q = Len(w) /\ Len(c) < JOURNAL64_MAX  BY <1>1, <1>2, <1>3, <1>4, <1>7
<1>9. \A i \in 1 .. Len(c) : Kept[i] = c[i]  BY <1>1, <1>2, <1>7, <1>8
<1>10. \A i \in 1 .. Len(jn_stage) : Kept[Len(c) + i] = jn_stage[i]
  <2> TAKE i \in 1 .. Len(jn_stage)
  <2>1. Len(c) + i \in 1 .. q /\ ~(Len(c) + i <= Len(c)) /\ (Len(c) + i) - Len(c) = i  BY <1>1, <1>2, <1>8
  <2>2. w[Len(c) + i] = jn_stage[(Len(c) + i) - Len(c)]  BY <1>2, <1>8, <2>1
  <2> QED BY <1>7, <2>1, <2>2
<1> QED BY <1>1, <1>2, <1>7, <1>8, <1>9, <1>10

LEMMA JnStarts == JnInit => JnInv
<1> SUFFICES ASSUME JnInit PROVE JnInv  OBVIOUS
<1>1. /\ jn_stage = <<>> /\ jn_committed = <<>> /\ jn_dev = [b \in JournalBlocks |-> 0]
      /\ jn_owed.n = 0 /\ jn_owed.last = [b \in JournalBlocks |-> 0]
  BY DEF JnInit
<1>2. \A b \in JournalBlocks : After64(jn_committed, jn_dev, {})[b] = jn_owed.last[b]
  <2> TAKE b \in JournalBlocks
  <2>1. jn_committed \in Seq(JournalCopy) /\ \A m \in 1 .. Len(jn_committed) : FALSE  BY <1>1
  <2>2. After64(jn_committed, jn_dev, {})[b] = jn_dev[b]  BY <2>1, AfterWrites
  <2> QED BY <1>1, <2>2
<1> QED BY <1>1, <1>2 DEF JnInv

LEMMA JnWriteKept ==
  ASSUME JnInv, NEW b \in JournalBlocks, journal64_write(b)
  PROVE  JnInv'
<1> DEFINE S == {i \in 1 .. Len(jn_stage) : jn_stage[i].block = b}
<1>1. jn_owed.n + 1 \in Nat /\ jn_stage \in Seq(JournalCopy) /\ Len(jn_stage) \in Nat
  BY LenProperties DEF JnInv
<1>2. CASE StageOf(b) # 0 /\ jn_stage' = [jn_stage EXCEPT ![StageOf(b)].data = jn_owed.n + 1]
  <2>1. S \subseteq Nat \ {0}  BY <1>1
  <2>2. StageOf(b) = FirstOf(S)  BY DEF StageOf
  <2>3. StageOf(b) \in S
    <3> HIDE DEF S
    <3> QED BY <1>2, <2>1, <2>2, FirstMatch
  <2>4. PICK k \in 1 .. Len(jn_stage) : k = StageOf(b)  BY <2>3
  <2>5. PICK e \in JournalCopy : e = [jn_stage[k] EXCEPT !.data = jn_owed.n + 1]
    <3>1. jn_stage[k] \in JournalCopy  BY <1>1, ElementOfSeq
    <3> QED BY <1>1, <3>1 DEF JournalCopy
  <2>6. jn_stage' = [jn_stage EXCEPT ![k] = e]  BY <1>2, <2>4, <2>5
  <2>7. jn_stage' \in Seq(JournalCopy)  BY <1>1, <2>6, ExceptSeq
  <2> QED BY <2>7 DEF JnInv, journal64_write
<1>3. CASE jn_stage' = Append(jn_stage, [block |-> b, data |-> jn_owed.n + 1])
  <2>1. [block |-> b, data |-> jn_owed.n + 1] \in JournalCopy  BY <1>1 DEF JournalCopy
  <2>2. jn_stage' \in Seq(JournalCopy)  BY <1>1, <1>3, <2>1, AppendProperties
  <2> QED BY <2>2 DEF JnInv, journal64_write
<1> QED BY <1>2, <1>3 DEF journal64_write

LEMMA JnCommitKept ==
  ASSUME JnInv, journal64_commit
  PROVE  JnInv'
<1>1. PICK lost \in SUBSET (1 .. Len(jn_stage)) : jn_dev' = After64(jn_stage, jn_dev, lost)
  BY DEF journal64_commit
<1>2. /\ jn_committed' = Kept /\ jn_stage' = <<>>
      /\ jn_owed'.n = jn_owed.n + 1 /\ jn_owed'.last = After64(jn_stage, jn_owed.last, {})
  BY DEF journal64_commit
<1>3. /\ jn_stage \in Seq(JournalCopy) /\ jn_committed \in Seq(JournalCopy)
      /\ jn_dev \in [JournalBlocks -> Nat] /\ jn_owed.last \in [JournalBlocks -> Nat] /\ jn_owed.n \in Nat
  BY DEF JnInv
<1>4. jn_dev' \in [JournalBlocks -> Nat] /\ jn_owed'.last \in [JournalBlocks -> Nat] /\ jn_owed'.n \in Nat
  <2>1. After64(jn_stage, jn_dev, lost) \in [JournalBlocks -> Nat]  BY <1>3, AfterType
  <2>2. After64(jn_stage, jn_owed.last, {}) \in [JournalBlocks -> Nat]  BY <1>3, AfterType
  <2> QED BY <1>1, <1>2, <1>3, <2>1, <2>2
<1>5. jn_stage' \in Seq(JournalCopy) /\ Kept \in Seq(JournalCopy)
  <2> DEFINE w == jn_committed \o jn_stage
             q == Min({JOURNAL64_MAX, Len(jn_committed) + Len(jn_stage)})
  <2>1. w \in Seq(JournalCopy) /\ Len(w) = Len(jn_committed) + Len(jn_stage) /\ Len(w) \in Nat
    BY <1>3, ConcatProperties, LenProperties
  <2>2. q \in Nat /\ q <= Len(w)
    <3>1. {JOURNAL64_MAX, Len(w)} \subseteq Nat /\ {JOURNAL64_MAX, Len(w)} # {}
      BY <2>1, Storage64Assumption DEF Storage64Assumption
    <3>2. Min({JOURNAL64_MAX, Len(w)}) \in {JOURNAL64_MAX, Len(w)} /\ \A y \in {JOURNAL64_MAX, Len(w)} : Min({JOURNAL64_MAX, Len(w)}) <= y
      BY <3>1, LeastIsThere
    <3> QED BY <2>1, <3>1, <3>2
  <2>3. Kept = SubSeq(w, 1, q)  BY DEF Kept
  <2> HIDE DEF w, q
  <2>4. \A i \in 1 .. q : w[i] \in JournalCopy  BY <2>1, <2>2, ElementOfSeq
  <2>5. Kept \in Seq(JournalCopy)  BY <2>2, <2>3, <2>4, SubSeqProperties
  <2> QED BY <1>2, <2>5
<1>6. ASSUME Len(Kept) < JOURNAL64_MAX, NEW b \in JournalBlocks
      PROVE  After64(Kept, jn_dev', {})[b] = jn_owed'.last[b]
  <2>1. /\ Len(jn_committed) \in Nat /\ Len(jn_stage) \in Nat
        /\ Len(jn_committed) < JOURNAL64_MAX
        /\ Len(Kept) = Len(jn_committed) + Len(jn_stage)
        /\ \A i \in 1 .. Len(jn_committed) : Kept[i] = jn_committed[i]
        /\ \A i \in 1 .. Len(jn_stage) : Kept[Len(jn_committed) + i] = jn_stage[i]
    BY <1>6, KeptAll
  <2>2. After64(jn_committed, jn_dev, {})[b] = jn_owed.last[b]  BY <2>1 DEF JnInv
  <2>3. Kept \in Seq(JournalCopy)  BY <1>5
  <2>4. \/ Untouched(Kept, {}, b) /\ After64(Kept, jn_dev', {})[b] = jn_dev'[b]
        \/ \E n \in 1 .. Len(Kept) : LastHit(Kept, {}, b, n) /\ After64(Kept, jn_dev', {})[b] = Kept[n].data
    BY <2>3, AfterWrites
  <2>5. CASE \E m \in 1 .. Len(jn_stage) : LastHit(jn_stage, {}, b, m) /\ jn_owed'.last[b] = jn_stage[m].data
    <3>1. PICK m \in 1 .. Len(jn_stage) : LastHit(jn_stage, {}, b, m) /\ jn_owed'.last[b] = jn_stage[m].data
      BY <2>5
    <3>2. PICK k \in 1 .. Len(Kept) : k = Len(jn_committed) + m /\ Kept[k] = jn_stage[m]  BY <2>1
    <3>3. \A i \in 1 .. Len(Kept) : i > k => Kept[i].block # b
      <4> SUFFICES ASSUME NEW i \in 1 .. Len(Kept), i > k
                   PROVE  Kept[i].block # b
        OBVIOUS
      <4>1. PICK j \in 1 .. Len(jn_stage) : i = Len(jn_committed) + j /\ j > m
        <5> DEFINE j == i - Len(jn_committed)
        <5>1. j \in 1 .. Len(jn_stage) /\ i = Len(jn_committed) + j /\ j > m  BY <2>1, <3>2
        <5> QED BY <5>1
      <4> QED BY <2>1, <3>1, <4>1 DEF LastHit
    <3>4. LastHit(Kept, {}, b, k)  BY <3>1, <3>2, <3>3 DEF LastHit
    <3>5. PICK n \in 1 .. Len(Kept) : LastHit(Kept, {}, b, n) /\ After64(Kept, jn_dev', {})[b] = Kept[n].data
      BY <2>4, <3>4 DEF Untouched, LastHit
    <3>6. n = k  BY <2>3, <3>4, <3>5, OneLast
    <3> QED BY <3>1, <3>2, <3>5, <3>6
  <2>6. CASE Untouched(jn_stage, {}, b) /\ jn_owed'.last[b] = jn_owed.last[b]
    <3>1. jn_dev'[b] = jn_dev[b]
      <4>1. \/ Untouched(jn_stage, lost, b) /\ After64(jn_stage, jn_dev, lost)[b] = jn_dev[b]
            \/ \E m \in 1 .. Len(jn_stage) : LastHit(jn_stage, lost, b, m)
        BY <1>3, AfterWrites
      <4> QED BY <1>1, <2>6, <4>1 DEF Untouched, LastHit
    <3>2. \A i \in 1 .. Len(Kept) : Kept[i].block = b => i \in 1 .. Len(jn_committed)
      <4> SUFFICES ASSUME NEW i \in 1 .. Len(Kept), i \notin 1 .. Len(jn_committed)
                   PROVE  Kept[i].block # b
        OBVIOUS
      <4>1. PICK j \in 1 .. Len(jn_stage) : i = Len(jn_committed) + j
        <5> DEFINE j == i - Len(jn_committed)
        <5>1. j \in 1 .. Len(jn_stage) /\ i = Len(jn_committed) + j  BY <2>1
        <5> QED BY <5>1
      <4> QED BY <2>1, <2>6, <4>1 DEF Untouched
    <3>3. CASE Untouched(jn_committed, {}, b) /\ After64(jn_committed, jn_dev, {})[b] = jn_dev[b]
      <4>1. \A i \in 1 .. Len(Kept) : Kept[i].block # b  BY <2>1, <3>2, <3>3 DEF Untouched
      <4>2. After64(Kept, jn_dev', {})[b] = jn_dev'[b]  BY <2>4, <4>1 DEF LastHit
      <4> QED BY <2>2, <2>6, <3>1, <3>3, <4>2
    <3>4. CASE \E m \in 1 .. Len(jn_committed) :
                  LastHit(jn_committed, {}, b, m) /\ After64(jn_committed, jn_dev, {})[b] = jn_committed[m].data
      <4>1. PICK m \in 1 .. Len(jn_committed) :
                  LastHit(jn_committed, {}, b, m) /\ After64(jn_committed, jn_dev, {})[b] = jn_committed[m].data
        BY <3>4
      <4>2. m \in 1 .. Len(Kept) /\ Kept[m] = jn_committed[m]  BY <2>1
      <4>3. PICK n \in 1 .. Len(Kept) : LastHit(Kept, {}, b, n) /\ After64(Kept, jn_dev', {})[b] = Kept[n].data
        BY <2>4, <4>1, <4>2 DEF Untouched, LastHit
      <4>4. n \in 1 .. Len(jn_committed) /\ Kept[n] = jn_committed[n]  BY <2>1, <3>2, <4>3 DEF LastHit
      <4>5. \A i \in 1 .. Len(jn_committed) : i \in 1 .. Len(Kept) /\ Kept[i] = jn_committed[i]  BY <2>1
      <4>6. LastHit(jn_committed, {}, b, n)  BY <4>3, <4>4, <4>5 DEF LastHit
      <4>7. n = m  BY <1>3, <4>1, <4>4, <4>6, OneLast
      <4> QED BY <2>2, <2>6, <4>1, <4>2, <4>3, <4>7
    <3>5. \/ Untouched(jn_committed, {}, b) /\ After64(jn_committed, jn_dev, {})[b] = jn_dev[b]
          \/ \E m \in 1 .. Len(jn_committed) :
                  LastHit(jn_committed, {}, b, m) /\ After64(jn_committed, jn_dev, {})[b] = jn_committed[m].data
      BY <1>3, AfterWrites
    <3> QED BY <3>3, <3>4, <3>5
  <2>7. \/ Untouched(jn_stage, {}, b) /\ After64(jn_stage, jn_owed.last, {})[b] = jn_owed.last[b]
        \/ \E m \in 1 .. Len(jn_stage) :
              LastHit(jn_stage, {}, b, m) /\ After64(jn_stage, jn_owed.last, {})[b] = jn_stage[m].data
    BY <1>3, AfterWrites
  <2> QED BY <1>2, <2>5, <2>6, <2>7
<1> QED BY <1>2, <1>4, <1>5, <1>6 DEF JnInv

LEMMA JnRecoverKept ==
  ASSUME JnInv, journal64_recover
  PROVE  JnInv'
<1>1. /\ jn_dev' = After64(jn_committed, jn_dev, {}) /\ jn_committed' = jn_committed
      /\ jn_stage' = jn_stage /\ jn_owed' = jn_owed
  BY DEF journal64_recover, Replayed
<1>2. jn_committed \in Seq(JournalCopy) /\ jn_dev \in [JournalBlocks -> Nat] /\ Len(jn_committed) \in Nat
  BY LenProperties DEF JnInv
<1>3. jn_dev' \in [JournalBlocks -> Nat]  BY <1>1, <1>2, AfterType
<1>4. \A b \in JournalBlocks : After64(jn_committed, jn_dev', {})[b] = After64(jn_committed, jn_dev, {})[b]
  <2> TAKE b \in JournalBlocks
  <2>1. \/ Untouched(jn_committed, {}, b) /\ After64(jn_committed, jn_dev, {})[b] = jn_dev[b]
        \/ \E m \in 1 .. Len(jn_committed) :
              LastHit(jn_committed, {}, b, m) /\ After64(jn_committed, jn_dev, {})[b] = jn_committed[m].data
    BY <1>2, AfterWrites
  <2>2. \/ Untouched(jn_committed, {}, b) /\ After64(jn_committed, jn_dev', {})[b] = jn_dev'[b]
        \/ \E m \in 1 .. Len(jn_committed) :
              LastHit(jn_committed, {}, b, m) /\ After64(jn_committed, jn_dev', {})[b] = jn_committed[m].data
    BY <1>2, AfterWrites
  <2>3. ~(Untouched(jn_committed, {}, b) /\ \E m \in 1 .. Len(jn_committed) : LastHit(jn_committed, {}, b, m))
    BY DEF Untouched, LastHit
  <2>4. \A m, n \in 1 .. Len(jn_committed) :
            LastHit(jn_committed, {}, b, m) /\ LastHit(jn_committed, {}, b, n) => m = n
    BY <1>2, OneLast
  <2> QED BY <1>1, <2>1, <2>2, <2>3, <2>4
<1> QED BY <1>1, <1>3, <1>4 DEF JnInv

LEMMA JnKept == JnInv /\ JnNext => JnInv'
<1> SUFFICES ASSUME JnInv, JnNext PROVE JnInv'  OBVIOUS
<1>1. CASE journal64_begin \/ journal64_abort
  <2>1. /\ jn_stage' = <<>> /\ jn_committed' = jn_committed /\ jn_dev' = jn_dev /\ jn_owed' = jn_owed
    BY <1>1 DEF journal64_begin, journal64_abort
  <2> QED BY <2>1 DEF JnInv
<1>2. CASE journal64_commit  BY <1>2, JnCommitKept
<1>3. CASE journal64_recover  BY <1>3, JnRecoverKept
<1>4. CASE \E b \in JournalBlocks : journal64_write(b)  BY <1>4, JnWriteKept
<1> QED BY <1>1, <1>2, <1>3, <1>4 DEF JnNext

LEMMA JnHolds == JnInv => RecoverRestores
<1> SUFFICES ASSUME JnInv, Len(jn_committed) < JOURNAL64_MAX
             PROVE  Replayed = jn_owed.last
  BY DEF RecoverRestores
<1>1. Replayed = [b \in JournalBlocks |-> Replayed[b]]  BY DEF Replayed, After64
<1>2. jn_owed.last = [b \in JournalBlocks |-> jn_owed.last[b]]  BY DEF JnInv
<1>3. \A b \in JournalBlocks : Replayed[b] = jn_owed.last[b]  BY DEF JnInv, Replayed
<1> QED BY <1>1, <1>2, <1>3

------------------------------
(* The services that programs rely on.                                     *)

\* The strengthening of KernelServicesSound: that of each part.
ServicesInv ==
    /\ SchedInv /\ RcuInv /\ WqInv /\ TimerInv /\ SyncInv /\ IpcInv /\ PollInv
    /\ CowInv

LEMMA ServicesInvStarts == PartsInit => ServicesInv
  BY SchedStarts, RcuStarts, WqStarts, TimerStarts, SyncStarts, IpcStarts,
     PollStarts, CowStarts DEF PartsInit, ServicesInv

LEMMA ServicesInvKept == ServicesInv /\ [PartsNext]_allVars => ServicesInv'
<1> SUFFICES ASSUME ServicesInv, [PartsNext]_allVars PROVE ServicesInv'  OBVIOUS
<1>1. SchedInv'
  <2>1. SchedInv /\ (SchedNext \/ UNCHANGED schedVars)  BY DEF PartsNext, allVars, ServicesInv
  <2>2. CASE UNCHANGED schedVars  BY <2>1, <2>2 DEF schedVars, SchedInv
  <2> QED BY <2>1, <2>2, SchedKept
<1>2. RcuInv'
  <2>1. RcuInv /\ (RcuNext \/ UNCHANGED rcuVars)  BY DEF PartsNext, allVars, ServicesInv
  <2>2. CASE UNCHANGED rcuVars  BY <2>1, <2>2 DEF rcuVars, RcuInv, RcuState, RcuInside
  <2> QED BY <2>1, <2>2, RcuKept
<1>3. WqInv'
  <2>1. WqInv /\ (WqNext \/ UNCHANGED wqVars)  BY DEF PartsNext, allVars, ServicesInv
  <2>2. CASE UNCHANGED wqVars  BY <2>1, <2>2 DEF wqVars, WqInv, WqState
  <2> QED BY <2>1, <2>2, WqKept
<1>4. TimerInv'
  <2>1. TimerInv /\ (Timer64Next \/ UNCHANGED timer64Vars)  BY DEF PartsNext, allVars, ServicesInv
  <2>2. CASE UNCHANGED timer64Vars  BY <2>1, <2>2 DEF timer64Vars, TimerInv
  <2> QED BY <2>1, <2>2, TimerKept
<1>5. SyncInv'
  <2>1. SyncInv /\ (SyncNext \/ UNCHANGED syncVars)  BY DEF PartsNext, allVars, ServicesInv
  <2>2. CASE UNCHANGED syncVars  BY <2>1, <2>2 DEF syncVars, SyncInv
  <2> QED BY <2>1, <2>2, SyncKept
<1>6. IpcInv'
  <2>1. IpcInv /\ (IpcNext \/ UNCHANGED ipcVars)  BY DEF PartsNext, allVars, ServicesInv
  <2>2. CASE UNCHANGED ipcVars  BY <2>1, <2>2 DEF ipcVars, IpcInv
  <2> QED BY <2>1, <2>2, IpcKept
<1>7. PollInv'
  <2>1. PollInv /\ (PollNext \/ UNCHANGED pollVars)  BY DEF PartsNext, allVars, ServicesInv
  <2>2. CASE UNCHANGED pollVars  BY <2>1, <2>2 DEF pollVars, PollInv
  <2> QED BY <2>1, <2>2, PollKept
<1>8. CowInv'
  <2>1. CowInv /\ (CowNext \/ UNCHANGED cowVars)  BY DEF PartsNext, allVars, ServicesInv
  <2>2. CASE UNCHANGED cowVars  BY <2>1, <2>2 DEF cowVars, CowInv, MapsTo
  <2> QED BY <2>1, <2>2, CowKept
<1> QED BY <1>1, <1>2, <1>3, <1>4, <1>5, <1>6, <1>7, <1>8 DEF ServicesInv

\* However many tasks, readers, items, timers, locks, channels,
\* descriptors and sharers there are: nobody starves (sched64.c), nothing
\* in use is freed (rcu64.c), work runs once (workqueue64.c), timers keep
\* pace (timer64.c), locks exclude (sync64.c), messages and readiness are
\* current (ipc64.c, poll64.c), and pages that share a frame do not see
\* each other's writes (cow64.c, ksm64.c).
THEOREM KernelServicesAreSound == PartsSpec => []KernelServicesSound
<1>1. ServicesInv => KernelServicesSound
  BY SchedHolds, RcuHolds, WqHolds, TimerHolds, SyncHolds, IpcHolds,
     PollHolds, CowHolds
     DEF ServicesInv, KernelServicesSound
<1> QED BY <1>1, ServicesInvStarts, ServicesInvKept, PTL DEF PartsSpec
==============================
