------------------------------ MODULE Kernel64 ------------------------------
(***************************************************************************)
(* Kernel services of the 64-bit port (kernel/arch/x86_64): the priority   *)
(* scheduler (sched64.c), read-copy-update (rcu64.c), the work queue of a  *)
(* processor (workqueue64.c), periodic timers (timer64.c), mutexes and     *)
(* spin locks by number (sync64.c), one-message channels (ipc64.c),        *)
(* readiness (poll64.c), file events (inotify64.c) and the log             *)
(* (journald64.c).  They share nothing; each is a part with its own        *)
(* initial condition and next-state relation.                              *)
(***************************************************************************)
EXTENDS Tables64, TLC

CONSTANTS
    SCHED_MAX, SchedPids, SchedPrios,
    RCU64_MAX_CB, RcuReaders, RcuObjects, RcuEpochs,
    RcuCountMax,        \* the highest count of readers, 2^64 - 1 in the code
    WQ64_MAX, WqItems,
    TIMER64_MAX, TimerIntervals, TimerEnd,
    SYNC_MAX, SyncOwners, SyncIds,
    IPC_MAX, IpcMessages, IpcIds,
    PollFds, EPOLL64_MAX_EVENTS,
    INOTIFY64_MAX_WD, INOTIFY64_MAX_EV, WatchInodes,
    JOURNALD64_MAX, JournalServices, JournalWrites

ASSUME Kernel64Assumption ==
    /\ SCHED_MAX \in Nat \ {0} /\ SchedPrios \subseteq Nat
    /\ RCU64_MAX_CB \in Nat \ {0} /\ RcuObjects \in Nat \ {0} /\ IsFiniteSet(RcuReaders)
    /\ RcuCountMax \in Nat /\ Cardinality(RcuReaders) < RcuCountMax
    /\ WQ64_MAX \in Nat \ {0}
    /\ TIMER64_MAX \in Nat /\ TimerIntervals \subseteq Nat
    /\ SYNC_MAX \in Nat /\ SyncIds \in Nat
    /\ IPC_MAX \in Nat /\ IpcIds \in Nat
    /\ INOTIFY64_MAX_WD \in Nat /\ JOURNALD64_MAX \in Nat \ {0}

VARIABLES
    run_q, sched_wait,      \* tasks by seq; ticks spent waiting
    rcu_readers, rcu_in, rcu_ptr, rcu_cbs, rcu_epoch, rcu_freed, rcu_at,
    rcu_torn,               \* history: an update of the count was lost
    wq_pool, wq_left, wq_fill, wq_at, wq_next, wq_ran,
    wq_early,               \* history: an entry was run before it was filled
    timer_tab, timer_now, timer_fired,
    sync_ctr, sync_tab, sync_held,
    ipc_ctr, ipc_tab, ipc_owed,
    poll_ready, ep_fds, ep_events, ep_want,
    in_watch, in_evq, in_owed,
    jd_buf, jd_head, jd_n, jd_log
schedVars == <<run_q, sched_wait>>
rcuVars == <<rcu_readers, rcu_in, rcu_ptr, rcu_cbs, rcu_epoch, rcu_freed, rcu_at, rcu_torn>>
wqVars == <<wq_pool, wq_left, wq_fill, wq_at, wq_next, wq_ran, wq_early>>
timer64Vars == <<timer_tab, timer_now, timer_fired>>
syncVars == <<sync_ctr, sync_tab, sync_held>>
ipcVars == <<ipc_ctr, ipc_tab, ipc_owed>>
pollVars == <<poll_ready, ep_fds, ep_events, ep_want>>
inotifyVars == <<in_watch, in_evq, in_owed>>
journaldVars == <<jd_buf, jd_head, jd_n, jd_log>>

------------------------------
(* The scheduler.  A task's sequence number only orders it among the       *)
(* others: the tasks are kept in that order.                               *)

SchedInit == run_q = <<>> /\ sched_wait = [p \in SchedPids |-> 0]

find_task(p) == FirstOf({i \in 1 .. Len(run_q) : run_q[i].pid = p})
\* pick_next(): the lowest priority number, then the lowest sequence number.
pick_next ==
    FirstOf({i \in 1 .. Len(run_q) : \A j \in 1 .. Len(run_q) : run_q[i].prio <= run_q[j].prio})

sched64_add(p, prio) ==
    /\ find_task(p) = 0 /\ Len(run_q) < SCHED_MAX
    /\ run_q' = Append(run_q, [pid |-> p, prio |-> prio])
    /\ UNCHANGED sched_wait
sched64_remove(p) ==
    /\ find_task(p) # 0
    /\ run_q' = RemoveAt(run_q, find_task(p))
    /\ sched_wait' = [sched_wait EXCEPT ![p] = 0]
sched64_set_prio(p, prio) ==
    /\ find_task(p) # 0 /\ run_q[find_task(p)].prio # prio
    /\ run_q' = [run_q EXCEPT ![find_task(p)].prio = prio]
    /\ UNCHANGED sched_wait

\* The task gets a new sequence number, the highest.
Requeued(i) == Append(RemoveAt(run_q, i), run_q[i])

\* sched64_tick() and sched64_yield(): the current task goes to the end of its
\* class.  The others of the class have waited a turn.
rotate_best_class ==
    /\ run_q # <<>>
    /\ run_q' = Requeued(pick_next)
    /\ sched_wait' = [p \in SchedPids |->
          IF p = run_q[pick_next].pid THEN 0
          ELSE IF find_task(p) # 0 /\ run_q[find_task(p)].prio = run_q[pick_next].prio
          THEN sched_wait[p] + 1 ELSE sched_wait[p]]

SchedNext ==
    \/ \E p \in SchedPids, r \in SchedPrios : sched64_add(p, r) \/ sched64_set_prio(p, r)
    \/ \E p \in SchedPids : sched64_remove(p)
    \/ rotate_best_class

------------------------------
(* Read-copy-update: readers follow a pointer, one writer replaces what it *)
(* points to and has the old object freed later.  The readers' count is a  *)
(* plain variable: it is loaded, changed in a register and stored, and     *)
(* another reader may do the same between the two.                         *)

NoCb == [used |-> FALSE, obj |-> 0, epoch |-> 0]
Outside == [pc |-> "out", reg |-> 0, obj |-> 0]
rcu64_init ==
    /\ rcu_readers = 0
    /\ rcu_in = [r \in RcuReaders |-> Outside]
    /\ rcu_ptr = 1
    /\ rcu_cbs = [i \in 1 .. RCU64_MAX_CB |-> NoCb]
    /\ rcu_epoch = 0
    /\ rcu_freed = 2 .. RcuObjects
    /\ rcu_at = 0
    /\ rcu_torn = FALSE

CountUp(n) == IF n = RcuCountMax THEN 0 ELSE n + 1
CountDown(n) == IF n = 0 THEN RcuCountMax ELSE n - 1

\* The count is stored as it was worked out from what the reader had loaded.
RcuStore(r, count) ==
    /\ rcu_readers' = count
    /\ rcu_torn' = (rcu_torn \/ rcu_in[r].reg # rcu_readers)
RcuLoad(r, pc) ==
    /\ rcu_in' = [rcu_in EXCEPT ![r] = [pc |-> pc, reg |-> rcu_readers, obj |-> 0]]
    /\ UNCHANGED <<rcu_readers, rcu_ptr, rcu_cbs, rcu_epoch, rcu_freed, rcu_at, rcu_torn>>

rcu64_read_lock(r) ==
    /\ rcu_in[r].pc = "out"
    /\ RcuLoad(r, "lock")
RcuLocked(r) ==
    /\ rcu_in[r].pc = "lock"
    /\ rcu_in' = [rcu_in EXCEPT ![r] = [Outside EXCEPT !.pc = "in"]]
    /\ RcuStore(r, CountUp(rcu_in[r].reg))
    /\ UNCHANGED <<rcu_ptr, rcu_cbs, rcu_epoch, rcu_freed, rcu_at>>
\* The reader follows the pointer.
RcuRead(r) ==
    /\ rcu_in[r].pc = "in"
    /\ rcu_in' = [rcu_in EXCEPT ![r].obj = rcu_ptr]
    /\ UNCHANGED <<rcu_readers, rcu_ptr, rcu_cbs, rcu_epoch, rcu_freed, rcu_at, rcu_torn>>
\* rcu64_read_unlock() first tests the count, ...
rcu64_read_unlock(r) ==
    /\ rcu_in[r].pc = "in"
    /\ rcu_in' = [rcu_in EXCEPT ![r] =
                      [Outside EXCEPT !.pc = IF rcu_readers = 0 THEN "out" ELSE "leave"]]
    /\ UNCHANGED <<rcu_readers, rcu_ptr, rcu_cbs, rcu_epoch, rcu_freed, rcu_at, rcu_torn>>
\* ... then decrements it.
RcuLeave(r) ==
    /\ rcu_in[r].pc = "leave"
    /\ RcuLoad(r, "unlock")
RcuUnlocked(r) ==
    /\ rcu_in[r].pc = "unlock"
    /\ rcu_in' = [rcu_in EXCEPT ![r] = Outside]
    /\ RcuStore(r, CountDown(rcu_in[r].reg))
    /\ UNCHANGED <<rcu_ptr, rcu_cbs, rcu_epoch, rcu_freed, rcu_at>>

\* The writer publishes a new object and hands the old one to rcu64_call(),
\* which drops the request when the table is full.
RcuUpdate ==
    /\ rcu_at = 0
    /\ rcu_freed # {}
    /\ rcu_ptr' = Min(rcu_freed)
    /\ rcu_freed' = rcu_freed \ {Min(rcu_freed)}
    /\ rcu_cbs' = IF FirstFree(rcu_cbs) = 0 THEN rcu_cbs
                  ELSE [rcu_cbs EXCEPT ![FirstFree(rcu_cbs)] =
                           [used |-> TRUE, obj |-> rcu_ptr, epoch |-> rcu_epoch]]
    /\ UNCHANGED <<rcu_readers, rcu_in, rcu_epoch, rcu_at, rcu_torn>>

rcu64_quiescent ==
    /\ rcu_epoch < RcuEpochs
    /\ rcu_epoch' = rcu_epoch + 1
    /\ UNCHANGED <<rcu_readers, rcu_in, rcu_ptr, rcu_cbs, rcu_freed, rcu_at, rcu_torn>>

\* As NoReaders, a bug: one reader is overlooked.
NoReadersButOne == rcu_readers <= 1
NoReaders == rcu_readers = 0

\* rcu64_process(), on the writer's side: nothing while there are readers, else
\* it goes through the table; readers may come in meanwhile.
rcu64_process ==
    /\ rcu_at = 0
    /\ NoReaders
    /\ rcu_at' = 1
    /\ UNCHANGED <<rcu_readers, rcu_in, rcu_ptr, rcu_cbs, rcu_epoch, rcu_freed, rcu_torn>>
RcuRunCallback ==
    /\ rcu_at # 0
    /\ rcu_at' = IF rcu_at = RCU64_MAX_CB THEN 0 ELSE rcu_at + 1
    /\ IF rcu_cbs[rcu_at].used /\ rcu_cbs[rcu_at].epoch < rcu_epoch
       THEN /\ rcu_cbs' = [rcu_cbs EXCEPT ![rcu_at] = NoCb]
            /\ rcu_freed' = rcu_freed \cup {rcu_cbs[rcu_at].obj}
       ELSE UNCHANGED <<rcu_cbs, rcu_freed>>
    /\ UNCHANGED <<rcu_readers, rcu_in, rcu_ptr, rcu_epoch, rcu_torn>>

RcuNext ==
    \/ \E r \in RcuReaders :
          \/ rcu64_read_lock(r) \/ RcuLocked(r) \/ RcuRead(r)
          \/ rcu64_read_unlock(r) \/ RcuLeave(r) \/ RcuUnlocked(r)
    \/ RcuUpdate \/ rcu64_quiescent \/ rcu64_process \/ RcuRunCallback

------------------------------
(* The work queue of one processor.  Items are numbered as they come.  An  *)
(* entry is marked used before its function and argument are stored, and   *)
(* the queue may be run in between: `wq_pool' is the item an entry is used *)
(* for, `wq_left' the one whose function and argument lie there (0: none,  *)
(* or one's function with another's argument), `wq_fill' the entry that is *)
(* being filled.  There is one producer at a time, as the file asks.       *)

wq64_init ==
    /\ wq_pool = [i \in 1 .. WQ64_MAX |-> 0]
    /\ wq_left = [i \in 1 .. WQ64_MAX |-> 0]
    /\ wq_fill = 0
    /\ wq_at = 0
    /\ wq_next = 1
    /\ wq_ran = <<>>
    /\ wq_early = FALSE

\* wq64_enqueue(), from outside or from an item that runs: the entry is taken,
wq64_enqueue ==
    /\ wq_fill = 0
    /\ wq_next <= WqItems
    /\ \E i \in 1 .. WQ64_MAX : wq_pool[i] = 0
    /\ wq_fill' = Min({i \in 1 .. WQ64_MAX : wq_pool[i] = 0})
    /\ wq_pool' = [wq_pool EXCEPT ![wq_fill'] = wq_next]
    /\ wq_next' = wq_next + 1
    /\ UNCHANGED <<wq_left, wq_at, wq_ran, wq_early>>
\* then its function stored, and then its argument.
WqStore ==
    /\ wq_fill # 0
    /\ IF wq_left[wq_fill] # 0
       THEN wq_left' = [wq_left EXCEPT ![wq_fill] = 0] /\ UNCHANGED wq_fill
       ELSE wq_left' = [wq_left EXCEPT ![wq_fill] = wq_next - 1] /\ wq_fill' = 0
    /\ UNCHANGED <<wq_pool, wq_at, wq_next, wq_ran, wq_early>>

Emptied(i) == [wq_pool EXCEPT ![i] = 0]

\* wq64_run(): entry by entry; each is emptied before its function is called.
wq64_run ==
    /\ wq_at' = IF wq_at = WQ64_MAX THEN 0 ELSE wq_at + 1
    /\ IF wq_at # 0 /\ wq_pool[wq_at] # 0
       THEN /\ wq_ran' = Append(wq_ran, wq_left[wq_at])
            /\ wq_pool' = Emptied(wq_at)
            /\ wq_early' = (wq_early \/ wq_at = wq_fill)
       ELSE UNCHANGED <<wq_ran, wq_pool, wq_early>>
    /\ UNCHANGED <<wq_left, wq_fill, wq_next>>

WqNext == wq64_enqueue \/ WqStore \/ wq64_run

------------------------------
(* Periodic timers.                                                        *)

NoTimer == [used |-> FALSE, interval |-> 0, next |-> 0]
Timer64Init ==
    /\ timer_tab = [i \in 1 .. TIMER64_MAX |-> NoTimer]
    /\ timer_now = 0
    /\ timer_fired = [i \in 1 .. TIMER64_MAX |-> 0]

\* timer64_add(): the first firing is due at the time `interval', from boot.
timer64_add(interval) ==
    /\ FirstFree(timer_tab) # 0
    /\ timer_tab' = [timer_tab EXCEPT ![FirstFree(timer_tab)] =
          [used |-> TRUE, interval |-> interval, next |-> interval]]
    /\ UNCHANGED <<timer_now, timer_fired>>

NextDue(t) == IF t.next + t.interval <= timer_now THEN timer_now + t.interval ELSE t.next + t.interval

\* timer64_tick(): the first max timers that are due.
timer64_tick(max) ==
    LET due == {i \in Taken(timer_tab) : timer_tab[i].next <= timer_now}
        hit == {i \in due : Cardinality({j \in due : j < i}) < max}
    IN /\ hit # {}
       /\ timer_tab' = [i \in 1 .. TIMER64_MAX |->
             IF i \in hit THEN [timer_tab[i] EXCEPT !.next = NextDue(timer_tab[i])] ELSE timer_tab[i]]
       /\ timer_fired' = [i \in 1 .. TIMER64_MAX |->
             IF i \in hit THEN timer_fired[i] + 1 ELSE timer_fired[i]]
       /\ UNCHANGED timer_now

Timer64Passes(d) ==
    /\ timer_now + d <= TimerEnd
    /\ timer_now' = timer_now + d
    /\ UNCHANGED <<timer_tab, timer_fired>>

Timer64Next ==
    \/ \E v \in TimerIntervals : timer64_add(v)
    \/ \E max \in 1 .. 2 : timer64_tick(max)
    \/ \E d \in {1, 3} : Timer64Passes(d)

------------------------------
(* Locks by number.  A spin lock is a mutex whose owner is not recorded.   *)

NoLock == [used |-> FALSE, id |-> 0, kind |-> "none", locked |-> FALSE, owner |-> 0]
sync64_init ==
    /\ sync_ctr = 0
    /\ sync_tab = [i \in 1 .. SYNC_MAX |-> NoLock]
    /\ sync_held = {}           \* <<lock, owner>> pairs the callers go by

SyncNumber(i) == sync_ctr + 1

\* mutex64_create() and spin64_create().
mutex64_create(kind) ==
    /\ sync_ctr < SyncIds
    /\ FirstFree(sync_tab) # 0
    /\ sync_ctr' = sync_ctr + 1
    /\ sync_tab' = [sync_tab EXCEPT ![FirstFree(sync_tab)] =
          [NoLock EXCEPT !.used = TRUE, !.id = SyncNumber(FirstFree(sync_tab)), !.kind = kind]]
    /\ UNCHANGED sync_held

find_mutex(id) == FirstOf({i \in Taken(sync_tab) : sync_tab[i].id = id})

\* mutex64_lock() and spin64_trylock().
mutex64_lock(id, o) ==
    /\ find_mutex(id) # 0 /\ ~sync_tab[find_mutex(id)].locked
    /\ sync_tab' = [sync_tab EXCEPT ![find_mutex(id)].locked = TRUE,
                                    ![find_mutex(id)].owner =
                                        IF sync_tab[find_mutex(id)].kind = "mutex" THEN o ELSE 0]
    /\ sync_held' = sync_held \cup {<<id, o>>}
    /\ UNCHANGED sync_ctr

\* mutex64_unlock() and spin64_unlock(), by the one who locked.  The lock may
\* have been destroyed since; the caller has let go of it all the same.
mutex64_unlock(id, o) ==
    /\ <<id, o>> \in sync_held
    /\ sync_held' = sync_held \ {<<id, o>>}
    /\ \E i \in {find_mutex(id)} :
          sync_tab' = IF i # 0 /\ sync_tab[i].locked
                         /\ (sync_tab[i].kind = "mutex" => sync_tab[i].owner = o)
                      THEN [sync_tab EXCEPT ![i].locked = FALSE, ![i].owner = 0] ELSE sync_tab
    /\ UNCHANGED sync_ctr

\* mutex64_destroy() and spin64_destroy(), locked or not.
mutex64_destroy(id) ==
    /\ find_mutex(id) # 0
    /\ sync_tab' = [sync_tab EXCEPT ![find_mutex(id)] = NoLock]
    /\ UNCHANGED <<sync_ctr, sync_held>>

SyncNext ==
    \/ \E k \in {"mutex", "spin"} : mutex64_create(k)
    \/ \E id \in 1 .. SyncIds, o \in SyncOwners : mutex64_lock(id, o) \/ mutex64_unlock(id, o)
    \/ \E id \in 1 .. SyncIds : mutex64_destroy(id)

------------------------------
(* Channels of one message.                                                *)

NoChan == [used |-> FALSE, chan |-> 0, msg |-> 0, valid |-> FALSE]
ipc64_init ==
    /\ ipc_ctr = 0
    /\ ipc_tab = [i \in 1 .. IPC_MAX |-> NoChan]
    /\ ipc_owed = [c \in 1 .. IpcIds |-> <<>>]      \* sent and not received

find_chan(c) == FirstOf({i \in Taken(ipc_tab) : ipc_tab[i].chan = c})

ipc64_create ==
    /\ ipc_ctr < IpcIds /\ FirstFree(ipc_tab) # 0
    /\ ipc_ctr' = ipc_ctr + 1
    /\ ipc_tab' = [ipc_tab EXCEPT ![FirstFree(ipc_tab)] =
          [NoChan EXCEPT !.used = TRUE, !.chan = ipc_ctr + 1]]
    /\ UNCHANGED ipc_owed
ipc64_destroy(c) ==
    /\ find_chan(c) # 0
    /\ ipc_tab' = [ipc_tab EXCEPT ![find_chan(c)] = NoChan]
    /\ ipc_owed' = [ipc_owed EXCEPT ![c] = <<>>]
    /\ UNCHANGED ipc_ctr

Sendable(c) == find_chan(c) # 0 /\ ~ipc_tab[find_chan(c)].valid

ipc64_send(c, m) ==
    /\ Sendable(c)
    /\ ipc_tab' = [ipc_tab EXCEPT ![find_chan(c)].msg = m, ![find_chan(c)].valid = TRUE]
    /\ ipc_owed' = [ipc_owed EXCEPT ![c] = Append(@, m)]
    /\ UNCHANGED ipc_ctr
ipc64_recv(c) ==
    /\ find_chan(c) # 0 /\ ipc_tab[find_chan(c)].valid
    /\ ipc_tab' = [ipc_tab EXCEPT ![find_chan(c)].valid = FALSE, ![find_chan(c)].msg = 0]
    /\ ipc_owed' = [ipc_owed EXCEPT ![c] = Tail(@)]
    /\ UNCHANGED ipc_ctr

IpcNext ==
    \/ ipc64_create
    \/ \E c \in 1 .. IpcIds : ipc64_destroy(c) \/ ipc64_recv(c)
    \/ \E c \in 1 .. IpcIds, m \in IpcMessages : ipc64_send(c, m)

------------------------------
(* Readiness: one set, kept in two arrays.                                 *)

PollEvents == SUBSET {"in", "out"}
PollInit ==
    /\ poll_ready = [f \in PollFds |-> {}]
    /\ ep_fds = <<>>
    /\ ep_events = <<>>
    /\ ep_want = [f \in PollFds |-> {}]     \* what was last asked for

poll64_set(f, ev) ==
    /\ poll_ready[f] # ev
    /\ poll_ready' = [poll_ready EXCEPT ![f] = ev]
    /\ UNCHANGED <<ep_fds, ep_events, ep_want>>
EpIndex(f) == FirstOf({i \in 1 .. Len(ep_fds) : ep_fds[i] = f})
epoll64_add(f, ev) ==
    /\ EpIndex(f) = 0 /\ Len(ep_fds) < EPOLL64_MAX_EVENTS
    /\ ep_fds' = Append(ep_fds, f)
    /\ ep_events' = Append(ep_events, ev)
    /\ ep_want' = [ep_want EXCEPT ![f] = ev]
    /\ UNCHANGED poll_ready
epoll64_mod(f, ev) ==
    /\ EpIndex(f) # 0
    /\ ep_events' = [ep_events EXCEPT ![EpIndex(f)] = ev]
    /\ ep_want' = [ep_want EXCEPT ![f] = ev]
    /\ UNCHANGED <<poll_ready, ep_fds>>

EventsWithout(i) == RemoveAt(ep_events, i)

epoll64_del(f) ==
    /\ EpIndex(f) # 0
    /\ ep_fds' = RemoveAt(ep_fds, EpIndex(f))
    /\ ep_events' = EventsWithout(EpIndex(f))
    /\ ep_want' = [ep_want EXCEPT ![f] = {}]
    /\ UNCHANGED poll_ready

\* epoll64_wait() with room for all: descriptors and what they are ready for.
epoll64_wait ==
    {<<ep_fds[i], poll_ready[ep_fds[i]] \cap ep_events[i]>> :
        i \in {k \in 1 .. Len(ep_fds) : poll_ready[ep_fds[k]] \cap ep_events[k] # {}}}

PollNext ==
    \/ \E f \in PollFds, ev \in PollEvents : poll64_set(f, ev) \/ epoll64_add(f, ev) \/ epoll64_mod(f, ev)
    \/ \E f \in PollFds : epoll64_del(f)

------------------------------
(* File events: one queue for all watches.                                 *)

InotifyInit ==
    /\ in_watch = <<>>
    /\ in_evq = <<>>
    /\ in_owed = [w \in 1 .. INOTIFY64_MAX_WD |-> <<>>]

\* inotify64_add_watch(): a second watch of an inode widens the first.
inotify64_add_watch(ino, mask) ==
    LET old == FirstOf({i \in 1 .. Len(in_watch) : in_watch[i].ino = ino})
    IN /\ IF old # 0 THEN in_watch' = [in_watch EXCEPT ![old].mask = @ \cup mask]
          ELSE /\ Len(in_watch) < INOTIFY64_MAX_WD
               /\ in_watch' = Append(in_watch, [ino |-> ino, mask |-> mask])
       /\ UNCHANGED <<in_evq, in_owed>>

\* inotify64_event(): lost when the queue is full.
inotify64_event(ino, mask) ==
    /\ Len(in_evq) < INOTIFY64_MAX_EV
    /\ \E w \in 1 .. Len(in_watch) :
          /\ in_watch[w].ino = ino /\ in_watch[w].mask \cap mask # {}
          /\ in_evq' = Append(in_evq, [wd |-> w, mask |-> in_watch[w].mask \cap mask])
          /\ in_owed' = [in_owed EXCEPT ![w] = Append(@, in_watch[w].mask \cap mask)]
    /\ UNCHANGED in_watch

EventOf(w) == FirstOf({i \in 1 .. Len(in_evq) : in_evq[i].wd = w})

\* inotify64_read(): the first event of the watch; the others close up.
inotify64_read(w) ==
    /\ EventOf(w) # 0
    /\ in_evq' = RemoveAt(in_evq, EventOf(w))
    /\ in_owed' = [in_owed EXCEPT ![w] = Tail(@)]
    /\ UNCHANGED in_watch

InotifyNext ==
    \/ \E ino \in WatchInodes, m \in {{"r"}, {"w"}, {"r", "w"}} :
          inotify64_add_watch(ino, m) \/ inotify64_event(ino, m)
    \/ \E w \in 1 .. INOTIFY64_MAX_WD : inotify64_read(w)

------------------------------
(* The log: a ring of entries.                                             *)

JournaldInit ==
    /\ jd_buf = [i \in 0 .. JOURNALD64_MAX - 1 |-> [seq |-> 0, service |-> ""]]
    /\ jd_head = 0
    /\ jd_n = 0
    /\ jd_log = <<>>        \* everything that was written

journald64_write(s) ==
    /\ Len(jd_log) < JournalWrites
    /\ jd_buf' = [jd_buf EXCEPT ![jd_head] = [seq |-> Len(jd_log) + 1, service |-> s]]
    /\ jd_head' = (jd_head + 1) % JOURNALD64_MAX
    /\ jd_n' = IF jd_n < JOURNALD64_MAX THEN jd_n + 1 ELSE jd_n
    /\ jd_log' = Append(jd_log, s)

journald64_vacuum(keep) ==
    /\ jd_n > keep
    /\ jd_n' = keep
    /\ UNCHANGED <<jd_buf, jd_head, jd_log>>

JournalAt(i) == jd_buf[(jd_head - jd_n + i + JOURNALD64_MAX * 2) % JOURNALD64_MAX]

\* journald64_query() for every index: the service's entries, oldest first.
journald64_query(s) ==
    SelectSeq([i \in 1 .. jd_n |-> JournalAt(i - 1)], LAMBDA e : e.service = s)

JournaldNext ==
    \/ \E s \in JournalServices : journald64_write(s)
    \/ \E keep \in 0 .. JOURNALD64_MAX : journald64_vacuum(keep)

------------------------------

\* A task in the best class gets its turn after at most as many ticks as there
\* are other tasks, whatever is added, removed or given a new priority.
NeverStarved == \A p \in SchedPids : sched_wait[p] < SCHED_MAX

\* An object a reader may be looking at is never freed, as long as no update of
\* the readers' count was lost.  The code does not see to that: two readers that
\* enter at once are counted as one (rcu64.c:33), and when one of them leaves,
\* rcu64_process() frees what the other reads.
ReadersSafe ==
    ~rcu_torn => \A r \in RcuReaders : rcu_in[r].obj \notin rcu_freed

\* Every item that was queued runs once: none is lost, none runs again, as long
\* as the queue is not run while an entry is being filled.  When it is
\* (workqueue64.c:31-33), what lay in the entry runs in place of the item.
WorkOnce ==
    ~wq_early =>
    LET waiting == ToSet(wq_pool) \ {0}
    IN /\ IsInjective(wq_ran)
       /\ waiting \cap ToSet(wq_ran) = {}
       /\ waiting \cup ToSet(wq_ran) = 1 .. wq_next - 1

\* A timer fires at most once for every interval that has passed since boot,
\* however late the ticks are.
TimersInPace ==
    \A i \in Taken(timer_tab) : timer_fired[i] * timer_tab[i].interval <= timer_now

\* Of those who think they hold a lock that still exists there is one, and a
\* lock made in the place of a destroyed one is not taken for it.
LockHeldOnce ==
    \A i \in Taken(sync_tab) :
        LET holders == {o \in SyncOwners : <<sync_tab[i].id, o>> \in sync_held}
        IN /\ Cardinality(holders) = IF sync_tab[i].locked THEN 1 ELSE 0
           /\ sync_tab[i].kind = "mutex" /\ sync_tab[i].locked => sync_tab[i].owner \in holders

\* A channel holds exactly the message that was sent on it and not received.
ChannelKeepsMessage ==
    \A i \in Taken(ipc_tab) :
        ipc_owed[ipc_tab[i].chan] = IF ipc_tab[i].valid THEN <<ipc_tab[i].msg>> ELSE <<>>

\* A wait reports the descriptors that are ready for what was last asked of
\* them, whatever was removed in between.
WaitReportsReady ==
    epoll64_wait = {<<f, poll_ready[f] \cap ep_want[f]>> :
                       f \in {g \in PollFds : poll_ready[g] \cap ep_want[g] # {}}}

\* The events of a watch are read in the order they happened.
EventsInOrder ==
    \A w \in 1 .. INOTIFY64_MAX_WD :
        [i \in 1 .. Len(SelectSeq(in_evq, LAMBDA e : e.wd = w)) |->
            SelectSeq(in_evq, LAMBDA e : e.wd = w)[i].mask] = in_owed[w]

\* A query gives the newest entries that were kept, oldest first, none lost to
\* the wrap of the ring.
JournalKeepsNewest ==
    \A s \in JournalServices :
        LET kept == {k \in Len(jd_log) - jd_n + 1 .. Len(jd_log) : jd_log[k] = s}
            got == journald64_query(s)
        IN /\ Len(got) = Cardinality(kept)
           /\ {got[i].seq : i \in 1 .. Len(got)} = kept
           /\ \A i, j \in 1 .. Len(got) : i < j => got[i].seq < got[j].seq
==============================
