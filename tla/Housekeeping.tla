---------------------------- MODULE Housekeeping ----------------------------
(***************************************************************************)
(* The kernel's own accounting: power ticks (power.c), the thermal         *)
(* governor (thermal.c), the system log ring (syslog.c) behind the trace   *)
(* filter (trace.c), the profiler (prof.c) and the real-time clock with    *)
(* its alarm (rtc.c); and the tick counter that sleeps and waits are       *)
(* measured with (timer.c), at its own width.                              *)
(*                                                                         *)
(* The timer interrupt may arrive between any two steps of the boot task:  *)
(* power_selftest is therefore modelled statement by statement.            *)
(***************************************************************************)
EXTENDS Integers, Sequences, FiniteSets

CONSTANTS
    PowerTicks,          \* BOUND: timer interrupts in a behaviour
    THERMAL_AVG_N,       \* samples averaged
    THERMAL_PSTATE_MAX,  \* performance states, 0 is the fastest
    Temps,               \* temperatures a sensor may report
    SYSLOG_SIZE,         \* bytes of the log ring
    LogMessages,         \* messages, as sequences of bytes
    LogReads,            \* sizes of the readers' buffers
    TRACE_LEVELS,        \* trace levels 0 .. TRACE_LEVELS - 1
    ProfClock,           \* the tick counter wraps at this value
    ProfRounds,          \* BOUND: measurements of a slot
    ClockWidth,          \* the tick counter of timer.c wraps here, 2^32 in the code
    ClockSleeps          \* the ticks programs sleep, 1 .. 10000 in the code

ASSUME HousekeepingAssumption ==
    /\ THERMAL_AVG_N \in Nat \ {0} /\ THERMAL_PSTATE_MAX \in Nat \ {0} /\ Temps \subseteq Nat
    /\ SYSLOG_SIZE \in Nat \ {0} /\ LogReads \subseteq Nat /\ LogMessages \subseteq Seq(Nat)
    /\ ProfClock \in Nat \ {0}
    /\ ClockWidth \in Nat \ {0} /\ ClockSleeps \subseteq 1 .. ClockWidth - 1

VARIABLES
    power,     \* policy, idle and busy ticks, the step of power_selftest
    thermal,   \* pstate, the ring of samples, their number, the averaged temperature, trips
    syslog,    \* the ring, its head and count; trace level; what was logged since the last read
    prof,      \* one slot of the profiler and the counter it reads
    clock,     \* tick, one task's deadline, and since when and how long it is in its call
    rtc        \* what the clock shows, its mode, and the alarm registers

powerVars == power
thermalVars == thermal
syslogVars == syslog
profVars == prof
Min2(a, b) == IF a < b THEN a ELSE b

------------------------------
(* power.c *)

POWER_POLICIES == {"perf", "balanced", "saver"}

power_init == [policy |-> "balanced", idle |-> 0, busy |-> 0]

PowerInit == power = [p |-> power_init, test |-> 1, irqs |-> 0, since |-> 0]

power_note_tick(p, is_idle) == IF is_idle THEN [p EXCEPT !.idle = @ + 1] ELSE [p EXCEPT !.busy = @ + 1]

power_idle_pct(p) == IF p.idle + p.busy = 0 THEN 0 ELSE (p.idle * 100) \div (p.idle + p.busy)

(* timer_handler's share: one tick, idle or not.                           *)
PowerIrq(is_idle) ==
    /\ power.irqs < PowerTicks
    /\ power' = [power EXCEPT !.p = power_note_tick(power.p, is_idle), !.irqs = @ + 1, !.since = @ + 1]

power_set_policy(q) == power' = [power EXCEPT !.p.policy = IF q \in POWER_POLICIES THEN q ELSE @]

(* The statements of power_selftest and of the boot code around it; a      *)
(* failed comparison ends the test with its error.                         *)
PowerExpected(step) ==
    CASE step = 2 -> power.p.policy = "balanced"
      [] step = 3 -> power_idle_pct(power.p) = 0
      [] step = 8 -> power.p.idle = 2 /\ power.p.busy = 1
      [] step = 9 -> power_idle_pct(power.p) = 66
      [] OTHER -> TRUE

power_selftest ==
    LET s == power.test
        p == power.p
    IN  /\ s \in 1 .. 10
        /\ \/ ~PowerExpected(s) /\ power' = [power EXCEPT !.test = -s]
           \/ /\ PowerExpected(s)
              /\ \/ s \in {1, 10} /\ power' = [power EXCEPT !.p = power_init, !.since = 0, !.test = s + 1]
                 \/ s = 4 /\ power' = [power EXCEPT !.p.policy = "saver", !.test = s + 1]
                 \/ s \in 5 .. 7 /\ power' = [power EXCEPT !.p = power_note_tick(p, s < 7),
                                                           !.since = @ + 1, !.test = s + 1]
                 \/ s \in {2, 3, 8, 9} /\ power' = [power EXCEPT !.test = s + 1]

PowerNext ==
    \/ \E i \in BOOLEAN : PowerIrq(i)
    \/ \E q \in POWER_POLICIES \cup {"99"} : power.test \notin 1 .. 10 /\ power_set_policy(q)
    \/ power_selftest

(* Every tick since the counters were last cleared is in exactly one of    *)
(* them, however the interrupt and the boot task interleave, and the       *)
(* share of idle time is a percentage.                                     *)
TicksAccounted ==
    /\ power.p.idle + power.p.busy = power.since
    /\ power_idle_pct(power.p) \in 0 .. 100
    /\ power.p.idle = 0 => power_idle_pct(power.p) = 0

------------------------------
(* thermal.c *)

THERMAL_UP == 75
THERMAL_DOWN == 60
THERMAL_CRIT == 95

thermal_init ==
    [pstate |-> 0, samples |-> [i \in 0 .. THERMAL_AVG_N - 1 |-> 45], n |-> 0, last |-> 45,
     hot |-> 0, cool |-> 0]

ThermalInit == thermal = thermal_init

SumOf(f, k) ==
    LET sum[i \in 0 .. k] == IF i = 0 THEN 0 ELSE sum[i - 1] + f[i - 1] IN sum[k]

(* The counter only serves the ring index and the number of samples        *)
(* averaged: past THERMAL_AVG_N only its value modulo THERMAL_AVG_N counts.*)
Advance(n) == IF n + 1 < 2 * THERMAL_AVG_N THEN n + 1 ELSE THERMAL_AVG_N

SampleCount(n) == Advance(n)

Governed(pstate, avg) ==
    IF avg >= THERMAL_CRIT THEN THERMAL_PSTATE_MAX - 1
    ELSE IF avg >= THERMAL_UP /\ pstate < THERMAL_PSTATE_MAX - 1 THEN pstate + 1
    ELSE IF avg <= THERMAL_DOWN /\ pstate > 0 THEN pstate - 1
    ELSE pstate

(* A sample above 125 is refused; hot and cool count how many samples in a *)
(* row were at or above THERMAL_UP, at or below THERMAL_DOWN.              *)
thermal_tick(temp) ==
    LET ring == [thermal.samples EXCEPT ![thermal.n % THERMAL_AVG_N] = temp]
        n    == SampleCount(thermal.n)
        k    == IF n < THERMAL_AVG_N THEN n ELSE THERMAL_AVG_N
        avg  == SumOf(ring, k) \div k
        most == THERMAL_AVG_N + THERMAL_PSTATE_MAX
    IN  /\ temp <= 125
        /\ thermal' = [pstate |-> Governed(thermal.pstate, avg), samples |-> ring, n |-> n, last |-> avg,
                       hot  |-> IF temp < THERMAL_UP THEN 0 ELSE IF thermal.hot < most THEN thermal.hot + 1 ELSE most,
                       cool |-> IF temp > THERMAL_DOWN THEN 0 ELSE IF thermal.cool < most THEN thermal.cool + 1 ELSE most]

ThermalNext == \E t \in Temps : thermal_tick(t)

(* The governor follows the sensor: after a whole average of hot samples   *)
(* and one more for each state the slowest state is in use, after as many  *)
(* cool ones the fastest ("halka indeksi donmasın", thermal_tick).         *)
GovernorFollows ==
    /\ thermal.hot >= THERMAL_AVG_N + THERMAL_PSTATE_MAX - 1 => thermal.pstate = THERMAL_PSTATE_MAX - 1
    /\ thermal.cool >= THERMAL_AVG_N + THERMAL_PSTATE_MAX - 1 => thermal.pstate = 0

------------------------------
(* syslog.c and trace.c *)

SyslogInit ==
    syslog = [buf |-> [i \in 0 .. SYSLOG_SIZE - 1 |-> 0], head |-> 0, count |-> 0,
              level |-> 1, logged |-> <<>>, got |-> <<>>, want |-> <<>>]

PutByte(s, b) ==
    [s EXCEPT !.buf[s.head] = b, !.head = (s.head + 1) % SYSLOG_SIZE,
              !.count = IF s.count < SYSLOG_SIZE THEN s.count + 1 ELSE s.count]

PutAll(s, m) ==
    LET put[i \in 0 .. Len(m)] == IF i = 0 THEN s ELSE PutByte(put[i - 1], m[i])
    IN  put[Len(m)]

(* BOUND: of what was logged since the last read only the last ring's      *)
(* worth is remembered.                                                    *)
LastOf(s, n) == IF Len(s) <= n THEN s ELSE SubSeq(s, Len(s) - n + 1, Len(s))

syslog_puts(m) ==
    syslog' = [PutAll(syslog, m) EXCEPT !.logged = LastOf(syslog.logged \o m, SYSLOG_SIZE), !.got = <<>>, !.want = <<>>]

(* Below the level an event is dropped.                                    *)
trace_event(level, m) ==
    /\ level \in 0 .. TRACE_LEVELS - 1 /\ level >= syslog.level
    /\ syslog_puts(m)

trace_set_level(level) ==
    syslog' = [syslog EXCEPT !.level = IF level < TRACE_LEVELS THEN level ELSE @, !.got = <<>>, !.want = <<>>]

ReadStart(s) == (s.head - s.count + 2 * SYSLOG_SIZE) % SYSLOG_SIZE

(* max - 1 bytes at most, the oldest first; whatever was read, the ring is *)
(* empty afterwards.                                                       *)
syslog_read(max) ==
    LET n     == IF syslog.count > max - 1 THEN max - 1 ELSE syslog.count
        start == ReadStart(syslog)
    IN  /\ max > 0
        /\ syslog' = [syslog EXCEPT !.got = [i \in 1 .. n |-> syslog.buf[(start + i - 1) % SYSLOG_SIZE]],
                                    !.want = SubSeq(syslog.logged, 1, n),
                                    !.head = 0, !.count = 0, !.logged = <<>>]

SyslogNext ==
    \/ \E m \in LogMessages, l \in 0 .. TRACE_LEVELS : trace_event(l, m)
    \/ \E l \in 0 .. TRACE_LEVELS : trace_set_level(l)
    \/ \E max \in LogReads : syslog_read(max)

(* A reader gets the log in order: the oldest bytes that are still in the  *)
(* ring, however often the ring wrapped and wherever the last read left    *)
(* its head; and nothing that was logged is missing while it would fit.    *)
LogInOrder ==
    /\ syslog.got = syslog.want
    /\ syslog.count = Len(syslog.logged)

------------------------------
(* prof.c: one slot; the counter runs on between the calls and wraps.      *)

ProfInit == prof = [open |-> FALSE, start |-> 0, now |-> 0, min |-> 0, max |-> 0, total |-> 0, count |-> 0]

prof_begin ==
    /\ ~prof.open /\ prof.count < ProfRounds
    /\ prof' = [prof EXCEPT !.open = TRUE, !.start = prof.now]

(* dt = now - start in unsigned arithmetic.                                *)
ProfElapsed(now, start) == (now - start) % ProfClock

prof_end ==
    LET dt == ProfElapsed(prof.now, prof.start)
    IN  /\ prof.open
        /\ prof' = [prof EXCEPT !.open = FALSE,
                                !.min = IF prof.count = 0 \/ dt < prof.min THEN dt ELSE prof.min,
                                !.max = IF dt > prof.max THEN dt ELSE prof.max,
                                !.total = @ + dt, !.count = @ + 1]

prof_reset == prof' = [prof EXCEPT !.total = 0, !.min = 0, !.max = 0, !.count = 0, !.open = FALSE]

ProfTicks == \E d \in {1, 3} : prof' = [prof EXCEPT !.now = (@ + d) % ProfClock]

ProfNext == prof_begin \/ prof_end \/ prof_reset \/ ProfTicks

(* The average the boot log prints lies between the smallest and the       *)
(* largest measurement, also when the counter wrapped during one           *)
(* ("mn <= tot / cnt && tot / cnt <= mx", kernel_main).                    *)
ProfOrdered ==
    prof.count > 0 => prof.min * prof.count <= prof.total /\ prof.total <= prof.max * prof.count

------------------------------
(* timer.c: the tick counter *)

ClockInit ==
    clock = [tick |-> 0, state |-> "awake", until |-> 0, asked |-> 0, from |-> 0, passed |-> 0]

(* As DeadlineReached, a bug: the deadline itself is not late enough.      *)
DeadlineReachedPast(tick, until) == tick > until
DeadlineReached(tick, until) == tick >= until

Begins(state, n) ==
    clock' = [clock EXCEPT !.state = state, !.until = (clock.tick + n) % ClockWidth,
                           !.asked = n, !.from = clock.tick, !.passed = 0]

(* sys_nanosleep() and task_sleep() block the task; 0 means no deadline.   *)
sleep_until(n) == clock.state = "awake" /\ Begins("asleep", n)

(* timer_wait() looks at the counter first and halts between the ticks.    *)
timer_wait(n) ==
    /\ clock.state = "awake"
    /\ ~DeadlineReached(clock.tick, (clock.tick + n) % ClockWidth)
    /\ Begins("waiting", n)

(* timer_handler().                                                        *)
ClockTick ==
    LET now == (clock.tick + 1) % ClockWidth
        ends == \/ clock.state = "asleep" /\ clock.until # 0 /\ DeadlineReached(now, clock.until)
                \/ clock.state = "waiting" /\ DeadlineReached(now, clock.until)
    IN clock' = [clock EXCEPT !.tick = now, !.state = IF ends THEN "awake" ELSE @,
                              !.until = IF ends THEN 0 ELSE @,
                              !.passed = IF clock.state = "awake" THEN @ ELSE Min2(@ + 1, ClockWidth)]

ClockNext == ClockTick \/ \E n \in ClockSleeps : sleep_until(n) \/ timer_wait(n)

(* A sleep or a wait lasts the ticks it was asked for, also across a wrap  *)
(* of the counter, with two exceptions the comparison tick >= sleep_until  *)
(* has: a deadline behind the wrap is taken for one that has passed, and   *)
(* one that falls on 0 for none.                                           *)
SleepsMeasured ==
    /\ clock.state # "awake" =>
          clock.passed < clock.asked \/ clock.from + clock.asked = ClockWidth
    /\ clock.state = "awake" =>
          clock.passed = clock.asked \/ clock.from + clock.asked > ClockWidth

------------------------------
(* rtc.c: registers hold binary or BCD numbers, hours in 24 or 12 hours.   *)

ToBcd(v, bin) == IF bin THEN v ELSE (16 * (v \div 10)) + (v % 10)

FromBcd(v, bin) == IF bin THEN v ELSE (v % 16) + (10 * (v \div 16))

(* rtc_alarm_in: seconds, minutes and hours carry, the date does not.      *)

AlarmTime(t, ahead) ==
    LET s == t.s + ahead
        m == t.m + 1
    IN  IF s < 60 THEN [t EXCEPT !.s = s]
        ELSE IF m < 60 THEN [h |-> t.h, s |-> s - 60, m |-> m]
        ELSE [h |-> (t.h + 1) % 24, s |-> s - 60, m |-> m - 60]

(* The hour keeps its PM bit through BCD; PM adds twelve hours, also to 12. *)
rtc_get_time(r) ==
    LET h == IF r.bin THEN r.h ELSE FromBcd(r.h % 128, FALSE) + (r.h - (r.h % 128))
    IN  [h |-> IF ~r.h24 /\ h >= 128 THEN ((h % 128) + 12) % 24 ELSE h % 128,
         m |-> FromBcd(r.m, r.bin), s |-> FromBcd(r.s, r.bin)]

(* The registers of a clock that shows t (external): hours 0 to 23, or 1 to *)
(* 12 with the PM bit beside the number.                                   *)
ClockRegisters(t, bin, h24) ==
    [h |-> IF h24 THEN ToBcd(t.h, bin)
           ELSE ToBcd(IF t.h % 12 = 0 THEN 12 ELSE t.h % 12, bin) + (IF t.h >= 12 THEN 128 ELSE 0),
     m |-> ToBcd(t.m, bin), s |-> ToBcd(t.s, bin), bin |-> bin, h24 |-> h24]

(* The hour that is written: on a 12-hour clock the PM bit is that of the  *)
(* hour now, and it goes through the BCD conversion with the number.       *)
AlarmHour(now, h, h24) ==
    LET ah == IF h = 0 THEN 12 ELSE IF h > 12 THEN h - 12 ELSE h
    IN  IF h24 THEN h ELSE IF now >= 12 THEN ah + 128 ELSE ah

rtc_alarm_in(ahead) ==
    LET t == rtc_get_time(rtc.reg)
        a == AlarmTime(t, ahead)
        b == rtc.reg.bin
    IN  rtc' = [rtc EXCEPT !.alarm = [h |-> ToBcd(AlarmHour(t.h, a.h, rtc.reg.h24), b),
                                      m |-> ToBcd(a.m, b), s |-> ToBcd(a.s, b),
                                      bin |-> b, h24 |-> rtc.reg.h24],
                           !.ahead = ahead]

RtcTimes == [h : {0, 9, 11, 12, 23}, m : {0, 9, 58, 59}, s : {0, 9, 57, 58, 59}]

RtcNone ==
    LET t == [h |-> 0, m |-> 0, s |-> 0]
    IN  [t |-> t, reg |-> ClockRegisters(t, TRUE, TRUE), alarm |-> <<>>, ahead |-> -1]

RtcInit ==
    \E t \in RtcTimes, bin, h24 \in BOOLEAN :
        rtc = [t |-> t, reg |-> ClockRegisters(t, bin, h24), alarm |-> <<>>, ahead |-> -1]

RtcNext == rtc.ahead = -1 /\ \E n \in {0, 2, 59} : rtc_alarm_in(n)

DaySecond(t) == t.h * 3600 + t.m * 60 + t.s

(* The alarm goes off when it should: ahead seconds after the time the     *)
(* clock showed, across the minute, the hour and midnight, in binary and   *)
(* in BCD mode, of a clock in 24-hour mode.  On a 12-hour clock it does    *)
(* not: 12 is read twelve hours wrong, and in BCD an hour with the PM bit  *)
(* is written as another number (rtc.c:69, 120-124).                       *)
AlarmOnTime ==
    rtc.reg.h24 /\ rtc.ahead >= 0 =>
        DaySecond(rtc_get_time(rtc.alarm)) = (DaySecond(rtc.t) + rtc.ahead) % 86400
==============================
