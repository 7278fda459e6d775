-------------------------------- MODULE Pipe --------------------------------
(***************************************************************************)
(* One blocking pipe (kernel/process/pipe.c) with its system calls, the    *)
(* descriptors that hold its ends (kernel/fs/chfs.c, task.c), and the one  *)
(* bounce buffer through which every read and write call of the system     *)
(* moves its bytes (kernel/core/syscall.c), among tasks that fork, exit,   *)
(* wait and send signals (TaskLife).                                       *)
(*                                                                         *)
(* Bytes are numbered in the order in which programs write them.  sent and *)
(* received are history variables: the bytes the programs asked the pipe   *)
(* to carry, as far as it took them, and the bytes handed to readers.      *)
(***************************************************************************)
EXTENDS TaskLife, Sequences

CONSTANTS
    PipeSize,         \* PIPE_SIZE, 512 in the code
    MaxBytes,         \* bound on the bytes ever written
    MaxEnds,          \* bound on the descriptors of one task for one end
    MayRead, MayWrite \* the tasks whose programs read and write the pipe

ASSUME PipeAssumption ==
    /\ PipeSize \in Nat \ {0} /\ MaxBytes \in Nat /\ MaxEnds \in Nat \ {0}
    /\ MayRead \subseteq Task /\ MayWrite \subseteq Task

VARIABLES
    alloc,            \* the pipe is allocated
    buf,              \* data[read_pos ..], count bytes
    readers, writers, \* the number of open ends
    reader_wait, writer_wait,   \* the one task parked on each side, 0 for none
    fds,              \* fds[t]: how many descriptors t has for each end
    bounce_buf,       \* the first PipeSize bytes of bounce_buf
    call,             \* the write call of a task: first byte, length, written
    stamp,            \* how many bytes the programs have made so far
    sent, received

endVars == <<alloc, readers, writers, reader_wait, writer_wait, fds>>
dataVars == <<buf, bounce_buf, call, stamp, sent, received>>
pipeVars == <<endVars, dataVars>>
pipeAllVars == <<lifeVars, pipeVars>>

NoCall == [first |-> 0, len |-> 0, written |-> 0]

PipeCalls == op[current] = "user" /\ current \notin {Main, Idle}

\* The states st once the tasks in W are READY (0 is nobody; a reaped task is
\* freed memory).
Wakes(st, W) ==
    [t \in Task |-> IF t \in W /\ st[t] # "freed" THEN "ready" ELSE st[t]]

------------------------------

\* The first user task has called pipe().
PipeInit ==
    /\ LifeInit
    /\ alloc = TRUE
    /\ buf = << >>
    /\ readers = 1 /\ writers = 1
    /\ reader_wait = 0 /\ writer_wait = 0
    /\ fds = [t \in Task |-> IF t = Init1st THEN [r |-> 1, w |-> 1] ELSE [r |-> 0, w |-> 0]]
    /\ bounce_buf = [k \in 1 .. PipeSize |-> 0]
    /\ call = [t \in Task |-> NoCall]
    /\ stamp = 0
    /\ sent = << >> /\ received = << >>

\* sys_fork(), sys_clone(): fd_table_copy() counts the child's ends.
PipeFork(ok) ==
    /\ Fork(ok)
    /\ IF ok
       THEN /\ fds' = [fds EXCEPT ![next_pid] = fds[current]]
            /\ readers' = readers + fds[current].r
            /\ writers' = writers + fds[current].w
       ELSE UNCHANGED <<fds, readers, writers>>
    /\ UNCHANGED <<alloc, reader_wait, writer_wait, dataVars>>

\* dup2() of an end to a free descriptor.
Dup(e) ==
    /\ PipeCalls
    /\ fds[current][e] \in 1 .. MaxEnds - 1
    /\ fds' = [fds EXCEPT ![current][e] = @ + 1]
    /\ readers' = readers + (IF e = "r" THEN 1 ELSE 0)
    /\ writers' = writers + (IF e = "w" THEN 1 ELSE 0)
    /\ UNCHANGED <<alloc, reader_wait, writer_wait, dataVars, lifeVars>>

\* Wrong variant: nobody is woken.
ReleasedNobody(r, w) == {}

\* Who pipe_close_end() wakes when t closes r read ends and w write ends.
Released(r, w) == (IF w > 0 THEN {reader_wait} ELSE {}) \cup (IF r > 0 THEN {writer_wait} ELSE {})

\* pipe_close_end() for each of them: the last one frees the pipe.
CloseEnds(t, r, w) ==
    /\ fds' = [fds EXCEPT ![t] = [r |-> @.r - r, w |-> @.w - w]]
    /\ readers' = readers - r
    /\ writers' = writers - w
    /\ reader_wait' = IF w > 0 THEN 0 ELSE reader_wait
    /\ writer_wait' = IF r > 0 THEN 0 ELSE writer_wait
    /\ alloc' = (alloc /\ (r + w = 0 \/ readers' + writers' > 0))

\* sys_close() of one descriptor.
Close(e) ==
    /\ PipeCalls
    /\ fds[current][e] > 0
    /\ LET r == IF e = "r" THEN 1 ELSE 0
           w == IF e = "w" THEN 1 ELSE 0
       IN  /\ CloseEnds(current, r, w)
           /\ state' = Wakes(state, Released(r, w))
    /\ UNCHANGED <<current, next_pid, parent, op, arg, sleep_until, handler, pending, dataVars>>

\* sys_exit(): all descriptors are closed first.
PipeExit ==
    /\ Calls("exit")
    /\ CloseEnds(current, fds[current].r, fds[current].w)
    /\ TaskExit(Wakes(state, Released(fds[current].r, fds[current].w)))
    /\ UNCHANGED dataVars

\* Wrong variant: the descriptors of a killed task stay open.
PipeKillKeepingFds(v) ==
    /\ Terminate(v, state)
    /\ UNCHANGED <<endVars, dataVars>>

\* signal_send() without a handler: fs_close_table() on the victim's table.
PipeKill(v) ==
    /\ CloseEnds(v, fds[v].r, fds[v].w)
    /\ Terminate(v, Wakes(state, Released(fds[v].r, fds[v].w)))
    /\ UNCHANGED dataVars

------------------------------

\* From the top of the loop of pipe_write_block(): c is the call, b the bounce
\* buffer it copies from.  As much as fits is put and the reader woken; with
\* bytes left over the pipe is full, and the writer parks or gives up.
WriteRound(c, b) ==
    LET n    == Min({c.len - c.written, PipeSize - Len(buf)})
        done == c.written + n
        st   == IF n > 0 THEN Wakes(state, {reader_wait}) ELSE state
    IN  /\ buf' = buf \o [k \in 1 .. n |-> b[c.written + k]]
        /\ sent' = sent \o [k \in 1 .. n |-> c.first + c.written + k]
        /\ reader_wait' = IF n > 0 THEN 0 ELSE reader_wait
        /\ bounce_buf' = b
        /\ \/ /\ done = c.len \/ readers = 0
              /\ Return
              /\ state' = st
              /\ call' = [call EXCEPT ![current] = NoCall]
              /\ UNCHANGED <<current, pending, writer_wait>>
           \/ /\ done < c.len /\ readers > 0
              /\ writer_wait' = current
              /\ call' = [call EXCEPT ![current] = [c EXCEPT !.written = done]]
              /\ Park("write", 0, st)
        /\ UNCHANGED <<next_pid, parent, sleep_until, handler, received,
                       alloc, readers, writers, fds>>

\* sys_write() of n bytes to the write end: copied to the bounce buffer; only
\* PIPE_SIZE of them are taken.
Write(n) ==
    /\ PipeCalls
    /\ current \in MayWrite
    /\ fds[current].w > 0
    /\ stamp + n <= MaxBytes
    /\ stamp' = stamp + n
    /\ LET len == Min({n, PipeSize})
       IN  WriteRound([first |-> stamp, len |-> len, written |-> 0],
                      [k \in 1 .. PipeSize |-> IF k <= n THEN stamp + k ELSE bounce_buf[k]])

\* Resumed in schedule().  Only a task that was killed, and resurrected by a
\* wakeup, can find its pipe freed here; it goes on with what the memory held.
WriteAgain ==
    /\ op[current] = "write"
    /\ WriteRound(call[current], bounce_buf)
    /\ UNCHANGED stamp

\* One round of pipe_read_block() for at most n bytes: end of file, park, or
\* take what is there through the bounce buffer and wake the writer.
ReadRound(n) ==
    LET m == Min({n, Len(buf)})
    IN  /\ \/ /\ buf = << >> /\ writers = 0
              /\ Return
              /\ UNCHANGED <<state, current, pending, endVars, buf, bounce_buf, received>>
           \/ /\ buf = << >> /\ writers > 0
              /\ reader_wait' = current
              /\ Park("read", n, state)
              /\ UNCHANGED <<alloc, readers, writers, writer_wait, fds, buf, bounce_buf, received>>
           \/ /\ buf # << >>
              /\ received' = received \o SubSeq(buf, 1, m)
              /\ buf' = SubSeq(buf, m + 1, Len(buf))
              /\ bounce_buf' = [k \in 1 .. PipeSize |-> IF k <= m THEN buf[k] ELSE bounce_buf[k]]
              /\ state' = Wakes(state, {writer_wait})
              /\ writer_wait' = 0
              /\ Return
              /\ UNCHANGED <<current, pending, alloc, readers, writers, reader_wait, fds>>
        /\ UNCHANGED <<next_pid, parent, sleep_until, handler, call, stamp, sent>>

\* sys_read() of n bytes from the read end.
Read(n) ==
    /\ PipeCalls
    /\ current \in MayRead
    /\ fds[current].r > 0
    /\ ReadRound(n)

ReadAgain ==
    /\ op[current] = "read"
    /\ ReadRound(arg[current])

PipeNext ==
    \/ (Tick \/ WaitAgain \/ SetHandler) /\ UNCHANGED pipeVars
    \/ (\E pid \in {AnyChild} \cup Task : Wait(pid)) /\ UNCHANGED pipeVars
    \/ (\E v \in Task : Notify(v)) /\ UNCHANGED pipeVars
    \/ \E v \in Task : PipeKill(v)
    \/ \E ok \in BOOLEAN : PipeFork(ok)
    \/ PipeExit
    \/ \E e \in {"r", "w"} : Dup(e) \/ Close(e)
    \/ \E n \in 1 .. PipeSize + 1 : Write(n)
    \/ \E n \in 1 .. PipeSize : Read(n)
    \/ WriteAgain
    \/ ReadAgain

PipeSpec == PipeInit /\ [][PipeNext]_pipeAllVars

------------------------------

\* The descriptors that f gives all tasks, as pairs of a task and a place; dup2
\* gives a task at most MaxEnds of them.
Held(f) == {d \in Task \X (1 .. MaxEnds) : d[2] <= f[d[1]]}
Total(f) == Cardinality(Held(f))

\* The pipe knows its ends: readers and writers count the descriptors of all
\* tasks through fork, dup2, close, exit and kill, and it is freed exactly when
\* the last one goes.
EndsCounted ==
    /\ readers = Total([t \in Task |-> fds[t].r])
    /\ writers = Total([t \in Task |-> fds[t].w])
    /\ alloc <=> readers + writers > 0
    /\ \A t \in Task : state[t] = "dead" => fds[t] = [r |-> 0, w |-> 0]

\* With one reader and nobody killing it, end of file is not missed and data is
\* not slept through: a parked reader finds the pipe empty with a writer left.
\* With one writer likewise: a parked writer finds it full with a reader left.
NobodyStranded ==
    \A t \in Task : state[t] = "blocked" =>
        /\ op[t] = "read" => buf = << >> /\ writers > 0
        /\ op[t] = "write" => Len(buf) = PipeSize /\ readers > 0

\* "okuyucular EOF yerine sonsuz bloklanir" (signal.c:38) is what closing the
\* write ends of a dead task prevents: no reader stays parked once every write
\* end is closed.
ReaderGetsEof ==
    \A t \in Task : op[t] = "read" /\ state[t] = "blocked" => writers > 0

\* What readers get, and what is still in the pipe, is what the programs wrote.
Fifo == received \o buf = sent

==============================
