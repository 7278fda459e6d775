------------------------------ MODULE UserShell -----------------------------
(***************************************************************************)
(* The user shell (user/sh.c): lines are split at ; && || and |, words are *)
(* expanded, redirections taken out, single builtins run in the shell with *)
(* its descriptors saved, and pipelines as one child per command.          *)
(*                                                                         *)
(* A line is a sequence of tokens, words and operators.  A command is what *)
(* the shell can tell of it: whether it reads its input to the end, and    *)
(* its exit status.  System calls are atomic; the shell and its children   *)
(* take turns between them.  A descriptor table maps numbers to what they  *)
(* name: the terminal, a file, or an end of a pipe.                        *)
(***************************************************************************)
EXTENDS Tables64

CONSTANTS
    SH_JOBMAX, SH_MAXCMDS, SH_ENVMAX,
    ShLines,        \* the lines typed
    ShReaders,      \* programs that read to the end of their input
    ShFailing,      \* programs that exit with 1, and names that do not exist
    ShFiles,        \* files that can be opened
    ShMaxLines, ShFaults    \* bounds on lines and on failing pipe() and fork()

ASSUME ShAssumption == ShLines \subseteq Seq(STRING) \ {<<>>} /\ SH_MAXCMDS \in Nat

VARIABLES
    sh,             \* where the shell is in the line it runs
    sh_fd,
    sh_jobs, sh_env, last_status,
    procs,          \* pid -> child
    sh_lines, sh_faults
shVars == <<sh, sh_fd, sh_jobs, sh_env, last_status, procs, sh_lines, sh_faults>>

Terminal == [n \in {0, 1} |-> <<"tty", 0>>]
NoPipe == -1
Prompt == [at |-> "prompt", segs |-> <<>>, parts |-> <<>>, op |-> "end", st |-> 0,
           empty |-> FALSE, bg |-> FALSE, cmds |-> <<>>, i |-> 1, prev |-> NoPipe,
           fds |-> <<>>, pids |-> <<>>]

shInit ==
    /\ sh = Prompt
    /\ sh_fd = Terminal
    /\ sh_jobs = <<>>
    /\ sh_env = <<>>
    /\ last_status = 0
    /\ procs = <<>>
    /\ sh_lines = 0
    /\ sh_faults = 0

------------------------------
(* Lines.                                                                  *)

\* The k-th smallest of a set of numbers.
Nth(S, k) == CHOOSE n \in S : Cardinality({m \in S : m <= n}) = k

\* The pieces of a line between the separators, each with the one after it;
\* an empty last piece is dropped, and so is what follows the max-th.
Split(toks, seps, max) ==
    LET cuts == {i \in 1 .. Len(toks) : toks[i] \in seps}
        ends == IF Len(toks) \in cuts \cup {0} THEN cuts ELSE cuts \cup {Len(toks) + 1}
        From(k) == IF k = 1 THEN 1 ELSE Nth(ends, k - 1) + 1
    IN [k \in 1 .. Min({max, Cardinality(ends)}) |->
           [toks |-> SubSeq(toks, From(k), Nth(ends, k) - 1),
            op |-> IF Nth(ends, k) \in cuts THEN toks[Nth(ends, k)] ELSE "end"]]

split_pipe(toks) == Split(toks, {"|"}, SH_MAXCMDS)

\* run_chain(): the parts of a segment, each with the operator before it, which
\* decides whether it runs.
Chain(toks) ==
    LET parts == Split(toks, {"&&", "||"}, 8)
    IN [k \in DOMAIN parts |->
           [toks |-> parts[k].toks, op |-> IF k = 1 THEN "end" ELSE parts[k - 1].op]]

Where(toks, ops) == {i \in 1 .. Len(toks) : toks[i] \in ops}
WordAfter(toks, i) == IF i < Len(toks) THEN toks[i + 1] ELSE ""

\* expand_vars(): a variable that is not set expands to nothing.
env_get(name) == LET at == {i \in 1 .. Len(sh_env) : sh_env[i].name = name}
                 IN IF at = {} THEN <<>> ELSE <<sh_env[Min(at)].val>>
expand_vars(toks) ==
    FlattenSeq([k \in 1 .. Len(toks) |->
        CASE toks[k] = "$?" -> <<IF last_status = 0 THEN "0" ELSE "1">>
          [] toks[k] = "$X" -> env_get("X")
          [] OTHER -> <<toks[k]>>])

\* parse_redir(): the command is cut at the first <, and what is left of it at
\* the first > or >>.
parse_redir(toks) ==
    LET ins == Where(toks, {"<"})
        rest == IF ins = {} THEN toks ELSE SubSeq(toks, 1, Min(ins) - 1)
        outs == Where(rest, {">", ">>"})
    IN [argv |-> IF outs = {} THEN rest ELSE SubSeq(rest, 1, Min(outs) - 1),
        in |-> IF ins = {} THEN "" ELSE WordAfter(toks, Min(ins)),
        out |-> IF outs = {} THEN "" ELSE WordAfter(toks, Min(outs))]

Command(toks) == parse_redir(expand_vars(toks))

\* The commands of a pipeline.
Commands(pieces) == [k \in DOMAIN pieces |-> Command(pieces[k].toks)]

------------------------------
(* Descriptors.                                                            *)

LowestFree(fd, avoid) == Min((0 .. 13) \ (DOMAIN fd \cup avoid))
Closed(fd, n) == [m \in DOMAIN fd \ {n} |-> fd[m]]
Placed(fd, n, obj) == [m \in DOMAIN fd \cup {n} |-> IF m = n THEN obj ELSE fd[m]]
Dup2(fd, from, to) == Placed(fd, to, fd[from])

\* apply_redir(): a file that cannot be opened ends it where it is.
Redirected(fd, name, to) ==
    IF name = "" \/ name \notin ShFiles THEN fd ELSE Placed(fd, to, <<name, 0>>)
Opens(cmd) == /\ cmd.in = "" \/ cmd.in \in ShFiles
              /\ cmd.out = "" \/ cmd.out \in ShFiles
apply_redir(fd, cmd) ==
    LET in == Redirected(fd, cmd.in, 0)
    IN IF cmd.in = "" \/ cmd.in \in ShFiles THEN Redirected(in, cmd.out, 1) ELSE in

------------------------------
(* Children.                                                               *)

Pids == DOMAIN procs
Alive(p) == procs[p].state \in {"setup", "run"}
Held(obj) == \/ \E n \in DOMAIN sh_fd : sh_fd[n] = obj
             \/ \E p \in Pids : Alive(p) /\ \E n \in DOMAIN procs[p].fd : procs[p].fd[n] = obj
Ended(p, st) ==
    [procs EXCEPT ![p].state = "zombie", ![p].status = st, ![p].fd = <<>>]

ShellOnly == {"jobs", "wait", "kill", "fg", "export"}
\* Builtins that leave the shell's own state alone; echo stands for those that
\* print or call the file system.
Anywhere == {"echo", "exit"}

ChildFds(c) ==
    LET in == IF c.prev = NoPipe THEN c.fd ELSE Closed(Dup2(c.fd, c.prev, 0), c.prev)
    IN IF c.next = <<>> THEN in
       ELSE Closed(Dup2(Closed(in, c.next[1]), c.next[2], 1), c.next[2])

\* The child of run_pipeline() up to exec(): the pipe ends become its input
\* and output, then the files do.  A builtin that changes the shell is not
\* run at all.
ChildSetup(p) ==
    /\ procs[p].state = "setup"
    /\ \E cmd \in {procs[p].cmd}, fd \in {apply_redir(ChildFds(procs[p]), procs[p].cmd)} :
          IF ~Opens(cmd) \/ cmd.argv[1] \in ShellOnly THEN procs' = Ended(p, 1)
          ELSE IF cmd.argv[1] \in Anywhere THEN procs' = Ended(p, 0)
          ELSE procs' = [procs EXCEPT ![p].state = "run", ![p].fd = fd]
    /\ UNCHANGED <<sh, sh_fd, sh_jobs, sh_env, last_status, sh_lines, sh_faults>>

\* The program ends; one that reads to the end of a pipe does so once nobody
\* holds the writing end.
ChildExit(p) ==
    /\ procs[p].state = "run"
    /\ \E prog \in {procs[p].cmd.argv[1]}, in \in {procs[p].fd[0]} :
          /\ (prog \in ShReaders /\ in[1] = "r") => ~Held(<<"w", in[2]>>)
          /\ procs' = Ended(p, IF prog \in ShFailing THEN 1 ELSE 0)
    /\ UNCHANGED <<sh, sh_fd, sh_jobs, sh_env, last_status, sh_lines, sh_faults>>

------------------------------
(* The shell.                                                              *)

\* shell(): a line, in the background if it ends in &, is cut at ;.
ShRead(line) ==
    /\ sh.at = "prompt"
    /\ sh_lines < ShMaxLines
    /\ sh_lines' = sh_lines + 1
    /\ \E bg \in {Last(line) = "&"} :
          sh' = [sh EXCEPT !.at = "chain", !.bg = bg,
                           !.segs = Split(IF bg THEN Front(line) ELSE line, {";"}, 8)]
    /\ UNCHANGED <<sh_fd, sh_jobs, sh_env, last_status, procs, sh_faults>>

\* The next segment of the line, or the prompt.
ShSegment ==
    /\ sh.at = "chain" /\ sh.parts = <<>>
    /\ sh' = IF sh.segs = <<>> THEN [sh EXCEPT !.at = "prompt", !.bg = FALSE, !.st = 0, !.empty = FALSE]
             ELSE [sh EXCEPT !.segs = Tail(@), !.parts = Chain(Head(sh.segs).toks),
                             !.st = 0, !.empty = FALSE]
    /\ UNCHANGED <<sh_fd, sh_jobs, sh_env, last_status, procs, sh_lines, sh_faults>>

\* As Skipped, a bug: what follows || runs whatever came before.
SkippedOnlyAnd(part, st) == part.op = "&&" /\ st # 0
Skipped(part, st) == (part.op = "&&" /\ st # 0) \/ (part.op = "||" /\ st = 0)

\* run_chain(), the next part: skipped, or without a command, which counts as
\* success (empty remembers it) and leaves last_status, or a pipeline to run.
ShChain ==
    /\ sh.at = "chain" /\ sh.parts # <<>>
    /\ \E part \in {Head(sh.parts)} : \E pieces \in {split_pipe(part.toks)} :
       \E cmds \in {Commands(pieces)} :
          sh' = IF Skipped(part, sh.st) THEN [sh EXCEPT !.parts = Tail(@)]
                ELSE IF cmds = <<>> \/ \E k \in DOMAIN cmds : cmds[k].argv = <<>>
                     THEN [sh EXCEPT !.parts = Tail(@), !.st = 0, !.empty = TRUE]
                ELSE [sh EXCEPT !.parts = Tail(@), !.op = part.op, !.cmds = cmds, !.i = 1,
                                !.at = IF Len(cmds) = 1 THEN "single" ELSE "spawn"]
    /\ UNCHANGED <<sh_fd, sh_jobs, sh_env, last_status, procs, sh_lines, sh_faults>>

\* A single command: the descriptors are saved and redirected.
ShSingle ==
    /\ sh.at = "single"
    /\ sh_fd' = apply_redir(Dup2(Dup2(sh_fd, 0, 14), 1, 15), sh.cmds[1])
    /\ sh' = [sh EXCEPT !.at = IF Opens(sh.cmds[1]) THEN "builtin" ELSE "restore",
                        !.st = 1]
    /\ UNCHANGED <<sh_jobs, sh_env, last_status, procs, sh_lines, sh_faults>>

Argument == IF Len(sh.cmds[1].argv) > 1 THEN sh.cmds[1].argv[2] ELSE ""
job_index_of(jobs, pid) == {k \in 1 .. Len(jobs) : jobs[k] = pid}
job_take(jobs, k) == RemoveAt(jobs, k)
job_resolve == IF Argument = "%1" /\ sh_jobs # <<>> THEN sh_jobs[1] ELSE -1
Zombie(pid) == pid \in Pids /\ procs[pid].state = "zombie"
Child(pid) == pid \in Pids /\ procs[pid].state # "reaped"
Reaped(S) == [p \in Pids |-> IF p \in S THEN [procs[p] EXCEPT !.state = "reaped"] ELSE procs[p]]

env_set(name, val) ==
    LET at == {i \in 1 .. Len(sh_env) : sh_env[i].name = name}
    IN IF at # {} THEN [sh_env EXCEPT ![Min(at)].val = val]
       ELSE IF Len(sh_env) < SH_ENVMAX THEN Append(sh_env, [name |-> name, val |-> val])
       ELSE sh_env

After(st) == sh' = [sh EXCEPT !.at = "restore", !.st = st, !.i = 1]

\* jobs: the job it looks at is reaped if it has ended, and leaves the list
\* unless it still runs.
JobsLoop ==
    IF sh.i > Len(sh_jobs) THEN After(0) /\ UNCHANGED <<sh_jobs, procs>>
    ELSE IF Child(sh_jobs[sh.i]) /\ ~Zombie(sh_jobs[sh.i])
         THEN sh' = [sh EXCEPT !.i = @ + 1] /\ UNCHANGED <<sh_jobs, procs>>
    ELSE /\ procs' = Reaped({sh_jobs[sh.i]})
         /\ sh_jobs' = job_take(sh_jobs, sh.i)
         /\ UNCHANGED sh

\* try_builtin() in the shell.
Builtin ==
    /\ sh.at = "builtin"
    /\ \E prog \in {sh.cmds[1].argv[1]} :
       \/ /\ prog = "echo" /\ After(0)
          /\ UNCHANGED <<sh_jobs, sh_env, procs>>
       \/ /\ prog = "exit" /\ sh' = [sh EXCEPT !.at = "gone"]
          /\ UNCHANGED <<sh_jobs, sh_env, procs>>
       \/ prog = "jobs" /\ JobsLoop /\ UNCHANGED sh_env
       \/ /\ prog = "wait" /\ Argument = ""
          /\ IF sh_jobs = <<>> THEN After(0) /\ UNCHANGED <<sh_jobs, procs>>
             ELSE /\ Child(sh_jobs[1]) => Zombie(sh_jobs[1])
                  /\ procs' = Reaped({sh_jobs[1]})
                  /\ sh_jobs' = job_take(sh_jobs, 1)
                  /\ UNCHANGED sh
          /\ UNCHANGED sh_env
       \/ /\ (prog = "wait" /\ Argument # "") \/ prog = "fg"
          /\ Child(job_resolve) => Zombie(job_resolve)
          /\ After(IF Child(job_resolve) THEN 0 ELSE 1)
          /\ procs' = Reaped({job_resolve})
          /\ sh_jobs' = IF job_index_of(sh_jobs, job_resolve) = {} THEN sh_jobs
                        ELSE job_take(sh_jobs, Min(job_index_of(sh_jobs, job_resolve)))
          /\ UNCHANGED sh_env
       \/ /\ prog = "kill"
          /\ IF job_resolve \in Pids /\ Alive(job_resolve)
             THEN procs' = Ended(job_resolve, 1) /\ After(0)
             ELSE After(1) /\ UNCHANGED procs
          /\ UNCHANGED <<sh_jobs, sh_env>>
       \/ /\ prog = "export" /\ After(0)
          /\ sh_env' = env_set("X", Argument)
          /\ UNCHANGED <<sh_jobs, procs>>
       \/ /\ prog \notin ShellOnly \cup Anywhere
          /\ sh' = [sh EXCEPT !.at = "program"]
          /\ UNCHANGED <<sh_jobs, sh_env, procs>>
    /\ UNCHANGED <<sh_fd, last_status, sh_lines, sh_faults>>

Restored(fd) == Closed(Closed(Dup2(Dup2(fd, 14, 0), 15, 1), 14), 15)

\* The descriptors come back; what is no builtin is run as a child.
ShRestore ==
    /\ sh.at \in {"restore", "program"}
    /\ sh_fd' = Restored(sh_fd)
    /\ IF sh.at = "program" THEN sh' = [sh EXCEPT !.at = "spawn"] /\ UNCHANGED last_status
       ELSE sh' = [sh EXCEPT !.at = "chain", !.cmds = <<>>, !.empty = FALSE]
               /\ last_status' = sh.st
    /\ UNCHANGED <<sh_jobs, sh_env, procs, sh_lines, sh_faults>>

HasNext == sh.i < Len(sh.cmds)
Starting == sh.at = "spawn" /\ sh.i <= Len(sh.cmds)
WithoutEnd(fd, n) == IF n = NoPipe THEN fd ELSE Closed(fd, n)
Fault == sh_faults < ShFaults /\ sh_faults' = sh_faults + 1

\* run_pipeline(): a pipe to the next command, if there is one.  Failure ends
\* the pipeline.
ShPipe ==
    /\ Starting /\ HasNext /\ sh.fds = <<>>
    /\ \/ \E r \in {LowestFree(sh_fd, {})}, k \in {Cardinality(Pids) + 1} :
          \E w \in {LowestFree(sh_fd, {r})} :
             /\ sh_fd' = Placed(Placed(sh_fd, r, <<"r", k>>), w, <<"w", k>>)
             /\ sh' = [sh EXCEPT !.fds = <<r, w>>]
             /\ UNCHANGED sh_faults
       \/ /\ Fault
          /\ sh_fd' = WithoutEnd(sh_fd, sh.prev)
          /\ sh' = [sh EXCEPT !.at = "wait", !.i = 1, !.prev = NoPipe]
    /\ UNCHANGED <<sh_jobs, sh_env, last_status, procs, sh_lines>>

\* As Abandoned, a bug: a failed fork leaves the new pipe open.
AbandonedPipe == WithoutEnd(sh_fd, sh.prev)
Abandoned ==
    LET rest == WithoutEnd(sh_fd, sh.prev)
    IN IF sh.fds = <<>> THEN rest ELSE Closed(Closed(rest, sh.fds[1]), sh.fds[2])

\* job_add() with a full table says so, and the job is not entered.
JobsFull == Len(sh_jobs) >= SH_JOBMAX

\* fork(): the child has the shell's descriptors.
ShFork ==
    /\ Starting /\ (HasNext => sh.fds # <<>>)
    /\ \/ \E pid \in {Cardinality(Pids) + 1} :
             /\ procs' = [p \in Pids \cup {pid} |->
                   IF p # pid THEN procs[p]
                   ELSE [state |-> "setup", fd |-> sh_fd, cmd |-> sh.cmds[sh.i], status |-> 0,
                         prev |-> sh.prev, next |-> sh.fds, full |-> sh.bg /\ JobsFull]]
             /\ sh' = [sh EXCEPT !.at = "forked", !.pids = Append(@, pid)]
             /\ sh_jobs' = IF sh.bg /\ ~JobsFull THEN Append(sh_jobs, pid) ELSE sh_jobs
             /\ UNCHANGED <<sh_fd, sh_faults>>
       \/ /\ Fault
          /\ sh_fd' = Abandoned
          /\ sh' = [sh EXCEPT !.at = "wait", !.i = 1, !.prev = NoPipe, !.fds = <<>>]
          /\ UNCHANGED <<procs, sh_jobs>>
    /\ UNCHANGED <<sh_env, last_status, sh_lines>>

ParentFds ==
    LET rest == WithoutEnd(sh_fd, sh.prev)
    IN IF sh.fds = <<>> THEN rest ELSE Closed(rest, sh.fds[2])

\* The parent gives up what the child took and keeps the end the next one reads.
ShParent ==
    /\ sh.at = "forked"
    /\ sh_fd' = ParentFds
    /\ sh' = [sh EXCEPT !.at = IF HasNext THEN "spawn" ELSE "wait",
                        !.prev = IF sh.fds = <<>> THEN NoPipe ELSE sh.fds[1],
                        !.fds = <<>>, !.i = IF HasNext THEN @ + 1 ELSE 1]
    /\ UNCHANGED <<sh_jobs, sh_env, last_status, procs, sh_lines, sh_faults>>

WaitedFor == sh.pids[sh.i]

\* The foreground waits for every command it started; the last one's status
\* is the pipeline's.
ShWait ==
    /\ sh.at = "wait"
    /\ IF sh.bg \/ sh.i > Len(sh.pids)
       THEN /\ sh' = [sh EXCEPT !.at = "chain", !.cmds = <<>>, !.pids = <<>>, !.i = 1,
                                !.empty = FALSE, !.st = IF sh.bg \/ sh.pids = <<>> THEN 0
                                       ELSE procs[Last(sh.pids)].status]
            /\ last_status' = sh'.st
            /\ UNCHANGED procs
       ELSE /\ Zombie(WaitedFor)
            /\ procs' = Reaped({WaitedFor})
            /\ sh' = [sh EXCEPT !.i = @ + 1]
            /\ UNCHANGED last_status
    /\ UNCHANGED <<sh_fd, sh_jobs, sh_env, sh_lines, sh_faults>>

ShellStep == ShSegment \/ ShChain \/ ShSingle \/ Builtin \/ ShRestore \/ ShPipe \/ ShFork \/ ShParent \/ ShWait
ChildStep(p) == ChildSetup(p) \/ ChildExit(p)

shNext ==
    \/ \E l \in ShLines : ShRead(l)
    \/ ShSegment \/ ShChain \/ ShSingle \/ Builtin \/ ShRestore
    \/ ShPipe \/ ShFork \/ ShParent \/ ShWait
    \/ \E p \in Pids : ChildSetup(p) \/ ChildExit(p)

\* The scheduler gives the shell and every child their turn.
shFairness ==
    /\ WF_shVars(ShellStep)
    /\ \A p \in 1 .. 8 : WF_shVars(p \in Pids /\ ChildStep(p))

shSpec == shInit /\ [][shNext]_shVars /\ shFairness

------------------------------

\* At the prompt the shell has its terminal and nothing else, whichever
\* redirection, pipe() or fork() failed on the way.
ShellFdsBack == sh.at = "prompt" => sh_fd = Terminal

\* A program starts with its input and its output only: no stray end of a pipe
\* keeps a reader waiting.
ChildFdsClean == \A p \in Pids : procs[p].state = "run" => DOMAIN procs[p].fd = {0, 1}

\* At the prompt every child that was not waited for is in the job list, but
\* for those it had no room for.
JobsTracked ==
    sh.at = "prompt" =>
        \A p \in Pids : procs[p].state # "reaped" /\ ~procs[p].full
                        => \E k \in 1 .. Len(sh_jobs) : sh_jobs[k] = p

\* A part after && runs only if the command that ran last succeeded, one after
\* || only if it failed; a part in between that expanded to nothing counts as
\* success.
ChainObeyed ==
    [][(sh.at = "chain" /\ sh'.at \in {"single", "spawn"}) =>
          CASE sh'.op = "&&" -> sh.empty \/ last_status = 0
            [] sh'.op = "||" -> ~sh.empty /\ last_status # 0
            [] OTHER -> TRUE]_shVars

\* Every line ends: back to the prompt, or the shell exits.
LineEnds == (sh.at # "prompt") ~> (sh.at \in {"prompt", "gone"})
==============================
