--------------------------- MODULE PrivateMemory ----------------------------
(***************************************************************************)
(* What fork, exec, mmap, brk and the page fault handler promise together: *)
(* every process has its own memory.  A page reads as zero until it is     *)
(* written, fork gives the child a copy of the parent's pages, and a       *)
(* write or an erasure by one process changes nothing for another.         *)
(***************************************************************************)
EXTENDS Naturals

CONSTANTS MaxSpace, Va, Value     \* processes ever created, pages, page contents

VARIABLES
    alive,            \* the processes that can run
    next_space,       \* the next process
    view              \* view[s][v]: what process s reads at page v

pmVars == <<alive, next_space, view>>

Space == 1 .. MaxSpace

PMInit ==
    /\ alive = {1}
    /\ next_space = 2
    /\ view = [s \in Space |-> [v \in Va |-> 0]]

\* A page of s changes and no other: the program writes, the kernel writes for
\* it, or clone() leaves other contents in the stack page it was given.
PMWrite(s, v, x) ==
    /\ view' = [view EXCEPT ![s][v] = x]
    /\ UNCHANGED <<alive, next_space>>

PMErase(s, V) ==
    /\ view' = [view EXCEPT ![s] = [v \in Va |-> IF v \in V THEN 0 ELSE view[s][v]]]
    /\ UNCHANGED <<alive, next_space>>

PMFork(s) ==
    /\ next_space <= MaxSpace
    /\ alive' = alive \cup {next_space}
    /\ next_space' = next_space + 1
    /\ view' = [view EXCEPT ![next_space] = view[s]]

PMExit(s) ==
    /\ alive' = alive \ {s}
    /\ UNCHANGED <<next_space, view>>

\* The pages of s that hold something.
Written(s) == {v \in Va : view[s][v] # 0}

PMNext ==
    \E s \in alive :
        \/ \E v \in Va : \E x \in Value \ {view[s][v]} : PMWrite(s, v, x)
        \/ \E V \in (SUBSET Written(s)) \ {{}} : PMErase(s, V)
        \/ PMFork(s)
        \/ PMExit(s)

PMSpec == PMInit /\ [][PMNext]_pmVars

==============================
