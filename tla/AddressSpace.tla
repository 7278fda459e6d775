---------------------------- MODULE AddressSpace ----------------------------
(***************************************************************************)
(* User memory: frames with reference counts (kernel/memory/pmm.c),        *)
(* copy-on-write fork (kernel/process/fork.c), demand paging and the page  *)
(* fault handler (kernel/memory/paging.c), mmap and munmap                 *)
(* (kernel/memory/mmap.c), the program break (kernel/memory/brk.c), exec   *)
(* (kernel/process/exec.c) and the kernel's own writes to user memory      *)
(* (copy_to_user in kernel/core/syscall.c).                                *)
(*                                                                         *)
(* A process is its address space.  Pages: the stack (the image behaves    *)
(* like it), Heap pages under the program break, Maps pages for mmap.      *)
(* A frame is in use when its count is positive: the bitmap and the count  *)
(* change together.  Frames for page tables are left out, the page         *)
(* directory of a new space is counted.  Faults and system calls run with  *)
(* interrupts off, so each is one step.                                    *)
(***************************************************************************)
EXTENDS Naturals, FiniteSetsExt

CONSTANTS
    MaxSpace,         \* bound on the processes ever created
    Heap,             \* pages of heap
    Maps,             \* pages for mmap
    MaxFrame,         \* frames of memory
    MaxRegions,       \* TASK_MAX_REGIONS, 8 in the code
    RegionCalls,      \* programs ask for memory while they hold fewer entries
    Value,            \* contents of a page
    MemOps            \* the calls the programs of this run make

ASSUME AddressSpaceAssumption ==
    /\ MaxSpace \in Nat \ {0} /\ Heap \in Nat /\ Maps \in Nat
    /\ MaxFrame \in Nat /\ MaxFrame >= 2
    /\ MaxRegions \in Nat \ {0} /\ RegionCalls \in Nat
    /\ 0 \in Value
    /\ MemOps \subseteq {"fork", "clone", "exec", "mmap", "brk", "kernel", "readonly", "exit",
                   "stray"}

Stack == 0
HeapVa == 1 .. Heap
MapVa == Heap + 1 .. Heap + Maps
Va == 0 .. Heap + Maps
Space == 1 .. MaxSpace
Frame == 1 .. MaxFrame

VARIABLES
    alive,            \* the processes that can run
    next_space,       \* the next process
    pte,              \* pte[s][v]: frame (0 not present), rw, cow
    ref,              \* pmm_refcount
    content,          \* what a frame holds
    regions,          \* regions[s][v]: entries of user_regions that cover v
    vma,              \* vma[s][v]: "none", "ro" or "rw"
    brk               \* brk[s]: pages under brk_cur

vars == <<alive, next_space, pte, ref, content, regions, vma, brk>>

NotPresent == [frame |-> 0, rw |-> FALSE, cow |-> FALSE]

Mapped(s, v) == pte[s][v].frame # 0

FreeFrames == {f \in Frame : ref[f] = 0}

\* pmm_alloc_frame(): the first free frame.
Fresh == Min(FreeFrames)

\* pmm_free_frame() on the frames of the pages V of s.
Freed(s, V) ==
    [f \in Frame |-> Max({0, ref[f] - Cardinality({v \in V : pte[s][v].frame = f})})]

\* The entries of a region table: entry <<v, k>> is the k-th that covers v.
RegionEntries(rg) == {e \in Va \X (1 .. MaxRegions) : e[2] <= rg[e[1]]}

Entries(rg) == Cardinality(RegionEntries(rg))

\* task_add_region(): dropped without a word when the table is full.

WithRegion(rg, v) == IF Entries(rg) >= MaxRegions THEN rg ELSE [rg EXCEPT ![v] = @ + 1]

------------------------------

\* user_launch(): one process with its stack.
Init ==
    /\ alive = {1}
    /\ next_space = 2
    /\ pte = [s \in Space |-> [v \in Va |-> IF s = 1 /\ v = Stack
                                            THEN [frame |-> 2, rw |-> TRUE, cow |-> FALSE]
                                            ELSE NotPresent]]
    /\ ref = [f \in Frame |-> IF f <= 2 THEN 1 ELSE 0]
    /\ content = [f \in Frame |-> 0]
    /\ regions = [s \in Space |-> [v \in Va |-> IF s = 1 /\ v = Stack THEN 1 ELSE 0]]
    /\ vma = [s \in Space |-> [v \in Va |-> "none"]]
    /\ brk = [s \in Space |-> 0]

Calls(s, what) == s \in alive /\ what \in MemOps

\* The pages fork_task() shares: those of the regions that are mapped.
Shared(s) == {v \in Va : regions[s][v] > 0 /\ Mapped(s, v)}

\* Wrong variant: a frame is counted once, however many pages share it.
ForkUncounted(s) ==
    /\ Calls(s, "fork")
    /\ next_space <= MaxSpace
    /\ FreeFrames # {}
    /\ LET cow(v) == [frame |-> pte[s][v].frame, rw |-> FALSE, cow |-> TRUE]
       IN  pte' = [pte EXCEPT
                     ![s] = [v \in Va |-> IF v \in Shared(s) THEN cow(v) ELSE pte[s][v]],
                     ![next_space] = [v \in Va |-> IF v \in Shared(s) THEN cow(v) ELSE NotPresent]]
    /\ ref' = [ref EXCEPT ![Fresh] = 1]
    /\ regions' = [regions EXCEPT ![next_space] = regions[s]]
    /\ vma' = [vma EXCEPT ![next_space] = vma[s]]
    /\ brk' = [brk EXCEPT ![next_space] = brk[s]]
    /\ alive' = alive \cup {next_space}
    /\ next_space' = next_space + 1
    /\ UNCHANGED content

\* fork_task(): both sides get every shared page read-only and copy-on-write;
\* the frame is counted once per region entry.  Without a frame for the page
\* directory fork fails.
Fork(s) ==
    /\ Calls(s, "fork")
    /\ next_space <= MaxSpace
    /\ FreeFrames # {}
    /\ LET cow(v) == [frame |-> pte[s][v].frame, rw |-> FALSE, cow |-> TRUE]
       IN  pte' = [pte EXCEPT
                     ![s] = [v \in Va |-> IF v \in Shared(s) THEN cow(v) ELSE pte[s][v]],
                     ![next_space] = [v \in Va |-> IF v \in Shared(s) THEN cow(v) ELSE NotPresent]]
    /\ ref' = [f \in Frame |-> IF f = Fresh THEN 1
                 ELSE ref[f] + Cardinality({e \in RegionEntries(regions[s]) :
                                               e[1] \in Shared(s) /\ pte[s][e[1]].frame = f})]
    /\ regions' = [regions EXCEPT ![next_space] = regions[s]]
    /\ vma' = [vma EXCEPT ![next_space] = vma[s]]
    /\ brk' = [brk EXCEPT ![next_space] = brk[s]]
    /\ alive' = alive \cup {next_space}
    /\ next_space' = next_space + 1
    /\ UNCHANGED content

------------------------------

\* The program writes to a page it may write to.
Write(s, v, x) ==
    /\ s \in alive
    /\ Mapped(s, v) /\ pte[s][v].rw
    /\ content' = [content EXCEPT ![pte[s][v].frame] = x]
    /\ UNCHANGED <<alive, next_space, pte, ref, regions, vma, brk>>

\* task_exit(): the frames of the space are not given back.
Dies(s) ==
    /\ alive' = alive \ {s}
    /\ UNCHANGED <<next_space, pte, ref, content, regions, vma, brk>>

Exit(s) == Calls(s, "exit") /\ Dies(s)

\* A frame with content x is mapped at v.
MapFresh(s, v, rw, x, counts) ==
    /\ pte' = [pte EXCEPT ![s][v] = [frame |-> Fresh, rw |-> rw, cow |-> FALSE]]
    /\ ref' = [counts EXCEPT ![Fresh] = 1]
    /\ content' = [content EXCEPT ![Fresh] = x]
    /\ UNCHANGED <<alive, next_space, regions, vma, brk>>

\* Wrong variant: the page is made writable in place although it is shared.
CowFaultInPlace(s, v) ==
    /\ s \in alive
    /\ Mapped(s, v) /\ pte[s][v].cow
    /\ pte' = [pte EXCEPT ![s][v].rw = TRUE, ![s][v].cow = FALSE]
    /\ UNCHANGED <<alive, next_space, ref, content, regions, vma, brk>>

\* page_fault_handler(), write to a copy-on-write page: a private copy, or the
\* page itself when nobody else counts it; death when memory is exhausted.
CowFault(s, v) ==
    /\ s \in alive
    /\ Mapped(s, v) /\ pte[s][v].cow
    /\ LET f == pte[s][v].frame
       IN  \/ /\ ref[f] > 1 /\ FreeFrames # {}
              /\ MapFresh(s, v, TRUE, content[f], [ref EXCEPT ![f] = @ - 1])
           \/ /\ ref[f] > 1 /\ FreeFrames = {}
              /\ Dies(s)
           \/ /\ ref[f] <= 1
              /\ pte' = [pte EXCEPT ![s][v].rw = TRUE, ![s][v].cow = FALSE]
              /\ UNCHANGED <<alive, next_space, ref, content, regions, vma, brk>>

\* page_fault_handler(), page not present: mmap_handle_fault() serves an area
\* that allows the access; otherwise, and also when the area refused it, any
\* page of a region or of the stack gets a writable frame.
AreaServes(s, v, write) == vma[s][v] = "rw" \/ (vma[s][v] = "ro" /\ ~write)

DemandFault(s, v, write) ==
    /\ s \in alive
    /\ ~Mapped(s, v)
    /\ \/ /\ AreaServes(s, v, write) /\ FreeFrames # {}
          /\ MapFresh(s, v, vma[s][v] = "rw", 0, ref)
       \/ /\ ~AreaServes(s, v, write) /\ FreeFrames # {}
          /\ regions[s][v] > 0 \/ v = Stack
          /\ MapFresh(s, v, TRUE, 0, ref)
       \/ /\ FreeFrames = {} \/ ~(AreaServes(s, v, write) \/ regions[s][v] > 0 \/ v = Stack)
          /\ Dies(s)

\* clone_pmap_thread_stack(): the page for the first frame of a new thread is
\* made present and writable.  A copy-on-write page is replaced even when nobody
\* else counts its frame, which is then lost; without memory nothing is done.
\* Source and target of the copy are the one scratch window (paging.c:111), which
\* the second call of paging_scratch_phys() points at the new frame: that frame
\* is copied onto itself, and the page reads whatever was left in it, x.
\* Where the run has no "stray", the program passes a stack it has mapped, as
\* pthread_create does, or one in its image.
CloneStack(s, v, x) ==
    /\ Calls(s, "clone")
    /\ regions[s][v] > 0 \/ v = Stack \/ "stray" \in MemOps
    /\ FreeFrames # {}
    /\ LET f == pte[s][v].frame
       IN  \/ /\ Mapped(s, v) /\ pte[s][v].cow
              /\ MapFresh(s, v, TRUE, x, [ref EXCEPT ![f] = IF @ > 1 THEN @ - 1 ELSE @])
           \/ /\ ~Mapped(s, v)
              /\ MapFresh(s, v, TRUE, 0, ref)

\* A write to a page that is present, read-only and not copy-on-write.
WriteDenied(s, v) ==
    /\ s \in alive
    /\ Mapped(s, v) /\ ~pte[s][v].rw /\ ~pte[s][v].cow
    /\ Dies(s)

\* copy_to_user(): the kernel runs with CR0.WP clear, so a read-only page does
\* not stop it; where the run has no "readonly", programs pass buffers in pages
\* they may write.
KernelWrite(s, v, x) ==
    /\ Calls(s, "kernel")
    /\ Mapped(s, v)
    /\ pte[s][v].rw \/ "readonly" \in MemOps
    /\ content' = [content EXCEPT ![pte[s][v].frame] = x]
    /\ UNCHANGED <<alive, next_space, pte, ref, regions, vma, brk>>

------------------------------

\* The pages V of s are unmapped and their frames given back.
Unmap(s, V) ==
    /\ ref' = Freed(s, V)
    /\ pte' = [pte EXCEPT ![s] = [v \in Va |-> IF v \in V THEN NotPresent ELSE pte[s][v]]]

\* sys_mmap(): an area and a region; pages come by demand.
Mmap(s, v, prot) ==
    /\ Calls(s, "mmap")
    /\ v \in MapVa
    /\ vma[s][v] = "none"
    /\ Entries(regions[s]) < RegionCalls
    /\ vma' = [vma EXCEPT ![s][v] = prot]
    /\ regions' = [regions EXCEPT ![s] = WithRegion(@, v)]
    /\ UNCHANGED <<alive, next_space, pte, ref, content, brk>>

\* sys_munmap(): the region entry stays.
Munmap(s, v) ==
    /\ Calls(s, "mmap")
    /\ vma[s][v] # "none"
    /\ Unmap(s, {v})
    /\ vma' = [vma EXCEPT ![s][v] = "none"]
    /\ UNCHANGED <<alive, next_space, content, regions, brk>>

\* sys_brk() one page up: a frame at once, unless the page is still mapped;
\* without a frame the break stays.
BrkGrow(s) ==
    LET v == brk[s] + 1
    IN  /\ Calls(s, "brk")
        /\ v \in HeapVa
        /\ Entries(regions[s]) < RegionCalls
        /\ Mapped(s, v) \/ FreeFrames # {}
        /\ brk' = [brk EXCEPT ![s] = v]
        /\ IF Mapped(s, v)
           THEN UNCHANGED <<pte, ref, content, regions>>
           ELSE /\ pte' = [pte EXCEPT ![s][v] = [frame |-> Fresh, rw |-> TRUE, cow |-> FALSE]]
                /\ ref' = [ref EXCEPT ![Fresh] = 1]
                /\ content' = [content EXCEPT ![Fresh] = 0]
                /\ regions' = [regions EXCEPT ![s] = WithRegion(@, v)]
        /\ UNCHANGED <<alive, next_space, vma>>

\* Wrong variant: the frame is given back but the page stays mapped.
BrkShrinkKeepsPte(s) ==
    /\ Calls(s, "brk")
    /\ brk[s] > 0
    /\ ref' = Freed(s, {brk[s]})
    /\ brk' = [brk EXCEPT ![s] = @ - 1]
    /\ UNCHANGED <<alive, next_space, pte, content, regions, vma>>

\* sys_brk() one page down: the region entry stays.
BrkShrink(s) ==
    /\ Calls(s, "brk")
    /\ brk[s] > 0
    /\ Unmap(s, {brk[s]})
    /\ brk' = [brk EXCEPT ![s] = @ - 1]
    /\ UNCHANGED <<alive, next_space, content, regions, vma>>

\* exec_flat(): areas and regions other than the stack's are emptied, then the
\* stack gets a fresh frame; without one exec fails with the pages gone.
Exec(s) ==
    /\ Calls(s, "exec")
    /\ LET V    == {v \in Va \ {Stack} : vma[s][v] # "none" \/ regions[s][v] > 0}
           free == {f \in Frame : Freed(s, V)[f] = 0}
           f    == Min(free)
           left == [v \in Va |-> IF v \in V THEN NotPresent ELSE pte[s][v]]
       IN  IF free = {}
           THEN Unmap(s, V) /\ UNCHANGED content
           ELSE /\ pte' = [pte EXCEPT ![s] =
                     [left EXCEPT ![Stack] = [frame |-> f, rw |-> TRUE, cow |-> FALSE]]]
                /\ ref' = [Freed(s, V \cup {Stack}) EXCEPT ![f] = 1]
                /\ content' = [content EXCEPT ![f] = 0]
    /\ regions' = [regions EXCEPT ![s] = [v \in Va |-> IF v = Stack THEN regions[s][v] ELSE 0]]
    /\ vma' = [vma EXCEPT ![s] = [v \in Va |-> "none"]]
    /\ UNCHANGED <<alive, next_space, brk>>

Next ==
    \E s \in Space :
        \/ Fork(s) \/ Exec(s) \/ Exit(s)
        \/ BrkGrow(s) \/ BrkShrink(s)
        \/ \E v \in Va :
              \/ CowFault(s, v) \/ WriteDenied(s, v) \/ Munmap(s, v)
              \/ \E write \in BOOLEAN : DemandFault(s, v, write)
              \/ \E prot \in {"ro", "rw"} : Mmap(s, v, prot)
              \/ \E x \in Value : Write(s, v, x) \/ KernelWrite(s, v, x) \/ CloneStack(s, v, x)

Spec == Init /\ [][Next]_vars

------------------------------

TypeOK ==
    /\ alive \subseteq Space
    /\ next_space \in 2 .. MaxSpace + 1
    /\ pte \in [Space -> [Va -> [frame : {0} \cup Frame, rw : BOOLEAN, cow : BOOLEAN]]]
    /\ ref \in [Frame -> Nat]
    /\ content \in [Frame -> Value]
    /\ regions \in [Space -> [Va -> 0 .. MaxRegions]]
    /\ \A s \in Space : Entries(regions[s]) <= MaxRegions
    /\ vma \in [Space -> [Va -> {"none", "ro", "rw"}]]
    /\ brk \in [Space -> 0 .. Heap]

\* Where frame f is mapped.
Mappings(f) == {m \in Space \X Va : pte[m[1]][m[2]].frame = f}

\* No page is backed by memory that was given back: a frame is counted at least
\* as often as it is mapped.
NoDanglingPage == \A f \in Frame : ref[f] >= Cardinality(Mappings(f))

\* A page that can be written without a fault is mapped nowhere else.
WritableUnshared ==
    \A s \in Space, v \in Va :
        pte[s][v].rw => Mappings(pte[s][v].frame) = {<<s, v>>}

\* Pages are backed by frames that are theirs: none was given back, and none
\* that can be written without a fault is shared.
PagesSound == NoDanglingPage /\ WritableUnshared

\* fork's comment "fork CoW map'siz sayfayi atlar" (brk.c:63): the entries that
\* a shrinking heap leaves behind do no harm, so that a frame is counted exactly
\* as often as it is mapped, page directories apart.
CountsExact ==
    \A f \in Frame : Mappings(f) # {} => ref[f] = Cardinality(Mappings(f))

\* A page of a read-only area is never writable ("prot check", mmap.c:122).
ProtRespected ==
    \A s \in alive, v \in Va : vma[s][v] = "ro" => ~pte[s][v].rw

\* "Buyuyen sayfalar hemen alloc+map+zero yapilir" (brk.c:9): every page under
\* the program break is mapped.
HeapMapped == \A s \in alive : \A v \in 1 .. brk[s] : Mapped(s, v)

View ==
    [s \in Space |-> [v \in Va |-> IF Mapped(s, v) THEN content[pte[s][v].frame] ELSE 0]]

Private == INSTANCE PrivateMemory WITH view <- View

\* "kullanıcı stack'in üst (frame) sayfasını present+rw yap" (clone.c:11-12): a
\* new thread's stack keeps what it held.
CloneKeepsStack ==
    [][\A s \in Space, v \in Va, x \in Value : CloneStack(s, v, x) => View' = View]_vars

\* Copy-on-write is invisible: the whole machinery implements private memory.
\* What clone() does to its caller's own stack page is one of the writes of
\* PrivateMemory; no step reaches a page of another process.
ImplementsPrivateMemory == Private!PMSpec

==============================
