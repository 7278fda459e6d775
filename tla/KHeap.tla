-------------------------------- MODULE KHeap -------------------------------
(***************************************************************************)
(* The kernel heap (kernel/memory/kheap.c): blocks in one list, each with  *)
(* its header in front of it.  Memory is counted in cells of the size of a *)
(* header, which is also the smallest remainder worth splitting off.       *)
(*                                                                         *)
(* A header that no list reaches is forgotten between two calls; within    *)
(* exec_user() what coalescing leaves behind in the middle of a block is   *)
(* still there for a second kfree().  The calls hold kheap_lock with       *)
(* interrupts off, so each is one step.                                    *)
(***************************************************************************)
EXTENDS Integers, Sequences, FiniteSets, FiniteSetsExt, SequencesExt

CONSTANTS
    KHeapInitial,   \* cells of the heap after kheap_init()
    KHeapPage,      \* cells of a page
    KHeapTop,       \* the last cell expansion can reach: frames run out there
    KHeapSizes,     \* sizes asked for
    KHeapAreas      \* bound on the areas of a program

ASSUME KHeapAssumption ==
    /\ KHeapInitial \in Nat /\ KHeapPage \in Nat \ {0} /\ KHeapTop \in Nat
    /\ 1 < KHeapInitial /\ KHeapInitial <= KHeapTop
    /\ KHeapSizes \subseteq Nat \ {0} /\ KHeapAreas \in Nat

VARIABLES
    kheap_mem,      \* address of a header -> header
    heap_end,
    kheap_live,     \* the addresses handed out and not given back
    kheap_twice     \* a program's areas were freed twice by exec
kheapVars == <<kheap_mem, heap_end, kheap_live, kheap_twice>>

Nil == -1
Header(size, free, next, prev) == [size |-> size, free |-> free, next |-> next, prev |-> prev]
HeaderAt(mem, a, hdr) == [x \in DOMAIN mem \cup {a} |-> IF x = a THEN hdr ELSE mem[x]]
KHeapNow == [mem |-> kheap_mem, end |-> heap_end]

kheap_init ==
    /\ kheap_mem = [a \in {0} |-> Header(KHeapInitial - 1, TRUE, Nil, Nil)]
    /\ heap_end = KHeapInitial
    /\ kheap_live = {}
    /\ kheap_twice = FALSE

\* The list from head on, Nil after its end.
Nth(mem) ==
    LET nth[k \in 0 .. KHeapTop] ==
            IF k = 0 THEN 0
            ELSE IF nth[k - 1] = Nil THEN Nil ELSE mem[nth[k - 1]].next
    IN nth
Listed(mem) == LET nth == Nth(mem) IN {nth[k] : k \in 0 .. KHeapTop} \ {Nil}

\* find_free(): the first free block that is large enough.
find_free(mem, n) ==
    LET nth == Nth(mem)
        fits == {k \in 0 .. KHeapTop : nth[k] # Nil /\ mem[nth[k]].free /\ mem[nth[k]].size >= n}
    IN IF fits = {} THEN Nil ELSE nth[Min(fits)]

\* kheap_expand(): whole pages in one new block after the last, which stays
\* apart from a free block before it.
kheap_expand(h, n) ==
    LET cells == ((n + 1 + KHeapPage - 1) \div KHeapPage) * KHeapPage
        last == CHOOSE a \in Listed(h.mem) : h.mem[a].next = Nil
    IN IF h.end + cells > KHeapTop THEN h
       ELSE [mem |-> HeaderAt([h.mem EXCEPT ![last].next = h.end],
                              h.end, Header(cells - 1, TRUE, Nil, last)),
             end |-> h.end + cells]

split_block(mem, b, n) ==
    LET rest == b + 1 + n
        blk == mem[b]
        new == HeaderAt([mem EXCEPT ![b] = [blk EXCEPT !.size = n, !.next = rest]],
                        rest, Header(blk.size - n - 1, TRUE, blk.next, b))
    IN IF blk.size < n + 2 THEN mem
       ELSE IF blk.next = Nil THEN new ELSE [new EXCEPT ![blk.next].prev = rest]

\* kmalloc(): the heap after the call, and the block, Nil for none.
Allocated(h, n) ==
    LET grown == IF find_free(h.mem, n) = Nil THEN kheap_expand(h, n) ELSE h
        b == find_free(grown.mem, n)
    IN IF b = Nil THEN [heap |-> grown, ptr |-> Nil]
       ELSE [heap |-> [grown EXCEPT !.mem = [split_block(grown.mem, b, n) EXCEPT ![b].free = FALSE]],
             ptr |-> b]

\* Block a takes in x, the block after it.
HeapMerged(mem, a, x) ==
    LET grown == [mem EXCEPT ![a].size = @ + 1 + mem[x].size, ![a].next = mem[x].next]
    IN IF mem[x].next = Nil THEN grown ELSE [grown EXCEPT ![mem[x].next].prev = a]

\* kfree(): with the next block if that is free, then into the one before.
HeapFreed(mem, b) ==
    LET m1 == [mem EXCEPT ![b].free = TRUE]
        nx == m1[b].next
        m2 == IF nx = Nil \/ ~m1[nx].free THEN m1 ELSE HeapMerged(m1, b, nx)
        pv == m2[b].prev
    IN IF pv = Nil \/ ~m2[pv].free THEN m2 ELSE HeapMerged(m2, pv, b)

------------------------------

Becomes(h) == kheap_mem' = Restrict(h.mem, Listed(h.mem)) /\ heap_end' = h.end

kmalloc(n) ==
    LET r == Allocated(KHeapNow, n)
    IN /\ ~kheap_twice
       /\ Becomes(r.heap)
       /\ kheap_live' = kheap_live \cup ({r.ptr} \ {Nil})
       /\ UNCHANGED kheap_twice

kfree(b) ==
    /\ ~kheap_twice
    /\ Becomes([KHeapNow EXCEPT !.mem = HeapFreed(kheap_mem, b)])
    /\ kheap_live' = kheap_live \ {b}
    /\ UNCHANGED kheap_twice

\* krealloc(): in place when it fits, else moved; the old block stays when
\* there is no room for a new one.
krealloc(b, n) ==
    LET r == Allocated(KHeapNow, n)
    IN /\ ~kheap_twice /\ n > kheap_mem[b].size
       /\ IF r.ptr = Nil THEN Becomes(r.heap) /\ UNCHANGED kheap_live
          ELSE /\ Becomes([r.heap EXCEPT !.mem = HeapFreed(r.heap.mem, b)])
               /\ kheap_live' = (kheap_live \ {b}) \cup {r.ptr}
       /\ UNCHANGED kheap_twice

\* exec_user(): the areas of the old program are freed in a first loop, and
\* the list, still reachable through them, is freed again in a second.
\* What the heap does after that is left open.
exec_user(list) ==
    /\ ~kheap_twice
    /\ Becomes([KHeapNow EXCEPT !.mem = FoldLeft(HeapFreed, kheap_mem, list \o list)])
    /\ kheap_live' = kheap_live \ ToSet(list)
    /\ kheap_twice' = TRUE

kheapNext ==
    \/ \E n \in KHeapSizes : kmalloc(n) \/ \E b \in kheap_live : krealloc(b, n)
    \/ \E b \in kheap_live : kfree(b)
    \/ \E k \in 1 .. KHeapAreas : \E list \in [1 .. k -> kheap_live] :
          IsInjective(list) /\ exec_user(list)

kheapSpec == kheap_init /\ [][kheapNext]_kheapVars

------------------------------

\* kheap_check_integrity(): every block starts where the one before ends.
kheap_check_integrity ==
    \A a \in Listed(kheap_mem) : kheap_mem[a].next # Nil => kheap_mem[a].next = a + 1 + kheap_mem[a].size

\* While nobody frees twice, the list tiles the heap from its start to its
\* end, its two directions agree, and the blocks handed out are the ones not
\* free, through splitting, growing and coalescing (kheap.c).
HeapTiles ==
    ~kheap_twice =>
        /\ kheap_check_integrity
        /\ \A a \in Listed(kheap_mem) :
              /\ kheap_mem[a].next = Nil => a + 1 + kheap_mem[a].size = heap_end
              /\ kheap_mem[a].next # Nil => kheap_mem[kheap_mem[a].next].prev = a
        /\ kheap_live = {a \in Listed(kheap_mem) : ~kheap_mem[a].free}

\* Two free blocks lie side by side only where the heap once grew, so what is
\* given back inside one stretch can be asked for again in one piece.
FreeMerged ==
    ~kheap_twice =>
        \A a \in Listed(kheap_mem) :
            (kheap_mem[a].free /\ kheap_mem[a].next # Nil /\ kheap_mem[kheap_mem[a].next].free)
                => (kheap_mem[a].next >= KHeapInitial /\ (kheap_mem[a].next - KHeapInitial) % KHeapPage = 0)

\* What kheap_check_integrity() reports as OVERLAP never happens.
NeverOverlap == kheap_check_integrity
==============================
