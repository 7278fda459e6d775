------------------------------ MODULE Paging64 ------------------------------
(***************************************************************************)
(* Pages of the 64-bit port (kernel/arch/x86_64): pages that appear on the *)
(* first access and move to swap under pressure (demand64.c, reclaim64.c,  *)
(* swap64.c, hugeswap64.c), and pages that share a frame until one is      *)
(* written (cow64.c, ksm64.c).  The files keep no page tables: where a     *)
(* page is, and what its owner last wrote to it, is the callers' state.    *)
(***************************************************************************)
EXTENDS Tables64, TLC

CONSTANTS
    SwapPages,          \* pages of the demand region
    SwapFrames,         \* frames 1 .. SwapFrames for them
    SwapSlots,          \* swap64_nslots
    RECLAIM64_MAX, HUGESWAP64_SUBPAGES,
    EvictCounts,        \* how many pages are asked of reclaim64_evict()
    EvictCalls,         \* bound: how often it is called
    SwapWritten,        \* bound: the pages that are written
    SwapFaults,         \* how many writes to the swap device fail
    CowPages, CowFrames, KSM64_MAX,
    PageData            \* what is written to pages; 0 is a fresh page

ASSUME Paging64Assumption == IsFiniteSet(CowPages) /\ CowFrames \in Nat /\ KSM64_MAX \in Nat

VARIABLES
    swap_free, swap_frame,      \* free frames, frame -> contents
    slot_data,                  \* slots in use -> contents
    active, inactive,           \* the queues of reclaim64.c
    page_at, page_want,         \* page -> place, page -> what it should hold
    huge,                       \* a huge page: in memory, or its slots
    swap_faults, swap_calls,    \* writes that failed, calls of reclaim64_evict()
    swap_shuffled,              \* history: a frame was put back before two others
    cow_free, cow_frame, cow_refs, cow_at, cow_want, ksm_tab, ksm_frozen
swapVars == <<swap_free, swap_frame, slot_data, active, inactive, page_at, page_want, huge, swap_faults, swap_calls,
              swap_shuffled>>
cowVars == <<cow_free, cow_frame, cow_refs, cow_at, cow_want, ksm_tab, ksm_frozen>>

------------------------------
(* Demand paging and swap.                                                 *)

Nowhere == [in |-> "none", n |-> 0]
InFrame(f) == [in |-> "frame", n |-> f]
InSlot(s) == [in |-> "slot", n |-> s]
\* The contents of the huge page: subpage i holds i.
HugeData == [i \in 1 .. HUGESWAP64_SUBPAGES |-> 100 + i]

SwapInit ==
    /\ swap_free = 1 .. SwapFrames
    /\ swap_frame = [f \in 1 .. SwapFrames |-> 0]
    /\ slot_data = <<>>
    /\ active = <<>>
    /\ inactive = <<>>
    /\ page_at = [p \in SwapPages |-> Nowhere]
    /\ page_want = [p \in SwapPages |-> 0]
    /\ huge = [slots |-> <<>>, data |-> HugeData]
    /\ swap_faults = 0 /\ swap_calls = 0 /\ swap_shuffled = FALSE

\* swap64_alloc_slot(): the first free slot, 0 if all are taken.
swap64_alloc_slot(used) == FirstOf(1 .. SwapSlots \ DOMAIN used)
swap64_free_slot(used, s) == [k \in DOMAIN used \ {s} |-> used[k]]
swap64_out(used, s, data) == (s :> data) @@ used
swap64_in(used, s) == used[s]

\* reclaim64_add(): at the end of the active queue, unless it is full or the
\* frame is already queued.
reclaim64_add(act, f) ==
    IF Len(act) >= RECLAIM64_MAX \/ f \in ToSet(act) \/ f \in ToSet(inactive)
    THEN act ELSE Append(act, f)

\* The owner of a page that is nowhere touches it: demand64_fault() finds the
\* region and hands out the lowest frame, zeroed, and the frame is queued.  Pages
\* are numbered in the order they are first touched.
demand64_fault(p) ==
    /\ page_at[p] = Nowhere
    /\ \A q \in SwapPages : q < p => page_at[q] # Nowhere
    /\ swap_free # {}
    /\ \E f \in {Min(swap_free)} :
          /\ swap_free' = swap_free \ {f}
          /\ swap_frame' = [swap_frame EXCEPT ![f] = 0]
          /\ page_at' = [page_at EXCEPT ![p] = InFrame(f)]
          /\ active' = reclaim64_add(active, f)
    /\ page_want' = [page_want EXCEPT ![p] = 0]
    /\ UNCHANGED <<slot_data, inactive, huge, swap_faults, swap_calls, swap_shuffled>>

\* As SwapIn, a bug: the slot is given back before it was read.
SwapInLate(p, f) ==
    /\ swap_frame' = [swap_frame EXCEPT ![f] = 0]
    /\ slot_data' = swap64_free_slot(slot_data, page_at[p].n)
\* The contents of the slot go to the frame and the slot is given back.
SwapIn(p, f) ==
    /\ swap_frame' = [swap_frame EXCEPT ![f] = swap64_in(slot_data, page_at[p].n)]
    /\ slot_data' = swap64_free_slot(slot_data, page_at[p].n)

\* The owner of a page in swap touches it.
PageIn(p) ==
    /\ page_at[p].in = "slot"
    /\ swap_free # {}
    /\ \E f \in {Min(swap_free)} :
          /\ SwapIn(p, f)
          /\ swap_free' = swap_free \ {f}
          /\ page_at' = [page_at EXCEPT ![p] = InFrame(f)]
          /\ active' = reclaim64_add(active, f)
    /\ UNCHANGED <<inactive, page_want, huge, swap_faults, swap_calls, swap_shuffled>>

\* reclaim64_touch(): the first entry of a frame in the inactive queue goes to
\* the end of the active one, if there is room.
reclaim64_touch(f) ==
    /\ inactive' = RemoveFirst(inactive, f)
    /\ active' = IF f \in ToSet(inactive) /\ Len(active) < RECLAIM64_MAX
                 THEN Append(active, f) ELSE active

\* A resident page is written.
PageWrite(p, v) ==
    /\ page_at[p].in = "frame"
    /\ swap_frame' = [swap_frame EXCEPT ![page_at[p].n] = v]
    /\ page_want' = [page_want EXCEPT ![p] = v]
    /\ reclaim64_touch(page_at[p].n)
    /\ UNCHANGED <<swap_free, slot_data, page_at, huge, swap_faults, swap_calls, swap_shuffled>>

\* The lower half of the active queue, when the inactive one is empty.
Demoted(q) == [q EXCEPT !.act = SubSeq(q.act, Len(q.act) \div 2 + 1, Len(q.act)),
                        !.ina = SubSeq(q.act, 1, Len(q.act) \div 2)]

\* No slot: the frame that was taken off the front is to go back.  The loop
\* shifts the queue by one and the frame is stored at its end: of two frames or
\* more that are left the first is then there twice and the last is lost.
PutBack(rest, f) ==
    IF rest = <<>> THEN <<f>>
    ELSE Append(<<rest[1]>> \o SubSeq(rest, 1, Len(rest) - 1), f)

\* One round of reclaim64_evict(); `fail' says that the device refuses a write.
EvictOne(q, fail) ==
    LET r == IF q.ina = <<>> THEN Demoted(q) ELSE q
        f == Head(r.ina)
        s == swap64_alloc_slot(r.slots)
    IN IF q.stop THEN q
       ELSE IF r.ina = <<>> THEN [r EXCEPT !.stop = TRUE]
       ELSE IF s = 0 THEN [r EXCEPT !.ina = PutBack(Tail(r.ina), f), !.stop = TRUE,
                                    !.shuffled = @ \/ Len(r.ina) > 2]
       ELSE IF fail THEN [r EXCEPT !.ina = Tail(r.ina), !.stop = TRUE]
       ELSE [r EXCEPT !.ina = Tail(r.ina),
                      !.slots = swap64_out(r.slots, s, swap_frame[f]),
                      !.out = Append(@, <<f, s>>)]

\* reclaim64_evict(): up to n frames, oldest first, to swap.  The caller moves
\* the pages of the frames it is told of; what a free frame holds is forgotten.
reclaim64_evict(n, fail) ==
    /\ fail => swap_faults < SwapFaults
    /\ swap_faults' = IF fail THEN swap_faults + 1 ELSE swap_faults
    /\ swap_calls < EvictCalls /\ swap_calls' = swap_calls + 1
    /\ \E q \in {FoldLeft(LAMBDA a, i : EvictOne(a, fail),
                          [act |-> active, ina |-> inactive, slots |-> slot_data,
                           out |-> <<>>, stop |-> FALSE, shuffled |-> swap_shuffled],
                          [i \in 1 .. n |-> i])} :
       \E gone \in {{o[1] : o \in ToSet(q.out)}} :
          /\ active' = q.act
          /\ inactive' = q.ina
          /\ slot_data' = q.slots
          /\ swap_shuffled' = q.shuffled
          /\ swap_free' = swap_free \cup gone
          /\ page_at' = [p \in SwapPages |->
                IF page_at[p].in = "frame" /\ page_at[p].n \in gone
                THEN InSlot((CHOOSE o \in ToSet(q.out) : o[1] = page_at[p].n)[2])
                ELSE page_at[p]]
    /\ swap_frame' = [f \in 1 .. SwapFrames |-> IF f \in swap_free' THEN 0 ELSE swap_frame[f]]
    /\ UNCHANGED <<page_want, huge>>

\* hugeswap64_out(): a slot for every subpage, or none at all.
hugeswap64_out(fail) ==
    /\ huge.slots = <<>>
    /\ fail => swap_faults < SwapFaults
    /\ swap_faults' = IF fail THEN swap_faults + 1 ELSE swap_faults
    /\ \E r \in {FoldLeft(LAMBDA a, d : \* slots so far, all slots
                     LET s == swap64_alloc_slot(a.all) IN
                     IF s = 0 THEN a
                     ELSE [slots |-> Append(a.slots, s), all |-> swap64_out(a.all, s, d)],
                  [slots |-> <<>>, all |-> slot_data], huge.data)} :
          IF Len(r.slots) = HUGESWAP64_SUBPAGES /\ ~fail
          THEN /\ slot_data' = r.all
               /\ huge' = [slots |-> r.slots, data |-> <<>>]
          ELSE UNCHANGED <<slot_data, huge>>
    /\ UNCHANGED <<swap_free, swap_frame, active, inactive, page_at, page_want, swap_calls,
                   swap_shuffled>>

\* hugeswap64_in(): the subpages come back in order and free their slots.
hugeswap64_in ==
    /\ huge.slots # <<>>
    /\ huge' = [slots |-> <<>>,
                data |-> [i \in 1 .. HUGESWAP64_SUBPAGES |-> swap64_in(slot_data, huge.slots[i])]]
    /\ slot_data' = FoldLeft(swap64_free_slot, slot_data, huge.slots)
    /\ UNCHANGED <<swap_free, swap_frame, active, inactive, page_at, page_want, swap_faults, swap_calls,
                   swap_shuffled>>

SwapNext ==
    \/ \E p \in SwapPages : demand64_fault(p) \/ PageIn(p)
    \/ \E p \in SwapWritten, v \in PageData : PageWrite(p, v)
    \/ \E n \in EvictCounts, fail \in BOOLEAN : reclaim64_evict(n, fail)
    \/ \E fail \in BOOLEAN : hugeswap64_out(fail)
    \/ hugeswap64_in

------------------------------
(* Shared frames.  Every mapping of a frame is counted once; the caller    *)
(* retains the frames it maps.                                             *)

CowInit ==
    /\ cow_free = 1 .. CowFrames
    /\ cow_frame = [f \in 1 .. CowFrames |-> 0]
    /\ cow_refs = [f \in 1 .. CowFrames |-> 0]
    /\ cow_at = [p \in CowPages |-> 0]
    /\ cow_want = [p \in CowPages |-> 0]
    /\ ksm_tab = [i \in 1 .. KSM64_MAX |-> [used |-> FALSE, hash |-> 0, frame |-> 0]]
    /\ ksm_frozen = {}

cow64_retain(refs, f) == [refs EXCEPT ![f] = @ + 1]
cow64_release(refs, f) == [refs EXCEPT ![f] = IF @ > 0 THEN @ - 1 ELSE 0]
cow64_is_shared(f) == cow_refs[f] > 1

\* A page gets a frame of its own.
CowMap(p) ==
    /\ cow_at[p] = 0
    /\ cow_free # {}
    /\ \E f \in {Min(cow_free)} :
          /\ cow_free' = cow_free \ {f}
          /\ cow_frame' = [cow_frame EXCEPT ![f] = 0]
          /\ cow_refs' = cow64_retain(cow_refs, f)
          /\ cow_at' = [cow_at EXCEPT ![p] = f]
    /\ cow_want' = [cow_want EXCEPT ![p] = 0]
    /\ UNCHANGED <<ksm_tab, ksm_frozen>>

\* A fork: the child's page maps the parent's frame.
CowShare(p, q) ==
    /\ cow_at[p] # 0 /\ cow_at[q] = 0
    /\ cow_refs' = cow64_retain(cow_refs, cow_at[p])
    /\ cow_at' = [cow_at EXCEPT ![q] = cow_at[p]]
    /\ cow_want' = [cow_want EXCEPT ![q] = cow_want[p]]
    /\ UNCHANGED <<cow_free, cow_frame, ksm_tab, ksm_frozen>>

\* A write goes through cow64_resolve(): in place, or to a copy, or it fails.
cow64_resolve(p, v) ==
    /\ cow_at[p] # 0 /\ cow_at[p] \notin ksm_frozen
    /\ IF ~cow64_is_shared(cow_at[p])
       THEN /\ cow_frame' = [cow_frame EXCEPT ![cow_at[p]] = v]
            /\ UNCHANGED <<cow_free, cow_refs, cow_at>>
       ELSE /\ cow_free # {}
            /\ \E f \in {Min(cow_free)} :
                  /\ cow_free' = cow_free \ {f}
                  /\ cow_frame' = [cow_frame EXCEPT ![f] = v]
                  /\ cow_refs' = cow64_retain([cow_refs EXCEPT ![cow_at[p]] = @ - 1], f)
                  /\ cow_at' = [cow_at EXCEPT ![p] = f]
    /\ cow_want' = [cow_want EXCEPT ![p] = v]
    /\ UNCHANGED <<ksm_tab, ksm_frozen>>

\* A page goes away: the frame is freed by the last release.
CowUnmap(p) ==
    /\ cow_at[p] # 0 /\ cow_at[p] \notin ksm_frozen
    /\ \E r \in {cow64_release(cow_refs, cow_at[p])} :
          /\ cow_refs' = r
          /\ cow_free' = IF r[cow_at[p]] = 0 THEN cow_free \cup {cow_at[p]} ELSE cow_free
    /\ cow_at' = [cow_at EXCEPT ![p] = 0]
    /\ UNCHANGED <<cow_frame, cow_want, ksm_tab, ksm_frozen>>

\* The entries with the hash of frame f, f itself left out.
KsmTwins(f) == {i \in Taken(ksm_tab) : ksm_tab[i].hash = cow_frame[f] /\ ksm_tab[i].frame # f}

\* ksm64_scan() of the frame of a page nobody shares and, from now on, nobody
\* writes or unmaps: an entry never learns that its frame changed.  The first
\* entry with the same hash takes the page over and its own frame is freed, or
\* the frame is entered.
ksm64_scan(p) ==
    /\ cow_at[p] # 0
    /\ \A q \in CowPages \ {p} : cow_at[q] # cow_at[p]
    /\ IF KsmTwins(cow_at[p]) # {}
       THEN \E i \in {Min(KsmTwins(cow_at[p]))} :
            /\ cow_refs' = cow64_retain(cow_refs, ksm_tab[i].frame)
            /\ cow_free' = cow_free \cup {cow_at[p]}
            /\ cow_at' = [cow_at EXCEPT ![p] = ksm_tab[i].frame]
            /\ UNCHANGED <<ksm_tab, ksm_frozen>>
       ELSE /\ FirstFree(ksm_tab) # 0
            /\ ksm_tab' = [ksm_tab EXCEPT ![FirstFree(ksm_tab)] =
                  [used |-> TRUE, hash |-> cow_frame[cow_at[p]], frame |-> cow_at[p]]]
            /\ ksm_frozen' = ksm_frozen \cup {cow_at[p]}
            /\ UNCHANGED <<cow_refs, cow_free, cow_at>>
    /\ UNCHANGED <<cow_frame, cow_want>>

CowNext ==
    \/ \E p \in CowPages : CowMap(p) \/ CowUnmap(p) \/ ksm64_scan(p)
    \/ \E p, q \in CowPages : CowShare(p, q)
    \/ \E p \in CowPages, v \in PageData : cow64_resolve(p, v)

------------------------------

\* A page reads back what was last written to it, in memory or from swap, and
\* so does the huge page.
PagesComeBack ==
    /\ \A p \in SwapPages :
          CASE page_at[p].in = "frame" -> swap_frame[page_at[p].n] = page_want[p]
            [] page_at[p].in = "slot" -> /\ page_at[p].n \in DOMAIN slot_data
                                         /\ slot_data[page_at[p].n] = page_want[p]
            [] OTHER -> TRUE
    /\ IF huge.slots = <<>> THEN huge.data = HugeData
       ELSE \A i \in 1 .. HUGESWAP64_SUBPAGES : slot_data[huge.slots[i]] = HugeData[i]

\* A resident frame is on one queue, once, unless a failed write made
\* reclaim64_evict() drop it; a free frame is on none.  The code breaks it when
\* three frames or more wait on the inactive queue and no slot is free: putting
\* the first one back makes [a, b, c] into [b, b, a] (reclaim64.c:79-84), so one
\* frame is swapped out twice and another one never.
QueuedOnce ==
    ~swap_shuffled =>
    LET queued == active \o inactive
        resident == {page_at[p].n : p \in {r \in SwapPages : page_at[r].in = "frame"}}
    IN /\ IsInjective(queued)
       /\ ToSet(queued) \subseteq resident
       /\ Cardinality(resident) <= Len(queued) + swap_faults

\* Every slot in use belongs to one page: none leaks, as long as no frame was put
\* back before two others.
SlotsOwned ==
    ~swap_shuffled =>
    DOMAIN slot_data = {page_at[p].n : p \in {r \in SwapPages : page_at[r].in = "slot"}}
                          \cup ToSet(huge.slots)

\* A page that shares a frame reads what was written to it, whatever the
\* others write.
SharersApart == \A p \in CowPages : cow_at[p] # 0 => cow_frame[cow_at[p]] = cow_want[p]

\* A frame a page maps is not free, and its count covers the pages that map it.
CowCounted ==
    \A f \in 1 .. CowFrames :
        LET mapped == {p \in CowPages : cow_at[p] = f}
        IN mapped # {} => f \notin cow_free /\ cow_refs[f] >= Cardinality(mapped)
==============================
