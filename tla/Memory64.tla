------------------------------ MODULE Memory64 ------------------------------
(***************************************************************************)
(* The memory allocators of the 64-bit port (kernel/arch/x86_64): page     *)
(* frames (pmm64.c) and what takes them (slab64.c behind the per-CPU       *)
(* magazines of arena64.c, balloon64.c, guard64.c, zone64.c), the buddy    *)
(* arena (buddy64.c), video memory (vram64.c) and the lock-free pool       *)
(* (lfalloc64.c).  Frames are numbered, frame 0 is never handed out; one   *)
(* slab class stands for the nine, which share no state.  Callers give     *)
(* back what they hold, once.                                              *)
(***************************************************************************)
EXTENDS Tables64, TLC

CONSTANTS
    PmmFrames,              \* frames 1 .. PmmFrames
    SlabObjs,               \* objects of a slab
    ARENA64_MAG, BALLOON64_MAX, GUARD64_MAX,
    ArenaCpus, GuardPages,  \* processors, sizes asked of guard64
    ZoneTop,                \* the last frame of the low zone
    FrameOps,               \* which users of frames are at work
    BuddyOrders,            \* buddy64_orders
    VRAM64_MAX_SEG, VramSize, VramSizes, VramAligns,
    LfObjs, LfCpus, LfAllocators    \* pool, processors, those that allocate

VARIABLES
    pmm_free,
    slabs,          \* list of slabs, newest first
    slab_held,      \* objects in callers' hands
    arena_mag,      \* processor -> its magazine
    balloon,
    guard_tab,
    zone_held, zone_used,
    buddy_map, buddy_live,
    vram_tab, vram_lost,
    lf_top, lf_next, lf_held, lf_cpu
frameVars == <<pmm_free, slabs, slab_held, arena_mag, balloon, guard_tab, zone_held, zone_used>>
buddyVars == <<buddy_map, buddy_live>>
vramVars == <<vram_tab, vram_lost>>
lfVars == <<lf_top, lf_next, lf_held, lf_cpu>>

------------------------------
(* Frames.                                                                 *)

Frames == 1 .. PmmFrames
Zones == {"low", "normal"}
ZoneRange(z) == IF z = "low" THEN 1 .. ZoneTop ELSE ZoneTop + 1 .. PmmFrames
NoGuard == [used |-> FALSE, base |-> 0, pages |-> 0]

FrameInit ==
    /\ pmm_free = Frames
    /\ slabs = <<>>
    /\ slab_held = {}
    /\ arena_mag = [c \in ArenaCpus |-> <<>>]
    /\ balloon = <<>>
    /\ guard_tab = [j \in 1 .. GUARD64_MAX |-> NoGuard]
    /\ zone_held = {}
    /\ zone_used = [z \in Zones |-> 0]

\* pmm64_alloc_frame(): the lowest free frame, 0 if there is none.
pmm64_alloc_frame(free) == FirstOf(free)
pmm64_alloc_range(free, range) == FirstOf(free \cap range)

\* slab64_new(): a frame of free objects, lowest address first.
slab64_new(frame) == [frame |-> frame, head |-> [i \in 1 .. SlabObjs |-> <<frame, i>>]]

\* slab64_alloc(): the first slab of the list that has a free object, or a new
\* one.  The result holds the object, or no object when memory is out.
slab64_alloc ==
    LET with == {k \in 1 .. Len(slabs) : slabs[k].head # <<>>}
        frame == pmm64_alloc_frame(pmm_free)
        list == IF with # {} \/ frame = 0 THEN slabs ELSE <<slab64_new(frame)>> \o slabs
        k == IF with # {} THEN Min(with) ELSE 1
    IN IF with = {} /\ frame = 0 THEN [obj |-> <<>>, slabs |-> slabs, free |-> pmm_free]
       ELSE [obj |-> <<Head(list[k].head)>>,
             slabs |-> [list EXCEPT ![k].head = Tail(@)],
             free |-> IF with # {} THEN pmm_free ELSE pmm_free \ {frame}]

\* slab64_free(): the object goes to the front of its slab's list.
slab64_free(obj) ==
    [k \in 1 .. Len(slabs) |->
        IF slabs[k].frame = obj[1] THEN [slabs[k] EXCEPT !.head = <<obj>> \o @] ELSE slabs[k]]

\* arena64_alloc(): from the processor's magazine, else from the slabs.
arena64_alloc(c) ==
    /\ "slab" \in FrameOps
    /\ IF arena_mag[c] # <<>>
       THEN /\ slab_held' = slab_held \cup {Last(arena_mag[c])}
            /\ arena_mag' = [arena_mag EXCEPT ![c] = Front(@)]
            /\ UNCHANGED <<slabs, pmm_free>>
       ELSE \E r \in {slab64_alloc} :
            /\ slabs' = r.slabs
            /\ pmm_free' = r.free
            /\ slab_held' = slab_held \cup ToSet(r.obj)
            /\ UNCHANGED arena_mag
    /\ UNCHANGED <<balloon, guard_tab, zone_held, zone_used>>

\* arena64_free(): into the magazine of the processor that frees, or back to
\* the slab when the magazine is full.
arena64_free(c, obj) ==
    /\ slab_held' = slab_held \ {obj}
    /\ IF Len(arena_mag[c]) < ARENA64_MAG
       THEN /\ arena_mag' = [arena_mag EXCEPT ![c] = Append(@, obj)]
            /\ UNCHANGED slabs
       ELSE /\ slabs' = slab64_free(obj)
            /\ UNCHANGED arena_mag
    /\ UNCHANGED <<pmm_free, balloon, guard_tab, zone_held, zone_used>>

SlabEmpty(s) == Len(s.head) = SlabObjs

\* slab64_shrink(): empty slabs go back, all but the first.
slab64_shrink ==
    /\ "slab" \in FrameOps
    /\ \E empty \in {{k \in 1 .. Len(slabs) : SlabEmpty(slabs[k])}} :
       \E gone \in {{k \in empty : k # Min(empty)}} :
          /\ gone # {}
          /\ pmm_free' = pmm_free \cup {slabs[k].frame : k \in gone}
          /\ slabs' = SelectSeq(slabs, LAMBDA s : s.frame \notin {slabs[k].frame : k \in gone})
    /\ UNCHANGED <<slab_held, arena_mag, balloon, guard_tab, zone_held, zone_used>>

\* balloon64_inflate() and balloon64_deflate(), a page at a time.
balloon64_inflate ==
    /\ "balloon" \in FrameOps
    /\ Len(balloon) < BALLOON64_MAX
    /\ pmm_free # {}
    /\ balloon' = Append(balloon, pmm64_alloc_frame(pmm_free))
    /\ pmm_free' = pmm_free \ {pmm64_alloc_frame(pmm_free)}
    /\ UNCHANGED <<slabs, slab_held, arena_mag, guard_tab, zone_held, zone_used>>
balloon64_deflate ==
    /\ balloon # <<>>
    /\ balloon' = Front(balloon)
    /\ pmm_free' = pmm_free \cup {Last(balloon)}
    /\ UNCHANGED <<slabs, slab_held, arena_mag, guard_tab, zone_held, zone_used>>

\* One attempt of guard64_alloc_pages(): n + 1 frames, one after another, that
\* must be consecutive.  When one is not, that frame and the first are given
\* back; those between them stay taken.
GuardTry(free, n) ==
    LET base == pmm64_alloc_frame(free)
        run == {i \in 0 .. n : \A k \in 0 .. i : base + k \in free}
        got == Cardinality(run)
    IN IF base = 0 THEN [base |-> 0, free |-> free, stop |-> TRUE]
       ELSE IF got = n + 1
       THEN [base |-> base, free |-> free \ (base .. base + n), stop |-> TRUE]
       ELSE [base |-> 0, free |-> free \ (base + 1 .. base + got - 1), stop |-> FALSE]

\* guard64_alloc_pages(): an attempt for every unused entry of the table until
\* one succeeds or memory is out.
guard64_alloc_pages(n) ==
    /\ "guard" \in FrameOps
    /\ \E r \in {FoldLeft(LAMBDA a, j :
                     IF a.stop \/ guard_tab[j].used THEN a
                     ELSE [slot |-> j] @@ GuardTry(a.free, n),
                  [slot |-> 0, base |-> 0, free |-> pmm_free, stop |-> FALSE],
                  [j \in 1 .. GUARD64_MAX |-> j])} :
          /\ pmm_free' = r.free
          /\ guard_tab' = IF r.base = 0 THEN guard_tab
                          ELSE [guard_tab EXCEPT ![r.slot] =
                                   [used |-> TRUE, base |-> r.base, pages |-> n]]
    /\ UNCHANGED <<slabs, slab_held, arena_mag, balloon, zone_held, zone_used>>

GuardFrames(g) == g.base .. g.base + g.pages

guard64_free(j) ==
    /\ guard_tab[j].used
    /\ pmm_free' = pmm_free \cup GuardFrames(guard_tab[j])
    /\ guard_tab' = [guard_tab EXCEPT ![j] = NoGuard]
    /\ UNCHANGED <<slabs, slab_held, arena_mag, balloon, zone_held, zone_used>>

zone64_alloc(z) ==
    /\ "zone" \in FrameOps
    /\ \E f \in {pmm64_alloc_range(pmm_free, ZoneRange(z))} :
          /\ f # 0
          /\ pmm_free' = pmm_free \ {f}
          /\ zone_held' = zone_held \cup {f}
    /\ zone_used' = [zone_used EXCEPT ![z] = @ + 1]
    /\ UNCHANGED <<slabs, slab_held, arena_mag, balloon, guard_tab>>

zone_of(f) == IF f <= ZoneTop THEN "low" ELSE "normal"

zone64_free(f) ==
    /\ pmm_free' = pmm_free \cup {f}
    /\ zone_held' = zone_held \ {f}
    /\ zone_used' = [zone_used EXCEPT ![zone_of(f)] = IF @ > 0 THEN @ - 1 ELSE 0]
    /\ UNCHANGED <<slabs, slab_held, arena_mag, balloon, guard_tab>>

FrameNext ==
    \/ \E c \in ArenaCpus : arena64_alloc(c)
    \/ \E c \in ArenaCpus, o \in slab_held : arena64_free(c, o)
    \/ slab64_shrink
    \/ balloon64_inflate \/ balloon64_deflate
    \/ \E n \in GuardPages : guard64_alloc_pages(n)
    \/ \E j \in 1 .. GUARD64_MAX : guard64_free(j)
    \/ \E z \in Zones : zone64_alloc(z)
    \/ \E f \in zone_held : zone64_free(f)

------------------------------
(* The buddy arena: block b of order o covers pages b * 2^o onwards.       *)

BuddyInit ==
    /\ buddy_map = [o \in 0 .. BuddyOrders |-> IF o = BuddyOrders THEN {0} ELSE {}]
    /\ buddy_live = {}

\* Splitting a block of order o down to `order': the left half goes on, the
\* right halves are free.
Halves(map, o, b, order) ==
    [i \in 0 .. BuddyOrders |->
        IF i = o THEN map[i] \ {b}
        ELSE IF order <= i /\ i < o THEN map[i] \cup {b * 2^(o - i) + 1}
        ELSE map[i]]

buddy64_alloc(order) ==
    /\ \E o \in order .. BuddyOrders : buddy_map[o] # {}
    /\ \E o \in {Min({i \in order .. BuddyOrders : buddy_map[i] # {}})} :
       \E b \in {Min(buddy_map[o])} :
          /\ buddy_map' = Halves(buddy_map, o, b, order)
          /\ buddy_live' = buddy_live \cup {<<order, b * 2^(o - order)>>}

Buddy(b) == IF b % 2 = 0 THEN b + 1 ELSE b - 1

\* The orders a freed block reaches by joining with its free buddies.
Climb(map, o, b) ==
    {u \in o .. BuddyOrders : \A i \in o .. u - 1 : Buddy(b \div 2^(i - o)) \in map[i]}

buddy64_free(o, b) ==
    /\ buddy_live' = buddy_live \ {<<o, b>>}
    /\ \E top \in {Max(Climb(buddy_map, o, b))} :
          buddy_map' = [i \in 0 .. BuddyOrders |->
              IF i = top THEN buddy_map[i] \cup {b \div 2^(i - o)}
              ELSE IF o <= i /\ i < top THEN buddy_map[i] \ {Buddy(b \div 2^(i - o))}
              ELSE buddy_map[i]]

BuddyNext ==
    \/ \E o \in 0 .. BuddyOrders : buddy64_alloc(o)
    \/ \E blk \in buddy_live : buddy64_free(blk[1], blk[2])

------------------------------
(* Video memory: a table of segments.  Address 0 is kept back.             *)

NoSeg == [used |-> FALSE, free |-> FALSE, purgeable |-> FALSE, addr |-> 0, size |-> 0]
FreeSeg(addr, size) == [used |-> TRUE, free |-> TRUE, purgeable |-> FALSE, addr |-> addr, size |-> size]

\* vram64_add_free(): dropped when the table is full.
vram64_add_free(tab, addr, size) ==
    IF size = 0 \/ FirstFree(tab) = 0 THEN tab
    ELSE [tab EXCEPT ![FirstFree(tab)] = FreeSeg(addr, size)]

VramInit ==
    /\ vram_tab = [i \in 1 .. VRAM64_MAX_SEG |->
          CASE i = 1 -> [FreeSeg(0, 1) EXCEPT !.free = FALSE]
            [] i = 2 -> FreeSeg(1, VramSize - 1)
            [] OTHER -> NoSeg]
    /\ vram_lost = 0

vram64_align_up(v, a) == ((v + a - 1) \div a) * a
VramPad(s, align) == vram64_align_up(s.addr, align) - s.addr

VramFits(s, size, align) == s.used /\ s.free /\ VramPad(s, align) + size <= s.size

\* vram64_alloc(): the free segment that wastes least, cut to size.
vram64_alloc(size, align) ==
    LET fit == {i \in 1 .. VRAM64_MAX_SEG : VramFits(vram_tab[i], size, align)}
        waste(i) == vram_tab[i].size - VramPad(vram_tab[i], align) - size
    IN /\ fit # {}
       /\ \E best \in {Min({i \in fit : \A j \in fit : waste(i) <= waste(j)})} :
          \E s \in {vram_tab[best]} : \E a \in {vram64_align_up(vram_tab[best].addr, align)} :
          \E cut \in {[vram_tab EXCEPT ![best] = [FreeSeg(a, size) EXCEPT !.free = FALSE]]} :
          \E front \in {vram64_add_free(cut, s.addr, a - s.addr)} :
          \E back \in {vram64_add_free(front, a + size, s.addr + s.size - a - size)} :
             /\ vram_tab' = back
             /\ vram_lost' = vram_lost
                   + (IF front = cut THEN a - s.addr ELSE 0)
                   + (IF back = front THEN s.addr + s.size - a - size ELSE 0)

vram64_free(i) ==
    /\ vram_tab[i].used /\ ~vram_tab[i].free /\ vram_tab[i].addr # 0
    /\ vram_tab' = [vram_tab EXCEPT ![i].free = TRUE, ![i].purgeable = FALSE]
    /\ UNCHANGED vram_lost
vram64_mark_purgeable(i) ==
    /\ vram_tab[i].used /\ ~vram_tab[i].free /\ vram_tab[i].addr # 0
    /\ vram_tab' = [vram_tab EXCEPT ![i].purgeable = TRUE]
    /\ UNCHANGED vram_lost
vram64_purge ==
    /\ vram_tab' = [i \in 1 .. VRAM64_MAX_SEG |->
          IF vram_tab[i].purgeable THEN [vram_tab[i] EXCEPT !.free = TRUE, !.purgeable = FALSE]
          ELSE vram_tab[i]]
    /\ UNCHANGED vram_lost

VramNext ==
    \/ \E s \in VramSizes, a \in VramAligns : vram64_alloc(s, a)
    \/ \E i \in 1 .. VRAM64_MAX_SEG : vram64_free(i)
    \/ \E i \in 1 .. VRAM64_MAX_SEG : vram64_mark_purgeable(i)
    \/ vram64_purge

------------------------------
(* The lock-free pool: one shared access a step.                           *)

LfIdle == [at |-> "idle", old |-> 0, next |-> 0, obj |-> 0]

\* lf64_init() pushes the objects one after another.
LfInit ==
    /\ lf_top = LfObjs
    /\ lf_next = [o \in 1 .. LfObjs |-> o - 1]
    /\ lf_held = {}
    /\ lf_cpu = [c \in LfCpus |-> LfIdle]

\* lf64_alloc() reads the top ...
LfReadTop(c) ==
    /\ lf_cpu[c].at = "idle" /\ c \in LfAllocators
    /\ lf_top # 0
    /\ lf_cpu' = [lf_cpu EXCEPT ![c].at = "top", ![c].old = lf_top]
    /\ UNCHANGED <<lf_top, lf_next, lf_held>>

\* ... the object below it ...
LfReadNext(c) ==
    /\ lf_cpu[c].at = "top"
    /\ lf_cpu' = [lf_cpu EXCEPT ![c].at = "pop", ![c].next = lf_next[lf_cpu[c].old]]
    /\ UNCHANGED <<lf_top, lf_next, lf_held>>

Unmoved(c) == lf_top = lf_cpu[c].old

\* ... and exchanges them if the top has not moved.
LfPop(c) ==
    /\ lf_cpu[c].at = "pop"
    /\ IF Unmoved(c)
       THEN /\ lf_top' = lf_cpu[c].next
            /\ lf_held' = lf_held \cup {lf_cpu[c].old}
            /\ lf_cpu' = [lf_cpu EXCEPT ![c] = LfIdle]
       ELSE /\ lf_cpu' = [lf_cpu EXCEPT ![c] = LfIdle]
            /\ UNCHANGED <<lf_top, lf_held>>
    /\ UNCHANGED lf_next

\* lf64_free() links the object to the top it read ...
LfLink(c, o) ==
    /\ lf_cpu[c].at = "idle"
    /\ lf_held' = lf_held \ {o}
    /\ lf_next' = [lf_next EXCEPT ![o] = lf_top]
    /\ lf_cpu' = [lf_cpu EXCEPT ![c].at = "push", ![c].old = lf_top, ![c].obj = o]
    /\ UNCHANGED lf_top

\* ... and makes it the top, or starts again.
LfPush(c) ==
    /\ lf_cpu[c].at = "push"
    /\ IF Unmoved(c)
       THEN /\ lf_top' = lf_cpu[c].obj
            /\ lf_cpu' = [lf_cpu EXCEPT ![c] = LfIdle]
            /\ UNCHANGED lf_next
       ELSE /\ lf_next' = [lf_next EXCEPT ![lf_cpu[c].obj] = lf_top]
            /\ lf_cpu' = [lf_cpu EXCEPT ![c].old = lf_top]
            /\ UNCHANGED lf_top
    /\ UNCHANGED lf_held

LfNext ==
    \/ \E c \in LfCpus : LfReadTop(c) \/ LfReadNext(c) \/ LfPop(c) \/ LfPush(c)
    \/ \E c \in LfCpus, o \in lf_held : LfLink(c, o)

------------------------------

SlabFrames == {slabs[k].frame : k \in 1 .. Len(slabs)}
GuardHeld == UNION {GuardFrames(guard_tab[j]) : j \in Taken(guard_tab)}
FrameOwners == <<pmm_free, SlabFrames, ToSet(balloon), GuardHeld, zone_held>>

\* No frame has two owners: nothing that is in use is free, and nothing was
\* handed out twice.
NoFrameTwice ==
    \A i, j \in 1 .. 5 : i # j => FrameOwners[i] \cap FrameOwners[j] = {}

\* An object in a caller's hands or in a magazine lies in a slab that is still
\* there and is on no free list; a magazine holds nothing a caller has.
ObjectsLive ==
    LET out == slab_held \cup UNION {ToSet(arena_mag[c]) : c \in ArenaCpus}
        count == Cardinality(slab_held) + FoldSet(LAMBDA c, n : n + Len(arena_mag[c]), 0, ArenaCpus)
    IN /\ Cardinality(out) = count
       /\ \A o \in out : \E k \in 1 .. Len(slabs) :
             slabs[k].frame = o[1] /\ o \notin ToSet(slabs[k].head)

\* The count of each zone is the number of frames out of it.
ZoneCounts == \A z \in Zones : zone_used[z] = Cardinality(zone_held \cap ZoneRange(z))

\* Free and handed-out blocks cover the arena, each page once.
BuddyTiles ==
    LET pages(o, b) == b * 2^o .. (b + 1) * 2^o - 1
        free == {<<o, b>> : o \in 0 .. BuddyOrders, b \in 0 .. 2^BuddyOrders} \cap
                   UNION {{<<o, b>> : b \in buddy_map[o]} : o \in 0 .. BuddyOrders}
        all == free \cup buddy_live
    IN /\ free \cap buddy_live = {}
       /\ \A p \in 0 .. 2^BuddyOrders - 1 :
             Cardinality({blk \in all : p \in pages(blk[1], blk[2])}) = 1

\* Two halves of a block are never both free.
BuddyMerged ==
    \A o \in 0 .. BuddyOrders - 1 : \A b \in buddy_map[o] : Buddy(b) \notin buddy_map[o]

\* The segments of video memory do not overlap and, with what a full table
\* made vram64_add_free() drop, cover it.
VramTiles ==
    LET segs == Taken(vram_tab)
        span(i) == vram_tab[i].addr .. vram_tab[i].addr + vram_tab[i].size - 1
    IN /\ \A i, j \in segs : i # j => span(i) \cap span(j) = {}
       /\ Cardinality(UNION {span(i) : i \in segs}) + vram_lost = VramSize

\* An object of the pool in someone's hands is not reachable from the top, so
\* it cannot be handed out again.
LfOwnedOnce ==
    LET reach[n \in 0 .. LfObjs] ==
            IF n = 0 THEN {lf_top} \ {0}
            ELSE reach[n - 1] \cup ({lf_next[o] : o \in reach[n - 1]} \ {0})
    IN reach[LfObjs] \cap lf_held = {}
==============================
