------------------------ MODULE MemoryAndFilesProofs ------------------------
(***************************************************************************)
(* Proofs about the two parts of the kernel that hand out what a process   *)
(* owns. User memory (module AddressSpace), for any number of processes,   *)
(* pages, frames and region entries: no page is backed by memory that was  *)
(* given back, no page that can be written without a fault is shared, and  *)
(* the whole machinery implements private memory. The in-memory file       *)
(* system (module ChFS), for any number of tasks, descriptors, inodes and  *)
(* blocks, alone (ChfsSpec) and as a part of KernelParts.                  *)
(***************************************************************************)
EXTENDS KernelParts, TLAPS, WellFoundedInduction, FiniteSetTheorems

------------------------------
(* User memory (kernel/memory).                                            *)

\* Sets of pages are finite.
LEMMA PagesFinite ==
  /\ IsFiniteSet(Va) /\ IsFiniteSet(Space) /\ IsFiniteSet(Space \X Va)
  /\ \A V : V \subseteq Va => IsFiniteSet(V) /\ Cardinality(V) \in Nat
  /\ \A P : P \subseteq Space \X Va => IsFiniteSet(P) /\ Cardinality(P) \in Nat
<1>1. IsFiniteSet(Va) /\ IsFiniteSet(Space)  BY AddressSpaceAssumption, FS_Interval DEF Va, Space
<1>2. IsFiniteSet(Space \X Va)  BY <1>1, FS_Product
<1> QED BY <1>1, <1>2, FS_Subset, FS_CardinalityType

\* A set of numbers that has an element has its least element.
LEMMA LeastFrame ==
  ASSUME NEW S, S \subseteq Nat, S # {}
  PROVE  Min(S) \in S
<1>1. PICK x \in S : \A y \in S : ~(<<y, x>> \in OpToRel(<, Nat))  BY NatLessThanWellFounded, WFMin
<1>2. \A y \in S : x <= y
  <2> TAKE y \in S
  <2>1. x \in Nat /\ y \in Nat  OBVIOUS
  <2>2. ~(<<y, x>> \in {ss \in Nat \X Nat : ss[1] < ss[2]})  BY <1>1 DEF OpToRel
  <2> QED BY <2>1, <2>2
<1> QED BY <1>2 DEF Min

\* pmm_alloc_frame() hands out a frame nobody counts.
LEMMA FreshIsFree ==
  ASSUME FreeFrames # {}
  PROVE  Fresh \in Frame /\ ref[Fresh] = 0
<1>1. FreeFrames \subseteq Nat  BY DEF FreeFrames, Frame
<1> QED BY <1>1, LeastFrame DEF Fresh, FreeFrames

\* pmm_free_frame() never counts below zero.
LEMMA NeverBelowZero ==
  ASSUME NEW x \in Int
  PROVE  Max({0, x}) = IF x > 0 THEN x ELSE 0
<1>1. \E m \in {0, x} : \A y \in {0, x} : m >= y  OBVIOUS
<1>2. Max({0, x}) \in {0, x} /\ \A y \in {0, x} : Max({0, x}) >= y  BY <1>1 DEF Max
<1> QED BY <1>2

------------------------------

\* A table p of pages and counts c of frames: where p maps frame f, which
\* of the pages V of s have it, and what PagesSound says of both.
Pte == [frame : {0} \cup Frame, rw : BOOLEAN, cow : BOOLEAN]

Table == [Space -> [Va -> Pte]]

Counts == [Frame -> Nat]

MapsTo(p, f) == {m \in Space \X Va : p[m[1]][m[2]].frame = f}

PagesOf(p, s, V, f) == {v \in V : p[s][v].frame = f}

Backed(p, c) ==
    /\ \A f \in Frame : c[f] >= Cardinality(MapsTo(p, f))
    /\ \A s \in Space, v \in Va :
          p[s][v].rw => p[s][v].frame # 0 /\ MapsTo(p, p[s][v].frame) = {<<s, v>>}

\* Taking the pages V of s away from frame f takes away as many mappings
\* as there are such pages.
LEMMA MappingsLess ==
  ASSUME NEW p, NEW s \in Space, NEW V \in SUBSET Va, NEW f
  PROVE  /\ Cardinality(MapsTo(p, f)) \in Nat /\ Cardinality(PagesOf(p, s, V, f)) \in Nat
         /\ IsFiniteSet(MapsTo(p, f) \ ({s} \X V))
         /\ Cardinality(MapsTo(p, f) \ ({s} \X V)) =
               Cardinality(MapsTo(p, f)) - Cardinality(PagesOf(p, s, V, f))
<1>1. IsFiniteSet(PagesOf(p, s, V, f)) /\ Cardinality(PagesOf(p, s, V, f)) \in Nat  BY PagesFinite DEF PagesOf
<1>2. IsFiniteSet(MapsTo(p, f)) /\ Cardinality(MapsTo(p, f)) \in Nat  BY PagesFinite DEF MapsTo
<1>3. MapsTo(p, f) \cap ({s} \X V) = {s} \X PagesOf(p, s, V, f)
  <2>1. ASSUME NEW m \in MapsTo(p, f) \cap ({s} \X V) PROVE m \in {s} \X PagesOf(p, s, V, f)
    BY <2>1 DEF MapsTo, PagesOf
  <2>2. ASSUME NEW m \in {s} \X PagesOf(p, s, V, f) PROVE m \in MapsTo(p, f) \cap ({s} \X V)
    <3>1. PICK v \in PagesOf(p, s, V, f) : m = <<s, v>>  BY <2>2
    <3>2. v \in Va /\ v \in V /\ p[s][v].frame = f /\ m[1] = s /\ m[2] = v  BY <3>1 DEF PagesOf
    <3> QED BY <3>1, <3>2 DEF MapsTo
  <2> QED BY <2>1, <2>2
<1>4. Cardinality({s} \X PagesOf(p, s, V, f)) = Cardinality(PagesOf(p, s, V, f))
  <2>1. IsFiniteSet({s}) /\ Cardinality({s}) = 1  BY FS_Singleton
  <2> QED BY <1>1, <2>1, FS_Product
<1>5. /\ IsFiniteSet(MapsTo(p, f) \ ({s} \X V))
      /\ Cardinality(MapsTo(p, f) \ ({s} \X V)) =
            Cardinality(MapsTo(p, f)) - Cardinality(MapsTo(p, f) \cap ({s} \X V))
  BY <1>2, FS_Difference
<1> QED BY <1>1, <1>2, <1>3, <1>4, <1>5

\* Tables p and q and counts c and d before and after such a step.
Remapped(p, q, c, d, s, V, v, f, b) ==
    /\ p \in Table /\ q \in Table /\ c \in Counts /\ d \in Counts /\ Backed(p, c)
    /\ s \in Space /\ V \subseteq Va /\ v \in V /\ f \in Frame /\ b \in BOOLEAN
    /\ MapsTo(p, f) \subseteq {s} \X V
    /\ q[s][v] = [frame |-> f, rw |-> b, cow |-> FALSE]
    /\ \A u \in V \ {v} : q[s][u] = NotPresent
    /\ \A t \in Space, u \in Va : ~(t = s /\ u \in V) => q[t][u] = p[t][u]
    /\ d[f] >= 1
    /\ \A g \in Frame : g # f => d[g] >= c[g] - Cardinality(PagesOf(p, s, V, g))

\* The pages V of s lose their frames, and frame f, which only these pages
\* had, is mapped at v: page faults, clone, brk and exec.  Every count may
\* fall by the number of pages that lost the frame.
LEMMA Remap ==
  ASSUME NEW p, NEW q, NEW c, NEW d, NEW s, NEW V, NEW v, NEW f, NEW b,
         Remapped(p, q, c, d, s, V, v, f, b)
  PROVE  Backed(q, d)
<1> USE DEF Remapped
<1>0. /\ q[s][v].frame = f /\ f # 0 /\ 0 \notin Frame
      /\ NotPresent.frame = 0 /\ ~NotPresent.rw
      /\ \A t \in Space, u \in Va : p[t][u].frame \in {0} \cup Frame
      /\ v \in Va
  BY DEF NotPresent, Table, Pte, Frame
<1>2. ASSUME NEW g \in Frame, g # f PROVE MapsTo(q, g) = MapsTo(p, g) \ ({s} \X V)
  <2>1. ASSUME NEW m \in Space \X Va
        PROVE  q[m[1]][m[2]].frame = g <=> p[m[1]][m[2]].frame = g /\ m \notin {s} \X V
    <3>1. PICK t \in Space, u \in Va : m = <<t, u>>  OBVIOUS
    <3>2. m[1] = t /\ m[2] = u /\ (m \in {s} \X V <=> t = s /\ u \in V)  BY <3>1
    <3>3. q[t][u].frame = g <=> p[t][u].frame = g /\ ~(t = s /\ u \in V)  BY <1>0, <1>2
    <3> QED BY <3>2, <3>3
  <2> QED BY <2>1 DEF MapsTo
<1>3. MapsTo(q, f) = {<<s, v>>}
  <2>1. ASSUME NEW m \in Space \X Va
        PROVE  q[m[1]][m[2]].frame = f <=> m = <<s, v>>
    <3>1. PICK t \in Space, u \in Va : m = <<t, u>>  OBVIOUS
    <3>2. m[1] = t /\ m[2] = u  BY <3>1
    <3>3. p[t][u].frame = f => t = s /\ u \in V
      <4>1. p[t][u].frame = f => m \in MapsTo(p, f)  BY <3>2 DEF MapsTo
      <4> QED BY <3>1, <4>1
    <3>4. q[t][u].frame = f <=> t = s /\ u = v  BY <1>0, <3>3
    <3> QED BY <3>1, <3>2, <3>4
  <2>2. <<s, v>> \in Space \X Va  BY <1>0
  <2> QED BY <2>1, <2>2 DEF MapsTo
<1>4. ASSUME NEW g \in Frame PROVE d[g] >= Cardinality(MapsTo(q, g))
  <2>1. CASE g = f  BY <1>3, <2>1, FS_Singleton
  <2>2. CASE g # f
    <3>1. /\ Cardinality(MapsTo(q, g)) = Cardinality(MapsTo(p, g)) - Cardinality(PagesOf(p, s, V, g))
          /\ Cardinality(MapsTo(p, g)) \in Nat /\ Cardinality(PagesOf(p, s, V, g)) \in Nat
      <4>1. MapsTo(q, g) = MapsTo(p, g) \ ({s} \X V)  BY <1>2, <2>2
      <4>2. /\ Cardinality(MapsTo(p, g) \ ({s} \X V)) =
                  Cardinality(MapsTo(p, g)) - Cardinality(PagesOf(p, s, V, g))
            /\ Cardinality(MapsTo(p, g)) \in Nat /\ Cardinality(PagesOf(p, s, V, g)) \in Nat
        BY MappingsLess
      <4> QED BY <4>1, <4>2
    <3>2. c[g] >= Cardinality(MapsTo(p, g)) /\ c[g] \in Nat /\ d[g] \in Nat  BY DEF Backed, Counts
    <3>3. d[g] >= c[g] - Cardinality(PagesOf(p, s, V, g))  BY <2>2
    <3> QED BY <3>1, <3>2, <3>3
  <2> QED BY <2>1, <2>2
<1>6. ASSUME NEW t \in Space, NEW u \in Va, q[t][u].rw
      PROVE  q[t][u].frame # 0 /\ MapsTo(q, q[t][u].frame) = {<<t, u>>}
  <2>1. CASE t = s /\ u = v  BY <1>0, <1>3, <2>1
  <2>2. CASE ~(t = s /\ u = v)
    <3>1. q[t][u] = p[t][u] /\ ~(t = s /\ u \in V)  BY <1>0, <1>6, <2>2
    <3>2. PICK g : g = p[t][u].frame  OBVIOUS
    <3>3. g \in Frame /\ MapsTo(p, g) = {<<t, u>>}  BY <1>0, <1>6, <3>1, <3>2 DEF Backed
    <3>4. <<t, u>> \notin {s} \X V  BY <3>1
    <3>5. g # f  BY <3>3, <3>4
    <3>6. MapsTo(q, g) = {<<t, u>>}  BY <1>2, <3>3, <3>4, <3>5
    <3> QED BY <1>0, <3>1, <3>2, <3>3, <3>6
  <2> QED BY <2>1, <2>2
<1> QED BY <1>4, <1>6 DEF Backed

\* The tables and counts before and after such a step.
Unmapped(p, q, c, d, s, V) ==
    /\ p \in Table /\ q \in Table /\ c \in Counts /\ d \in Counts /\ Backed(p, c)
    /\ s \in Space /\ V \subseteq Va
    /\ \A u \in V : q[s][u] = NotPresent
    /\ \A t \in Space, u \in Va : ~(t = s /\ u \in V) => q[t][u] = p[t][u]
    /\ \A g \in Frame : d[g] >= c[g] - Cardinality(PagesOf(p, s, V, g))

\* The pages V of s lose their frames: munmap, brk, and an exec that
\* fails.
LEMMA UnmapKeeps ==
  ASSUME NEW p, NEW q, NEW c, NEW d, NEW s, NEW V, Unmapped(p, q, c, d, s, V)
  PROVE  Backed(q, d)
<1> USE DEF Unmapped
<1>0. /\ 0 \notin Frame /\ NotPresent.frame = 0 /\ ~NotPresent.rw
      /\ \A t \in Space, u \in Va : p[t][u].frame \in {0} \cup Frame
  BY DEF NotPresent, Table, Pte, Frame
<1>2. ASSUME NEW g \in Frame PROVE MapsTo(q, g) = MapsTo(p, g) \ ({s} \X V)
  <2>1. ASSUME NEW m \in Space \X Va
        PROVE  q[m[1]][m[2]].frame = g <=> p[m[1]][m[2]].frame = g /\ m \notin {s} \X V
    <3>1. PICK t \in Space, u \in Va : m = <<t, u>>  OBVIOUS
    <3>2. m[1] = t /\ m[2] = u /\ (m \in {s} \X V <=> t = s /\ u \in V)  BY <3>1
    <3>3. q[t][u].frame = g <=> p[t][u].frame = g /\ ~(t = s /\ u \in V)  BY <1>0
    <3> QED BY <3>2, <3>3
  <2> QED BY <2>1 DEF MapsTo
<1>4. ASSUME NEW g \in Frame PROVE d[g] >= Cardinality(MapsTo(q, g))
  <2>1. /\ Cardinality(MapsTo(q, g)) = Cardinality(MapsTo(p, g)) - Cardinality(PagesOf(p, s, V, g))
        /\ Cardinality(MapsTo(p, g)) \in Nat /\ Cardinality(PagesOf(p, s, V, g)) \in Nat
    <3>1. MapsTo(q, g) = MapsTo(p, g) \ ({s} \X V)  BY <1>2
    <3>2. /\ Cardinality(MapsTo(p, g) \ ({s} \X V)) =
                Cardinality(MapsTo(p, g)) - Cardinality(PagesOf(p, s, V, g))
          /\ Cardinality(MapsTo(p, g)) \in Nat /\ Cardinality(PagesOf(p, s, V, g)) \in Nat
      BY MappingsLess
    <3> QED BY <3>1, <3>2
  <2>2. c[g] >= Cardinality(MapsTo(p, g)) /\ c[g] \in Nat /\ d[g] \in Nat  BY DEF Backed, Counts
  <2>3. d[g] >= c[g] - Cardinality(PagesOf(p, s, V, g))  OBVIOUS
  <2> QED BY <2>1, <2>2, <2>3
<1>6. ASSUME NEW t \in Space, NEW u \in Va, q[t][u].rw
      PROVE  q[t][u].frame # 0 /\ MapsTo(q, q[t][u].frame) = {<<t, u>>}
  <2>1. q[t][u] = p[t][u] /\ ~(t = s /\ u \in V)  BY <1>0, <1>6
  <2>2. PICK g : g = p[t][u].frame  OBVIOUS
  <2>3. g \in Frame /\ MapsTo(p, g) = {<<t, u>>}  BY <1>0, <1>6, <2>1, <2>2 DEF Backed
  <2>4. <<t, u>> \notin {s} \X V  BY <2>1
  <2>5. MapsTo(q, g) = {<<t, u>>}  BY <1>2, <2>3, <2>4
  <2> QED BY <1>0, <2>1, <2>2, <2>3, <2>5
<1> QED BY <1>4, <1>6 DEF Backed

\* A frame nobody counts is mapped nowhere.
LEMMA FreeUnmapped ==
  ASSUME NEW p, NEW c, Backed(p, c), NEW f \in Frame, c[f] = 0
  PROVE  MapsTo(p, f) = {}
<1>1. c[f] >= Cardinality(MapsTo(p, f))  BY DEF Backed
<1>2. IsFiniteSet(MapsTo(p, f)) /\ Cardinality(MapsTo(p, f)) \in Nat  BY PagesFinite DEF MapsTo
<1>3. Cardinality(MapsTo(p, f)) = 0  BY <1>1, <1>2
<1> QED BY <1>2, <1>3, FS_EmptySet

\* The tables and counts before and after a fork.
ForkedTables(p, q, c, d, s, n, W, f, rg) ==
    /\ p \in Table /\ q \in Table /\ c \in Counts /\ d \in Counts /\ Backed(p, c)
    /\ s \in Space /\ n \in Space /\ n # s /\ W \subseteq Va
    /\ f \in Frame /\ c[f] = 0
    /\ \A u \in W : rg[u] > 0 /\ rg[u] \in Nat /\ p[s][u].frame # 0
    /\ \A u \in Va : p[n][u] = NotPresent
    /\ \A u \in W : /\ q[s][u] = [frame |-> p[s][u].frame, rw |-> FALSE, cow |-> TRUE]
                    /\ q[n][u] = [frame |-> p[s][u].frame, rw |-> FALSE, cow |-> TRUE]
    /\ \A u \in Va \ W : q[s][u] = p[s][u] /\ q[n][u] = NotPresent
    /\ \A t \in Space \ {s, n} : q[t] = p[t]
    /\ \A g \in Frame : g # f =>
          d[g] = c[g] + Cardinality({e \in RegionEntries(rg) : e[1] \in W /\ p[s][e[1]].frame = g})

\* fork_task(): the pages W of s are shared read-only with the new process
\* n, which has no other; frame f for the page directory is fresh.  Every
\* shared page has at least one entry of the region table rg, so counting
\* a frame once per entry counts it at least once per page.
LEMMA ForkKeeps ==
  ASSUME NEW p, NEW q, NEW c, NEW d, NEW s, NEW n, NEW W, NEW f, NEW rg,
         ForkedTables(p, q, c, d, s, n, W, f, rg)
  PROVE  Backed(q, d)
<1> USE DEF ForkedTables
<1>0. /\ 0 \notin Frame /\ NotPresent.frame = 0 /\ ~NotPresent.rw
      /\ \A t \in Space, u \in Va : p[t][u].frame \in {0} \cup Frame
      /\ \A u \in W : q[s][u].frame = p[s][u].frame /\ ~q[s][u].rw
                   /\ q[n][u].frame = p[s][u].frame /\ ~q[n][u].rw
  <2>1. /\ 0 \notin Frame /\ NotPresent.frame = 0 /\ ~NotPresent.rw
        /\ \A t \in Space, u \in Va : p[t][u].frame \in {0} \cup Frame
    BY DEF NotPresent, Table, Pte, Frame
  <2>2. ASSUME NEW u \in W
        PROVE  /\ q[s][u].frame = p[s][u].frame /\ ~q[s][u].rw
               /\ q[n][u].frame = p[s][u].frame /\ ~q[n][u].rw
    <3> DEFINE r == [frame |-> p[s][u].frame, rw |-> FALSE, cow |-> TRUE]
    <3>1. q[s][u] = r /\ q[n][u] = r  OBVIOUS
    <3>2. r.frame = p[s][u].frame /\ r.rw = FALSE  OBVIOUS
    <3> HIDE DEF r
    <3> QED BY <3>1, <3>2
  <2> QED BY <2>1, <2>2
<1>1. ASSUME NEW g \in Frame
      PROVE  MapsTo(q, g) = MapsTo(p, g) \cup ({n} \X PagesOf(p, s, W, g))
  <2>1. ASSUME NEW m \in Space \X Va
        PROVE  q[m[1]][m[2]].frame = g <=>
                 p[m[1]][m[2]].frame = g \/ (m[1] = n /\ m[2] \in W /\ p[s][m[2]].frame = g)
    <3>1. PICK t \in Space, u \in Va : m = <<t, u>>  OBVIOUS
    <3>2. q[t][u].frame = g <=> p[t][u].frame = g \/ (t = n /\ u \in W /\ p[s][u].frame = g)  BY <1>0
    <3> QED BY <3>1, <3>2
  <2>2. ASSUME NEW m \in Space \X Va
        PROVE  m \in {n} \X PagesOf(p, s, W, g) <=>
                 m[1] = n /\ m[2] \in W /\ p[s][m[2]].frame = g
    <3>1. PICK t \in Space, u \in Va : m = <<t, u>>  OBVIOUS
    <3>2. m \in {n} \X PagesOf(p, s, W, g) <=> t = n /\ u \in PagesOf(p, s, W, g)  BY <3>1
    <3>3. u \in PagesOf(p, s, W, g) <=> u \in W /\ p[s][u].frame = g  BY DEF PagesOf
    <3> QED BY <3>1, <3>2, <3>3
  <2>3. {n} \X PagesOf(p, s, W, g) \subseteq Space \X Va  BY DEF PagesOf
  <2> QED BY <2>1, <2>2, <2>3 DEF MapsTo
<1>2. ASSUME NEW g \in Frame, g # f PROVE d[g] >= Cardinality(MapsTo(q, g))
  <2> DEFINE P == PagesOf(p, s, W, g)
             E == {e \in RegionEntries(rg) : e[1] \in W /\ p[s][e[1]].frame = g}
  <2>1. IsFiniteSet(P) /\ Cardinality(P) \in Nat /\ Cardinality({n} \X P) = Cardinality(P)
        /\ IsFiniteSet({n} \X P) /\ Cardinality(P \X {1}) = Cardinality(P)
    <3>1. IsFiniteSet(P)  BY PagesFinite DEF PagesOf
    <3>2. /\ IsFiniteSet({n}) /\ Cardinality({n}) = 1
          /\ IsFiniteSet({1}) /\ Cardinality({1}) = 1
      BY FS_Singleton
    <3>3. Cardinality(P) \in Nat  BY <3>1, FS_CardinalityType
    <3>4. IsFiniteSet({n} \X P) /\ Cardinality({n} \X P) = Cardinality({n}) * Cardinality(P)
      BY <3>1, <3>2, FS_Product
    <3>5. Cardinality(P \X {1}) = Cardinality(P) * Cardinality({1})  BY <3>1, <3>2, FS_Product
    <3> HIDE DEF P
    <3> QED BY <3>1, <3>2, <3>3, <3>4, <3>5
  <2>2. IsFiniteSet(MapsTo(p, g)) /\ Cardinality(MapsTo(p, g)) \in Nat  BY PagesFinite DEF MapsTo
  <2>3. IsFiniteSet(E)
    <3>1. IsFiniteSet(1 .. MaxRegions)  BY AddressSpaceAssumption, FS_Interval
    <3>2. IsFiniteSet(Va \X (1 .. MaxRegions))  BY <3>1, PagesFinite, FS_Product
    <3> QED BY <3>2, FS_Subset DEF RegionEntries
  <2>4. P \X {1} \subseteq E
    <3> SUFFICES ASSUME NEW e \in P \X {1} PROVE e \in E  OBVIOUS
    <3>1. PICK v \in P : e = <<v, 1>>  OBVIOUS
    <3>2. v \in Va /\ v \in W /\ p[s][v].frame = g /\ rg[v] >= 1  BY <3>1 DEF PagesOf
    <3>3. 1 \in 1 .. MaxRegions  BY AddressSpaceAssumption
    <3> QED BY <3>1, <3>2, <3>3 DEF RegionEntries
  <2>5. Cardinality(P) <= Cardinality(E) /\ Cardinality(E) \in Nat
    BY <2>1, <2>3, <2>4, FS_Subset, FS_CardinalityType
  <2>6. MapsTo(p, g) \cap ({n} \X P) = {}
    <3> SUFFICES ASSUME NEW m \in MapsTo(p, g), m \in {n} \X P PROVE FALSE  OBVIOUS
    <3>1. PICK v \in P : m = <<n, v>>  OBVIOUS
    <3>2. p[n][v].frame = g /\ v \in Va  BY <3>1 DEF MapsTo, PagesOf
    <3> QED BY <1>0, <3>2
  <2>7. Cardinality(MapsTo(q, g)) = Cardinality(MapsTo(p, g)) + Cardinality({n} \X P)
                                    - Cardinality(MapsTo(p, g) \cap ({n} \X P))
    BY <1>1, <2>1, <2>2, FS_Union
  <2>8. Cardinality(MapsTo(p, g) \cap ({n} \X P)) = 0  BY <2>6, FS_EmptySet
  <2>9. c[g] >= Cardinality(MapsTo(p, g)) /\ c[g] \in Nat /\ d[g] = c[g] + Cardinality(E)
    BY <1>2 DEF Backed, Counts
  <2> HIDE DEF P, E
  <2> QED BY <2>1, <2>2, <2>5, <2>7, <2>8, <2>9
<1>3. ASSUME NEW g \in Frame, PagesOf(p, s, W, g) = {} PROVE MapsTo(q, g) = MapsTo(p, g)  BY <1>1, <1>3
<1>4. \A g \in Frame : \A w \in PagesOf(p, s, W, g) : <<s, w>> \in MapsTo(p, g) /\ w \in W
  BY DEF PagesOf, MapsTo
<1>5. d[f] >= Cardinality(MapsTo(q, f))
  <2>1. MapsTo(p, f) = {}  BY FreeUnmapped
  <2>2. MapsTo(q, f) = {}  BY <1>3, <1>4, <2>1
  <2> QED BY <2>2, FS_EmptySet DEF Counts
<1>6. ASSUME NEW t \in Space, NEW u \in Va, q[t][u].rw
      PROVE  q[t][u].frame # 0 /\ MapsTo(q, q[t][u].frame) = {<<t, u>>}
  <2>1. q[t][u] = p[t][u] /\ ~(t = s /\ u \in W)  BY <1>0, <1>6
  <2>2. PICK g : g = p[t][u].frame  OBVIOUS
  <2>3. g \in Frame /\ MapsTo(p, g) = {<<t, u>>}  BY <1>0, <1>6, <2>1, <2>2 DEF Backed
  <2>4. PagesOf(p, s, W, g) = {}
    <3> SUFFICES ASSUME NEW w \in PagesOf(p, s, W, g) PROVE FALSE  OBVIOUS
    <3>1. <<s, w>> = <<t, u>> /\ w \in W  BY <1>4, <2>3
    <3> QED BY <2>1, <3>1
  <2>5. MapsTo(q, g) = {<<t, u>>}  BY <1>3, <2>3, <2>4
  <2> QED BY <1>0, <2>1, <2>2, <2>3, <2>5
<1> QED BY <1>2, <1>5, <1>6 DEF Backed

------------------------------

\* The inductive invariant: the pages are backed, processes that do not
\* exist yet have none, and those that run exist.
FutureEmpty == \A s \in Space : s >= next_space => \A v \in Va : pte[s][v] = NotPresent

AliveBorn == \A s \in alive : s < next_space

SpaceIInv == TypeOK /\ Backed(pte, ref) /\ FutureEmpty /\ AliveBorn

\* It says what PagesSound says.
LEMMA BackedIsSound ==
  ASSUME Backed(pte, ref)
  PROVE  PagesSound
<1>1. \A f : Mappings(f) = MapsTo(pte, f)  BY DEF Mappings, MapsTo
<1>2. NoDanglingPage  BY <1>1 DEF Backed, NoDanglingPage
<1>3. WritableUnshared  BY <1>1 DEF Backed, WritableUnshared
<1> QED BY <1>2, <1>3 DEF PagesSound

\* What the type invariant says of the pages and the counts.
LEMMA TypeOfTables ==
  ASSUME TypeOK
  PROVE  /\ pte \in Table /\ ref \in Counts
         /\ 0 \notin Frame /\ NotPresent.frame = 0 /\ ~NotPresent.rw /\ NotPresent \in Pte
         /\ \A s \in Space, v \in Va : pte[s][v] \in Pte /\ pte[s][v].frame \in {0} \cup Frame
  BY DEF TypeOK, Table, Counts, NotPresent, Pte, Frame

\* A call that leaves the memory and the region tables alone keeps the
\* invariant: writes and deaths.
LEMMA StillMemory ==
  ASSUME SpaceIInv, alive' \subseteq alive, content' \in [Frame -> Value],
         UNCHANGED <<next_space, pte, ref, regions, vma, brk>>
  PROVE  SpaceIInv'
<1>1. TypeOK'  BY DEF SpaceIInv, TypeOK
<1>2. Backed(pte, ref)'  BY DEF SpaceIInv
<1>3. FutureEmpty' /\ AliveBorn'  BY DEF SpaceIInv, FutureEmpty, AliveBorn
<1> QED BY <1>1, <1>2, <1>3 DEF SpaceIInv

\* A process that dies keeps its frames.
LEMMA DiesKeeps ==
  ASSUME SpaceIInv, NEW s, Dies(s)
  PROVE  SpaceIInv'
<1>1. /\ alive' \subseteq alive /\ content' \in [Frame -> Value]
      /\ UNCHANGED <<next_space, pte, ref, regions, vma, brk>>
  BY DEF Dies, SpaceIInv, TypeOK
<1> QED BY <1>1, StillMemory

\* A write by the program or by the kernel reaches a frame.
LEMMA WriteKeeps ==
  ASSUME SpaceIInv, NEW s \in Space, NEW v \in Va, NEW x \in Value,
         Write(s, v, x) \/ KernelWrite(s, v, x)
  PROVE  SpaceIInv'
<1>1. /\ alive' \subseteq alive
      /\ content' = [content EXCEPT ![pte[s][v].frame] = x]
      /\ UNCHANGED <<next_space, pte, ref, regions, vma, brk>>
  BY DEF Write, KernelWrite
<1>2. content' \in [Frame -> Value]  BY <1>1 DEF SpaceIInv, TypeOK
<1> QED BY <1>1, <1>2, StillMemory

\* Page v of s gets a fresh frame; c are the counts before the frame is
\* counted.
GetsFresh(s, v, b, c) ==
    /\ FreeFrames # {} /\ c \in Counts
    /\ pte' = [pte EXCEPT ![s][v] = [frame |-> Fresh, rw |-> b, cow |-> FALSE]]
    /\ ref' = [c EXCEPT ![Fresh] = 1]
    /\ \A g \in Frame : c[g] = ref[g] \/ (g = pte[s][v].frame /\ c[g] = ref[g] - 1)

\* A fresh frame takes the place of another page, whose frame is counted
\* once less at most.
LEMMA FreshBacks ==
  ASSUME SpaceIInv, NEW s \in alive, NEW v \in Va, NEW b \in BOOLEAN, NEW c,
         GetsFresh(s, v, b, c)
  PROVE  /\ Fresh \in Frame /\ s \in Space /\ \A t \in Space : t >= next_space => t # s
         /\ pte' \in Table /\ ref' \in Counts /\ Backed(pte', ref')
         /\ \A t \in Space, u \in Va : ~(t = s /\ u = v) => pte'[t][u] = pte[t][u]
<1> DEFINE r == [frame |-> Fresh, rw |-> b, cow |-> FALSE]
<1>1. TypeOK /\ Backed(pte, ref) /\ FutureEmpty /\ AliveBorn  BY DEF SpaceIInv
<1>2. s \in Space /\ s < next_space  BY <1>1 DEF TypeOK, AliveBorn
<1>3. Fresh \in Frame /\ ref[Fresh] = 0 /\ MapsTo(pte, Fresh) = {}
  BY <1>1, FreshIsFree, FreeUnmapped DEF GetsFresh
<1>4. /\ r \in Pte /\ pte' = [pte EXCEPT ![s][v] = r]
      /\ c \in Counts /\ ref' = [c EXCEPT ![Fresh] = 1]
      /\ \A g \in Frame : c[g] = ref[g] \/ (g = pte[s][v].frame /\ c[g] = ref[g] - 1)
  BY <1>3 DEF Pte, GetsFresh
<1>5. pte \in Table /\ ref \in Counts  BY <1>1, TypeOfTables
<1> HIDE DEF r
<1>6. /\ pte' \in Table /\ ref' \in Counts
      /\ pte'[s][v] = r /\ ref'[Fresh] = 1
      /\ \A t \in Space, u \in Va : ~(t = s /\ u = v) => pte'[t][u] = pte[t][u]
      /\ \A g \in Frame : g # Fresh => ref'[g] = c[g]
  <2>1. pte' \in Table /\ pte'[s][v] = r  BY <1>2, <1>4, <1>5 DEF Table
  <2>2. \A t \in Space, u \in Va : ~(t = s /\ u = v) => pte'[t][u] = pte[t][u]  BY <1>2, <1>4, <1>5 DEF Table
  <2>3. ref' \in Counts /\ ref'[Fresh] = 1 /\ \A g \in Frame : g # Fresh => ref'[g] = c[g]
    BY <1>3, <1>4 DEF Counts
  <2> QED BY <2>1, <2>2, <2>3
<1>7. Backed(pte', ref')
  <2>1. ASSUME NEW g \in Frame, g # Fresh
        PROVE  ref'[g] >= ref[g] - Cardinality(PagesOf(pte, s, {v}, g))
    <3>1. ref'[g] = c[g] /\ c[g] \in Nat /\ ref[g] \in Nat  BY <1>4, <1>5, <1>6, <2>1 DEF Counts
    <3>2. Cardinality(PagesOf(pte, s, {v}, g)) \in Nat  BY PagesFinite DEF PagesOf
    <3>3. CASE c[g] = ref[g]  BY <3>1, <3>2, <3>3
    <3>4. CASE g = pte[s][v].frame /\ c[g] = ref[g] - 1
      <4>1. PagesOf(pte, s, {v}, g) = {v}  BY <3>4 DEF PagesOf
      <4>2. Cardinality(PagesOf(pte, s, {v}, g)) = 1  BY <4>1, FS_Singleton
      <4> QED BY <3>1, <3>4, <4>2
    <3> QED BY <1>4, <3>3, <3>4
  <2>2. /\ {v} \in SUBSET Va /\ v \in {v}
        /\ MapsTo(pte, Fresh) \subseteq {s} \X {v}
        /\ pte'[s][v] = [frame |-> Fresh, rw |-> b, cow |-> FALSE]
        /\ \A u \in {v} \ {v} : pte'[s][u] = NotPresent
        /\ \A t \in Space, u \in Va : ~(t = s /\ u \in {v}) => pte'[t][u] = pte[t][u]
        /\ ref'[Fresh] >= 1
    BY <1>3, <1>6 DEF r
  <2>3. \A g \in Frame : g # Fresh => ref'[g] >= ref[g] - Cardinality(PagesOf(pte, s, {v}, g))  BY <2>1
  <2>4. /\ pte \in Table /\ pte' \in Table /\ ref \in Counts /\ ref' \in Counts
        /\ Backed(pte, ref) /\ s \in Space /\ Fresh \in Frame
    BY <1>1, <1>2, <1>3, <1>5, <1>6
  <2>5. Remapped(pte, pte', ref, ref', s, {v}, v, Fresh, b)  BY <2>2, <2>3, <2>4 DEF Remapped
  <2> QED BY <2>5, Remap
<1>8. \A t \in Space : t >= next_space => t # s  BY <1>1, <1>2 DEF TypeOK, Space
<1> QED BY <1>2, <1>3, <1>6, <1>7, <1>8

\* Page faults and clone map a fresh frame.
LEMMA MapFreshKeeps ==
  ASSUME SpaceIInv, NEW s \in alive, NEW v \in Va, NEW b \in BOOLEAN, NEW x \in Value,
         NEW c \in Counts, FreeFrames # {}, MapFresh(s, v, b, x, c),
         \A g \in Frame :
            c[g] = ref[g] \/ (g = pte[s][v].frame /\ c[g] = ref[g] - 1)
  PROVE  SpaceIInv'
<1>0. /\ GetsFresh(s, v, b, c)
      /\ content' = [content EXCEPT ![Fresh] = x]
      /\ UNCHANGED <<alive, next_space, regions, vma, brk>>
  BY DEF MapFresh, GetsFresh
<1>1. TypeOK /\ Backed(pte, ref) /\ FutureEmpty /\ AliveBorn  BY DEF SpaceIInv
<1>2. /\ Fresh \in Frame /\ \A t \in Space : t >= next_space => t # s
      /\ pte' \in Table /\ ref' \in Counts /\ Backed(pte', ref')
      /\ \A t \in Space, u \in Va : ~(t = s /\ u = v) => pte'[t][u] = pte[t][u]
  BY <1>0, FreshBacks
<1>3. TypeOK'
  <2>1. content' \in [Frame -> Value]  BY <1>0, <1>1, <1>2 DEF TypeOK
  <2> QED BY <1>0, <1>1, <1>2, <2>1 DEF TypeOK, Table, Counts, Pte
<1>4. FutureEmpty' /\ AliveBorn'  BY <1>0, <1>1, <1>2 DEF FutureEmpty, AliveBorn
<1> QED BY <1>2, <1>3, <1>4 DEF SpaceIInv

\* A finite set of at most one element has no second one.
LEMMA OneElement ==
  ASSUME NEW S, IsFiniteSet(S), Cardinality(S) <= 1, NEW x \in S, NEW y \in S
  PROVE  x = y
<1> SUFFICES ASSUME x # y PROVE FALSE  OBVIOUS
<1>1. {x, y} \subseteq S  OBVIOUS
<1>2. Cardinality({x}) = 1 /\ IsFiniteSet({x}) /\ y \notin {x}  BY FS_Singleton
<1>3. Cardinality({x} \cup {y}) = 2  BY <1>2, FS_AddElement
<1>4. {x} \cup {y} = {x, y}  OBVIOUS
<1>5. Cardinality({x, y}) <= Cardinality(S)  BY <1>1, FS_Subset
<1>6. Cardinality(S) \in Nat  BY FS_CardinalityType
<1> QED BY <1>3, <1>4, <1>5, <1>6

\* page_fault_handler(): copy-on-write faults.
LEMMA CowFaultKeeps ==
  ASSUME SpaceIInv, NEW s \in Space, NEW v \in Va, CowFault(s, v)
  PROVE  SpaceIInv'
<1> DEFINE f == pte[s][v].frame
<1>1. s \in alive /\ f # 0 /\ TypeOK /\ Backed(pte, ref) /\ FutureEmpty /\ AliveBorn
  BY DEF CowFault, SpaceIInv, Mapped
<1>2. /\ f \in Frame /\ ref \in Counts /\ pte \in Table /\ content[f] \in Value /\ s < next_space
      /\ pte[s][v] \in Pte
  BY <1>1, TypeOfTables DEF TypeOK, AliveBorn
<1>3. CASE ref[f] > 1 /\ FreeFrames # {} /\ MapFresh(s, v, TRUE, content[f], [ref EXCEPT ![f] = @ - 1])
  <2> DEFINE c == [ref EXCEPT ![f] = @ - 1]
  <2>1. c \in Counts /\ \A g \in Frame : c[g] = ref[g] \/ (g = f /\ c[g] = ref[g] - 1)  BY <1>2, <1>3 DEF Counts
  <2>2. MapFresh(s, v, TRUE, content[f], c)  BY <1>3
  <2> HIDE DEF c
  <2> QED BY <1>1, <1>2, <1>3, <2>1, <2>2, MapFreshKeeps
<1>4. CASE Dies(s)  BY <1>4, DiesKeeps
<1>5. CASE /\ ref[f] <= 1
           /\ pte' = [pte EXCEPT ![s][v].rw = TRUE, ![s][v].cow = FALSE]
           /\ UNCHANGED <<alive, next_space, ref, content, regions, vma, brk>>
  <2> DEFINE r == [frame |-> f, rw |-> TRUE, cow |-> FALSE]
  <2>1. r \in Pte  BY <1>2 DEF Pte
  <2>2. pte' = [pte EXCEPT ![s][v] = r]
    <3>1. [[pte[s][v] EXCEPT !.rw = TRUE] EXCEPT !.cow = FALSE] = r
      <4>1. PICK x \in Pte : x = pte[s][v]  BY <1>2
      <4>2. PICK y : y = [x EXCEPT !.rw = TRUE]  OBVIOUS
      <4>3. y \in Pte /\ y.frame = x.frame /\ y.rw = TRUE  BY <4>2 DEF Pte
      <4>4. PICK z : z = [y EXCEPT !.cow = FALSE]  OBVIOUS
      <4>5. z \in Pte /\ z.frame = x.frame /\ z.rw = TRUE /\ z.cow = FALSE  BY <4>3, <4>4 DEF Pte
      <4>6. z = [frame |-> x.frame, rw |-> TRUE, cow |-> FALSE]  BY <4>5 DEF Pte
      <4> QED BY <4>1, <4>2, <4>4, <4>6
    <3>2. pte' = [pte EXCEPT ![s][v] = [[pte[s][v] EXCEPT !.rw = TRUE] EXCEPT !.cow = FALSE]]
      BY <1>2, <1>5 DEF Table
    <3> QED BY <3>1, <3>2
  <2> HIDE DEF r
  <2>3. /\ pte' \in Table /\ pte'[s][v] = r
        /\ \A t \in Space, u \in Va : ~(t = s /\ u = v) => pte'[t][u] = pte[t][u]
    <3>1. pte' \in Table /\ pte'[s][v] = r  BY <1>2, <2>1, <2>2 DEF Table
    <3>2. \A t \in Space, u \in Va : ~(t = s /\ u = v) => pte'[t][u] = pte[t][u]  BY <1>2, <2>2 DEF Table
    <3> QED BY <3>1, <3>2
  <2>4. TypeOK'  BY <1>1, <1>5, <2>3 DEF TypeOK, Table, Pte
  <2>5. MapsTo(pte, f) \subseteq {s} \X {v}
    <3> SUFFICES ASSUME NEW m \in MapsTo(pte, f) PROVE m = <<s, v>>  OBVIOUS
    <3>1. <<s, v>> \in MapsTo(pte, f)  BY DEF MapsTo
    <3>2. IsFiniteSet(MapsTo(pte, f)) /\ Cardinality(MapsTo(pte, f)) \in Nat  BY PagesFinite DEF MapsTo
    <3>3. Cardinality(MapsTo(pte, f)) <= 1  BY <1>1, <1>2, <1>5, <3>2 DEF Backed, Counts
    <3> QED BY <3>1, <3>2, <3>3, OneElement
  <2>6. f \in Frame /\ ref[f] >= 1
    <3>1. <<s, v>> \in MapsTo(pte, f)  BY DEF MapsTo
    <3>2. ref[f] # 0  BY <1>1, <1>2, <3>1, FreeUnmapped
    <3> QED BY <1>2, <3>2 DEF Counts
  <2>7. \A g \in Frame : g # f => ref[g] >= ref[g] - Cardinality(PagesOf(pte, s, {v}, g))
    <3> TAKE g \in Frame
    <3>1. Cardinality(PagesOf(pte, s, {v}, g)) \in Nat  BY PagesFinite DEF PagesOf
    <3>2. ref[g] \in Nat  BY <1>2 DEF Counts
    <3> QED BY <3>1, <3>2
  <2>8. Remapped(pte, pte', ref, ref', s, {v}, v, f, TRUE)
    BY <1>1, <1>2, <1>5, <2>3, <2>5, <2>6, <2>7 DEF Remapped, r
  <2>9. Backed(pte', ref')  BY <2>8, Remap
  <2>10. FutureEmpty' /\ AliveBorn'
    <3>1. \A t \in Space : t >= next_space => t # s  BY <1>1, <1>2 DEF TypeOK, Space
    <3> QED BY <1>1, <1>5, <2>3, <3>1 DEF FutureEmpty, AliveBorn
  <2> QED BY <2>4, <2>9, <2>10 DEF SpaceIInv
<1> QED BY <1>3, <1>4, <1>5 DEF CowFault

\* page_fault_handler(): faults on pages that are not present.
LEMMA DemandFaultKeeps ==
  ASSUME SpaceIInv, NEW s \in Space, NEW v \in Va, NEW write \in BOOLEAN, DemandFault(s, v, write)
  PROVE  SpaceIInv'
<1>1. /\ s \in alive /\ ref \in Counts /\ 0 \in Value /\ (vma[s][v] = "rw") \in BOOLEAN
      /\ \A g \in Frame : ref[g] = ref[g] \/ (g = pte[s][v].frame /\ ref[g] = ref[g] - 1)
  BY AddressSpaceAssumption, TypeOfTables DEF DemandFault, SpaceIInv
<1>2. CASE FreeFrames # {} /\ MapFresh(s, v, vma[s][v] = "rw", 0, ref)  BY <1>1, <1>2, MapFreshKeeps
<1>3. CASE FreeFrames # {} /\ MapFresh(s, v, TRUE, 0, ref)  BY <1>1, <1>3, MapFreshKeeps
<1>4. CASE Dies(s)  BY <1>4, DiesKeeps
<1> QED BY <1>2, <1>3, <1>4 DEF DemandFault

\* clone_pmap_thread_stack().
LEMMA CloneStackKeeps ==
  ASSUME SpaceIInv, NEW s \in Space, NEW v \in Va, NEW x \in Value, CloneStack(s, v, x)
  PROVE  SpaceIInv'
<1> DEFINE f == pte[s][v].frame
<1>1. s \in alive /\ ref \in Counts /\ 0 \in Value /\ FreeFrames # {} /\ TypeOK
  BY AddressSpaceAssumption, TypeOfTables DEF CloneStack, Calls, SpaceIInv
<1>2. CASE /\ Mapped(s, v)
           /\ MapFresh(s, v, TRUE, x, [ref EXCEPT ![f] = IF @ > 1 THEN @ - 1 ELSE @])
  <2> DEFINE c == [ref EXCEPT ![f] = IF @ > 1 THEN @ - 1 ELSE @]
  <2>1. f \in Frame  BY <1>1, <1>2, TypeOfTables DEF Mapped, TypeOK
  <2>2. c \in Counts /\ \A g \in Frame : c[g] = ref[g] \/ (g = f /\ c[g] = ref[g] - 1)  BY <1>1, <2>1 DEF Counts
  <2>3. MapFresh(s, v, TRUE, x, c)  BY <1>2
  <2> HIDE DEF c
  <2> QED BY <1>1, <2>1, <2>2, <2>3, MapFreshKeeps
<1>3. CASE MapFresh(s, v, TRUE, 0, ref)  BY <1>1, <1>3, MapFreshKeeps
<1> QED BY <1>2, <1>3 DEF CloneStack

------------------------------

\* task_add_region(): the table never holds more than MaxRegions entries.
LEMMA EntriesFinite ==
  ASSUME NEW rg
  PROVE  IsFiniteSet(RegionEntries(rg)) /\ Entries(rg) \in Nat
<1>1. IsFiniteSet(1 .. MaxRegions)  BY AddressSpaceAssumption, FS_Interval
<1>2. IsFiniteSet(Va \X (1 .. MaxRegions))  BY <1>1, PagesFinite, FS_Product
<1> QED BY <1>2, FS_Subset, FS_CardinalityType DEF RegionEntries, Entries

\* One page never has more entries than the table.
LEMMA EntriesOfPage ==
  ASSUME NEW rg \in [Va -> 0 .. MaxRegions], NEW v \in Va
  PROVE  rg[v] <= Entries(rg)
<1>1. rg[v] \in Nat /\ rg[v] <= MaxRegions  BY AddressSpaceAssumption
<1>2. {v} \X (1 .. rg[v]) \subseteq RegionEntries(rg)
  <2> SUFFICES ASSUME NEW e \in {v} \X (1 .. rg[v]) PROVE e \in RegionEntries(rg)  OBVIOUS
  <2>1. PICK k \in 1 .. rg[v] : e = <<v, k>>  OBVIOUS
  <2>2. k \in 1 .. MaxRegions /\ k <= rg[v]  BY <1>1, AddressSpaceAssumption
  <2> QED BY <2>1, <2>2 DEF RegionEntries
<1>3. Cardinality({v} \X (1 .. rg[v])) = rg[v]
  <2>1. IsFiniteSet({v}) /\ Cardinality({v}) = 1  BY FS_Singleton
  <2>2. IsFiniteSet(1 .. rg[v]) /\ Cardinality(1 .. rg[v]) = rg[v]  BY <1>1, FS_Interval
  <2>3. Cardinality({v} \X (1 .. rg[v])) = Cardinality({v}) * Cardinality(1 .. rg[v])  BY <2>1, <2>2, FS_Product
  <2> QED BY <1>1, <2>1, <2>2, <2>3
<1>4. Cardinality({v} \X (1 .. rg[v])) <= Cardinality(RegionEntries(rg))  BY <1>2, EntriesFinite, FS_Subset
<1> QED BY <1>3, <1>4 DEF Entries

\* task_add_region() adds one entry or none.
LEMMA RegionAdded ==
  ASSUME NEW rg \in [Va -> 0 .. MaxRegions], Entries(rg) <= MaxRegions, NEW v \in Va
  PROVE  /\ WithRegion(rg, v) \in [Va -> 0 .. MaxRegions]
         /\ Entries(WithRegion(rg, v)) <= MaxRegions
         /\ \A u \in Va : WithRegion(rg, v)[u] >= rg[u]
<1>0. MaxRegions \in Nat /\ MaxRegions \in Int /\ \A u \in Va : rg[u] \in Nat  BY AddressSpaceAssumption
<1>1. CASE Entries(rg) >= MaxRegions  BY <1>0, <1>1 DEF WithRegion
<1>2. CASE ~(Entries(rg) >= MaxRegions)
  <2> DEFINE new == [rg EXCEPT ![v] = @ + 1]
  <2>1. WithRegion(rg, v) = new  BY <1>2 DEF WithRegion
  <2>2. Entries(rg) < MaxRegions /\ rg[v] <= Entries(rg) /\ rg[v] \in Nat /\ Entries(rg) \in Nat
    BY <1>0, <1>2, EntriesFinite, EntriesOfPage
  <2>3. new \in [Va -> 0 .. MaxRegions] /\ new[v] = rg[v] + 1 /\ \A u \in Va : u # v => new[u] = rg[u]
    BY <1>0, <2>2
  <2>4. RegionEntries(new) = RegionEntries(rg) \cup {<<v, rg[v] + 1>>}
    <3>1. ASSUME NEW e \in Va \X (1 .. MaxRegions)
          PROVE  e[2] <= new[e[1]] <=> e[2] <= rg[e[1]] \/ e = <<v, rg[v] + 1>>
      <4>1. PICK u \in Va, k \in 1 .. MaxRegions : e = <<u, k>>  OBVIOUS
      <4>2. k <= new[u] <=> k <= rg[u] \/ (u = v /\ k = rg[v] + 1)  BY <1>0, <2>2, <2>3
      <4> QED BY <4>1, <4>2
    <3>2. <<v, rg[v] + 1>> \in Va \X (1 .. MaxRegions)  BY <1>0, <2>2
    <3> HIDE DEF new
    <3> QED BY <3>1, <3>2 DEF RegionEntries
  <2>5. Cardinality(RegionEntries(new)) <= Cardinality(RegionEntries(rg)) + 1
    <3>1. <<v, rg[v] + 1>> \notin RegionEntries(rg)  BY <2>2 DEF RegionEntries
    <3>2. IsFiniteSet(RegionEntries(rg)) /\ Cardinality(RegionEntries(rg)) \in Nat  BY EntriesFinite DEF Entries
    <3>3. Cardinality(RegionEntries(rg) \cup {<<v, rg[v] + 1>>}) = Cardinality(RegionEntries(rg)) + 1
      BY <3>1, <3>2, FS_AddElement
    <3> HIDE DEF new
    <3> QED BY <2>4, <3>2, <3>3
  <2>6. Entries(new) <= Entries(rg) + 1 /\ Entries(new) \in Nat  BY <2>5, EntriesFinite DEF Entries
  <2>7. \A u \in Va : new[u] >= rg[u]  BY <1>0, <2>3
  <2> HIDE DEF new
  <2> QED BY <1>0, <2>1, <2>2, <2>3, <2>6, <2>7
<1> QED BY <1>1, <1>2

\* exec_flat() empties a region table: it holds no more entries than
\* before.
LEMMA RegionsDropped ==
  ASSUME NEW rg \in [Va -> 0 .. MaxRegions], Entries(rg) <= MaxRegions,
         NEW new \in [Va -> 0 .. MaxRegions], \A u \in Va : new[u] <= rg[u]
  PROVE  Entries(new) <= MaxRegions
<1>1. RegionEntries(new) \subseteq RegionEntries(rg)
  <2> SUFFICES ASSUME NEW e \in RegionEntries(new) PROVE e \in RegionEntries(rg)  OBVIOUS
  <2>1. PICK u \in Va, k \in 1 .. MaxRegions : e = <<u, k>> /\ k <= new[u]  BY DEF RegionEntries
  <2>2. new[u] \in Nat /\ rg[u] \in Nat /\ k \in Nat /\ new[u] <= rg[u]  BY AddressSpaceAssumption
  <2>3. k <= rg[u]  BY <2>1, <2>2
  <2> QED BY <2>1, <2>3 DEF RegionEntries
<1>2. Entries(new) <= Entries(rg)  BY <1>1, EntriesFinite, FS_Subset DEF Entries
<1> QED BY <1>2, EntriesFinite, AddressSpaceAssumption

------------------------------

\* pmm_free_frame() on the pages V of s: a count falls by the number of
\* these pages that had the frame, and a frame nobody counts afterwards is
\* mapped by these pages only.
LEMMA FreedCounts ==
  ASSUME SpaceIInv, NEW s \in Space, NEW V \in SUBSET Va
  PROVE  /\ Freed(s, V) \in Counts
         /\ \A g \in Frame : Freed(s, V)[g] >= ref[g] - Cardinality(PagesOf(pte, s, V, g))
         /\ \A g \in Frame : Freed(s, V)[g] = 0 => MapsTo(pte, g) \subseteq {s} \X V
<1>0. ref \in Counts /\ Backed(pte, ref)  BY TypeOfTables DEF SpaceIInv
<1>1. Freed(s, V) = [g \in Frame |-> Max({0, ref[g] - Cardinality(PagesOf(pte, s, V, g))})]
  BY DEF Freed, PagesOf
<1>2. ASSUME NEW g \in Frame
      PROVE  /\ Freed(s, V)[g] \in Nat
             /\ Freed(s, V)[g] >= ref[g] - Cardinality(PagesOf(pte, s, V, g))
  <2>1. Freed(s, V)[g] = Max({0, ref[g] - Cardinality(PagesOf(pte, s, V, g))})  BY <1>1
  <2>2. Cardinality(PagesOf(pte, s, V, g)) \in Nat /\ ref[g] \in Nat  BY <1>0, PagesFinite DEF PagesOf, Counts
  <2> QED BY <2>1, <2>2, NeverBelowZero
<1>3. Freed(s, V) \in Counts  BY <1>1, <1>2 DEF Counts
<1>4. ASSUME NEW g \in Frame, Freed(s, V)[g] = 0
      PROVE  MapsTo(pte, g) \subseteq {s} \X V
  <2>1. /\ Cardinality(MapsTo(pte, g) \ ({s} \X V)) =
              Cardinality(MapsTo(pte, g)) - Cardinality(PagesOf(pte, s, V, g))
        /\ Cardinality(MapsTo(pte, g)) \in Nat /\ Cardinality(PagesOf(pte, s, V, g)) \in Nat
        /\ IsFiniteSet(MapsTo(pte, g) \ ({s} \X V))
    BY MappingsLess
  <2>2. ref[g] >= Cardinality(MapsTo(pte, g)) /\ ref[g] \in Nat  BY <1>0 DEF Backed, Counts
  <2>3. 0 >= ref[g] - Cardinality(PagesOf(pte, s, V, g))  BY <1>2, <1>4
  <2>4. Cardinality(MapsTo(pte, g) \ ({s} \X V)) \in Nat  BY <2>1, FS_CardinalityType
  <2>5. Cardinality(MapsTo(pte, g) \ ({s} \X V)) = 0  BY <2>1, <2>2, <2>3, <2>4
  <2>6. MapsTo(pte, g) \ ({s} \X V) = {}  BY <2>1, <2>5, FS_EmptySet
  <2> QED BY <2>6
<1> QED BY <1>2, <1>3, <1>4

\* Unmapping the pages V of s keeps the pages backed.
LEMMA UnmapBacks ==
  ASSUME SpaceIInv, NEW s \in alive, NEW V \in SUBSET Va, Unmap(s, V)
  PROVE  /\ s \in Space /\ \A t \in Space : t >= next_space => t # s
         /\ pte' \in Table /\ ref' \in Counts /\ Backed(pte', ref')
         /\ \A u \in V : pte'[s][u] = NotPresent
         /\ \A t \in Space, u \in Va : ~(t = s /\ u \in V) => pte'[t][u] = pte[t][u]
<1>1. TypeOK /\ Backed(pte, ref) /\ AliveBorn  BY DEF SpaceIInv
<1>2. s \in Space /\ \A t \in Space : t >= next_space => t # s  BY <1>1 DEF TypeOK, AliveBorn, Space
<1>3. pte \in Table /\ ref \in Counts /\ NotPresent \in Pte  BY <1>1, TypeOfTables
<1>4. /\ ref' \in Counts
      /\ \A g \in Frame : ref'[g] >= ref[g] - Cardinality(PagesOf(pte, s, V, g))
  BY <1>2, FreedCounts DEF Unmap
<1>5. pte' = [pte EXCEPT ![s] = [u \in Va |-> IF u \in V THEN NotPresent ELSE pte[s][u]]]  BY DEF Unmap
<1>6. pte' \in Table  BY <1>2, <1>3, <1>5 DEF Table
<1>7. \A t \in Space, u \in Va :
         pte'[t][u] = IF t = s /\ u \in V THEN NotPresent ELSE pte[t][u]
  BY <1>2, <1>3, <1>5 DEF Table
<1>8. Unmapped(pte, pte', ref, ref', s, V)  BY <1>1, <1>2, <1>3, <1>4, <1>6, <1>7 DEF Unmapped
<1> QED BY <1>2, <1>4, <1>6, <1>7, <1>8, UnmapKeeps

\* sys_munmap() and sys_brk() one page down.
LEMMA MunmapKeeps ==
  ASSUME SpaceIInv, NEW s \in Space, NEW v \in Va, Munmap(s, v) \/ BrkShrink(s)
  PROVE  SpaceIInv'
<1>0. TypeOK /\ FutureEmpty /\ AliveBorn  BY DEF SpaceIInv
<1>1. PICK V \in SUBSET Va : Unmap(s, V)
  <2>1. CASE Munmap(s, v)  BY <2>1 DEF Munmap
  <2>2. CASE BrkShrink(s)
    <3>1. brk[s] \in Va  BY <1>0, AddressSpaceAssumption DEF TypeOK, Va
    <3> QED BY <2>2, <3>1 DEF BrkShrink
  <2> QED BY <2>1, <2>2
<1>2. s \in alive /\ UNCHANGED <<alive, next_space, content, regions>>  BY DEF Munmap, BrkShrink, Calls
<1>3. /\ \A t \in Space : t >= next_space => t # s
      /\ pte' \in Table /\ ref' \in Counts /\ Backed(pte', ref')
      /\ \A t \in Space, u \in Va : ~(t = s /\ u \in V) => pte'[t][u] = pte[t][u]
  BY <1>1, <1>2, UnmapBacks
<1>4. vma' \in [Space -> [Va -> {"none", "ro", "rw"}]] /\ brk' \in [Space -> 0 .. Heap]
  <2>1. CASE Munmap(s, v)  BY <1>0, <2>1 DEF TypeOK, Munmap
  <2>2. CASE BrkShrink(s)  BY <1>0, <2>2, AddressSpaceAssumption DEF TypeOK, BrkShrink
  <2> QED BY <2>1, <2>2
<1>5. TypeOK'  BY <1>0, <1>2, <1>3, <1>4 DEF TypeOK, Table, Counts, Pte
<1>6. FutureEmpty' /\ AliveBorn'  BY <1>0, <1>2, <1>3 DEF FutureEmpty, AliveBorn
<1> QED BY <1>3, <1>5, <1>6 DEF SpaceIInv

\* One more entry in the region table of s keeps every table within its
\* bound.
LEMMA RegionsGrow ==
  ASSUME TypeOK, NEW s \in Space, NEW v \in Va,
         regions' = [regions EXCEPT ![s] = WithRegion(@, v)]
  PROVE  /\ regions' \in [Space -> [Va -> 0 .. MaxRegions]]
         /\ \A t \in Space : Entries(regions'[t]) <= MaxRegions
         /\ regions'[s] = WithRegion(regions[s], v)
         /\ \A t \in Space : t # s => regions'[t] = regions[t]
<1>1. /\ regions[s] \in [Va -> 0 .. MaxRegions] /\ Entries(regions[s]) <= MaxRegions
      /\ regions \in [Space -> [Va -> 0 .. MaxRegions]]
      /\ \A t \in Space : Entries(regions[t]) <= MaxRegions
  BY DEF TypeOK
<1>2. PICK new : new = WithRegion(regions[s], v)  OBVIOUS
<1>3. new \in [Va -> 0 .. MaxRegions] /\ Entries(new) <= MaxRegions  BY <1>1, <1>2, RegionAdded
<1>4. regions' = [regions EXCEPT ![s] = new]  BY <1>1, <1>2
<1>5. regions'[s] = new /\ \A t \in Space : t # s => regions'[t] = regions[t]  BY <1>1, <1>4
<1>6. regions' \in [Space -> [Va -> 0 .. MaxRegions]]  BY <1>1, <1>3, <1>4
<1>7. \A t \in Space : Entries(regions'[t]) <= MaxRegions  BY <1>1, <1>3, <1>5
<1> QED BY <1>2, <1>5, <1>6, <1>7

\* sys_mmap(): an area and a region, no page yet.
LEMMA MmapKeeps ==
  ASSUME SpaceIInv, NEW s \in Space, NEW v \in Va, NEW prot \in {"ro", "rw"}, Mmap(s, v, prot)
  PROVE  SpaceIInv'
<1>1. TypeOK /\ Backed(pte, ref) /\ FutureEmpty /\ AliveBorn  BY DEF SpaceIInv
<1>2. /\ vma' = [vma EXCEPT ![s][v] = prot]
      /\ regions' = [regions EXCEPT ![s] = WithRegion(@, v)]
      /\ UNCHANGED <<alive, next_space, pte, ref, content, brk>>
  BY DEF Mmap
<1>3. /\ regions' \in [Space -> [Va -> 0 .. MaxRegions]]
      /\ \A t \in Space : Entries(regions'[t]) <= MaxRegions
  BY <1>1, <1>2, RegionsGrow
<1>4. vma' \in [Space -> [Va -> {"none", "ro", "rw"}]]  BY <1>1, <1>2 DEF TypeOK
<1>5. TypeOK'  BY <1>1, <1>2, <1>3, <1>4 DEF TypeOK
<1>6. Backed(pte', ref') /\ FutureEmpty' /\ AliveBorn'  BY <1>1, <1>2 DEF FutureEmpty, AliveBorn
<1> QED BY <1>5, <1>6 DEF SpaceIInv

\* sys_brk() one page up.
LEMMA BrkGrowKeeps ==
  ASSUME SpaceIInv, NEW s \in Space, BrkGrow(s)
  PROVE  SpaceIInv'
<1> DEFINE v == brk[s] + 1
<1>1. TypeOK /\ Backed(pte, ref) /\ FutureEmpty /\ AliveBorn  BY DEF SpaceIInv
<1>2. /\ s \in alive /\ v \in HeapVa /\ v \in Va /\ v \in 0 .. Heap
      /\ brk' = [brk EXCEPT ![s] = v] /\ UNCHANGED <<alive, next_space, vma>>
  <2>1. v \in HeapVa /\ s \in alive  BY DEF BrkGrow, Calls
  <2>2. v \in Va /\ v \in 0 .. Heap  BY <2>1, AddressSpaceAssumption DEF HeapVa, Va
  <2> QED BY <2>1, <2>2 DEF BrkGrow
<1>3. brk' \in [Space -> 0 .. Heap]  BY <1>1, <1>2 DEF TypeOK
<1>4. CASE UNCHANGED <<pte, ref, content, regions>>
  <2>1. TypeOK'  BY <1>1, <1>2, <1>3, <1>4 DEF TypeOK
  <2>2. Backed(pte', ref') /\ FutureEmpty' /\ AliveBorn'  BY <1>1, <1>2, <1>4 DEF FutureEmpty, AliveBorn
  <2> QED BY <2>1, <2>2 DEF SpaceIInv
<1>5. CASE /\ ~Mapped(s, v)
           /\ pte' = [pte EXCEPT ![s][v] = [frame |-> Fresh, rw |-> TRUE, cow |-> FALSE]]
           /\ ref' = [ref EXCEPT ![Fresh] = 1]
           /\ content' = [content EXCEPT ![Fresh] = 0]
           /\ regions' = [regions EXCEPT ![s] = WithRegion(@, v)]
  <2>1. FreeFrames # {} /\ ref \in Counts  BY <1>1, <1>5, TypeOfTables DEF BrkGrow
  <2>2. GetsFresh(s, v, TRUE, ref)  BY <1>5, <2>1 DEF GetsFresh
  <2> HIDE DEF v
  <2>3. /\ Fresh \in Frame /\ \A t \in Space : t >= next_space => t # s
        /\ pte' \in Table /\ ref' \in Counts /\ Backed(pte', ref')
        /\ \A t \in Space, u \in Va : ~(t = s /\ u = v) => pte'[t][u] = pte[t][u]
    BY <1>2, <2>2, FreshBacks
  <2>4. /\ regions' \in [Space -> [Va -> 0 .. MaxRegions]]
        /\ \A t \in Space : Entries(regions'[t]) <= MaxRegions
    BY <1>1, <1>2, <1>5, RegionsGrow
  <2>5. content' \in [Frame -> Value]  BY <1>1, <1>5, <2>3, AddressSpaceAssumption DEF TypeOK
  <2>6. TypeOK'  BY <1>1, <1>2, <1>3, <2>3, <2>4, <2>5 DEF TypeOK, Table, Counts, Pte
  <2>7. FutureEmpty' /\ AliveBorn'  BY <1>1, <1>2, <2>3 DEF FutureEmpty, AliveBorn
  <2> QED BY <2>3, <2>6, <2>7 DEF SpaceIInv
<1> QED BY <1>4, <1>5 DEF BrkGrow

\* exec_flat(): the old program is unmapped, and the stack gets a fresh
\* frame, which may be one that was just given back.
LEMMA ExecKeeps ==
  ASSUME SpaceIInv, NEW s \in Space, Exec(s)
  PROVE  SpaceIInv'
<1> DEFINE V    == {v \in Va \ {Stack} : vma[s][v] # "none" \/ regions[s][v] > 0}
           free == {g \in Frame : Freed(s, V)[g] = 0}
           f    == Min(free)
           left == [v \in Va |-> IF v \in V THEN NotPresent ELSE pte[s][v]]
<1>0. TypeOK /\ Backed(pte, ref) /\ FutureEmpty /\ AliveBorn  BY DEF SpaceIInv
<1>1. /\ s \in alive /\ UNCHANGED <<alive, next_space, brk>>
      /\ regions' = [regions EXCEPT ![s] = [v \in Va |-> IF v = Stack THEN regions[s][v] ELSE 0]]
      /\ vma' = [vma EXCEPT ![s] = [v \in Va |-> "none"]]
  BY DEF Exec, Calls
<1>3. \/ free = {} /\ Unmap(s, V) /\ UNCHANGED content
      \/ /\ free # {}
         /\ pte' = [pte EXCEPT ![s] = [left EXCEPT ![Stack] = [frame |-> f, rw |-> TRUE, cow |-> FALSE]]]
         /\ ref' = [Freed(s, V \cup {Stack}) EXCEPT ![f] = 1]
         /\ content' = [content EXCEPT ![f] = 0]
  BY DEF Exec
<1>4. V \in SUBSET Va /\ Stack \in Va /\ V \cup {Stack} \in SUBSET Va /\ Stack \notin V
  BY AddressSpaceAssumption DEF Va, Stack
<1> HIDE DEF V
<1>5. /\ pte' \in Table /\ ref' \in Counts /\ Backed(pte', ref') /\ content' \in [Frame -> Value]
      /\ s \in Space /\ \A t \in Space : t >= next_space => t # s
      /\ \A t \in Space, u \in Va : t # s => pte'[t][u] = pte[t][u]
  <2>1. CASE free = {} /\ Unmap(s, V) /\ UNCHANGED content  BY <1>0, <1>1, <1>4, <2>1, UnmapBacks DEF TypeOK
  <2>2. CASE /\ free # {}
             /\ pte' = [pte EXCEPT ![s] = [left EXCEPT ![Stack] =
                                             [frame |-> f, rw |-> TRUE, cow |-> FALSE]]]
             /\ ref' = [Freed(s, V \cup {Stack}) EXCEPT ![f] = 1]
             /\ content' = [content EXCEPT ![f] = 0]
    <3> DEFINE r == [frame |-> f, rw |-> TRUE, cow |-> FALSE]
    <3>1. f \in Frame /\ Freed(s, V)[f] = 0
      <4>1. free \subseteq Nat  BY DEF Frame
      <4> QED BY <2>2, <4>1, LeastFrame
    <3> HIDE DEF f
    <3>2. /\ s \in Space /\ \A t \in Space : t >= next_space => t # s
          /\ pte \in Table /\ ref \in Counts /\ NotPresent \in Pte /\ r \in Pte
      BY <1>0, <1>1, <3>1, TypeOfTables DEF TypeOK, AliveBorn, Space, Pte
    <3>3. pte' = [pte EXCEPT ![s] = [left EXCEPT ![Stack] = r]]  BY <2>2
    <3> HIDE DEF r
    <3>4. left \in [Va -> Pte] /\ \A u \in V : left[u] = NotPresent  BY <1>4, <3>2 DEF Table
    <3>5. /\ pte' \in Table /\ pte'[s][Stack] = r
          /\ \A u \in V : pte'[s][u] = NotPresent
          /\ \A t \in Space, u \in Va : ~(t = s /\ u \in V \cup {Stack}) => pte'[t][u] = pte[t][u]
      <4>1. pte' \in Table /\ pte'[s] = [left EXCEPT ![Stack] = r]  BY <3>2, <3>3, <3>4 DEF Table
      <4>2. pte'[s][Stack] = r  BY <1>4, <3>4, <4>1
      <4>3. \A u \in V : pte'[s][u] = NotPresent  BY <1>4, <3>4, <4>1
      <4>4. \A u \in Va : u \notin V \cup {Stack} => pte'[s][u] = pte[s][u]  BY <1>4, <3>4, <4>1
      <4>5. \A t \in Space : t # s => pte'[t] = pte[t]  BY <3>2, <3>3 DEF Table
      <4> QED BY <4>1, <4>2, <4>3, <4>4, <4>5
    <3>6. Freed(s, V \cup {Stack}) \in Counts
          /\ \A g \in Frame : Freed(s, V \cup {Stack})[g] >=
                                 ref[g] - Cardinality(PagesOf(pte, s, V \cup {Stack}, g))
      BY <1>4, <3>2, FreedCounts
    <3>7. /\ ref' \in Counts /\ ref'[f] = 1
          /\ \A g \in Frame : g # f => ref'[g] = Freed(s, V \cup {Stack})[g]
      BY <2>2, <3>1, <3>6 DEF Counts
    <3>8. MapsTo(pte, f) \subseteq {s} \X (V \cup {Stack})
      <4>1. MapsTo(pte, f) \subseteq {s} \X V  BY <1>4, <3>1, <3>2, FreedCounts
      <4>2. {s} \X V \subseteq {s} \X (V \cup {Stack})  OBVIOUS
      <4> QED BY <4>1, <4>2
    <3>9. /\ \A u \in (V \cup {Stack}) \ {Stack} : pte'[s][u] = NotPresent
          /\ ref'[f] >= 1
          /\ \A g \in Frame : g # f =>
               ref'[g] >= ref[g] - Cardinality(PagesOf(pte, s, V \cup {Stack}, g))
      <4>1. \A u \in (V \cup {Stack}) \ {Stack} : pte'[s][u] = NotPresent  BY <3>5
      <4>2. ref'[f] >= 1  BY <3>7
      <4>3. ASSUME NEW g \in Frame, g # f
            PROVE  ref'[g] >= ref[g] - Cardinality(PagesOf(pte, s, V \cup {Stack}, g))
        <5>1. ref'[g] = Freed(s, V \cup {Stack})[g]  BY <3>7, <4>3
        <5>2. Freed(s, V \cup {Stack})[g] >= ref[g] - Cardinality(PagesOf(pte, s, V \cup {Stack}, g))  BY <3>6
        <5> QED BY <5>1, <5>2
      <4> QED BY <4>1, <4>2, <4>3
    <3>10. /\ V \cup {Stack} \subseteq Va /\ Stack \in V \cup {Stack}
           /\ pte'[s][Stack] = [frame |-> f, rw |-> TRUE, cow |-> FALSE]
      BY <1>4, <3>5 DEF r
    <3>11. Remapped(pte, pte', ref, ref', s, V \cup {Stack}, Stack, f, TRUE)
      BY <1>0, <3>1, <3>2, <3>5, <3>7, <3>8, <3>9, <3>10 DEF Remapped
    <3>12. content' \in [Frame -> Value]  BY <1>0, <2>2, <3>1, AddressSpaceAssumption DEF TypeOK
    <3>13. Backed(pte', ref')  BY <3>11, Remap
    <3> QED BY <3>2, <3>5, <3>7, <3>12, <3>13
  <2> QED BY <1>3, <2>1, <2>2
<1>6. /\ regions' \in [Space -> [Va -> 0 .. MaxRegions]]
      /\ \A t \in Space : Entries(regions'[t]) <= MaxRegions
  <2> DEFINE new == [v \in Va |-> IF v = Stack THEN regions[s][v] ELSE 0]
  <2>1. /\ regions \in [Space -> [Va -> 0 .. MaxRegions]] /\ regions[s] \in [Va -> 0 .. MaxRegions]
        /\ \A t \in Space : Entries(regions[t]) <= MaxRegions
    BY <1>0 DEF TypeOK
  <2>2. new \in [Va -> 0 .. MaxRegions] /\ \A u \in Va : new[u] <= regions[s][u]
    BY <2>1, AddressSpaceAssumption
  <2>3. regions' = [regions EXCEPT ![s] = new]  BY <1>1
  <2> HIDE DEF new
  <2>4. Entries(new) <= MaxRegions  BY <2>1, <2>2, RegionsDropped
  <2> QED BY <2>1, <2>2, <2>3, <2>4
<1>7. vma' \in [Space -> [Va -> {"none", "ro", "rw"}]]  BY <1>0, <1>1 DEF TypeOK
<1>8. TypeOK'  BY <1>0, <1>1, <1>5, <1>6, <1>7 DEF TypeOK, Table, Counts, Pte
<1>9. FutureEmpty' /\ AliveBorn'  BY <1>0, <1>1, <1>5 DEF FutureEmpty, AliveBorn
<1> QED BY <1>5, <1>8, <1>9 DEF SpaceIInv

\* fork_task(): every page of the parent that lies in a region is shared.
LEMMA ForkTaskKeeps ==
  ASSUME SpaceIInv, NEW s \in Space, Fork(s)
  PROVE  SpaceIInv'
<1> DEFINE cow(v) == [frame |-> pte[s][v].frame, rw |-> FALSE, cow |-> TRUE]
           n == next_space
           W == Shared(s)
           mine == [v \in Va |-> IF v \in W THEN cow(v) ELSE pte[s][v]]
           its == [v \in Va |-> IF v \in W THEN cow(v) ELSE NotPresent]
<1>0. TypeOK /\ Backed(pte, ref) /\ FutureEmpty /\ AliveBorn  BY DEF SpaceIInv
<1>1. /\ s \in alive /\ n <= MaxSpace /\ FreeFrames # {}
      /\ pte' = [pte EXCEPT ![s] = mine, ![n] = its]
      /\ ref' = [f \in Frame |-> IF f = Fresh THEN 1
                   ELSE ref[f] + Cardinality({e \in RegionEntries(regions[s]) :
                                                 e[1] \in W /\ pte[s][e[1]].frame = f})]
      /\ regions' = [regions EXCEPT ![n] = regions[s]]
      /\ vma' = [vma EXCEPT ![n] = vma[s]]
      /\ brk' = [brk EXCEPT ![n] = brk[s]]
      /\ alive' = alive \cup {n} /\ next_space' = n + 1 /\ content' = content
  BY DEF Fork, Calls
<1>2. /\ n \in Space /\ n \in Nat /\ s < n /\ n # s /\ n + 1 \in 2 .. MaxSpace + 1 /\ MaxSpace \in Nat
      /\ pte \in Table /\ ref \in Counts /\ NotPresent \in Pte
      /\ Fresh \in Frame /\ ref[Fresh] = 0
  <2>1. /\ n \in Space /\ n \in Nat /\ s < n /\ n # s /\ n + 1 \in 2 .. MaxSpace + 1
        /\ MaxSpace \in Nat
    BY <1>0, <1>1, AddressSpaceAssumption DEF TypeOK, AliveBorn, Space
  <2>2. pte \in Table /\ ref \in Counts /\ NotPresent \in Pte  BY <1>0, TypeOfTables
  <2>3. Fresh \in Frame /\ ref[Fresh] = 0  BY <1>1, FreshIsFree
  <2> QED BY <2>1, <2>2, <2>3
<1>3. /\ W \subseteq Va
      /\ \A u \in W : /\ regions[s][u] > 0 /\ regions[s][u] \in Nat
                      /\ pte[s][u].frame # 0 /\ pte[s][u].frame \in Frame /\ cow(u) \in Pte
  BY <1>0, TypeOfTables, AddressSpaceAssumption DEF Shared, Mapped, TypeOK, Pte
<1> HIDE DEF W
<1>4. mine \in [Va -> Pte] /\ its \in [Va -> Pte]  BY <1>2, <1>3 DEF Table
<1>5. /\ pte' \in Table /\ pte'[s] = mine /\ pte'[n] = its
      /\ \A t \in Space \ {s, n} : pte'[t] = pte[t]
  <2> HIDE DEF mine, its, n
  <2> QED BY <1>1, <1>2, <1>4 DEF Table
<1>6. /\ \A u \in W : pte'[s][u] = cow(u) /\ pte'[n][u] = cow(u)
      /\ \A u \in Va \ W : pte'[s][u] = pte[s][u] /\ pte'[n][u] = NotPresent
  BY <1>3, <1>5
<1>7. \A u \in Va : pte[n][u] = NotPresent  BY <1>0, <1>2 DEF FutureEmpty
<1>8. /\ ref' \in Counts
      /\ \A g \in Frame : g # Fresh =>
           ref'[g] = ref[g] + Cardinality({e \in RegionEntries(regions[s]) :
                                              e[1] \in W /\ pte[s][e[1]].frame = g})
  <2>1. ASSUME NEW g \in Frame
        PROVE  Cardinality({e \in RegionEntries(regions[s]) :
                               e[1] \in W /\ pte[s][e[1]].frame = g}) \in Nat
    BY EntriesFinite, FS_Subset, FS_CardinalityType
  <2>2. \A g \in Frame : ref'[g] \in Nat  BY <1>1, <1>2, <2>1 DEF Counts
  <2> QED BY <1>1, <2>2 DEF Counts
<1>9. ForkedTables(pte, pte', ref, ref', s, n, W, Fresh, regions[s])
  BY <1>0, <1>2, <1>3, <1>5, <1>6, <1>7, <1>8 DEF ForkedTables
<1>10. Backed(pte', ref')  BY <1>9, ForkKeeps
<1>11. TypeOK'
  <2>1. /\ regions' \in [Space -> [Va -> 0 .. MaxRegions]]
        /\ \A t \in Space : Entries(regions'[t]) <= MaxRegions
        /\ vma' \in [Space -> [Va -> {"none", "ro", "rw"}]] /\ brk' \in [Space -> 0 .. Heap]
    BY <1>0, <1>1, <1>2 DEF TypeOK
  <2>2. alive' \subseteq Space /\ next_space' \in 2 .. MaxSpace + 1  BY <1>0, <1>1, <1>2 DEF TypeOK
  <2> QED BY <1>0, <1>1, <1>5, <1>8, <2>1, <2>2 DEF TypeOK, Table, Counts, Pte
<1>12. FutureEmpty' /\ AliveBorn'
  <2>1. \A t \in Space : t >= n + 1 => t \notin {s, n} /\ t >= n  BY <1>2 DEF Space
  <2>2. FutureEmpty'
    <3>1. next_space' = n + 1  BY <1>1
    <3>2. \A t \in Space : t >= n + 1 => \A u \in Va : pte'[t][u] = NotPresent
      BY <1>0, <1>5, <2>1 DEF FutureEmpty
    <3> QED BY <3>1, <3>2 DEF FutureEmpty
  <2>3. AliveBorn'
    <3>1. alive' = alive \cup {n} /\ next_space' = n + 1  BY <1>1
    <3>2. alive \subseteq Space /\ (\A t \in alive : t < n)  BY <1>0 DEF AliveBorn, TypeOK
    <3>3. ASSUME NEW t \in alive' PROVE t < n + 1
      <4>1. CASE t = n  BY <1>2, <4>1
      <4>2. CASE t \in alive  BY <1>2, <3>2, <4>2 DEF Space
      <4> QED BY <3>1, <3>3, <4>1, <4>2
    <3> QED BY <3>1, <3>3 DEF AliveBorn
  <2> QED BY <2>2, <2>3
<1> QED BY <1>10, <1>11, <1>12 DEF SpaceIInv

\* user_launch(): the stack of the first process has the only frame that
\* is mapped; frame 1 is its page directory.
LEMMA LaunchSound ==
  ASSUME Init
  PROVE  SpaceIInv
<1> DEFINE r == [frame |-> 2, rw |-> TRUE, cow |-> FALSE]
<1>0. /\ 1 \in Space /\ 1 \in Frame /\ 2 \in Frame /\ 0 \notin Frame /\ Stack \in Va
      /\ MaxSpace \in Nat /\ MaxSpace >= 1 /\ MaxRegions \in Nat /\ MaxRegions >= 1
      /\ Heap \in Nat /\ 0 \in Value /\ Stack = 0
      /\ r \in Pte /\ NotPresent \in Pte /\ NotPresent.frame = 0 /\ ~NotPresent.rw
      /\ r.frame = 2
  BY AddressSpaceAssumption DEF Space, Frame, Stack, Va, Pte, NotPresent
<1>1. /\ alive = {1} /\ next_space = 2
      /\ pte = [s \in Space |-> [v \in Va |-> IF s = 1 /\ v = Stack THEN r ELSE NotPresent]]
      /\ ref = [f \in Frame |-> IF f <= 2 THEN 1 ELSE 0]
      /\ content = [f \in Frame |-> 0]
      /\ regions = [s \in Space |-> [v \in Va |-> IF s = 1 /\ v = Stack THEN 1 ELSE 0]]
      /\ vma = [s \in Space |-> [v \in Va |-> "none"]]
      /\ brk = [s \in Space |-> 0]
  BY DEF Init
<1> HIDE DEF r
<1>2. pte \in Table /\ ref \in Counts  BY <1>0, <1>1 DEF Table, Counts
<1>3. \A t \in Space, u \in Va : pte[t][u] = IF t = 1 /\ u = Stack THEN r ELSE NotPresent  BY <1>1
<1>4. TypeOK
  <2>1. ASSUME NEW s \in Space PROVE Entries(regions[s]) <= MaxRegions
    <3>1. RegionEntries(regions[s]) \subseteq {<<Stack, 1>>}
      <4> SUFFICES ASSUME NEW e \in RegionEntries(regions[s]) PROVE e = <<Stack, 1>>  OBVIOUS
      <4>1. PICK v \in Va, k \in 1 .. MaxRegions : e = <<v, k>> /\ k <= regions[s][v]  BY DEF RegionEntries
      <4>2. regions[s][v] = IF s = 1 /\ v = Stack THEN 1 ELSE 0  BY <1>1
      <4>3. v = Stack /\ k = 1  BY <1>0, <4>1, <4>2
      <4> QED BY <4>1, <4>3
    <3>2. IsFiniteSet({<<Stack, 1>>}) /\ Cardinality({<<Stack, 1>>}) = 1  BY FS_Singleton
    <3>3. Cardinality(RegionEntries(regions[s])) <= 1  BY <3>1, <3>2, FS_Subset
    <3> QED BY <1>0, <3>3, EntriesFinite DEF Entries
  <2>2. regions \in [Space -> [Va -> 0 .. MaxRegions]]  BY <1>0, <1>1
  <2>3. /\ content \in [Frame -> Value] /\ vma \in [Space -> [Va -> {"none", "ro", "rw"}]]
        /\ brk \in [Space -> 0 .. Heap] /\ alive \subseteq Space /\ next_space \in 2 .. MaxSpace + 1
    BY <1>0, <1>1
  <2> QED BY <1>2, <2>1, <2>2, <2>3 DEF TypeOK, Table, Counts, Pte
<1>5. \A g \in Frame : MapsTo(pte, g) = IF g = 2 THEN {<<1, Stack>>} ELSE {}
  <2> TAKE g \in Frame
  <2>1. ASSUME NEW m \in Space \X Va
        PROVE  pte[m[1]][m[2]].frame = g <=> g = 2 /\ m = <<1, Stack>>
    <3>1. PICK t \in Space, u \in Va : m = <<t, u>>  OBVIOUS
    <3>2. pte[t][u].frame = g <=> g = 2 /\ t = 1 /\ u = Stack  BY <1>0, <1>3
    <3> QED BY <3>1, <3>2
  <2>2. <<1, Stack>> \in Space \X Va  BY <1>0
  <2> QED BY <2>1, <2>2 DEF MapsTo
<1>6. Backed(pte, ref)
  <2>1. Cardinality({<<1, Stack>>}) = 1 /\ Cardinality({}) = 0  BY FS_Singleton, FS_EmptySet
  <2>2. ASSUME NEW g \in Frame PROVE ref[g] >= Cardinality(MapsTo(pte, g))
    <3>1. ref[g] = IF g <= 2 THEN 1 ELSE 0  BY <1>1
    <3>2. g = 2 => ref[g] = 1  BY <3>1
    <3>3. ref[g] \in Nat  BY <1>2 DEF Counts
    <3>4. Cardinality(MapsTo(pte, g)) = IF g = 2 THEN 1 ELSE 0  BY <1>5, <2>1
    <3> QED BY <3>2, <3>3, <3>4
  <2>3. ASSUME NEW t \in Space, NEW u \in Va, pte[t][u].rw
        PROVE  pte[t][u].frame # 0 /\ MapsTo(pte, pte[t][u].frame) = {<<t, u>>}
    <3>1. t = 1 /\ u = Stack /\ pte[t][u] = r  BY <1>0, <1>3, <2>3
    <3> QED BY <1>0, <1>5, <3>1
  <2> QED BY <2>2, <2>3 DEF Backed
<1>7. FutureEmpty  BY <1>0, <1>1, <1>3 DEF FutureEmpty
<1>8. AliveBorn  BY <1>1 DEF AliveBorn
<1> QED BY <1>4, <1>6, <1>7, <1>8 DEF SpaceIInv

\* Every call and every fault keeps the invariant.
LEMMA MemoryStaysSound ==
  ASSUME SpaceIInv, [Next]_vars
  PROVE  SpaceIInv'
<1>1. CASE UNCHANGED vars
  <2>1. /\ alive' \subseteq alive /\ content' \in [Frame -> Value]
        /\ UNCHANGED <<next_space, pte, ref, regions, vma, brk>>
    BY <1>1 DEF vars, SpaceIInv, TypeOK
  <2> QED BY <2>1, StillMemory
<1>2. ASSUME NEW s \in Space, Fork(s) PROVE SpaceIInv'  BY <1>2, ForkTaskKeeps
<1>3. ASSUME NEW s \in Space, Exec(s) PROVE SpaceIInv'  BY <1>3, ExecKeeps
<1>4. ASSUME NEW s \in Space, Exit(s) PROVE SpaceIInv'  BY <1>4, DiesKeeps DEF Exit
<1>5. ASSUME NEW s \in Space, BrkGrow(s) PROVE SpaceIInv'  BY <1>5, BrkGrowKeeps
<1>6. ASSUME NEW s \in Space, BrkShrink(s) PROVE SpaceIInv'
  <2>1. Stack \in Va  BY AddressSpaceAssumption DEF Stack, Va
  <2> QED BY <1>6, <2>1, MunmapKeeps
<1>7. ASSUME NEW s \in Space, NEW v \in Va, CowFault(s, v) PROVE SpaceIInv'  BY <1>7, CowFaultKeeps
<1>8. ASSUME NEW s \in Space, NEW v \in Va, WriteDenied(s, v) PROVE SpaceIInv'
  BY <1>8, DiesKeeps DEF WriteDenied
<1>9. ASSUME NEW s \in Space, NEW v \in Va, NEW x \in Value, CloneStack(s, v, x)
      PROVE  SpaceIInv'
  BY <1>9, CloneStackKeeps
<1>10. ASSUME NEW s \in Space, NEW v \in Va, Munmap(s, v) PROVE SpaceIInv'  BY <1>10, MunmapKeeps
<1>11. ASSUME NEW s \in Space, NEW v \in Va, NEW write \in BOOLEAN, DemandFault(s, v, write)
       PROVE SpaceIInv'
  BY <1>11, DemandFaultKeeps
<1>12. ASSUME NEW s \in Space, NEW v \in Va, NEW prot \in {"ro", "rw"}, Mmap(s, v, prot)
       PROVE SpaceIInv'
  BY <1>12, MmapKeeps
<1>13. ASSUME NEW s \in Space, NEW v \in Va, NEW x \in Value, Write(s, v, x) \/ KernelWrite(s, v, x)
       PROVE SpaceIInv'
  BY <1>13, WriteKeeps
<1> QED BY <1>1, <1>2, <1>3, <1>4, <1>5, <1>6, <1>7, <1>8, <1>9, <1>10, <1>11, <1>12, <1>13 DEF Next

\* Pages are backed by frames that are theirs: none was given back
\* (pmm_free_frame), and none that can be written without a fault is
\* shared, whatever the order of forks, faults, execs and unmappings.
THEOREM PagesAreSound == Spec => []PagesSound
<1>1. Init => SpaceIInv  BY LaunchSound
<1>2. SpaceIInv /\ [Next]_vars => SpaceIInv'  BY MemoryStaysSound
<1>3. SpaceIInv => PagesSound  BY BackedIsSound DEF SpaceIInv
<1> QED BY <1>1, <1>2, <1>3, PTL DEF Spec

------------------------------

\* Programs whose buffers lie in pages they may write, whose thread stacks
\* lie in regions, and whose region tables never overflow.
OrderlyPrograms ==
    "readonly" \notin MemOps /\ "stray" \notin MemOps /\ RegionCalls <= MaxRegions

\* What fork_task() relies on: every page that is mapped, or that a fault
\* would map, lies in a region.
RegionCover ==
    \A s \in Space, v \in Va :
        Mapped(s, v) \/ vma[s][v] # "none" \/ (v = Stack /\ s < next_space) => regions[s][v] > 0

\* A page that gets a frame and lies in a region breaks no cover.
LEMMA CoverOnePage ==
  ASSUME RegionCover, SpaceIInv, NEW s \in Space, NEW v \in Va, NEW r,
         pte' = [pte EXCEPT ![s][v] = r],
         regions[s][v] > 0, UNCHANGED <<regions, vma, next_space>>
  PROVE  RegionCover'
<1>1. \A t \in Space, u \in Va : ~(t = s /\ u = v) => pte'[t][u] = pte[t][u]
  BY TypeOfTables DEF SpaceIInv, Table
<1> QED BY <1>1 DEF RegionCover, Mapped

\* In a table that has room, task_add_region() adds an entry.
LEMMA RegionHasRoom ==
  ASSUME OrderlyPrograms, TypeOK, NEW s \in Space, NEW v \in Va, Entries(regions[s]) < RegionCalls
  PROVE  /\ WithRegion(regions[s], v)[v] > 0
         /\ \A u \in Va : WithRegion(regions[s], v)[u] >= regions[s][u]
<1>1. /\ regions[s] \in [Va -> 0 .. MaxRegions] /\ Entries(regions[s]) <= MaxRegions
      /\ regions[s][v] \in Nat
  BY AddressSpaceAssumption DEF TypeOK
<1>2. ~(Entries(regions[s]) >= MaxRegions)  BY EntriesFinite, AddressSpaceAssumption DEF OrderlyPrograms
<1>3. WithRegion(regions[s], v) = [regions[s] EXCEPT ![v] = @ + 1]  BY <1>2 DEF WithRegion
<1>4. WithRegion(regions[s], v)[v] = regions[s][v] + 1  BY <1>1, <1>3
<1> QED BY <1>1, <1>4, RegionAdded

\* Every call keeps the cover.
LEMMA CoverKept ==
  ASSUME OrderlyPrograms, SpaceIInv, RegionCover, Next
  PROVE  RegionCover'
<1>0. TypeOK /\ AliveBorn /\ pte \in Table /\ NotPresent.frame = 0  BY TypeOfTables DEF SpaceIInv
<1>1. ASSUME NEW s, Dies(s) PROVE RegionCover'  BY <1>1 DEF Dies, RegionCover, Mapped
<1>2. ASSUME NEW s \in Space, Fork(s) PROVE RegionCover'
  <2> DEFINE n == next_space
             its == [v \in Va |-> IF v \in Shared(s)
                                  THEN [frame |-> pte[s][v].frame, rw |-> FALSE, cow |-> TRUE]
                                  ELSE NotPresent]
             mine == [v \in Va |-> IF v \in Shared(s)
                                   THEN [frame |-> pte[s][v].frame, rw |-> FALSE, cow |-> TRUE]
                                   ELSE pte[s][v]]
  <2>1. /\ s \in alive /\ n <= MaxSpace /\ next_space' = n + 1
        /\ pte' = [pte EXCEPT ![s] = mine, ![n] = its]
        /\ regions' = [regions EXCEPT ![n] = regions[s]]
        /\ vma' = [vma EXCEPT ![n] = vma[s]]
    BY <1>2 DEF Fork, Calls
  <2>2. n \in Space /\ n \in Nat /\ s < n /\ n # s
    BY <1>0, <2>1, AddressSpaceAssumption DEF TypeOK, AliveBorn, Space
  <2> HIDE DEF n
  <2>3. /\ \A v \in Va : (mine[v].frame # 0 => pte[s][v].frame # 0)
        /\ \A v \in Va : (its[v].frame # 0 => regions[s][v] > 0)
    BY <1>0 DEF Shared
  <2> HIDE DEF mine, its
  <2>4. /\ pte'[s] = mine /\ pte'[n] = its /\ \A t \in Space : t \notin {s, n} => pte'[t] = pte[t]
        /\ regions'[n] = regions[s] /\ \A t \in Space : t # n => regions'[t] = regions[t]
        /\ vma'[n] = vma[s] /\ \A t \in Space : t # n => vma'[t] = vma[t]
    BY <1>0, <2>1, <2>2 DEF TypeOK, Table
  <2>5. ASSUME NEW t \in Space, t < n + 1, t # n PROVE t < n  BY <2>2, <2>5 DEF Space
  <2>6. ASSUME NEW t \in Space, NEW v \in Va,
               pte'[t][v].frame # 0 \/ vma'[t][v] # "none" \/ (v = Stack /\ t < n + 1)
        PROVE  regions'[t][v] > 0
    <3>1. CASE t = n  BY <2>2, <2>3, <2>4, <2>6, <3>1 DEF RegionCover, n
    <3>2. CASE t # n  BY <2>3, <2>4, <2>5, <2>6, <3>2 DEF RegionCover, Mapped, n
    <3> QED BY <3>1, <3>2
  <2> QED BY <2>1, <2>6 DEF RegionCover, Mapped
<1>3. ASSUME NEW s \in Space, Exec(s) PROVE RegionCover'
  <2> DEFINE V    == {v \in Va \ {Stack} : vma[s][v] # "none" \/ regions[s][v] > 0}
             new  == [v \in Va |-> IF v = Stack THEN regions[s][v] ELSE 0]
  <2>1. /\ regions' = [regions EXCEPT ![s] = new]
        /\ vma' = [vma EXCEPT ![s] = [v \in Va |-> "none"]]
        /\ next_space' = next_space /\ s < next_space
    BY <1>0, <1>3 DEF Exec, Calls, AliveBorn
  <2>2. PICK q : /\ pte' = [pte EXCEPT ![s] = q]
                 /\ \A v \in Va \ {Stack} : v \notin V => q[v] = pte[s][v]
                 /\ \A v \in V : q[v] = NotPresent
    <3> DEFINE left == [v \in Va |-> IF v \in V THEN NotPresent ELSE pte[s][v]]
    <3>1. V \subseteq Va \ {Stack}  OBVIOUS
    <3>2. \/ pte' = [pte EXCEPT ![s] = left]
          \/ \E r : pte' = [pte EXCEPT ![s] = [left EXCEPT ![Stack] = r]]
      BY <1>3 DEF Exec, Unmap
    <3> HIDE DEF V
    <3>3. CASE pte' = [pte EXCEPT ![s] = left]
      <4>1. /\ \A v \in Va \ {Stack} : v \notin V => left[v] = pte[s][v]
            /\ \A v \in V : left[v] = NotPresent
        BY <3>1
      <4> HIDE DEF left
      <4> QED BY <3>3, <4>1
    <3>4. ASSUME NEW r, pte' = [pte EXCEPT ![s] = [left EXCEPT ![Stack] = r]]
          PROVE  \E q : /\ pte' = [pte EXCEPT ![s] = q]
                        /\ \A v \in Va \ {Stack} : v \notin V => q[v] = pte[s][v]
                        /\ \A v \in V : q[v] = NotPresent
      <4>1. /\ \A v \in Va \ {Stack} : v \notin V => [left EXCEPT ![Stack] = r][v] = pte[s][v]
            /\ \A v \in V : [left EXCEPT ![Stack] = r][v] = NotPresent
        BY <3>1
      <4>2. PICK q : q = [left EXCEPT ![Stack] = r]  OBVIOUS
      <4> HIDE DEF left
      <4> QED BY <3>4, <4>1, <4>2
    <3> QED BY <3>2, <3>3, <3>4
  <2>3. /\ pte'[s] = q /\ \A t \in Space : t # s => pte'[t] = pte[t]
        /\ regions'[s] = new /\ \A t \in Space : t # s => regions'[t] = regions[t]
        /\ \A v \in Va : vma'[s][v] = "none"
        /\ \A t \in Space : t # s => vma'[t] = vma[t]
    <3> HIDE DEF new
    <3> QED BY <1>0, <2>1, <2>2 DEF TypeOK, Table
  <2>4. \A v \in Va \ {Stack} : q[v].frame = 0
    <3> SUFFICES ASSUME NEW v \in Va \ {Stack} PROVE q[v].frame = 0  OBVIOUS
    <3>1. CASE v \in V  BY <1>0, <2>2, <3>1
    <3>2. CASE v \notin V
      <4>1. q[v] = pte[s][v] /\ ~(regions[s][v] > 0)  BY <2>2, <3>2
      <4> QED BY <4>1 DEF RegionCover, Mapped
    <3> QED BY <3>1, <3>2
  <2>5. Stack \in Va => new[Stack] > 0  BY <2>1 DEF RegionCover
  <2> HIDE DEF V, new
  <2>6. ASSUME NEW t \in Space, NEW v \in Va,
               pte'[t][v].frame # 0 \/ vma'[t][v] # "none" \/ (v = Stack /\ t < next_space)
        PROVE  regions'[t][v] > 0
    <3>1. CASE t = s  BY <2>3, <2>4, <2>5, <2>6, <3>1
    <3>2. CASE t # s  BY <2>3, <2>6, <3>2 DEF RegionCover, Mapped
    <3> QED BY <3>1, <3>2
  <2> QED BY <2>1, <2>6 DEF RegionCover, Mapped
<1>4. ASSUME NEW s \in Space, BrkGrow(s) PROVE RegionCover'
  <2> DEFINE v == brk[s] + 1
  <2>1. v \in HeapVa /\ v \in Va /\ vma' = vma /\ next_space' = next_space
        /\ Entries(regions[s]) < RegionCalls
    BY <1>4, AddressSpaceAssumption DEF BrkGrow, HeapVa, Va
  <2>2. CASE UNCHANGED <<pte, ref, content, regions>>  BY <2>1, <2>2 DEF RegionCover, Mapped
  <2>3. CASE /\ pte' = [pte EXCEPT ![s][v] = [frame |-> Fresh, rw |-> TRUE, cow |-> FALSE]]
             /\ regions' = [regions EXCEPT ![s] = WithRegion(@, v)]
    <3> HIDE DEF v
    <3>1. WithRegion(regions[s], v)[v] > 0
          /\ \A u \in Va : WithRegion(regions[s], v)[u] >= regions[s][u]
      BY <1>0, <2>1, RegionHasRoom
    <3>2. \A t \in Space, u \in Va : ~(t = s /\ u = v) => pte'[t][u] = pte[t][u]  BY <1>0, <2>1, <2>3 DEF Table
    <3>3. /\ regions'[s] = WithRegion(regions[s], v) /\ \A t \in Space : t # s => regions'[t] = regions[t]
          /\ regions' \in [Space -> [Va -> 0 .. MaxRegions]]
      BY <1>0, <2>1, <2>3, RegionsGrow
    <3>4. \A t \in Space, u \in Va : regions[t][u] \in Nat /\ regions'[t][u] \in Nat
      BY <1>0, <3>3, AddressSpaceAssumption DEF TypeOK
    <3>5. regions'[s][v] > 0 /\ \A t \in Space, u \in Va : regions'[t][u] >= regions[t][u]  BY <3>1, <3>3, <3>4
    <3> QED BY <2>1, <3>2, <3>4, <3>5 DEF RegionCover, Mapped
  <2> QED BY <1>4, <2>2, <2>3 DEF BrkGrow
<1>5. ASSUME NEW s \in Space, NEW V, Unmap(s, V), UNCHANGED <<regions, next_space>>,
             \A t \in Space, u \in Va : vma'[t][u] # "none" => vma[t][u] # "none"
      PROVE  RegionCover'
  <2>1. \A t \in Space, u \in Va : pte'[t][u].frame # 0 => pte[t][u].frame # 0  BY <1>0, <1>5 DEF Unmap, Table
  <2> QED BY <1>5, <2>1 DEF RegionCover, Mapped
<1>6. ASSUME NEW s \in Space, BrkShrink(s) PROVE RegionCover'  BY <1>5, <1>6 DEF BrkShrink
<1>7. ASSUME NEW s \in Space, NEW v \in Va, Munmap(s, v) PROVE RegionCover'
  <2>1. \A t \in Space, u \in Va : vma'[t][u] # "none" => vma[t][u] # "none"  BY <1>0, <1>7 DEF Munmap, TypeOK
  <2> QED BY <1>5, <1>7, <2>1 DEF Munmap
<1>8. ASSUME NEW s \in Space, NEW v \in Va, NEW b, NEW x, NEW c,
             MapFresh(s, v, b, x, c), regions[s][v] > 0
      PROVE  RegionCover'
  BY <1>8, CoverOnePage DEF MapFresh
<1>9. ASSUME NEW s \in Space, NEW v \in Va, CowFault(s, v) PROVE RegionCover'
  <2>1. regions[s][v] > 0  BY <1>9 DEF CowFault, RegionCover
  <2>2. CASE pte' = [pte EXCEPT ![s][v].rw = TRUE, ![s][v].cow = FALSE]
             /\ UNCHANGED <<alive, next_space, ref, content, regions, vma, brk>>
    <3>1. \A t \in Space, u \in Va : ~(t = s /\ u = v) => pte'[t][u] = pte[t][u]  BY <1>0, <2>2 DEF Table
    <3> QED BY <2>1, <2>2, <3>1 DEF RegionCover, Mapped
  <2> QED BY <1>1, <1>8, <1>9, <2>1, <2>2 DEF CowFault
<1>10. ASSUME NEW s \in Space, NEW v \in Va, NEW x \in Value, CloneStack(s, v, x)
       PROVE RegionCover'
  <2>1. regions[s][v] > 0  BY <1>0, <1>10 DEF CloneStack, RegionCover, OrderlyPrograms, Calls, AliveBorn
  <2> QED BY <1>8, <1>10, <2>1 DEF CloneStack
<1>11. ASSUME NEW s \in Space, NEW v \in Va, NEW write \in BOOLEAN, DemandFault(s, v, write)
       PROVE RegionCover'
  <2>1. s < next_space  BY <1>0, <1>11 DEF DemandFault, AliveBorn
  <2>2. AreaServes(s, v, write) => regions[s][v] > 0  BY DEF AreaServes, RegionCover
  <2>3. v = Stack => regions[s][v] > 0  BY <2>1 DEF RegionCover
  <2> QED BY <1>1, <1>8, <1>11, <2>2, <2>3 DEF DemandFault
<1>12. ASSUME NEW s \in Space, NEW v \in Va, NEW prot \in {"ro", "rw"}, Mmap(s, v, prot)
       PROVE RegionCover'
  <2>1. /\ Entries(regions[s]) < RegionCalls
        /\ vma' = [vma EXCEPT ![s][v] = prot]
        /\ regions' = [regions EXCEPT ![s] = WithRegion(@, v)]
        /\ UNCHANGED <<alive, next_space, pte, ref, content, brk>>
    BY <1>12 DEF Mmap
  <2>2. WithRegion(regions[s], v)[v] > 0
        /\ \A u \in Va : WithRegion(regions[s], v)[u] >= regions[s][u]
    BY <1>0, <2>1, RegionHasRoom
  <2>3. /\ regions'[s] = WithRegion(regions[s], v) /\ \A t \in Space : t # s => regions'[t] = regions[t]
        /\ regions' \in [Space -> [Va -> 0 .. MaxRegions]]
    BY <1>0, <2>1, RegionsGrow
  <2>4. \A t \in Space, u \in Va : regions[t][u] \in Nat /\ regions'[t][u] \in Nat
    BY <1>0, <2>3, AddressSpaceAssumption DEF TypeOK
  <2>5. regions'[s][v] > 0 /\ \A t \in Space, u \in Va : regions'[t][u] >= regions[t][u]  BY <2>2, <2>3, <2>4
  <2>6. \A t \in Space, u \in Va : ~(t = s /\ u = v) => vma'[t][u] = vma[t][u]  BY <1>0, <2>1 DEF TypeOK
  <2> QED BY <2>1, <2>4, <2>5, <2>6 DEF RegionCover, Mapped
<1>13. ASSUME NEW s \in Space, NEW v \in Va, NEW x \in Value, Write(s, v, x) \/ KernelWrite(s, v, x)
       PROVE RegionCover'
  BY <1>13 DEF Write, KernelWrite, RegionCover, Mapped
<1> QED BY <1>1, <1>2, <1>3, <1>4, <1>6, <1>7, <1>9, <1>10, <1>11, <1>12, <1>13
     DEF Next, Exit, WriteDenied

------------------------------

\* What a process reads, before and after a step.
LEMMA ViewIs ==
  /\ View = [s \in Space |-> [v \in Va |-> View[s][v]]]
  /\ View' = [s \in Space |-> [v \in Va |-> View'[s][v]]]
  /\ \A s \in Space, v \in Va :
        /\ View[s][v] = IF pte[s][v].frame # 0 THEN content[pte[s][v].frame] ELSE 0
        /\ View'[s][v] = IF pte'[s][v].frame # 0 THEN content'[pte'[s][v].frame] ELSE 0
BY DEF View, Mapped

\* Two pages with the same frame read the same.
LEMMA SameFrameSame ==
  ASSUME content' = content, NEW t \in Space, NEW w \in Space, NEW u \in Va,
         pte'[t][u].frame = pte[w][u].frame
  PROVE  View'[t][u] = View[w][u]
<1>1. View[w][u] = IF pte[w][u].frame # 0 THEN content[pte[w][u].frame] ELSE 0  BY ViewIs
<1>2. View'[t][u] = IF pte'[t][u].frame # 0 THEN content'[pte'[t][u].frame] ELSE 0  BY ViewIs
<1> QED BY <1>1, <1>2

\* A step after which every process reads what it read before.
LEMMA NothingSeen ==
  ASSUME UNCHANGED <<alive, next_space>>, \A s \in Space, v \in Va : View'[s][v] = View[s][v]
  PROVE  [Private!PMNext]_Private!pmVars
<1>1. View' = View  BY ViewIs
<1> QED BY <1>1 DEF Private!pmVars

\* A step that maps a fresh frame changes that page alone: nobody else
\* reads the frame.
LEMMA FreshShown ==
  ASSUME SpaceIInv, FreeFrames # {}, NEW s \in Space, NEW v \in Va, NEW x,
         pte'[s][v].frame = Fresh, content'[Fresh] = x,
         \A t \in Space, u \in Va : ~(t = s /\ u = v) => pte'[t][u] = pte[t][u],
         \A g \in Frame : g # Fresh => content'[g] = content[g]
  PROVE  \A t \in Space, u \in Va : View'[t][u] = IF t = s /\ u = v THEN x ELSE View[t][u]
<1>1. /\ 0 \notin Frame /\ Backed(pte, ref)
      /\ \A t \in Space, u \in Va : pte[t][u].frame \in {0} \cup Frame
  BY TypeOfTables DEF SpaceIInv, TypeOK
<1>2. Fresh \in Frame /\ MapsTo(pte, Fresh) = {}  BY <1>1, FreshIsFree, FreeUnmapped
<1>5. ASSUME NEW t \in Space, NEW u \in Va
      PROVE View'[t][u] = IF t = s /\ u = v THEN x ELSE View[t][u]
  <2>1. CASE t = s /\ u = v  BY <1>1, <1>2, <2>1, ViewIs
  <2>2. CASE ~(t = s /\ u = v)
    <3>1. pte[t][u].frame # Fresh
      <4>1. pte[t][u].frame = Fresh => <<t, u>> \in MapsTo(pte, Fresh)  BY DEF MapsTo
      <4> QED BY <1>2, <4>1
    <3>2. pte'[t][u] = pte[t][u]  BY <2>2
    <3>3. View'[t][u] = View[t][u]  BY <1>1, <3>1, <3>2, ViewIs
    <3> QED BY <2>2, <3>3
  <2> QED BY <2>1, <2>2
<1> QED BY <1>5

\* So it is invisible when the page showed those contents already.
LEMMA FreshInvisible ==
  ASSUME SpaceIInv, FreeFrames # {}, NEW s \in Space, NEW v \in Va, NEW b \in BOOLEAN,
         pte' = [pte EXCEPT ![s][v] = [frame |-> Fresh, rw |-> b, cow |-> FALSE]],
         content' = [content EXCEPT ![Fresh] = View[s][v]],
         UNCHANGED <<alive, next_space>>
  PROVE  [Private!PMNext]_Private!pmVars
<1>0. /\ pte \in Table /\ content \in [Frame -> Value] /\ Fresh \in Frame
  BY FreshIsFree DEF SpaceIInv, TypeOK, Table, Pte
<1>3. /\ pte'[s][v].frame = Fresh /\ content'[Fresh] = View[s][v]
      /\ \A t \in Space, u \in Va : ~(t = s /\ u = v) => pte'[t][u] = pte[t][u]
      /\ \A g \in Frame : g # Fresh => content'[g] = content[g]
  BY <1>0 DEF Table
<1>1. \A t \in Space, u \in Va : View'[t][u] = IF t = s /\ u = v THEN View[s][v] ELSE View[t][u]
  BY <1>3, FreshShown
<1>2. \A t \in Space, u \in Va : View'[t][u] = View[t][u]  BY <1>1
<1> QED BY <1>2, NothingSeen

\* A step after which one page of s reads x, and nothing else has changed.
LEMMA PageSeen ==
  ASSUME NEW s \in alive, s \in Space, NEW v \in Va, NEW x \in Value,
         UNCHANGED <<alive, next_space>>,
         \A t \in Space, u \in Va : View'[t][u] = IF t = s /\ u = v THEN x ELSE View[t][u]
  PROVE  [Private!PMNext]_Private!pmVars
<1>5. \A t \in Space, u \in Va : View'[t][u] = IF t = s /\ u = v THEN x ELSE View[t][u]  OBVIOUS
<1>6. CASE x = View[s][v]
  <2>1. \A t \in Space, u \in Va : View'[t][u] = View[t][u]  BY <1>5, <1>6
  <2> QED BY <2>1, NothingSeen
<1>7. CASE x # View[s][v]
  <2> DEFINE now == [u \in Va |-> IF u = v THEN x ELSE View[s][u]]
  <2>1. \A t \in Space : [u \in Va |-> View'[t][u]] = IF t = s THEN now ELSE [u \in Va |-> View[t][u]]  BY <1>5
  <2>2. View' = [t \in Space |-> IF t = s THEN now ELSE [u \in Va |-> View[t][u]]]  BY <2>1, ViewIs
  <2>3. \A t \in Space : View[t] = [u \in Va |-> View[t][u]]  BY ViewIs
  <2>4. View' = [t \in Space |-> IF t = s THEN now ELSE View[t]]  BY <2>2, <2>3
  <2>5. View = [t \in Space |-> View[t]]  BY <2>3, ViewIs
  <2>6. now = [View[s] EXCEPT ![v] = x]  BY <2>3
  <2> HIDE DEF now
  <2>7. View' = [View EXCEPT ![s] = now]  BY <2>4, <2>5
  <2>8. View' = [View EXCEPT ![s][v] = x]  BY <2>6, <2>7
  <2>9. Private!PMWrite(s, v, x) /\ x \in Value \ {View[s][v]}  BY <1>7, <2>8 DEF Private!PMWrite
  <2> QED BY <2>9 DEF Private!PMNext
<1> QED BY <1>6, <1>7

\* A step after which s reads zero from the pages V.
LEMMA PagesErased ==
  ASSUME NEW s \in alive, s \in Space, NEW V \in SUBSET Va, UNCHANGED <<alive, next_space>>,
         \A t \in Space, u \in Va : View'[t][u] = IF t = s /\ u \in V THEN 0 ELSE View[t][u]
  PROVE  [Private!PMNext]_Private!pmVars
<1> DEFINE E == {v \in V : View[s][v] # 0}
           now == [v \in Va |-> IF v \in E THEN 0 ELSE View[s][v]]
<1>1. \A t \in Space, u \in Va : View'[t][u] = IF t = s /\ u \in E THEN 0 ELSE View[t][u]  OBVIOUS
<1>2. CASE E = {}
  <2>1. \A t \in Space, u \in Va : View'[t][u] = View[t][u]  BY <1>1, <1>2
  <2> QED BY <2>1, NothingSeen
<1>3. CASE E # {}
  <2>1. E \in (SUBSET Private!Written(s)) \ {{}}  BY <1>3 DEF Private!Written
  <2> HIDE DEF E
  <2>2. \A u \in Va : View'[s][u] = now[u]  BY <1>1
  <2>3. View' = [View EXCEPT ![s] = now]
    <3>1. \A t \in Space : t # s => \A u \in Va : View'[t][u] = View[t][u]  BY <1>1
    <3>2. \A t \in Space : [v \in Va |-> View'[t][v]] = IF t = s THEN now ELSE [v \in Va |-> View[t][v]]
      BY <2>2, <3>1
    <3>3. View' = [t \in Space |-> IF t = s THEN now ELSE [v \in Va |-> View[t][v]]]  BY <3>2, ViewIs
    <3>4. \A t \in Space : View[t] = [v \in Va |-> View[t][v]]  BY ViewIs
    <3>5. View' = [t \in Space |-> IF t = s THEN now ELSE View[t]]  BY <3>3, <3>4
    <3>6. View = [t \in Space |-> View[t]]  BY <3>4, ViewIs
    <3> HIDE DEF now
    <3> QED BY <3>5, <3>6
  <2>4. Private!PMErase(s, E)  BY <2>3 DEF Private!PMErase
  <2> QED BY <2>1, <2>4 DEF Private!PMNext
<1> QED BY <1>2, <1>3

\* A death is a death, and a write that reaches an unshared frame a write
\* by that process alone.
LEMMA DeathSeen ==
  ASSUME SpaceIInv, NEW s \in alive, Dies(s)
  PROVE  [Private!PMNext]_Private!pmVars
<1>1. UNCHANGED <<next_space, pte, content>> /\ alive' = alive \ {s}  BY DEF Dies
<1>2. View' = View  BY <1>1 DEF View, Mapped
<1>3. Private!PMExit(s)  BY <1>1, <1>2 DEF Private!PMExit
<1> QED BY <1>3 DEF Private!PMNext

\* A write to a page that can be written reaches no other process.
LEMMA WriteSeen ==
  ASSUME SpaceIInv, NEW s \in alive, s \in Space, NEW v \in Va, NEW x \in Value, pte[s][v].rw,
         content' = [content EXCEPT ![pte[s][v].frame] = x],
         UNCHANGED <<alive, next_space, pte>>
  PROVE  [Private!PMNext]_Private!pmVars
<1>1. /\ 0 \notin Frame /\ content \in [Frame -> Value] /\ Backed(pte, ref)
      /\ \A t \in Space, u \in Va : pte[t][u].frame \in {0} \cup Frame
  BY TypeOfTables DEF SpaceIInv, TypeOK
<1>2. PICK f : f = pte[s][v].frame  OBVIOUS
<1>3. f \in Frame /\ MapsTo(pte, f) = {<<s, v>>} /\ f # 0  BY <1>1, <1>2 DEF Backed
<1>4. content'[f] = x /\ \A g \in Frame : g # f => content'[g] = content[g]  BY <1>1, <1>2, <1>3
<1>5. \A t \in Space, u \in Va : View'[t][u] = IF t = s /\ u = v THEN x ELSE View[t][u]
  <2> TAKE t \in Space, u \in Va
  <2>1. pte[t][u].frame = f => t = s /\ u = v
    <3>1. pte[t][u].frame = f => <<t, u>> \in MapsTo(pte, f)  BY DEF MapsTo
    <3> QED BY <1>3, <3>1
  <2>2. CASE t = s /\ u = v  BY <1>2, <1>3, <1>4, <2>2, ViewIs
  <2>3. CASE ~(t = s /\ u = v)  BY <1>1, <1>4, <2>1, <2>3, ViewIs
  <2> QED BY <2>2, <2>3
<1> QED BY <1>5, PageSeen

\* Unmapping the pages V of s erases them.
LEMMA UnmapSeen ==
  ASSUME SpaceIInv, NEW s \in alive, NEW V \in SUBSET Va, Unmap(s, V),
         UNCHANGED <<alive, next_space, content>>
  PROVE  [Private!PMNext]_Private!pmVars
<1>1. /\ s \in Space /\ NotPresent.frame = 0
      /\ \A u \in V : pte'[s][u] = NotPresent
      /\ \A t \in Space, u \in Va : ~(t = s /\ u \in V) => pte'[t][u] = pte[t][u]
  BY UnmapBacks, TypeOfTables DEF SpaceIInv
<1>2. \A t \in Space, u \in Va : View'[t][u] = IF t = s /\ u \in V THEN 0 ELSE View[t][u]  BY <1>1, ViewIs
<1> QED BY <1>1, <1>2, PagesErased

\* Page faults are invisible, or deaths.
LEMMA FaultSeen ==
  ASSUME SpaceIInv, NEW s \in Space, NEW v \in Va, NEW write \in BOOLEAN,
         CowFault(s, v) \/ DemandFault(s, v, write)
  PROVE  [Private!PMNext]_Private!pmVars
<1>1. s \in alive /\ pte \in Table  BY TypeOfTables DEF CowFault, DemandFault, SpaceIInv
<1>2. ASSUME FreeFrames # {}, NEW b \in BOOLEAN, NEW x, NEW c,
             MapFresh(s, v, b, x, c), x = View[s][v]
      PROVE  [Private!PMNext]_Private!pmVars
  <2>1. /\ pte' = [pte EXCEPT ![s][v] = [frame |-> Fresh, rw |-> b, cow |-> FALSE]]
        /\ content' = [content EXCEPT ![Fresh] = View[s][v]]
        /\ UNCHANGED <<alive, next_space>>
    BY <1>2 DEF MapFresh
  <2> QED BY <1>2, <2>1, FreshInvisible
<1>3. View[s][v] = IF Mapped(s, v) THEN content[pte[s][v].frame] ELSE 0  BY ViewIs DEF Mapped
<1>4. CASE CowFault(s, v)
  <2>1. CASE Dies(s)  BY <1>1, <2>1, DeathSeen
  <2>2. CASE /\ pte' = [pte EXCEPT ![s][v].rw = TRUE, ![s][v].cow = FALSE]
             /\ UNCHANGED <<alive, next_space, ref, content, regions, vma, brk>>
    <3>1. \A t \in Space, u \in Va : pte'[t][u].frame = pte[t][u].frame
      <4> SUFFICES ASSUME NEW t \in Space, NEW u \in Va PROVE pte'[t][u].frame = pte[t][u].frame  OBVIOUS
      <4>1. CASE t = s /\ u = v
        <5>1. pte[s][v] \in Pte  BY <1>1 DEF Table
        <5> QED BY <1>1, <2>2, <4>1, <5>1 DEF Table, Pte
      <4>2. CASE ~(t = s /\ u = v)  BY <1>1, <2>2, <4>2 DEF Table
      <4> QED BY <4>1, <4>2
    <3>2. content' = content  BY <2>2
    <3>3. \A t \in Space, u \in Va : View'[t][u] = View[t][u]  BY <3>1, <3>2, SameFrameSame
    <3> QED BY <2>2, <3>3, NothingSeen
  <2> QED BY <1>2, <1>3, <1>4, <2>1, <2>2 DEF CowFault
<1>5. CASE DemandFault(s, v, write)  BY <1>1, <1>2, <1>3, <1>5, DeathSeen DEF DemandFault
<1> QED BY <1>4, <1>5

\* The stack page of a new thread is its caller's own.
LEMMA CloneSeen ==
  ASSUME SpaceIInv, NEW s \in Space, NEW v \in Va, NEW x \in Value, CloneStack(s, v, x)
  PROVE  [Private!PMNext]_Private!pmVars
<1>1. PICK y \in {0, x} : FreeFrames # {} /\ \E c : MapFresh(s, v, TRUE, y, c)  BY DEF CloneStack
<1>2. /\ s \in alive /\ y \in Value
      /\ pte' = [pte EXCEPT ![s][v] = [frame |-> Fresh, rw |-> TRUE, cow |-> FALSE]]
      /\ content' = [content EXCEPT ![Fresh] = y]
      /\ UNCHANGED <<alive, next_space>>
  BY <1>1, AddressSpaceAssumption DEF CloneStack, Calls, MapFresh
<1>4. /\ pte \in Table /\ content \in [Frame -> Value] /\ Fresh \in Frame
  BY <1>1, FreshIsFree DEF SpaceIInv, TypeOK, Table, Pte
<1>5. /\ pte'[s][v].frame = Fresh /\ content'[Fresh] = y
      /\ \A t \in Space, u \in Va : ~(t = s /\ u = v) => pte'[t][u] = pte[t][u]
      /\ \A g \in Frame : g # Fresh => content'[g] = content[g]
  BY <1>2, <1>4 DEF Table
<1>3. \A t \in Space, u \in Va : View'[t][u] = IF t = s /\ u = v THEN y ELSE View[t][u]
  BY <1>1, <1>5, FreshShown
<1> QED BY <1>2, <1>3, PageSeen

\* A growing heap shows nothing new: its page reads as zero.
LEMMA BrkGrowSeen ==
  ASSUME SpaceIInv, NEW s \in Space, BrkGrow(s)
  PROVE  [Private!PMNext]_Private!pmVars
<1> DEFINE v == brk[s] + 1
<1>1. v \in Va /\ UNCHANGED <<alive, next_space>>  BY AddressSpaceAssumption DEF BrkGrow, HeapVa, Va
<1>2. CASE UNCHANGED <<pte, content>>
  <2>1. \A t \in Space, u \in Va : View'[t][u] = View[t][u]  BY <1>2, ViewIs
  <2> QED BY <1>1, <2>1, NothingSeen
<1>3. CASE /\ FreeFrames # {} /\ ~Mapped(s, v)
           /\ pte' = [pte EXCEPT ![s][v] = [frame |-> Fresh, rw |-> TRUE, cow |-> FALSE]]
           /\ content' = [content EXCEPT ![Fresh] = 0]
  <2> HIDE DEF v
  <2>1. View[s][v] = 0  BY <1>1, <1>3, ViewIs DEF Mapped
  <2>2. content' = [content EXCEPT ![Fresh] = View[s][v]]  BY <1>3, <2>1
  <2> QED BY <1>1, <1>3, <2>2, FreshInvisible
<1> QED BY <1>2, <1>3 DEF BrkGrow

\* exec erases the old program, and what its stack held.
LEMMA ExecSeen ==
  ASSUME SpaceIInv, NEW s \in Space, Exec(s)
  PROVE  [Private!PMNext]_Private!pmVars
<1> DEFINE V    == {v \in Va \ {Stack} : vma[s][v] # "none" \/ regions[s][v] > 0}
           free == {g \in Frame : Freed(s, V)[g] = 0}
           f    == Min(free)
           left == [v \in Va |-> IF v \in V THEN NotPresent ELSE pte[s][v]]
           r    == [frame |-> f, rw |-> TRUE, cow |-> FALSE]
<1>1. s \in alive /\ UNCHANGED <<alive, next_space>>  BY DEF Exec, Calls
<1>2. \/ Unmap(s, V) /\ UNCHANGED content
      \/ /\ free # {}
         /\ pte' = [pte EXCEPT ![s] = [left EXCEPT ![Stack] = r]]
         /\ content' = [content EXCEPT ![f] = 0]
  BY DEF Exec
<1>3. V \in SUBSET Va /\ Stack \in Va /\ V \cup {Stack} \in SUBSET Va /\ Stack \notin V
  BY AddressSpaceAssumption DEF Va, Stack
<1> HIDE DEF V
<1>4. CASE Unmap(s, V) /\ UNCHANGED content  BY <1>1, <1>3, <1>4, UnmapSeen
<1>5. CASE /\ free # {}
           /\ pte' = [pte EXCEPT ![s] = [left EXCEPT ![Stack] = r]]
           /\ content' = [content EXCEPT ![f] = 0]
  <2>1. f \in Frame /\ Freed(s, V)[f] = 0
    <3>1. free \subseteq Nat  BY DEF Frame
    <3> QED BY <1>5, <3>1, LeastFrame
  <2> HIDE DEF f
  <2>2. MapsTo(pte, f) \subseteq {s} \X V  BY <1>3, <2>1, FreedCounts
  <2>3. /\ pte \in Table /\ NotPresent.frame = 0 /\ 0 \notin Frame /\ content \in [Frame -> Value]
        /\ r.frame = f /\ f # 0
        /\ \A t \in Space, u \in Va : pte[t][u].frame \in {0} \cup Frame
    BY <2>1, TypeOfTables DEF SpaceIInv, TypeOK
  <2> HIDE DEF r
  <2>4. content'[f] = 0 /\ \A g \in Frame : g # f => content'[g] = content[g]  BY <1>5, <2>1, <2>3
  <2>5. /\ pte'[s] = [left EXCEPT ![Stack] = r] /\ \A t \in Space : t # s => pte'[t] = pte[t]
    BY <1>5, <2>3 DEF Table
  <2>6. /\ pte'[s][Stack] = r /\ \A u \in V : pte'[s][u] = NotPresent
        /\ \A u \in Va : u \notin V \cup {Stack} => pte'[s][u] = pte[s][u]
    BY <1>3, <2>5
  <2>7. \A t \in Space, u \in Va : ~(t = s /\ u \in V) => pte[t][u].frame # f
    <3> SUFFICES ASSUME NEW t \in Space, NEW u \in Va, pte[t][u].frame = f PROVE t = s /\ u \in V  OBVIOUS
    <3>1. <<t, u>> \in MapsTo(pte, f)  BY DEF MapsTo
    <3> QED BY <2>2, <3>1
  <2>8. ASSUME NEW t \in Space, NEW u \in Va
        PROVE  View'[t][u] = IF t = s /\ u \in V \cup {Stack} THEN 0 ELSE View[t][u]
    <3>1. CASE t = s /\ u \in V  BY <1>3, <2>3, <2>6, <3>1, ViewIs
    <3>2. CASE t = s /\ u = Stack  BY <2>3, <2>4, <2>6, <3>2, ViewIs
    <3>3. CASE ~(t = s /\ u \in V \cup {Stack})
      <4>1. pte'[t][u] = pte[t][u] /\ pte[t][u].frame # f  BY <2>5, <2>6, <2>7, <3>3
      <4> QED BY <2>3, <2>4, <3>3, <4>1, ViewIs
    <3> QED BY <3>1, <3>2, <3>3
  <2> QED BY <1>1, <1>3, <2>8, PagesErased
<1> QED BY <1>2, <1>4, <1>5

\* fork gives the child a copy of everything the parent has, since every
\* page that is mapped lies in a region.
LEMMA ForkSeen ==
  ASSUME SpaceIInv, RegionCover, NEW s \in Space, Fork(s)
  PROVE  [Private!PMNext]_Private!pmVars
<1> DEFINE cow(v) == [frame |-> pte[s][v].frame, rw |-> FALSE, cow |-> TRUE]
           n == next_space
           mine == [v \in Va |-> IF v \in Shared(s) THEN cow(v) ELSE pte[s][v]]
           its == [v \in Va |-> IF v \in Shared(s) THEN cow(v) ELSE NotPresent]
<1>0. TypeOK /\ AliveBorn /\ pte \in Table /\ NotPresent.frame = 0  BY TypeOfTables DEF SpaceIInv
<1>1. /\ s \in alive /\ n <= MaxSpace /\ pte' = [pte EXCEPT ![s] = mine, ![n] = its]
      /\ alive' = alive \cup {n} /\ next_space' = n + 1 /\ content' = content
  BY DEF Fork, Calls
<1>2. n \in Space /\ n # s  BY <1>0, <1>1, AddressSpaceAssumption DEF TypeOK, AliveBorn, Space
<1>3. \A v \in Va : mine[v].frame = pte[s][v].frame /\ its[v].frame = pte[s][v].frame
  <2> SUFFICES ASSUME NEW v \in Va
               PROVE  mine[v].frame = pte[s][v].frame /\ its[v].frame = pte[s][v].frame
    OBVIOUS
  <2>1. CASE v \in Shared(s)  BY <2>1
  <2>2. CASE v \notin Shared(s)
    <3>1. pte[s][v].frame = 0  BY <2>2 DEF Shared, RegionCover, Mapped
    <3> QED BY <1>0, <2>2, <3>1
  <2> QED BY <2>1, <2>2
<1> HIDE DEF mine, its
<1>4. pte'[s] = mine /\ pte'[n] = its /\ \A t \in Space : t \notin {s, n} => pte'[t] = pte[t]
  BY <1>0, <1>1, <1>2 DEF Table
<1>5. \A t \in Space, v \in Va : View'[t][v] = IF t = n THEN View[s][v] ELSE View[t][v]
  <2> TAKE t \in Space, v \in Va
  <2>1. pte'[t][v].frame = IF t = n THEN pte[s][v].frame ELSE pte[t][v].frame  BY <1>2, <1>3, <1>4
  <2>2. content' = content  BY <1>1
  <2> HIDE DEF n
  <2>3. CASE t = n  BY <2>1, <2>2, <2>3, SameFrameSame
  <2>4. CASE t # n  BY <2>1, <2>2, <2>4, SameFrameSame
  <2> QED BY <2>3, <2>4
<1> HIDE DEF n
<1>6. \A t \in Space : View[t] = [v \in Va |-> View[t][v]]  BY ViewIs
<1>7. \A t \in Space : [v \in Va |-> View'[t][v]] = IF t = n THEN View[s] ELSE View[t]  BY <1>5, <1>6
<1>8. View' = [t \in Space |-> IF t = n THEN View[s] ELSE View[t]]  BY <1>7, ViewIs
<1>9. View = [t \in Space |-> View[t]]  BY <1>6, ViewIs
<1>10. View' = [View EXCEPT ![n] = View[s]]  BY <1>8, <1>9
<1>11. Private!PMFork(s)  BY <1>1, <1>10 DEF Private!PMFork, n
<1> QED BY <1>1, <1>11 DEF Private!PMNext

\* Every step is a step of private memory or shows nothing.
LEMMA StepIsPrivate ==
  ASSUME OrderlyPrograms, SpaceIInv, RegionCover, [Next]_vars
  PROVE  [Private!PMNext]_Private!pmVars
<1>1. CASE UNCHANGED vars  BY <1>1 DEF vars, Private!pmVars, View, Mapped
<1>2. ASSUME NEW s \in Space, Fork(s) PROVE [Private!PMNext]_Private!pmVars  BY <1>2, ForkSeen
<1>3. ASSUME NEW s \in Space, Exec(s) PROVE [Private!PMNext]_Private!pmVars  BY <1>3, ExecSeen
<1>4. ASSUME NEW s, s \in alive, Dies(s) PROVE [Private!PMNext]_Private!pmVars  BY <1>4, DeathSeen
<1>5. ASSUME NEW s \in Space, BrkGrow(s) PROVE [Private!PMNext]_Private!pmVars  BY <1>5, BrkGrowSeen
<1>6. ASSUME NEW s \in Space, BrkShrink(s) PROVE [Private!PMNext]_Private!pmVars
  <2>1. {brk[s]} \in SUBSET Va  BY AddressSpaceAssumption DEF SpaceIInv, TypeOK, Va
  <2> QED BY <1>6, <2>1, UnmapSeen DEF BrkShrink, Calls
<1>7. ASSUME NEW s \in Space, NEW v \in Va, Munmap(s, v) PROVE [Private!PMNext]_Private!pmVars
  <2>1. {v} \in SUBSET Va  OBVIOUS
  <2> QED BY <1>7, <2>1, UnmapSeen DEF Munmap, Calls
<1>8. ASSUME NEW s \in Space, NEW v \in Va, NEW write \in BOOLEAN,
             CowFault(s, v) \/ DemandFault(s, v, write)
      PROVE  [Private!PMNext]_Private!pmVars
  BY <1>8, FaultSeen
<1>11. ASSUME NEW s \in Space, NEW v \in Va, NEW x \in Value, CloneStack(s, v, x)
       PROVE  [Private!PMNext]_Private!pmVars
  BY <1>11, CloneSeen
<1>9. ASSUME NEW s \in Space, NEW v \in Va, NEW prot \in {"ro", "rw"}, Mmap(s, v, prot)
      PROVE  [Private!PMNext]_Private!pmVars
  <2>1. UNCHANGED <<alive, next_space, pte, content>>  BY <1>9 DEF Mmap
  <2> QED BY <2>1 DEF Private!pmVars, View, Mapped
<1>10. ASSUME NEW s \in Space, NEW v \in Va, NEW x \in Value, Write(s, v, x) \/ KernelWrite(s, v, x)
       PROVE  [Private!PMNext]_Private!pmVars
  <2>1. /\ s \in alive /\ pte[s][v].rw
        /\ content' = [content EXCEPT ![pte[s][v].frame] = x]
        /\ UNCHANGED <<alive, next_space, pte>>
    BY <1>10 DEF Write, KernelWrite, Calls, OrderlyPrograms
  <2> QED BY <2>1, WriteSeen
<1> QED BY <1>1, <1>2, <1>3, <1>4, <1>5, <1>6, <1>7, <1>8, <1>9, <1>10, <1>11
     DEF Next, Exit, Calls, WriteDenied

\* The first process has an empty stack, which lies in a region.
LEMMA LaunchPrivate ==
  ASSUME Init
  PROVE  RegionCover /\ Private!PMInit
<1>1. NotPresent.frame = 0  BY DEF NotPresent
<1>2. RegionCover
  <2>1. ASSUME NEW s \in Space, NEW v \in Va,
               Mapped(s, v) \/ vma[s][v] # "none" \/ (v = Stack /\ s < next_space)
        PROVE  s = 1 /\ v = Stack
    BY <1>1, <2>1 DEF Init, Mapped, Space
  <2>2. ASSUME NEW s \in Space, NEW v \in Va, s = 1 /\ v = Stack PROVE regions[s][v] > 0  BY <2>2 DEF Init
  <2> QED BY <2>1, <2>2 DEF RegionCover
<1>3. View = [s \in Space |-> [v \in Va |-> 0]]
  <2>1. \A s \in Space, v \in Va : pte[s][v].frame # 0 => pte[s][v].frame = 2  BY <1>1 DEF Init
  <2>2. content = [f \in Frame |-> 0] /\ 2 \in Frame  BY AddressSpaceAssumption DEF Init, Frame
  <2>3. \A s \in Space, v \in Va : View[s][v] = 0  BY <2>1, <2>2, ViewIs
  <2>4. \A s \in Space : [v \in Va |-> View[s][v]] = [v \in Va |-> 0]  BY <2>3
  <2> QED BY <2>4, ViewIs
<1> QED BY <1>2, <1>3 DEF Private!PMInit, Private!Space, Space, Init

\* Copy-on-write, demand paging, fork, exec and the heap implement private
\* memory, for any number of processes and frames: a write by one process
\* is never seen by another, and a fork copies everything.  The programs
\* are orderly: the kernel's own writes go where the program may write,
\* thread stacks lie in regions, and no region table overflows.
THEOREM MemoryIsPrivate ==
  ASSUME OrderlyPrograms
  PROVE  Spec => ImplementsPrivateMemory
<1>1. Init => SpaceIInv /\ RegionCover /\ Private!PMInit  BY LaunchSound, LaunchPrivate
<1>2. SpaceIInv /\ RegionCover /\ [Next]_vars => SpaceIInv' /\ RegionCover'
  <2> SUFFICES ASSUME SpaceIInv, RegionCover, [Next]_vars PROVE SpaceIInv' /\ RegionCover'  OBVIOUS
  <2>1. SpaceIInv'  BY MemoryStaysSound
  <2>2. CASE Next  BY <2>1, <2>2, CoverKept
  <2>3. CASE UNCHANGED vars  BY <2>1, <2>3 DEF vars, RegionCover, Mapped
  <2> QED BY <2>2, <2>3
<1>3. SpaceIInv /\ RegionCover /\ [Next]_vars => [Private!PMNext]_Private!pmVars  BY StepIsPrivate
<1> QED BY <1>1, <1>2, <1>3, PTL DEF Spec, ImplementsPrivateMemory, Private!PMSpec

------------------------------
(* The in-memory file system (kernel/fs/chfs.c).                           *)

\* The state: names, block numbers, descriptors.
Paths == ChfsNames \cup ChfsDirs \cup {"", "/"}
BlockNumber == ChfsBlocks \cup {NoBlk}
BlockMap == [Blk -> BlockNumber]
InodeType == {"none", "dir", "file"}
InodeRecord == [type : InodeType, size : Nat, name : Paths, blocks : BlockMap, ref : Int]
Descriptor == [valid : BOOLEAN, ino : ChfsInodes, life : Nat, off : Nat]

ChfsTypeOK ==
    /\ inode_used \subseteq ChfsInodes /\ 0 \in inode_used
    /\ inode_table \in [ChfsInodes -> InodeRecord]
    /\ block_used \subseteq ChfsBlocks
    /\ fd_table \in [ChfsTasks -> [ChfsFds -> Descriptor]]
    /\ inode_life \in [ChfsInodes -> Nat]
    /\ miscounted \in [ChfsInodes -> BOOLEAN]

\* The root and the inodes not in use were cleared with memset(): their block
\* numbers are 0, and no file in use has that block.
ZeroBlocks ==
    /\ inode_table[0].type = "dir"
    /\ \A i \in ChfsInodes, b \in Blk :
          (inode_table[i].blocks[b] = 0) <=> (i = 0 \/ i \notin inode_used)

\* No descriptor is from a life that has not begun.
LifePast == \A h \in Handles : Fd(h).valid => Fd(h).life <= inode_life[Fd(h).ino]

ChfsIInv ==
    /\ ChfsTypeOK
    /\ ZeroBlocks
    /\ LifePast
    /\ ChfsBlocksOwned
    /\ RefCountExact
    /\ WriteStaysInFile

------------------------------

\* A set of numbers that is not empty has a least one.
LEMMA FirstIsThere ==
  ASSUME NEW S, S \subseteq Nat, S # {}
  PROVE  Min(S) \in S
<1>1. \E x \in S : \A y \in S : ~(<<y, x>> \in OpToRel(<, Nat))  BY NatLessThanWellFounded, WFMin
<1>2. PICK x \in S : \A y \in S : ~(<<y, x>> \in OpToRel(<, Nat))  BY <1>1
<1>3. \A y \in S : x <= y
  <2> TAKE y \in S
  <2>1. x \in Nat /\ y \in Nat  OBVIOUS
  <2>2. ~(<<y, x>> \in {ss \in Nat \X Nat : ss[1] < ss[2]})  BY <1>2 DEF OpToRel
  <2> QED BY <2>1, <2>2
<1> QED BY <1>3 DEF Min

\* The larger of two numbers is one of them, and as large as the other.
LEMMA LargerOfTwo ==
  ASSUME NEW a \in Nat, NEW c \in Nat
  PROVE  Max({a, c}) \in {a, c}
<1>1. \E x \in {a, c} : \A y \in {a, c} : x >= y  BY SMT
<1> QED BY <1>1 DEF Max

\* What the searches of the code find is what they look for.
LEMMA SearchesFind ==
  ASSUME ChfsTypeOK
  PROVE  /\ \A p : Lookup(p) # NoBlk => Lookup(p) \in inode_used /\ inode_table[Lookup(p)].name = p
         /\ FreeBlocks # {} => Min(FreeBlocks) \in FreeBlocks
         /\ FreeInodes # {} => Min(FreeInodes) \in FreeInodes
         /\ \A t \in ChfsTasks : FreeFds(t) # {} => Min(FreeFds(t)) \in FreeFds(t)
<1>1. ASSUME NEW p, Lookup(p) # NoBlk
      PROVE  Lookup(p) \in inode_used /\ inode_table[Lookup(p)].name = p
  <2> DEFINE hits == {i \in inode_used : inode_table[i].name = p}
  <2>1. hits \subseteq Nat /\ hits # {}  BY <1>1, ChfsAssumption DEF Lookup, ChfsTypeOK
  <2>2. Min(hits) \in hits  BY <2>1, FirstIsThere
  <2>3. Lookup(p) = Min(hits)  BY <2>1 DEF Lookup
  <2> QED BY <2>2, <2>3
<1>2. FreeBlocks # {} => Min(FreeBlocks) \in FreeBlocks  BY FirstIsThere, ChfsAssumption DEF FreeBlocks
<1>3. FreeInodes # {} => Min(FreeInodes) \in FreeInodes  BY FirstIsThere, ChfsAssumption DEF FreeInodes
<1>4. \A t \in ChfsTasks : FreeFds(t) # {} => Min(FreeFds(t)) \in FreeFds(t)
  BY FirstIsThere, ChfsAssumption DEF FreeFds
<1> QED BY <1>1, <1>2, <1>3, <1>4

------------------------------

\* Changing a block number and the size of an inode leaves an inode.
LEMMA EditTyped ==
  ASSUME NEW r \in InodeRecord, NEW o \in Blk, NEW b \in BlockNumber, NEW n \in Nat
  PROVE  [r EXCEPT !.blocks[o] = b, !.size = n] \in InodeRecord
<1> DEFINE g == [r.blocks EXCEPT ![o] = b]
<1>1. g \in BlockMap  BY DEF InodeRecord, BlockMap
<1>2. [r EXCEPT !.blocks[o] = b, !.size = n] = [[r EXCEPT !.blocks = g] EXCEPT !.size = n]  BY DEF InodeRecord
<1> HIDE DEF g
<1>3. [[r EXCEPT !.blocks = g] EXCEPT !.size = n] \in InodeRecord  BY <1>1 DEF InodeRecord
<1> QED BY <1>2, <1>3

\* The pieces the calls put into the tables are well formed.
LEMMA PiecesTyped ==
  ASSUME ChfsTypeOK
  PROVE  /\ ZeroInode \in InodeRecord
         /\ \A i, p, y : p \in Paths /\ y \in {"dir", "file"} => Created(i, p, y) \in InodeRecord
         /\ \A in \in InodeRecord : Emptied(in) \in InodeRecord
         /\ \A H \in SUBSET Handles : Dropped(H) \in [ChfsInodes -> InodeRecord]
         /\ \A H : StaleIn(H) \in [ChfsInodes -> BOOLEAN]
         /\ CreatedBlocks \subseteq ChfsBlocks
         /\ NoFd \in Descriptor
         /\ \A h \in Handles : Fd(h) \in Descriptor
         /\ 0 \in Blk
<1>1. 0 \in ChfsInodes /\ 0 \in ChfsBlocks /\ ChfsInodes \subseteq Nat /\ ChfsBlocks \subseteq Nat
      /\ 0 \in Blk
  BY ChfsAssumption DEF Blk
<1>2. ZeroInode \in InodeRecord  BY <1>1 DEF ZeroInode, InodeRecord, InodeType, BlockMap, Paths, BlockNumber
<1>3. ASSUME NEW i, NEW p \in Paths, NEW y \in {"dir", "file"}
      PROVE  Created(i, p, y) \in InodeRecord
  <2>1. [b \in Blk |-> IF b = 0 /\ FreeBlocks # {} THEN Min(FreeBlocks) ELSE NoBlk] \in BlockMap
    BY SearchesFind DEF BlockMap, BlockNumber, FreeBlocks
  <2>2. (IF y = "dir" THEN 1 ELSE 0) \in Nat  OBVIOUS
  <2>3. y \in InodeType  BY DEF InodeType
  <2> QED BY <2>1, <2>2, <2>3 DEF Created, InodeRecord
<1>4. ASSUME NEW in \in InodeRecord
      PROVE  Emptied(in) \in InodeRecord
  BY DEF Emptied, InodeRecord, BlockMap, BlockNumber
<1>5. ASSUME NEW H \in SUBSET Handles
      PROVE  Dropped(H) \in [ChfsInodes -> InodeRecord]
  <2> SUFFICES ASSUME NEW i \in ChfsInodes
               PROVE  [inode_table[i] EXCEPT
                         !.ref = @ - Cardinality({h \in H : Fd(h).valid /\ Fd(h).ino = i})] \in InodeRecord
    BY DEF Dropped
  <2> DEFINE D == {h \in H : Fd(h).valid /\ Fd(h).ino = i}
  <2>1. IsFiniteSet(Handles)  BY FS_Product, ChfsAssumption DEF Handles
  <2>2. D \in SUBSET Handles  OBVIOUS
  <2>3. Cardinality(D) \in Nat  BY <2>1, <2>2, FS_Subset, FS_CardinalityType
  <2>4. inode_table[i] \in InodeRecord  BY DEF ChfsTypeOK
  <2> DEFINE n == inode_table[i].ref - Cardinality(D)
  <2> HIDE DEF D
  <2>5. n \in Int  BY <2>3, <2>4 DEF InodeRecord
  <2> HIDE DEF n
  <2>6. [inode_table[i] EXCEPT !.ref = n] \in InodeRecord  BY <2>4, <2>5 DEF InodeRecord
  <2> QED BY <2>6 DEF n, D
<1>6. \A H : StaleIn(H) \in [ChfsInodes -> BOOLEAN]  BY DEF StaleIn
<1>7. CreatedBlocks \subseteq ChfsBlocks  BY SearchesFind DEF CreatedBlocks, FreeBlocks
<1>8. NoFd \in Descriptor  BY <1>1 DEF NoFd, Descriptor
<1>9. \A h \in Handles : Fd(h) \in Descriptor  BY DEF Handles, Fd, ChfsTypeOK
<1> QED BY <1>1, <1>2, <1>3, <1>4, <1>5, <1>6, <1>7, <1>8, <1>9

\* Changing one inode or one descriptor keeps the tables well formed.
LEMMA TablesTyped ==
  ASSUME ChfsTypeOK
  PROVE  /\ \A i \in ChfsInodes : inode_table[i] \in InodeRecord
         /\ \A i \in ChfsInodes, r \in InodeRecord :
               [inode_table EXCEPT ![i] = r] \in [ChfsInodes -> InodeRecord]
         /\ \A t \in ChfsTasks, f \in ChfsFds, d \in Descriptor :
               [fd_table EXCEPT ![t][f] = d] \in [ChfsTasks -> [ChfsFds -> Descriptor]]
         /\ \A t \in ChfsTasks, g \in [ChfsFds -> Descriptor] :
               [fd_table EXCEPT ![t] = g] \in [ChfsTasks -> [ChfsFds -> Descriptor]]
  BY DEF ChfsTypeOK

\* A new inode keeps the tables well formed.
LEMMA RebornTyped ==
  ASSUME ChfsTypeOK, FreeInodes # {}, Reborn(Min(FreeInodes))
  PROVE  /\ Min(FreeInodes) \in ChfsInodes \ inode_used
         /\ Min(FreeInodes) # 0
         /\ inode_used' \subseteq ChfsInodes /\ 0 \in inode_used'
         /\ inode_life' \in [ChfsInodes -> Nat]
         /\ miscounted' \in [ChfsInodes -> BOOLEAN]
<1>1. Min(FreeInodes) \in FreeInodes  BY SearchesFind
<1> HIDE DEF FreeInodes
<1> DEFINE i == Min(FreeInodes)
<1>2. i \in ChfsInodes \ inode_used /\ i # 0  BY <1>1 DEF FreeInodes, ChfsTypeOK
<1> HIDE DEF i
<1> QED BY <1>2 DEF Reborn, ChfsTypeOK, i

\* Every call leaves the tables well formed.
LEMMA ChfsTypeStep ==
  ASSUME ChfsTypeOK, [ChfsNext]_chfsVars
  PROVE  ChfsTypeOK'
<1> USE DEF ChfsTypeOK
<1>1. ASSUME NEW p \in ChfsDirs, fs_mkdir(p) PROVE ChfsTypeOK'
  <2> DEFINE i == Min(FreeInodes)
  <2>1. /\ FreeInodes # {} /\ Reborn(i)
        /\ inode_table' = [inode_table EXCEPT ![i] = Created(i, p, "dir")]
        /\ block_used' = block_used \cup CreatedBlocks
        /\ UNCHANGED fd_table
    BY <1>1 DEF fs_mkdir
  <2>2. Created(i, p, "dir") \in InodeRecord  BY PiecesTyped DEF Paths
  <2>3. i \in ChfsInodes  BY <2>1, RebornTyped
  <2>4. inode_table' \in [ChfsInodes -> InodeRecord]  BY <2>1, <2>2, <2>3, TablesTyped
  <2> QED BY <2>1, <2>4, RebornTyped, PiecesTyped
<1>2. ASSUME NEW p \in Paths, fs_unlink(p) PROVE ChfsTypeOK'
  <2> DEFINE i == Lookup(p)
  <2>1. i \in inode_used /\ i # 0  BY <1>2, SearchesFind DEF fs_unlink
  <2>2. inode_table' = [inode_table EXCEPT ![i] = ZeroInode]  BY <1>2 DEF fs_unlink
  <2>3. inode_table' \in [ChfsInodes -> InodeRecord]  BY <2>1, <2>2, TablesTyped, PiecesTyped
  <2> QED BY <1>2, <2>1, <2>3 DEF fs_unlink
<1>3. ASSUME NEW p, NEW q \in ChfsNames \cup ChfsDirs, chfs_move(p, q) PROVE ChfsTypeOK'
  <2> DEFINE i == Lookup(p)
  <2>1. i \in ChfsInodes  BY <1>3, SearchesFind DEF chfs_move
  <2>2. inode_table' = [inode_table EXCEPT ![i] = [inode_table[i] EXCEPT !.name = q]]  BY <1>3 DEF chfs_move
  <2>3. [inode_table[i] EXCEPT !.name = q] \in InodeRecord
    <3>1. q \in Paths /\ inode_table[i] \in InodeRecord  BY <2>1, TablesTyped DEF Paths
    <3> QED BY <3>1 DEF InodeRecord
  <2> HIDE DEF i
  <2>4. inode_table' \in [ChfsInodes -> InodeRecord]  BY <2>1, <2>2, <2>3, TablesTyped
  <2> QED BY <1>3, <2>4 DEF chfs_move
<1>4. ASSUME NEW p, chfs_truncate(p) PROVE ChfsTypeOK'
  <2> DEFINE i == Lookup(p)
  <2>1. i \in ChfsInodes  BY <1>4, SearchesFind DEF chfs_truncate
  <2>2. inode_table' = [inode_table EXCEPT ![i] = [inode_table[i] EXCEPT !.size = 0]]  BY <1>4 DEF chfs_truncate
  <2>3. [inode_table[i] EXCEPT !.size = 0] \in InodeRecord  BY <2>1, TablesTyped DEF InodeRecord
  <2> HIDE DEF i
  <2>4. inode_table' \in [ChfsInodes -> InodeRecord]  BY <2>1, <2>2, <2>3, TablesTyped
  <2> QED BY <1>4, <2>4 DEF chfs_truncate
<1>5. ASSUME NEW i \in ChfsInodes, NEW o \in Blk, NEW n \in Nat, NEW who, Store(i, o, n, who)
      PROVE  inode_table' \in [ChfsInodes -> InodeRecord] /\ block_used' \subseteq ChfsBlocks
  <2> DEFINE b == BlockFor(i, o)
  <2>1. b \in BlockNumber \ {NoBlk}
    <3>1. inode_table[i].blocks[o] \in BlockNumber  BY TablesTyped DEF InodeRecord, BlockMap
    <3> QED BY <1>5, <3>1, SearchesFind DEF Store, BlockFor, BlockNumber, FreeBlocks
  <2>2. b \in ChfsBlocks  BY <2>1 DEF BlockNumber
  <2>3. /\ inode_table' = [inode_table EXCEPT ![i] = [inode_table[i] EXCEPT !.blocks[o] = b, !.size = n]]
        /\ block_used' \subseteq block_used \cup {b}
    BY <1>5 DEF Store
  <2> HIDE DEF b
  <2>4. [inode_table[i] EXCEPT !.blocks[o] = b, !.size = n] \in InodeRecord  BY <2>1, TablesTyped, EditTyped
  <2> QED BY <2>2, <2>3, <2>4, TablesTyped
<1>6. ASSUME NEW p, chfs_write_file(p) PROVE ChfsTypeOK'
  <2>1. Lookup(p) \in ChfsInodes  BY <1>6, SearchesFind DEF chfs_write_file
  <2> QED BY <1>5, <1>6, <2>1, PiecesTyped DEF chfs_write_file
<1>7. ASSUME NEW h \in Handles, fs_write(h) PROVE ChfsTypeOK'
  <2>1. Fd(h) \in Descriptor /\ Fd(h).off \in Blk /\ Fd(h).ino \in ChfsInodes
        /\ h[1] \in ChfsTasks /\ h[2] \in ChfsFds
    BY <1>7, PiecesTyped, ChfsAssumption DEF fs_write, Descriptor, Blk, Handles
  <2> DEFINE n == Max({inode_table[Fd(h).ino].size, Fd(h).off + 1})
  <2>2. n \in Nat
    <3>1. inode_table[Fd(h).ino].size \in Nat /\ Fd(h).off + 1 \in Nat
      BY <2>1, TablesTyped DEF InodeRecord, Descriptor
    <3> DEFINE a == inode_table[Fd(h).ino].size
               c == Fd(h).off + 1
    <3> HIDE DEF a, c
    <3>2. Max({a, c}) \in {a, c}  BY <3>1, LargerOfTwo DEF a, c
    <3> QED BY <3>1, <3>2 DEF a, c
  <2>3. Store(Fd(h).ino, Fd(h).off, n, <<Fd(h).ino, Fd(h).life>>)  BY <1>7 DEF fs_write
  <2> HIDE DEF n
  <2>4. inode_table' \in [ChfsInodes -> InodeRecord] /\ block_used' \subseteq ChfsBlocks
    BY <1>5, <2>1, <2>2, <2>3
  <2>5. [Fd(h) EXCEPT !.off = @ + 1] \in Descriptor  BY <2>1 DEF Descriptor
  <2>6. fd_table' = [fd_table EXCEPT ![h[1]][h[2]] = [Fd(h) EXCEPT !.off = @ + 1]]
    BY <1>7, <2>1 DEF fs_write, Fd
  <2>7. fd_table' \in [ChfsTasks -> [ChfsFds -> Descriptor]]  BY <2>1, <2>5, <2>6, TablesTyped
  <2> QED BY <1>7, <2>4, <2>7 DEF fs_write
<1>8. ASSUME NEW h \in Handles, fs_read(h) PROVE ChfsTypeOK'
  <2>1. Fd(h) \in Descriptor /\ h[1] \in ChfsTasks /\ h[2] \in ChfsFds  BY PiecesTyped DEF Handles
  <2>2. [Fd(h) EXCEPT !.off = @ + 1] \in Descriptor  BY <2>1 DEF Descriptor
  <2>3. fd_table' = [fd_table EXCEPT ![h[1]][h[2]] = [Fd(h) EXCEPT !.off = @ + 1]]
    BY <1>8, <2>1 DEF fs_read, Fd
  <2>4. fd_table' \in [ChfsTasks -> [ChfsFds -> Descriptor]]  BY <2>1, <2>2, <2>3, TablesTyped
  <2> QED BY <1>8, <2>4 DEF fs_read
<1>9. ASSUME NEW h \in Handles, fs_close(h) PROVE ChfsTypeOK'
  <2>1. {h} \in SUBSET Handles /\ h[1] \in ChfsTasks /\ h[2] \in ChfsFds  BY DEF Handles
  <2>2. fd_table' = [fd_table EXCEPT ![h[1]][h[2]] = NoFd]  BY <1>9 DEF fs_close
  <2>3. fd_table' \in [ChfsTasks -> [ChfsFds -> Descriptor]]  BY <2>1, <2>2, TablesTyped, PiecesTyped
  <2> QED BY <1>9, <2>1, <2>3, PiecesTyped DEF fs_close
<1>10. ASSUME NEW t \in ChfsTasks, fs_close_table(t) PROVE ChfsTypeOK'
  <2>1. {t} \X ChfsFds \in SUBSET Handles  BY DEF Handles
  <2>2. fd_table' \in [ChfsTasks -> [ChfsFds -> Descriptor]]
    BY <1>10, PiecesTyped, TablesTyped DEF fs_close_table
  <2> QED BY <1>10, <2>1, <2>2, PiecesTyped DEF fs_close_table
<1>11. ASSUME NEW t \in ChfsTasks, NEW u \in ChfsTasks, fd_table_copy(t, u) PROVE ChfsTypeOK'
  <2>1. \A i \in ChfsInodes :
          [inode_table[i] EXCEPT !.ref =
             @ + Cardinality({f \in ChfsFds : fd_table[u][f].valid /\ fd_table[u][f].ino = i})] \in InodeRecord
    <3> TAKE i \in ChfsInodes
    <3> DEFINE F == {f \in ChfsFds : fd_table[u][f].valid /\ fd_table[u][f].ino = i}
    <3>1. F \in SUBSET ChfsFds  OBVIOUS
    <3>2. Cardinality(F) \in Nat  BY <3>1, ChfsAssumption, FS_Subset, FS_CardinalityType
    <3> DEFINE n == inode_table[i].ref + Cardinality(F)
    <3> HIDE DEF F
    <3>3. n \in Int  BY <3>2, TablesTyped DEF InodeRecord
    <3> HIDE DEF n
    <3>4. inode_table[i] \in InodeRecord  BY TablesTyped
    <3>5. [inode_table[i] EXCEPT !.ref = n] \in InodeRecord
      <4> HIDE DEF ChfsTypeOK
      <4> QED BY <3>3, <3>4 DEF InodeRecord
    <3> QED BY <3>5 DEF n, F
  <2>2. fd_table' \in [ChfsTasks -> [ChfsFds -> Descriptor]]  BY <1>11, TablesTyped DEF fd_table_copy
  <2>3. inode_table' \in [ChfsInodes -> InodeRecord]  BY <1>11, <2>1 DEF fd_table_copy
  <2> QED BY <1>11, <2>2, <2>3, PiecesTyped DEF fd_table_copy
<1>12. ASSUME NEW t \in ChfsTasks, NEW f \in ChfsFds, NEW g \in ChfsFds, fs_dup2(t, f, g) PROVE ChfsTypeOK'
  <2> DEFINE D == Dropped({<<t, g>>})
  <2>1. {<<t, g>>} \in SUBSET Handles  BY DEF Handles
  <2>2. D \in [ChfsInodes -> InodeRecord]  BY <2>1, PiecesTyped
  <2>3. inode_table' = [i \in ChfsInodes |-> [D[i] EXCEPT !.ref = @ + (IF i = fd_table[t][f].ino THEN 1 ELSE 0)]]
    BY <1>12 DEF fs_dup2
  <2> HIDE DEF D
  <2>4. \A i \in ChfsInodes :
          [D[i] EXCEPT !.ref = @ + (IF i = fd_table[t][f].ino THEN 1 ELSE 0)] \in InodeRecord
    <3> TAKE i \in ChfsInodes
    <3>1. D[i] \in InodeRecord  BY <2>2
    <3> QED BY <3>1 DEF InodeRecord
  <2>5. inode_table' \in [ChfsInodes -> InodeRecord]  BY <2>3, <2>4
  <2>6. fd_table' = [fd_table EXCEPT ![t][g] = fd_table[t][f]] /\ fd_table[t][f] \in Descriptor
    BY <1>12 DEF fs_dup2
  <2>7. fd_table' \in [ChfsTasks -> [ChfsFds -> Descriptor]]  BY <2>6, TablesTyped
  <2> QED BY <1>12, <2>5, <2>7, PiecesTyped DEF fs_dup2
<1>13. ASSUME NEW t \in ChfsTasks, NEW p \in ChfsNames, fs_open_create(t, p) PROVE ChfsTypeOK'
  <2> DEFINE i == Min(FreeInodes)
             in == Created(i, p, "file")
             f == Min(FreeFds(t))
  <2>1. FreeInodes # {} /\ Reborn(i) /\ block_used' = block_used \cup CreatedBlocks  BY <1>13 DEF fs_open_create
  <2>2. in \in InodeRecord  BY PiecesTyped DEF Paths
  <2>3. i \in ChfsInodes /\ inode_life[i] \in Nat  BY <2>1, RebornTyped
  <2>4. [in EXCEPT !.ref = 1] \in InodeRecord
    <3> HIDE DEF in
    <3> QED BY <2>2 DEF InodeRecord
  <2>5. inode_table' \in [ChfsInodes -> InodeRecord]
    <3>1. inode_table' \in {[inode_table EXCEPT ![i] = [in EXCEPT !.ref = 1]], [inode_table EXCEPT ![i] = in]}
      BY <1>13 DEF fs_open_create
    <3> HIDE DEF i, in
    <3> QED BY <2>2, <2>3, <2>4, <3>1, TablesTyped
  <2>6. fd_table' \in [ChfsTasks -> [ChfsFds -> Descriptor]]
    <3>1. CASE FreeFds(t) = {}  BY <1>13, <3>1 DEF fs_open_create
    <3>2. CASE FreeFds(t) # {}
      <4>1. f \in ChfsFds  BY <3>2, SearchesFind DEF FreeFds
      <4>2. fd_table' = [fd_table EXCEPT ![t][f] =
              [valid |-> TRUE, ino |-> i, life |-> inode_life[i] + 1, off |-> 0]]
        BY <1>13, <3>2 DEF fs_open_create, Opened
      <4>3. [valid |-> TRUE, ino |-> i, life |-> inode_life[i] + 1, off |-> 0] \in Descriptor
        BY <2>3 DEF Descriptor
      <4> HIDE DEF i, f
      <4> QED BY <4>1, <4>2, <4>3, TablesTyped
    <3> QED BY <3>1, <3>2
  <2> QED BY <2>1, <2>5, <2>6, RebornTyped, PiecesTyped
<1>14. ASSUME NEW t \in ChfsTasks, NEW p, NEW trunc \in BOOLEAN, NEW append \in BOOLEAN, fs_open(t, p, trunc, append)
       PROVE  ChfsTypeOK'
  <2> DEFINE i == Lookup(p)
             cut == trunc /\ inode_table[i].type = "file"
             in == IF cut THEN Emptied(inode_table[i]) ELSE inode_table[i]
             f == Min(FreeFds(t))
  <2>1. i \in ChfsInodes /\ inode_life[i] \in Nat  BY <1>14, SearchesFind DEF fs_open
  <2>2. in \in InodeRecord  BY <2>1, PiecesTyped, TablesTyped
  <2>3. [in EXCEPT !.ref = @ + 1] \in InodeRecord
    <3> HIDE DEF in
    <3> QED BY <2>2 DEF InodeRecord
  <2>4. inode_table' \in [ChfsInodes -> InodeRecord]
    <3>1. inode_table' \in {[inode_table EXCEPT ![i] = [in EXCEPT !.ref = @ + 1]], [inode_table EXCEPT ![i] = in]}
      BY <1>14 DEF fs_open
    <3> HIDE DEF i, in
    <3> QED BY <2>1, <2>2, <2>3, <3>1, TablesTyped
  <2>5. fd_table' \in [ChfsTasks -> [ChfsFds -> Descriptor]]
    <3>1. CASE FreeFds(t) = {}  BY <1>14, <3>1 DEF fs_open
    <3>2. CASE FreeFds(t) # {}
      <4> DEFINE d == [valid |-> TRUE, ino |-> i, life |-> inode_life[i],
                       off |-> IF append /\ in.type = "file" THEN in.size ELSE 0]
      <4>1. f \in ChfsFds  BY <3>2, SearchesFind DEF FreeFds
      <4>2. fd_table' = [fd_table EXCEPT ![t][f] = d]  BY <1>14, <3>2 DEF fs_open, Opened
      <4>3. d \in Descriptor
        <5>1. in.size \in Nat
          <6> HIDE DEF in
          <6> QED BY <2>2 DEF InodeRecord
        <5> HIDE DEF i, in
        <5> QED BY <2>1, <5>1 DEF Descriptor
      <4> HIDE DEF d, f
      <4> QED BY <4>1, <4>2, <4>3, TablesTyped
    <3> QED BY <3>1, <3>2
  <2>6. block_used' \subseteq ChfsBlocks  BY <1>14 DEF fs_open
  <2> QED BY <1>14, <2>4, <2>5, <2>6 DEF fs_open
<1>15. CASE UNCHANGED chfsVars  BY <1>15 DEF chfsVars
<1> QED
  <2>1. ChfsNames \cup ChfsDirs \subseteq Paths /\ ChfsOpeners \subseteq ChfsTasks  BY ChfsAssumption DEF Paths
  <2> HIDE DEF ChfsTypeOK
  <2> QED BY <1>1, <1>2, <1>3, <1>4, <1>6, <1>7, <1>8, <1>9, <1>10, <1>11, <1>12, <1>13, <1>14, <1>15, <2>1
    DEF ChfsNext

------------------------------

\* Blocks: block b of file i, the files, and ChfsBlocksOwned block by
\* block.
Named(i, b) == inode_table[i].blocks[b]
Files == inode_used \ {0}
MarkedExactly ==
    \A x : x \in block_used <=> (x = 0 \/ (x # NoBlk /\ \E i \in Files, b \in Blk : Named(i, b) = x))
OwnedOnce ==
    \A i, j \in Files, a, b \in Blk :
        (Named(i, a) # NoBlk /\ Named(i, a) = Named(j, b)) => (i = j /\ a = b)
BlocksInv == ZeroBlocks /\ MarkedExactly /\ OwnedOnce

\* The two say the same.
LEMMA OwnedMeans == (MarkedExactly /\ OwnedOnce) <=> ChfsBlocksOwned
<1>1. \A i, x : x \in BlocksAt(i) <=> (x # NoBlk /\ \E b \in Blk : Named(i, b) = x)  BY DEF BlocksAt, Named
<1>2. \A x : x \in UNION {BlocksAt(i) : i \in Files} <=> (x # NoBlk /\ \E i \in Files, b \in Blk : Named(i, b) = x)
  BY <1>1
<1>3. MarkedExactly <=> block_used = {0} \cup UNION {BlocksAt(i) : i \in Files}
  <2>1. ASSUME MarkedExactly PROVE block_used = {0} \cup UNION {BlocksAt(i) : i \in Files}
    <3>1. \A x : x \in block_used <=> x \in {0} \cup UNION {BlocksAt(i) : i \in Files}
      BY <1>2, <2>1 DEF MarkedExactly
    <3> QED BY <3>1
  <2>2. ASSUME block_used = {0} \cup UNION {BlocksAt(i) : i \in Files} PROVE MarkedExactly
    BY <1>2, <2>2 DEF MarkedExactly
  <2> QED BY <2>1, <2>2
<1>4. OwnedOnce <=> \A i, j \in Files, a, b \in Blk :
          (/\ inode_table[i].blocks[a] # NoBlk
           /\ inode_table[i].blocks[a] = inode_table[j].blocks[b]) => <<i, a>> = <<j, b>>
  BY DEF OwnedOnce, Named
<1> QED BY <1>3, <1>4 DEF ChfsBlocksOwned, Files

\* A call that changes no block number and no mark.
LEMMA BlocksKept ==
  ASSUME BlocksInv, inode_used' = inode_used, block_used' = block_used,
         inode_table'[0].type = inode_table[0].type,
         \A i \in ChfsInodes : inode_table'[i].blocks = inode_table[i].blocks,
         inode_used \subseteq ChfsInodes
  PROVE  BlocksInv'
<1>1. Files' = Files /\ Files \subseteq ChfsInodes  BY DEF Files
<1>2. \A i \in ChfsInodes, b \in Blk : Named(i, b)' = Named(i, b)  BY DEF Named
<1>3. ZeroBlocks'  BY DEF BlocksInv, ZeroBlocks
<1>4. MarkedExactly'  BY <1>1, <1>2 DEF BlocksInv, MarkedExactly
<1>5. OwnedOnce'  BY <1>1, <1>2 DEF BlocksInv, OwnedOnce
<1> QED BY <1>3, <1>4, <1>5 DEF BlocksInv

\* A new file takes at most one free block.
LEMMA BlocksNew ==
  ASSUME ChfsTypeOK, BlocksInv,
         NEW i \in ChfsInodes, i \notin inode_used, i # 0,
         inode_used' = inode_used \cup {i},
         block_used' = block_used \cup CreatedBlocks,
         \A j \in ChfsInodes : j # i => inode_table'[j] = inode_table[j],
         inode_table'[i].blocks =
             [b \in Blk |-> IF b = 0 /\ FreeBlocks # {} THEN Min(FreeBlocks) ELSE NoBlk]
  PROVE  BlocksInv'
<1> DEFINE m == Min(FreeBlocks)
<1>0. 0 \in ChfsInodes /\ 0 \in Blk /\ NoBlk \notin ChfsBlocks /\ NoBlk # 0 /\ inode_used \subseteq ChfsInodes
  BY ChfsAssumption DEF Blk, NoBlk, ChfsTypeOK
<1>1. FreeBlocks # {} => m \in ChfsBlocks \ block_used  BY SearchesFind DEF FreeBlocks
<1>2. CreatedBlocks = IF FreeBlocks # {} THEN {m} ELSE {}  BY DEF CreatedBlocks
<1>3. 0 \in block_used  BY DEF BlocksInv, MarkedExactly
<1>4. \A b \in Blk : Named(i, b)' = IF b = 0 /\ FreeBlocks # {} THEN m ELSE NoBlk  BY DEF Named
<1>5. \A j \in ChfsInodes : j # i => \A b \in Blk : Named(j, b)' = Named(j, b)  BY DEF Named
<1>6. Files' = Files \cup {i} /\ i \notin Files /\ Files \subseteq ChfsInodes  BY <1>0 DEF Files
<1>7. \A j \in Files, b \in Blk : Named(j, b) # NoBlk => Named(j, b) \in block_used
  BY DEF BlocksInv, MarkedExactly
<1> HIDE DEF m
<1>8. ZeroBlocks'
  <2>1. inode_table'[0].type = "dir"  BY <1>0 DEF BlocksInv, ZeroBlocks
  <2>2. \A b \in Blk : Named(i, b)' # 0  BY <1>0, <1>1, <1>3, <1>4
  <2>3. \A j \in ChfsInodes, b \in Blk : (Named(j, b) = 0) <=> (j = 0 \/ j \notin inode_used)
    BY DEF BlocksInv, ZeroBlocks, Named
  <2>4. \A j \in ChfsInodes, b \in Blk : (Named(j, b)' = 0) <=> (j = 0 \/ j \notin inode_used')
    BY <1>5, <2>2, <2>3
  <2> QED BY <2>1, <2>4 DEF ZeroBlocks, Named
<1>9. MarkedExactly'
  <2>1. ASSUME NEW x, x \in block_used'
        PROVE  x = 0 \/ (x # NoBlk /\ \E j \in Files', b \in Blk : Named(j, b)' = x)
    <3>1. CASE x \in block_used  BY <1>5, <1>6, <3>1 DEF BlocksInv, MarkedExactly
    <3>2. CASE FreeBlocks # {} /\ x = m  BY <1>0, <1>1, <1>4, <1>6, <3>2
    <3> QED BY <1>2, <2>1, <3>1, <3>2
  <2>2. 0 \in block_used'  BY <1>3
  <2>3. ASSUME NEW j \in Files', NEW b \in Blk, Named(j, b)' # NoBlk
        PROVE  Named(j, b)' \in block_used'
    <3>1. CASE j = i  BY <1>2, <1>4, <2>3, <3>1
    <3>2. CASE j # i  BY <1>5, <1>6, <1>7, <2>3, <3>2
    <3> QED BY <3>1, <3>2
  <2> QED BY <2>1, <2>2, <2>3 DEF MarkedExactly
<1>10. OwnedOnce'
  <2> SUFFICES ASSUME NEW j \in Files', NEW k \in Files', NEW a \in Blk, NEW b \in Blk,
                      Named(j, a)' # NoBlk, Named(j, a)' = Named(k, b)'
               PROVE  j = k /\ a = b
    BY DEF OwnedOnce
  <2>1. CASE j # i /\ k # i  BY <1>5, <1>6, <2>1 DEF BlocksInv, OwnedOnce
  <2>2. CASE j = i /\ k = i  BY <1>4, <2>2
  <2>3. CASE j = i /\ k # i  BY <1>1, <1>4, <1>5, <1>6, <1>7, <2>3
  <2>4. CASE j # i /\ k = i  BY <1>1, <1>4, <1>5, <1>6, <1>7, <2>4
  <2> QED BY <2>1, <2>2, <2>3, <2>4
<1> QED BY <1>8, <1>9, <1>10 DEF BlocksInv

\* A file gives back its blocks, and is then empty or gone.
LEMMA BlocksBack ==
  ASSUME ChfsTypeOK, BlocksInv,
         NEW i \in Files,
         block_used' = block_used \ BlocksAt(i),
         inode_table'[0].type = inode_table[0].type,
         \A j \in ChfsInodes : j # i => inode_table'[j].blocks = inode_table[j].blocks,
         \/ /\ inode_used' = inode_used
            /\ inode_table'[i].blocks = [b \in Blk |-> NoBlk]
         \/ /\ inode_used' = inode_used \ {i}
            /\ inode_table'[i].blocks = [b \in Blk |-> 0]
  PROVE  BlocksInv'
<1>0. 0 \in ChfsInodes /\ NoBlk # 0 /\ inode_used \subseteq ChfsInodes /\ i \in ChfsInodes /\ i # 0 /\ i \in inode_used
  BY ChfsAssumption DEF NoBlk, ChfsTypeOK, Files
<1>1. \A x : x \in BlocksAt(i) <=> (x # NoBlk /\ \E b \in Blk : Named(i, b) = x)  BY DEF BlocksAt, Named
<1>2. \A j \in ChfsInodes : j # i => \A b \in Blk : Named(j, b)' = Named(j, b)  BY DEF Named
<1>3. \A j \in ChfsInodes, b \in Blk : (Named(j, b) = 0) <=> (j = 0 \/ j \notin inode_used)
  BY DEF BlocksInv, ZeroBlocks, Named
<1>4. \/ inode_used' = inode_used /\ \A b \in Blk : Named(i, b)' = NoBlk
      \/ inode_used' = inode_used \ {i} /\ \A b \in Blk : Named(i, b)' = 0
  BY DEF Named
<1>5. ZeroBlocks'
  <2>1. inode_table'[0].type = "dir"  BY DEF BlocksInv, ZeroBlocks
  <2>2. \A j \in ChfsInodes, b \in Blk : (Named(j, b)' = 0) <=> (j = 0 \/ j \notin inode_used')
    BY <1>0, <1>2, <1>3, <1>4
  <2> QED BY <2>1, <2>2 DEF ZeroBlocks, Named
<1>6. Files' \subseteq Files /\ Files \ {i} \subseteq Files' /\ Files \subseteq ChfsInodes
  BY <1>0, <1>4 DEF Files
<1>7. i \in Files' => \A b \in Blk : Named(i, b)' = NoBlk  BY <1>4 DEF Files
<1>8. MarkedExactly'
  <2>1. ASSUME NEW x, x \in block_used'
        PROVE  x = 0 \/ (x # NoBlk /\ \E j \in Files', b \in Blk : Named(j, b)' = x)
    <3>1. x \in block_used /\ x \notin BlocksAt(i)  BY <2>1
    <3>2. CASE x = 0  BY <3>2
    <3>3. CASE x # 0
      <4>1. PICK j \in Files, b \in Blk : x # NoBlk /\ Named(j, b) = x
        BY <3>1, <3>3 DEF BlocksInv, MarkedExactly
      <4>2. j # i  BY <1>1, <3>1, <4>1
      <4> QED BY <1>2, <1>6, <4>1, <4>2
    <3> QED BY <3>2, <3>3
  <2>2. 0 \in block_used'
    <3>1. 0 \in block_used  BY DEF BlocksInv, MarkedExactly
    <3>2. 0 \notin BlocksAt(i)  BY <1>0, <1>1, <1>3
    <3> QED BY <3>1, <3>2
  <2>3. ASSUME NEW j \in Files', NEW b \in Blk, Named(j, b)' # NoBlk
        PROVE  Named(j, b)' \in block_used'
    <3>1. j # i /\ j \in Files  BY <1>6, <1>7, <2>3
    <3>2. Named(j, b)' = Named(j, b)  BY <1>2, <1>6, <3>1
    <3>3. Named(j, b) \in block_used  BY <2>3, <3>1, <3>2 DEF BlocksInv, MarkedExactly
    <3>4. Named(j, b) \notin BlocksAt(i)  BY <1>1, <2>3, <3>1, <3>2 DEF BlocksInv, OwnedOnce
    <3> QED BY <3>2, <3>3, <3>4
  <2> QED BY <2>1, <2>2, <2>3 DEF MarkedExactly
<1>9. OwnedOnce'
  <2> SUFFICES ASSUME NEW j \in Files', NEW k \in Files', NEW a \in Blk, NEW b \in Blk,
                      Named(j, a)' # NoBlk, Named(j, a)' = Named(k, b)'
               PROVE  j = k /\ a = b
    BY DEF OwnedOnce
  <2>1. j # i /\ k # i  BY <1>7
  <2>2. Named(j, a)' = Named(j, a) /\ Named(k, b)' = Named(k, b) /\ j \in Files /\ k \in Files
    BY <1>2, <1>6, <2>1
  <2>3. Named(j, a) # NoBlk /\ Named(j, a) = Named(k, b)  BY <2>2
  <2>4. \A u, v \in Files, c, d \in Blk :
          (Named(u, c) # NoBlk /\ Named(u, c) = Named(v, d)) => (u = v /\ c = d)
    BY DEF BlocksInv, OwnedOnce
  <2> QED BY <2>2, <2>3, <2>4
<1> QED BY <1>5, <1>8, <1>9 DEF BlocksInv

\* A write takes a free block where the file has none, and only there.
LEMMA BlocksStored ==
  ASSUME ChfsTypeOK, BlocksInv,
         NEW i \in ChfsInodes, NEW o \in Blk, NEW n, NEW who, Store(i, o, n, who),
         inode_used' = inode_used
  PROVE  /\ BlocksInv'
         /\ Named(i, o)' = BlockFor(i, o) /\ BlockFor(i, o) # NoBlk
         /\ i \in inode_used => BlockFor(i, o) \in block_used'
<1> DEFINE m == BlockFor(i, o)
<1>0. 0 \in ChfsInodes /\ NoBlk \notin ChfsBlocks /\ NoBlk # 0 /\ inode_used \subseteq ChfsInodes
      /\ Files \subseteq ChfsInodes
  BY ChfsAssumption DEF NoBlk, ChfsTypeOK, Files
<1>1. m # NoBlk /\ block_used' = block_used \cup (IF Named(i, o) = NoBlk THEN {m} ELSE {})  BY DEF Store, Named
<1>2. Named(i, o) = NoBlk => m \in ChfsBlocks \ block_used
  BY <1>1, SearchesFind DEF BlockFor, FreeBlocks, Named
<1>3. Named(i, o) # NoBlk => m = Named(i, o)  BY DEF BlockFor, Named
<1>4. /\ \A j \in ChfsInodes : inode_table'[j].type = inode_table[j].type
      /\ \A j \in ChfsInodes : j # i => inode_table'[j].blocks = inode_table[j].blocks
      /\ \A b \in Blk : b # o => inode_table'[i].blocks[b] = inode_table[i].blocks[b]
      /\ inode_table'[i].blocks[o] = m
  <2> DEFINE r == [inode_table[i] EXCEPT !.blocks[o] = m, !.size = n]
  <2>1. inode_table' = [inode_table EXCEPT ![i] = r]  BY DEF Store
  <2>2. inode_table[i] \in InodeRecord /\ inode_table \in [ChfsInodes -> InodeRecord]  BY DEF ChfsTypeOK
  <2> HIDE DEF m
  <2>3. /\ r.type = inode_table[i].type
        /\ r.blocks = [inode_table[i].blocks EXCEPT ![o] = m]
    BY <2>2 DEF InodeRecord
  <2> HIDE DEF r
  <2>4. inode_table[i].blocks \in [Blk -> BlockNumber]  BY <2>2 DEF InodeRecord, BlockMap
  <2>5. inode_table'[i] = r /\ \A j \in ChfsInodes : j # i => inode_table'[j] = inode_table[j]  BY <2>1, <2>2
  <2> QED BY <2>3, <2>4, <2>5
<1>5. \A j \in ChfsInodes, b \in Blk : Named(j, b)' = IF j = i /\ b = o THEN m ELSE Named(j, b)
  BY <1>4 DEF Named
<1> HIDE DEF m
<1>6. \A j \in ChfsInodes, b \in Blk : (Named(j, b) = 0) <=> (j = 0 \/ j \notin inode_used)
  BY DEF BlocksInv, ZeroBlocks, Named
<1>7. 0 \in block_used  BY DEF BlocksInv, MarkedExactly
<1>8. Files' = Files  BY DEF Files
<1>9. \A j \in Files, b \in Blk : Named(j, b) # NoBlk => Named(j, b) \in block_used
  BY DEF BlocksInv, MarkedExactly
<1>10. Named(i, o) = NoBlk => i \in Files  BY <1>0, <1>6 DEF Files
<1>11. ZeroBlocks'
  <2>1. \A j \in ChfsInodes, b \in Blk : (Named(j, b)' = 0) <=> (j = 0 \/ j \notin inode_used')
    BY <1>0, <1>2, <1>3, <1>5, <1>6, <1>7
  <2> QED BY <1>0, <1>4, <2>1 DEF ZeroBlocks, Named, BlocksInv
<1>12. MarkedExactly'
  <2>1. ASSUME NEW x, x \in block_used'
        PROVE  x = 0 \/ (x # NoBlk /\ \E j \in Files', b \in Blk : Named(j, b)' = x)
    <3>1. CASE x \in block_used /\ x # 0
      <4>1. PICK j \in Files, b \in Blk : x # NoBlk /\ Named(j, b) = x  BY <3>1 DEF BlocksInv, MarkedExactly
      <4>2. Named(j, b)' = x  BY <1>0, <1>3, <1>5, <4>1
      <4> QED BY <1>8, <4>1, <4>2
    <3>2. CASE Named(i, o) = NoBlk /\ x = m  BY <1>1, <1>5, <1>8, <1>10, <3>2
    <3> QED BY <1>1, <2>1, <3>1, <3>2
  <2>2. ASSUME NEW j \in Files', NEW b \in Blk, Named(j, b)' # NoBlk
        PROVE  Named(j, b)' \in block_used'
    BY <1>0, <1>1, <1>3, <1>5, <1>8, <1>9, <2>2
  <2> QED BY <1>1, <1>7, <2>1, <2>2 DEF MarkedExactly
<1>13. OwnedOnce'
  <2> SUFFICES ASSUME NEW j \in Files, NEW k \in Files, NEW a \in Blk, NEW b \in Blk,
                      Named(j, a)' # NoBlk, Named(j, a)' = Named(k, b)'
               PROVE  j = k /\ a = b
    BY <1>8 DEF OwnedOnce
  <2>1. CASE Named(i, o) # NoBlk  BY <1>0, <1>3, <1>5, <2>1 DEF BlocksInv, OwnedOnce
  <2>2. CASE Named(i, o) = NoBlk  BY <1>0, <1>2, <1>5, <1>9, <2>2 DEF BlocksInv, OwnedOnce
  <2> QED BY <2>1, <2>2
<1>14. i \in inode_used => m \in block_used'  BY <1>0, <1>1, <1>2, <1>3, <1>6, <1>7, <1>9 DEF Files
<1> QED BY <1>1, <1>5, <1>11, <1>12, <1>13, <1>14 DEF BlocksInv, m

\* No call loses a block, frees one in use or gives one out twice.
LEMMA BlocksStep ==
  ASSUME ChfsTypeOK, ChfsTypeOK', BlocksInv, [ChfsNext]_chfsVars
  PROVE  BlocksInv'
<1>0. /\ inode_used \subseteq ChfsInodes
      /\ 0 \in ChfsInodes /\ 0 \in inode_used
      /\ inode_table \in [ChfsInodes -> InodeRecord]
      /\ inode_table[0].type = "dir"
  BY ChfsAssumption DEF ChfsTypeOK, BlocksInv, ZeroBlocks
<1>1. ASSUME NEW i \in FreeInodes, NEW p, NEW y, Reborn(i), block_used' = block_used \cup CreatedBlocks,
             \/ inode_table' = [inode_table EXCEPT ![i] = Created(i, p, y)]
             \/ inode_table' = [inode_table EXCEPT ![i] = [Created(i, p, y) EXCEPT !.ref = 1]]
      PROVE  BlocksInv'
  <2>1. i \in ChfsInodes /\ i \notin inode_used /\ i # 0  BY DEF FreeInodes
  <2>2. inode_used' = inode_used \cup {i}  BY <1>1 DEF Reborn
  <2>3. \A j \in ChfsInodes : j # i => inode_table'[j] = inode_table[j]  BY <1>0, <1>1
  <2>4. inode_table'[i].blocks = [b \in Blk |-> IF b = 0 /\ FreeBlocks # {} THEN Min(FreeBlocks) ELSE NoBlk]
    <3> DEFINE B == [b \in Blk |-> IF b = 0 /\ FreeBlocks # {} THEN Min(FreeBlocks) ELSE NoBlk]
               z == IF y = "dir" THEN 1 ELSE 0
               r == [type |-> y, size |-> z, name |-> p, ref |-> 0, blocks |-> B]
    <3>1. Created(i, p, y) = r  BY DEF Created
    <3> HIDE DEF B, z
    <3>2. r.blocks = B /\ [r EXCEPT !.ref = 1].blocks = B  OBVIOUS
    <3> HIDE DEF r
    <3>3. inode_table'[i] = r \/ inode_table'[i] = [r EXCEPT !.ref = 1]  BY <1>0, <1>1, <2>1, <3>1
    <3> QED BY <3>2, <3>3 DEF B
  <2> QED BY <1>1, <2>1, <2>2, <2>3, <2>4, BlocksNew
<1>2. ASSUME NEW p, fs_mkdir(p) PROVE BlocksInv'
  <2>1. Min(FreeInodes) \in FreeInodes  BY <1>2, SearchesFind DEF fs_mkdir
  <2> QED BY <1>1, <1>2, <2>1 DEF fs_mkdir
<1>3. ASSUME NEW t, NEW p, fs_open_create(t, p) PROVE BlocksInv'
  <2>1. Min(FreeInodes) \in FreeInodes  BY <1>3, SearchesFind DEF fs_open_create
  <2>2. \/ inode_table' = [inode_table EXCEPT ![Min(FreeInodes)] = Created(Min(FreeInodes), p, "file")]
        \/ inode_table' = [inode_table EXCEPT ![Min(FreeInodes)] = [Created(Min(FreeInodes), p, "file") EXCEPT !.ref = 1]]
    BY <1>3 DEF fs_open_create
  <2>3. Reborn(Min(FreeInodes)) /\ block_used' = block_used \cup CreatedBlocks  BY <1>3 DEF fs_open_create
  <2> QED BY <1>1, <2>1, <2>2, <2>3
<1>4. ASSUME NEW p, fs_unlink(p) PROVE BlocksInv'
  <2> DEFINE i == Lookup(p)
  <2>1. i \in Files  BY <1>4, SearchesFind DEF fs_unlink, Files
  <2>2. /\ block_used' = block_used \ BlocksAt(i)
        /\ inode_used' = inode_used \ {i}
        /\ inode_table' = [inode_table EXCEPT ![i] = ZeroInode]
    BY <1>4 DEF fs_unlink
  <2> HIDE DEF i
  <2>3. \A j \in ChfsInodes : j # i => inode_table'[j] = inode_table[j]  BY <1>0, <2>2
  <2>4. inode_table'[i].blocks = [b \in Blk |-> 0] /\ inode_table'[0] = inode_table[0]
    BY <1>0, <2>1, <2>2 DEF ZeroInode, Files
  <2> QED BY <2>1, <2>2, <2>3, <2>4, BlocksBack
<1>5. ASSUME NEW t, NEW p, NEW trunc \in BOOLEAN, NEW append, fs_open(t, p, trunc, append) PROVE BlocksInv'
  <2> DEFINE i == Lookup(p)
             cut == trunc /\ inode_table[i].type = "file"
             in == IF cut THEN Emptied(inode_table[i]) ELSE inode_table[i]
  <2>1. i \in inode_used /\ i \in ChfsInodes  BY <1>0, <1>5, SearchesFind DEF fs_open
  <2>2. /\ block_used' = IF cut THEN block_used \ BlocksAt(i) ELSE block_used
        /\ inode_used' = inode_used
        /\ \/ inode_table' = [inode_table EXCEPT ![i] = [in EXCEPT !.ref = @ + 1]]
           \/ inode_table' = [inode_table EXCEPT ![i] = in]
    BY <1>5 DEF fs_open
  <2>3. cut => i \in Files  BY <1>0, <2>1 DEF Files
  <2>4. inode_table[i] \in InodeRecord  BY <1>0, <2>1
  <2>5. in \in InodeRecord /\ in.type = inode_table[i].type
        /\ in.blocks = IF cut THEN [b \in Blk |-> NoBlk] ELSE inode_table[i].blocks
    BY <2>4, PiecesTyped DEF Emptied, InodeRecord
  <2> HIDE DEF in, cut, i
  <2>6. [in EXCEPT !.ref = @ + 1].type = in.type /\ [in EXCEPT !.ref = @ + 1].blocks = in.blocks
    BY <2>5 DEF InodeRecord
  <2>7. inode_table'[i].type = in.type /\ inode_table'[i].blocks = in.blocks  BY <1>0, <2>1, <2>2, <2>6
  <2>8. \A j \in ChfsInodes : j # i => inode_table'[j] = inode_table[j]  BY <1>0, <2>1, <2>2
  <2>9. inode_table'[0].type = inode_table[0].type  BY <1>0, <2>5, <2>7, <2>8
  <2>10. CASE cut
    <3>1. inode_table'[i].blocks = [b \in Blk |-> NoBlk] /\ block_used' = block_used \ BlocksAt(i)
      BY <2>2, <2>5, <2>7, <2>10
    <3>2. \A j \in ChfsInodes : j # i => inode_table'[j].blocks = inode_table[j].blocks  BY <2>8
    <3> QED BY <2>2, <2>3, <2>9, <2>10, <3>1, <3>2, BlocksBack
  <2>11. CASE ~cut
    <3>1. block_used' = block_used /\ \A j \in ChfsInodes : inode_table'[j].blocks = inode_table[j].blocks
      BY <2>2, <2>5, <2>7, <2>8, <2>11
    <3> QED BY <1>0, <2>2, <2>9, <3>1, BlocksKept
  <2> QED BY <2>10, <2>11
<1>6. ASSUME NEW p, chfs_write_file(p) PROVE BlocksInv'
  <2>1. Lookup(p) \in ChfsInodes /\ 0 \in Blk  BY <1>0, <1>6, SearchesFind, PiecesTyped DEF chfs_write_file
  <2> QED BY <1>6, <2>1, BlocksStored DEF chfs_write_file
<1>7. ASSUME NEW h \in Handles, fs_write(h) PROVE BlocksInv'
  <2>1. Fd(h).off \in Blk /\ Fd(h).ino \in ChfsInodes
    BY <1>7, PiecesTyped, ChfsAssumption DEF fs_write, Descriptor, Blk
  <2> QED BY <1>7, <2>1, BlocksStored DEF fs_write
<1>8. ASSUME inode_used' = inode_used, block_used' = block_used,
             \A i \in ChfsInodes : inode_table'[i].type = inode_table[i].type /\ inode_table'[i].blocks = inode_table[i].blocks
      PROVE  BlocksInv'
  BY <1>0, <1>8, BlocksKept
<1>9. \A H : \A i \in ChfsInodes : Dropped(H)[i].type = inode_table[i].type /\ Dropped(H)[i].blocks = inode_table[i].blocks
  <2> TAKE H
  <2> TAKE i \in ChfsInodes
  <2> DEFINE n == inode_table[i].ref - Cardinality({h \in H : Fd(h).valid /\ Fd(h).ino = i})
  <2>1. Dropped(H)[i] = [inode_table[i] EXCEPT !.ref = n]  BY DEF Dropped
  <2> HIDE DEF n
  <2>2. inode_table[i] \in InodeRecord  BY <1>0
  <2> QED BY <2>1, <2>2 DEF InodeRecord
<1>10. ASSUME NEW h, fs_close(h) PROVE BlocksInv'  BY <1>8, <1>9, <1>10 DEF fs_close
<1>11. ASSUME NEW t, fs_close_table(t) PROVE BlocksInv'  BY <1>8, <1>9, <1>11 DEF fs_close_table
<1>12. ASSUME NEW t, NEW u, fd_table_copy(t, u) PROVE BlocksInv'
  <2>1. ASSUME NEW i \in ChfsInodes
        PROVE  inode_table'[i].type = inode_table[i].type /\ inode_table'[i].blocks = inode_table[i].blocks
    <3> DEFINE n == inode_table[i].ref
                      + Cardinality({f \in ChfsFds : fd_table[u][f].valid /\ fd_table[u][f].ino = i})
    <3>1. inode_table'[i] = [inode_table[i] EXCEPT !.ref = n]  BY <1>12 DEF fd_table_copy
    <3> HIDE DEF n
    <3>2. inode_table[i] \in InodeRecord  BY <1>0
    <3> QED BY <3>1, <3>2 DEF InodeRecord
  <2> QED BY <1>8, <1>12, <2>1 DEF fd_table_copy
<1>13. ASSUME NEW t \in ChfsTasks, NEW f, NEW g \in ChfsFds, fs_dup2(t, f, g) PROVE BlocksInv'
  <2>1. ASSUME NEW i \in ChfsInodes
        PROVE  inode_table'[i].type = inode_table[i].type /\ inode_table'[i].blocks = inode_table[i].blocks
    <3> DEFINE D == Dropped({<<t, g>>})
               n == D[i].ref + (IF i = fd_table[t][f].ino THEN 1 ELSE 0)
    <3>1. inode_table'[i] = [D[i] EXCEPT !.ref = n]  BY <1>13 DEF fs_dup2
    <3>2. D[i].type = inode_table[i].type /\ D[i].blocks = inode_table[i].blocks  BY <1>9
    <3>3. D[i] \in InodeRecord
      <4>1. {<<t, g>>} \in SUBSET Handles  BY DEF Handles
      <4> QED BY <4>1, PiecesTyped
    <3> HIDE DEF n, D
    <3> QED BY <3>1, <3>2, <3>3 DEF InodeRecord
  <2> QED BY <1>8, <1>13, <2>1 DEF fs_dup2
<1>14. ASSUME NEW p, chfs_truncate(p) PROVE BlocksInv'
  <2>1. Lookup(p) \in ChfsInodes  BY <1>0, <1>14, SearchesFind DEF chfs_truncate
  <2>2. \A i \in ChfsInodes : inode_table'[i].type = inode_table[i].type /\ inode_table'[i].blocks = inode_table[i].blocks
    BY <1>0, <1>14, <2>1 DEF chfs_truncate, InodeRecord
  <2> QED BY <1>8, <1>14, <2>2 DEF chfs_truncate
<1>15. ASSUME NEW p, NEW q, chfs_move(p, q) PROVE BlocksInv'
  <2>1. Lookup(p) \in ChfsInodes  BY <1>0, <1>15, SearchesFind DEF chfs_move
  <2>2. \A i \in ChfsInodes : inode_table'[i].type = inode_table[i].type /\ inode_table'[i].blocks = inode_table[i].blocks
    BY <1>0, <1>15, <2>1 DEF chfs_move, InodeRecord
  <2> QED BY <1>8, <1>15, <2>2 DEF chfs_move
<1>16. ASSUME NEW h, fs_read(h) PROVE BlocksInv'  BY <1>8, <1>16 DEF fs_read
<1>17. CASE UNCHANGED chfsVars  BY <1>8, <1>17 DEF chfsVars
<1> QED
  BY <1>2, <1>3, <1>4, <1>5, <1>6, <1>7, <1>10, <1>11, <1>12, <1>13, <1>14, <1>15, <1>16, <1>17 DEF ChfsNext

\* What a call writes is in a block of the file it meant, unless some
\* descriptor has outlived its file.
LEMMA WriteStep ==
  ASSUME ChfsTypeOK, BlocksInv, WriteStaysInFile, [ChfsNext]_chfsVars
  PROVE  WriteStaysInFile'
<1>1. ASSUME NEW i \in inode_used, NEW o \in Blk, NEW n, NEW l, Store(i, o, n, <<i, l>>),
             inode_used' = inode_used, inode_life' = inode_life, l = inode_life[i]
      PROVE  WriteStaysInFile'
  <2>1. i \in ChfsInodes  BY DEF ChfsTypeOK
  <2>2. /\ Named(i, o)' = BlockFor(i, o) /\ BlockFor(i, o) # NoBlk /\ BlockFor(i, o) \in block_used'
    BY <1>1, <2>1, BlocksStored
  <2>3. stored' = [blk |-> BlockFor(i, o), ino |-> i, life |-> l]  BY <1>1 DEF Store
  <2>4. (stored.blk \in BlocksAt(stored.ino))'  BY <2>2, <2>3 DEF BlocksAt, Named
  <2> QED BY <1>1, <2>2, <2>3, <2>4 DEF WriteStaysInFile
<1>2. ASSUME NEW p, chfs_write_file(p) PROVE WriteStaysInFile'
  <2>1. Lookup(p) \in inode_used /\ 0 \in Blk  BY <1>2, SearchesFind, PiecesTyped DEF chfs_write_file
  <2> QED BY <1>1, <1>2, <2>1 DEF chfs_write_file
<1>3. ASSUME NEW h \in Handles, fs_write(h) PROVE WriteStaysInFile'
  <2>1. /\ Fd(h) \in Descriptor /\ Fd(h).off \in Blk
        /\ h[1] \in ChfsTasks /\ h[2] \in ChfsFds
    BY <1>3, PiecesTyped, ChfsAssumption DEF fs_write, Descriptor, Blk, Handles
  <2>2. Fd(h)' = [Fd(h) EXCEPT !.off = @ + 1]  BY <1>3, <2>1 DEF fs_write, Fd, ChfsTypeOK
  <2>3. Fd(h)'.valid /\ Fd(h)'.ino = Fd(h).ino /\ Fd(h)'.life = Fd(h).life
    BY <1>3, <2>1, <2>2 DEF Descriptor, fs_write
  <2>4. inode_used' = inode_used /\ inode_life' = inode_life  BY <1>3 DEF fs_write
  <2>5. CASE Fd(h).ino \in inode_used /\ Fd(h).life = inode_life[Fd(h).ino]
    BY <1>1, <1>3, <2>1, <2>4, <2>5 DEF fs_write
  <2>6. CASE ~(Fd(h).ino \in inode_used /\ Fd(h).life = inode_life[Fd(h).ino])
    BY <2>3, <2>4, <2>6 DEF WriteStaysInFile
  <2> QED BY <2>5, <2>6
<1>4. CASE stored' = NotStored  BY <1>4 DEF WriteStaysInFile
<1>5. CASE UNCHANGED chfsVars
  <2>1. /\ stored' = stored /\ inode_used' = inode_used /\ inode_life' = inode_life
        /\ fd_table' = fd_table /\ inode_table' = inode_table /\ block_used' = block_used
    BY <1>5 DEF chfsVars
  <2> QED BY <2>1 DEF WriteStaysInFile, BlocksAt, Fd
<1> QED BY <1>2, <1>3, <1>4, <1>5
  DEF ChfsNext, fs_mkdir, fs_unlink, chfs_move, chfs_truncate, fs_open_create, fs_open, fs_read, fs_close,
      fs_close_table, fd_table_copy, fs_dup2

------------------------------

\* Counts: the descriptors on the present life of inode i.
Counted(h, i) == Fd(h).valid /\ Fd(h).ino = i /\ Fd(h).life = inode_life[i]
OnFile(i) == {h \in Handles : Counted(h, i)}
CountsInv == LifePast /\ RefCountExact

\* There are finitely many descriptors.
LEMMA HandlesFinite ==
  /\ IsFiniteSet(Handles)
  /\ \A S \in SUBSET Handles : IsFiniteSet(S) /\ Cardinality(S) \in Nat
  /\ \A F \in SUBSET ChfsFds : IsFiniteSet(F) /\ Cardinality(F) \in Nat
<1>1. IsFiniteSet(Handles)  BY FS_Product, ChfsAssumption DEF Handles
<1>2. \A S \in SUBSET Handles : IsFiniteSet(S) /\ Cardinality(S) \in Nat  BY <1>1, FS_Subset, FS_CardinalityType
<1>3. \A F \in SUBSET ChfsFds : IsFiniteSet(F) /\ Cardinality(F) \in Nat
  BY ChfsAssumption, FS_Subset, FS_CardinalityType
<1> QED BY <1>1, <1>2, <1>3

\* RefCountExact in these words.
LEMMA ExactMeans ==
  /\ RefCountExact <=> \A i \in Files : ~miscounted[i] => inode_table[i].ref = Cardinality(OnFile(i))
  /\ RefCountExact' <=> \A i \in Files' : ~miscounted'[i] => inode_table'[i].ref = Cardinality(OnFile(i)')
<1>1. \A i : OnFile(i) = {h \in Handles : Fd(h).valid /\ Fd(h).ino = i /\ Fd(h).life = inode_life[i]}
  BY DEF OnFile, Counted
<1>2. \A i : OnFile(i)' = {h \in Handles : Fd(h)'.valid /\ Fd(h)'.ino = i /\ Fd(h)'.life = inode_life'[i]}
  BY DEF OnFile, Counted
<1>3. RefCountExact <=> \A i \in Files : ~miscounted[i] => inode_table[i].ref = Cardinality(OnFile(i))
  BY <1>1, Zenon DEF RefCountExact, Files
<1>4. RefCountExact' <=> \A i \in Files' : ~miscounted'[i] => inode_table'[i].ref = Cardinality(OnFile(i)')
  BY <1>2, Zenon DEF RefCountExact, Files
<1> QED BY <1>3, <1>4

\* A call after which the same descriptors are on the same files.
LEMMA CountsKept ==
  ASSUME ChfsTypeOK, CountsInv,
         inode_used' \subseteq inode_used, inode_life' = inode_life, miscounted' = miscounted,
         \A i \in Files' : inode_table'[i].ref = inode_table[i].ref,
         \A h \in Handles : /\ Fd(h)'.valid = Fd(h).valid
                            /\ Fd(h)'.ino = Fd(h).ino
                            /\ Fd(h)'.life = Fd(h).life
  PROVE  CountsInv'
<1>1. LifePast'  BY DEF CountsInv, LifePast
<1>2. Files' \subseteq Files  BY DEF Files
<1>3. \A i : OnFile(i)' = OnFile(i)
  <2> TAKE i
  <2>1. \A h \in Handles : Counted(h, i)' <=> Counted(h, i)  BY DEF Counted
  <2> QED BY <2>1 DEF OnFile
<1>4. RefCountExact  BY DEF CountsInv
<1>5. RefCountExact'  BY <1>2, <1>3, <1>4, ExactMeans
<1> QED BY <1>1, <1>5 DEF CountsInv

\* A new file starts without descriptors, and takes none from the others,
\* however many are left of the file that had its number before.
LEMMA CountsNew ==
  ASSUME ChfsTypeOK, CountsInv,
         NEW i \in FreeInodes, Reborn(i),
         \A j \in ChfsInodes : j # i => inode_table'[j] = inode_table[j],
         \/ /\ fd_table' = fd_table
            /\ inode_table'[i].ref = 0
         \/ \E n \in Handles :
               /\ ~Fd(n).valid
               /\ \A h \in Handles : h # n => Fd(h)' = Fd(h)
               /\ Fd(n)'.valid /\ Fd(n)'.ino = i /\ Fd(n)'.life = inode_life[i] + 1
               /\ inode_table'[i].ref = 1
  PROVE  CountsInv'
<1>1. i \in ChfsInodes /\ i \notin Files /\ i # 0 /\ inode_life[i] \in Nat  BY DEF FreeInodes, Files, ChfsTypeOK
<1>2. /\ Files' = Files \cup {i}
      /\ inode_life' = [inode_life EXCEPT ![i] = @ + 1]
      /\ miscounted' = [miscounted EXCEPT ![i] = FALSE]
  BY <1>1 DEF Reborn, Files
<1>3. /\ inode_life'[i] = inode_life[i] + 1
      /\ \A j \in ChfsInodes : j # i => inode_life'[j] = inode_life[j]
      /\ \A j \in ChfsInodes : j # i => miscounted'[j] = miscounted[j]
  BY <1>1, <1>2 DEF ChfsTypeOK
<1>4. Files \subseteq ChfsInodes /\ i \notin Files  BY <1>1 DEF Files, ChfsTypeOK
<1>5. \A h \in Handles : Fd(h).valid => Fd(h).life <= inode_life[Fd(h).ino]  BY DEF CountsInv, LifePast
<1>6. \A h \in Handles : Fd(h).ino \in ChfsInodes /\ Fd(h).life \in Nat /\ inode_life[Fd(h).ino] \in Nat
  BY PiecesTyped DEF Descriptor, ChfsTypeOK
<1>7. CASE fd_table' = fd_table /\ inode_table'[i].ref = 0
  <2>1. \A h : Fd(h)' = Fd(h)  BY <1>7 DEF Fd
  <2>2. LifePast'  BY <1>3, <1>5, <1>6, <2>1 DEF LifePast
  <2>3. OnFile(i)' = {}
    <3>1. ASSUME NEW h \in Handles, Fd(h).valid, Fd(h).ino = i, Fd(h).life = inode_life[i] + 1 PROVE FALSE
      BY <1>1, <1>5, <1>6, <3>1
    <3> QED BY <1>3, <2>1, <3>1 DEF OnFile, Counted
  <2>4. \A j \in Files : OnFile(j)' = OnFile(j)  BY <1>3, <1>4, <2>1 DEF OnFile, Counted
  <2>5. \A j \in Files' : ~miscounted'[j] => inode_table'[j].ref = Cardinality(OnFile(j)')
    BY <1>2, <1>3, <1>4, <1>7, <2>3, <2>4, FS_EmptySet, ExactMeans DEF CountsInv
  <2> QED BY <2>2, <2>5, ExactMeans DEF CountsInv
<1>8. CASE \E n \in Handles :
                 /\ ~Fd(n).valid
                 /\ \A h \in Handles : h # n => Fd(h)' = Fd(h)
                 /\ Fd(n)'.valid /\ Fd(n)'.ino = i /\ Fd(n)'.life = inode_life[i] + 1
                 /\ inode_table'[i].ref = 1
  <2>1. PICK n \in Handles :
                 /\ ~Fd(n).valid
                 /\ \A h \in Handles : h # n => Fd(h)' = Fd(h)
                 /\ Fd(n)'.valid /\ Fd(n)'.ino = i /\ Fd(n)'.life = inode_life[i] + 1
                 /\ inode_table'[i].ref = 1
    BY <1>8
  <2>2. LifePast'
    <3> SUFFICES ASSUME NEW h \in Handles, Fd(h)'.valid PROVE Fd(h)'.life <= inode_life'[Fd(h)'.ino]
      BY DEF LifePast
    <3>1. CASE h = n  BY <1>1, <1>3, <2>1, <3>1
    <3>2. CASE h # n
      <4>1. Fd(h)' = Fd(h) /\ Fd(h).valid  BY <2>1, <3>2
      <4>2. Fd(h).life <= inode_life[Fd(h).ino] /\ Fd(h).ino \in ChfsInodes  BY <1>5, <1>6, <4>1
      <4> QED BY <1>1, <1>3, <1>6, <4>1, <4>2
    <3> QED BY <3>1, <3>2
  <2>3. OnFile(i)' = {n}
    <3>1. ASSUME NEW h \in Handles, Fd(h).valid, Fd(h).ino = i, Fd(h).life = inode_life[i] + 1 PROVE FALSE
      BY <1>1, <1>5, <1>6, <3>1
    <3>2. \A h \in Handles : Counted(h, i)' <=> h = n  BY <1>3, <2>1, <3>1 DEF Counted
    <3> QED BY <3>2 DEF OnFile
  <2>4. ASSUME NEW j \in Files PROVE OnFile(j)' = OnFile(j)
    <3>1. \A h \in Handles : Counted(h, j)' <=> Counted(h, j)  BY <1>3, <1>4, <2>1 DEF Counted
    <3> QED BY <3>1 DEF OnFile
  <2>5. \A j \in Files' : ~miscounted'[j] => inode_table'[j].ref = Cardinality(OnFile(j)')
    <3>1. inode_table'[i].ref = Cardinality(OnFile(i)')  BY <2>1, <2>3, FS_Singleton
    <3>2. \A j \in Files : ~miscounted'[j] => inode_table'[j].ref = Cardinality(OnFile(j)')
      BY <1>3, <1>4, <2>4, ExactMeans DEF CountsInv
    <3> QED BY <1>2, <3>1, <3>2
  <2> QED BY <2>2, <2>5, ExactMeans DEF CountsInv
<1> QED BY <1>7, <1>8

\* Closing the descriptors in H takes them off the files they are on,
\* unless one of them has outlived its file.
LEMMA DropCounts ==
  ASSUME ChfsTypeOK, CountsInv, NEW H \in SUBSET Handles, NEW i \in Files, ~StaleIn(H)[i]
  PROVE  Dropped(H)[i].ref = Cardinality({h \in OnFile(i) : h \notin H})
<1> DEFINE D == {h \in H : Fd(h).valid /\ Fd(h).ino = i}
           S == OnFile(i)
           R == {h \in S : h \notin H}
<1>1. i \in ChfsInodes /\ inode_table[i] \in InodeRecord  BY DEF Files, ChfsTypeOK
<1>2. ~miscounted[i] /\ \A h \in H : (Fd(h).valid /\ Fd(h).ino = i) => Fd(h).life = inode_life[i]
  BY <1>1 DEF StaleIn
<1>3. D \subseteq S /\ R = S \ D /\ S \in SUBSET Handles  BY <1>2 DEF OnFile, Counted
<1>4. Dropped(H)[i].ref = inode_table[i].ref - Cardinality(D)
  <2> DEFINE n == inode_table[i].ref - Cardinality(D)
  <2>1. Dropped(H)[i] = [inode_table[i] EXCEPT !.ref = n]  BY <1>1 DEF Dropped
  <2> HIDE DEF n
  <2>2. Dropped(H)[i].ref = n  BY <1>1, <2>1 DEF InodeRecord
  <2> QED BY <2>2 DEF n
<1>5. inode_table[i].ref = Cardinality(S)  BY <1>2, ExactMeans DEF CountsInv
<1> HIDE DEF D, S, R
<1>6. Cardinality(R) = Cardinality(S) - Cardinality(D)
  <2>1. IsFiniteSet(S) /\ S \cap D = D  BY <1>3, HandlesFinite
  <2>2. Cardinality(S \ D) = Cardinality(S) - Cardinality(S \cap D)  BY <2>1, FS_Difference
  <2> QED BY <1>3, <2>1, <2>2
<1> QED BY <1>4, <1>5, <1>6 DEF D, S, R

\* close(), and the exit of a task.
LEMMA CountsDropped ==
  ASSUME ChfsTypeOK, CountsInv, NEW H \in SUBSET Handles,
         inode_used' = inode_used, inode_life' = inode_life,
         inode_table' = Dropped(H), miscounted' = StaleIn(H),
         \A h \in Handles : Fd(h)' = IF h \in H THEN NoFd ELSE Fd(h)
  PROVE  CountsInv'
<1>1. LifePast'  BY DEF CountsInv, LifePast, NoFd
<1>2. Files' = Files  BY DEF Files
<1>3. ASSUME NEW i \in Files PROVE OnFile(i)' = {h \in OnFile(i) : h \notin H}
  <2>1. \A h \in Handles : Counted(h, i)' <=> (Counted(h, i) /\ h \notin H)  BY DEF Counted, NoFd
  <2> QED BY <2>1 DEF OnFile
<1>4. \A i \in Files : ~miscounted'[i] => inode_table'[i].ref = Cardinality(OnFile(i)')  BY <1>3, DropCounts
<1> QED BY <1>1, <1>2, <1>4, ExactMeans DEF CountsInv

\* A new task starts on the files of its parent.
LEMMA CountsCopied ==
  ASSUME ChfsTypeOK, CountsInv, NEW u \in ChfsTasks, NEW t \in ChfsTasks, fd_table_copy(t, u)
  PROVE  CountsInv'
<1>0. /\ t # u /\ \A f \in ChfsFds : ~fd_table[t][f].valid
      /\ fd_table' = [fd_table EXCEPT ![t] = fd_table[u]]
      /\ miscounted' = StaleIn({u} \X ChfsFds)
      /\ inode_used' = inode_used /\ inode_life' = inode_life
  BY DEF fd_table_copy
<1>1. \A f \in ChfsFds : /\ <<t, f>> \in Handles /\ ~Fd(<<t, f>>).valid
                         /\ <<u, f>> \in Handles /\ Fd(<<t, f>>)' = Fd(<<u, f>>)
  BY <1>0 DEF Fd, Handles, ChfsTypeOK
<1>2. \A h \in Handles : h[1] # t => Fd(h)' = Fd(h)  BY <1>0 DEF Fd, Handles, ChfsTypeOK
<1>3. \A h \in Handles : h[2] \in ChfsFds /\ h = <<h[1], h[2]>>  BY DEF Handles
<1>4. LifePast'
  <2> SUFFICES ASSUME NEW h \in Handles, Fd(h)'.valid PROVE Fd(h)'.life <= inode_life'[Fd(h)'.ino]
    BY DEF LifePast
  <2>1. \E g \in Handles : Fd(h)' = Fd(g)
    <3>1. CASE h[1] = t
      <4>1. h = <<t, h[2]>> /\ h[2] \in ChfsFds  BY <1>3, <3>1
      <4> QED BY <1>1, <4>1
    <3>2. CASE h[1] # t  BY <1>2, <3>2
    <3> QED BY <3>1, <3>2
  <2> QED BY <1>0, <2>1 DEF CountsInv, LifePast
<1>5. Files' = Files  BY <1>0 DEF Files
<1>6. ASSUME NEW i \in Files, ~miscounted'[i]
      PROVE  inode_table'[i].ref = Cardinality(OnFile(i)')
  <2> DEFINE F == {f \in ChfsFds : fd_table[u][f].valid /\ fd_table[u][f].ino = i}
             S == OnFile(i)
             A == {t} \X F
  <2>1. i \in ChfsInodes /\ inode_table[i] \in InodeRecord  BY DEF Files, ChfsTypeOK
  <2>2. ~miscounted[i] /\ \A f \in F : Fd(<<u, f>>).life = inode_life[i]  BY <1>0, <1>6, <2>1 DEF StaleIn, Fd
  <2>3. \A f \in ChfsFds : f \in F <=> Fd(<<u, f>>).valid /\ Fd(<<u, f>>).ino = i  BY DEF Fd
  <2>4. inode_table'[i].ref = inode_table[i].ref + Cardinality(F)
    <3> DEFINE n == inode_table[i].ref + Cardinality(F)
    <3>1. inode_table'[i] = [inode_table[i] EXCEPT !.ref = n]  BY <2>1 DEF fd_table_copy
    <3> HIDE DEF n
    <3>2. inode_table'[i].ref = n  BY <2>1, <3>1 DEF InodeRecord
    <3> QED BY <3>2 DEF n
  <2>5. F \in SUBSET ChfsFds /\ S \in SUBSET Handles  BY DEF OnFile
  <2>6. inode_table[i].ref = Cardinality(S)  BY <2>2, ExactMeans DEF CountsInv
  <2> HIDE DEF F
  <2>7. OnFile(i)' = S \cup A
    <3>1. ASSUME NEW h \in Handles PROVE Counted(h, i)' <=> (Counted(h, i) \/ h \in A)
      <4>1. CASE h[1] = t
        <5>1. h = <<t, h[2]>> /\ h[2] \in ChfsFds  BY <1>3, <4>1
        <5>2. h \in A <=> h[2] \in F  BY <5>1
        <5> QED BY <1>0, <1>1, <2>2, <2>3, <5>1, <5>2 DEF Counted
      <4>2. CASE h[1] # t
        <5>1. h \notin A  BY <4>2
        <5> QED BY <1>0, <1>2, <4>2, <5>1 DEF Counted
      <4> QED BY <4>1, <4>2
    <3>2. A \subseteq Handles  BY <2>5 DEF Handles
    <3> HIDE DEF A
    <3> QED BY <3>1, <3>2 DEF OnFile
  <2>8. S \cap A = {}
    <3>1. \A h \in S : h \in Handles /\ Fd(h).valid  BY DEF OnFile, Counted
    <3>2. \A h \in A : h = <<t, h[2]>> /\ h[2] \in ChfsFds  BY <2>5
    <3>3. \A h \in A : ~Fd(h).valid  BY <1>1, <3>2
    <3> QED BY <3>1, <3>3
  <2>9. IsFiniteSet(S) /\ Cardinality(S) \in Nat /\ IsFiniteSet(F) /\ Cardinality(F) \in Nat
    BY <2>5, HandlesFinite
  <2>10. IsFiniteSet(A) /\ Cardinality(A) = Cardinality(F)
    <3>1. IsFiniteSet({t}) /\ Cardinality({t}) = 1  BY FS_Singleton
    <3>2. IsFiniteSet(A) /\ Cardinality(A) = Cardinality({t}) * Cardinality(F)  BY <2>9, <3>1, FS_Product
    <3> DEFINE T == {t}
    <3>3. Cardinality(T) = 1  BY <3>1
    <3>4. Cardinality(A) = Cardinality(T) * Cardinality(F)  BY <3>2
    <3> HIDE DEF A, T
    <3> QED BY <2>9, <3>2, <3>3, <3>4
  <2> HIDE DEF S, A
  <2>11. Cardinality(S \cup A) = Cardinality(S) + Cardinality(A) - Cardinality(S \cap A)
    BY <2>9, <2>10, FS_Union
  <2>12. Cardinality(S \cap A) = 0  BY <2>8, FS_EmptySet
  <2>13. Cardinality(S \cup A) = Cardinality(S) + Cardinality(F)  BY <2>9, <2>10, <2>11, <2>12
  <2>14. Cardinality(OnFile(i)') = Cardinality(S \cup A)  BY <2>7
  <2> QED BY <2>4, <2>6, <2>13, <2>14
<1> QED BY <1>4, <1>5, <1>6, ExactMeans DEF CountsInv

\* dup2(): off one file and onto another, which may be the same.
LEMMA CountsDup ==
  ASSUME ChfsTypeOK, CountsInv, NEW t \in ChfsTasks, NEW f \in ChfsFds, NEW g \in ChfsFds, fs_dup2(t, f, g)
  PROVE  CountsInv'
<1> DEFINE n == <<t, g>>
           o == <<t, f>>
           H == {n}
<1>0. /\ Fd(o).valid /\ n # o /\ n \in Handles /\ o \in Handles
      /\ miscounted' = StaleIn({n, o})
      /\ inode_used' = inode_used /\ inode_life' = inode_life
  BY DEF fs_dup2, Fd, Handles
<1>1. Fd(n)' = Fd(o) /\ \A h \in Handles : h # n => Fd(h)' = Fd(h)  BY DEF fs_dup2, Fd, Handles, ChfsTypeOK
<1>2. \A i \in ChfsInodes : inode_table'[i].ref = Dropped(H)[i].ref + (IF i = Fd(o).ino THEN 1 ELSE 0)
  <2> TAKE i \in ChfsInodes
  <2> DEFINE D == Dropped(H)
             k == D[i].ref + (IF i = Fd(o).ino THEN 1 ELSE 0)
  <2>1. inode_table'[i] = [D[i] EXCEPT !.ref = k]  BY DEF fs_dup2, Fd
  <2>2. D[i] \in InodeRecord  BY <1>0, PiecesTyped
  <2> HIDE DEF D, k
  <2>3. inode_table'[i].ref = k  BY <2>1, <2>2 DEF InodeRecord
  <2> QED BY <2>3 DEF k, D
<1> HIDE DEF n, o
<1>3. LifePast'  BY <1>0, <1>1 DEF CountsInv, LifePast
<1>4. Files' = Files  BY <1>0 DEF Files
<1>5. ASSUME NEW i \in Files, ~miscounted'[i]
      PROVE  inode_table'[i].ref = Cardinality(OnFile(i)')
  <2> DEFINE R == {h \in OnFile(i) : h \notin H}
  <2>1. i \in ChfsInodes  BY DEF Files, ChfsTypeOK
  <2>2. ~StaleIn(H)[i] /\ (Fd(o).ino = i => Fd(o).life = inode_life[i])  BY <1>0, <1>5, <2>1 DEF StaleIn
  <2>3. Dropped(H)[i].ref = Cardinality(R)  BY <1>0, <2>2, DropCounts
  <2>4. R \in SUBSET Handles /\ n \notin R  BY DEF OnFile
  <2>5. IsFiniteSet(R) /\ Cardinality(R) \in Nat  BY <2>4, HandlesFinite
  <2>6. \A h \in Handles : h \in R <=> (Counted(h, i) /\ h # n)  BY DEF OnFile
  <2> HIDE DEF R
  <2>7. CASE Fd(o).ino = i
    <3>1. \A h \in Handles : Counted(h, i)' <=> (h \in R \/ h = n)  BY <1>0, <1>1, <2>2, <2>6, <2>7 DEF Counted
    <3>2. OnFile(i)' = R \cup {n}  BY <1>0, <2>4, <3>1 DEF OnFile
    <3>3. Cardinality(R \cup {n}) = Cardinality(R) + 1  BY <2>4, <2>5, FS_AddElement
    <3> QED BY <1>2, <2>1, <2>3, <2>7, <3>2, <3>3
  <2>8. CASE Fd(o).ino # i
    <3>1. \A h \in Handles : Counted(h, i)' <=> h \in R  BY <1>0, <1>1, <2>6, <2>8 DEF Counted
    <3>2. OnFile(i)' = R  BY <2>4, <3>1 DEF OnFile
    <3> QED BY <1>2, <2>1, <2>3, <2>5, <2>8, <3>2
  <2> QED BY <2>7, <2>8
<1> QED BY <1>3, <1>4, <1>5, ExactMeans DEF CountsInv

\* Writing one descriptor leaves the others.
LEMMA OneFdChanged ==
  ASSUME ChfsTypeOK, NEW t \in ChfsTasks, NEW f \in ChfsFds, NEW d,
         fd_table' = [fd_table EXCEPT ![t][f] = d]
  PROVE  /\ <<t, f>> \in Handles /\ Fd(<<t, f>>)' = d
         /\ \A h \in Handles : h # <<t, f>> => Fd(h)' = Fd(h)
<1>1. <<t, f>> \in Handles /\ Fd(<<t, f>>)' = d  BY DEF Handles, Fd, ChfsTypeOK
<1>2. ASSUME NEW h \in Handles, h # <<t, f>> PROVE Fd(h)' = Fd(h)
  <2>1. h[1] \in ChfsTasks /\ h[2] \in ChfsFds /\ h = <<h[1], h[2]>>  BY DEF Handles
  <2>2. h[1] # t \/ h[2] # f  BY <1>2, <2>1
  <2> QED BY <2>1, <2>2 DEF Fd, ChfsTypeOK
<1> QED BY <1>1, <1>2

\* open() of a file that exists counts the new descriptor.
LEMMA CountsOpened ==
  ASSUME ChfsTypeOK, CountsInv, NEW t \in ChfsTasks, NEW p, NEW trunc \in BOOLEAN, NEW append \in BOOLEAN,
         fs_open(t, p, trunc, append)
  PROVE  CountsInv'
<1>0. PICK i : i = Lookup(p)  OBVIOUS
<1> DEFINE cut == trunc /\ inode_table[i].type = "file"
           in == IF cut THEN Emptied(inode_table[i]) ELSE inode_table[i]
<1>1. i \in inode_used /\ i \in ChfsInodes /\ inode_life[i] \in Nat /\ inode_table[i] \in InodeRecord
      /\ inode_table \in [ChfsInodes -> InodeRecord]
  BY <1>0, SearchesFind DEF fs_open, ChfsTypeOK
<1>2. in \in InodeRecord /\ in.ref = inode_table[i].ref  BY <1>1, PiecesTyped DEF Emptied, InodeRecord
<1>3. inode_used' = inode_used /\ inode_life' = inode_life /\ miscounted' = miscounted  BY DEF fs_open
<1>4. CASE FreeFds(t) = {}
  <2>1. inode_table' = [inode_table EXCEPT ![i] = in] /\ fd_table' = fd_table  BY <1>0, <1>4 DEF fs_open
  <2> HIDE DEF in
  <2>2. \A j \in ChfsInodes : inode_table'[j].ref = inode_table[j].ref  BY <1>1, <1>2, <2>1
  <2>3. Files' \subseteq ChfsInodes  BY <1>3 DEF Files, ChfsTypeOK
  <2>4. \A h : Fd(h)' = Fd(h)  BY <2>1 DEF Fd
  <2> QED BY <1>3, <2>2, <2>3, <2>4, CountsKept
<1>5. CASE FreeFds(t) # {}
  <2> DEFINE d == [valid |-> TRUE, ino |-> i, life |-> inode_life[i],
                   off |-> IF append /\ in.type = "file" THEN in.size ELSE 0]
  <2>0. PICK f : f = Min(FreeFds(t))  OBVIOUS
  <2>1. f \in ChfsFds /\ ~fd_table[t][f].valid  BY <1>5, <2>0, SearchesFind DEF FreeFds
  <2>2. /\ inode_table' = [inode_table EXCEPT ![i] = [in EXCEPT !.ref = @ + 1]]
        /\ fd_table' = [fd_table EXCEPT ![t][f] = d]
    BY <1>0, <1>5, <2>0 DEF fs_open, Opened
  <2>3. d.valid /\ d.ino = i /\ d.life = inode_life[i]  OBVIOUS
  <2> HIDE DEF in, d
  <2> DEFINE n == <<t, f>>
  <2>4. n \in Handles /\ ~Fd(n).valid  BY <2>1 DEF Handles, Fd
  <2>5. Fd(n)' = d /\ \A h \in Handles : h # n => Fd(h)' = Fd(h)  BY <2>1, <2>2, OneFdChanged
  <2>6. [in EXCEPT !.ref = @ + 1].ref = in.ref + 1  BY <1>2 DEF InodeRecord
  <2>7. inode_table'[i].ref = inode_table[i].ref + 1 /\ \A j \in ChfsInodes : j # i => inode_table'[j] = inode_table[j]
    BY <1>1, <1>2, <2>2, <2>6
  <2> HIDE DEF n
  <2>8. LifePast'
    <3> SUFFICES ASSUME NEW h \in Handles, Fd(h)'.valid PROVE Fd(h)'.life <= inode_life'[Fd(h)'.ino]
      BY DEF LifePast
    <3>1. CASE h = n  BY <1>1, <1>3, <2>3, <2>5, <3>1
    <3>2. CASE h # n  BY <1>3, <2>5, <3>2 DEF CountsInv, LifePast
    <3> QED BY <3>1, <3>2
  <2>9. Files' = Files /\ Files \subseteq ChfsInodes  BY <1>3 DEF Files, ChfsTypeOK
  <2>10. ASSUME NEW j \in Files, j # i PROVE OnFile(j)' = OnFile(j)
    <3>1. \A h \in Handles : Counted(h, j)' <=> Counted(h, j)  BY <1>3, <2>3, <2>4, <2>5, <2>10 DEF Counted
    <3> QED BY <3>1 DEF OnFile
  <2>11. OnFile(i)' = OnFile(i) \cup {n} /\ n \notin OnFile(i)
    <3>1. \A h \in Handles : Counted(h, i)' <=> (Counted(h, i) \/ h = n)  BY <1>3, <2>3, <2>5 DEF Counted
    <3>2. ~Counted(n, i)  BY <2>4 DEF Counted
    <3> QED BY <2>4, <3>1, <3>2 DEF OnFile
  <2>12. IsFiniteSet(OnFile(i)) /\ Cardinality(OnFile(i)) \in Nat
    <3>1. OnFile(i) \in SUBSET Handles  BY DEF OnFile
    <3> QED BY <3>1, HandlesFinite
  <2>13. Cardinality(OnFile(i)') = Cardinality(OnFile(i)) + 1  BY <2>11, <2>12, FS_AddElement
  <2>14. \A j \in Files : ~miscounted'[j] => inode_table'[j].ref = Cardinality(OnFile(j)')
    <3>1. \A j \in Files : ~miscounted[j] => inode_table[j].ref = Cardinality(OnFile(j))
      BY ExactMeans DEF CountsInv
    <3> TAKE j \in Files
    <3>2. CASE j = i  BY <1>3, <2>7, <2>13, <3>1, <3>2
    <3>3. CASE j # i  BY <1>3, <2>7, <2>9, <2>10, <3>1, <3>3
    <3> QED BY <3>2, <3>3
  <2> QED BY <2>8, <2>9, <2>14, ExactMeans DEF CountsInv
<1> QED BY <1>4, <1>5

\* Every call keeps the counts.
LEMMA CountsStep ==
  ASSUME ChfsTypeOK, CountsInv, [ChfsNext]_chfsVars
  PROVE  CountsInv'
<1>0. inode_used \subseteq ChfsInodes /\ inode_table \in [ChfsInodes -> InodeRecord]  BY DEF ChfsTypeOK
<1>1. \A i, p, y : Created(i, p, y).ref = 0 /\ [Created(i, p, y) EXCEPT !.ref = 1].ref = 1
  <2> TAKE i, p, y
  <2> DEFINE B == [b \in Blk |-> IF b = 0 /\ FreeBlocks # {} THEN Min(FreeBlocks) ELSE NoBlk]
             z == IF y = "dir" THEN 1 ELSE 0
  <2>1. Created(i, p, y) = [type |-> y, size |-> z, name |-> p, ref |-> 0, blocks |-> B]  BY DEF Created
  <2> HIDE DEF B, z
  <2> QED BY <2>1
<1>2. ASSUME NEW p, fs_mkdir(p) PROVE CountsInv'
  <2> DEFINE i == Min(FreeInodes)
  <2>1. i \in FreeInodes /\ i \in ChfsInodes  BY <1>2, SearchesFind DEF fs_mkdir, FreeInodes
  <2>2. Reborn(i) /\ inode_table' = [inode_table EXCEPT ![i] = Created(i, p, "dir")] /\ fd_table' = fd_table
    BY <1>2 DEF fs_mkdir
  <2> HIDE DEF i
  <2>3. inode_table'[i].ref = 0 /\ \A j \in ChfsInodes : j # i => inode_table'[j] = inode_table[j]
    BY <1>0, <1>1, <2>1, <2>2
  <2> QED BY <2>1, <2>2, <2>3, CountsNew
<1>3. ASSUME NEW t \in ChfsTasks, NEW p, fs_open_create(t, p) PROVE CountsInv'
  <2> DEFINE i == Min(FreeInodes)
             d == [valid |-> TRUE, ino |-> i, life |-> inode_life[i] + 1, off |-> 0]
  <2>1. i \in FreeInodes /\ i \in ChfsInodes  BY <1>3, SearchesFind DEF fs_open_create, FreeInodes
  <2>2. Reborn(i)  BY <1>3 DEF fs_open_create
  <2>3. CASE FreeFds(t) = {}
    <3>1. inode_table' = [inode_table EXCEPT ![i] = Created(i, p, "file")] /\ fd_table' = fd_table
      BY <1>3, <2>3 DEF fs_open_create
    <3> HIDE DEF i
    <3>2. inode_table'[i].ref = 0 /\ \A j \in ChfsInodes : j # i => inode_table'[j] = inode_table[j]
      BY <1>0, <1>1, <2>1, <3>1
    <3> QED BY <2>1, <2>2, <3>1, <3>2, CountsNew
  <2>4. CASE FreeFds(t) # {}
    <3>0. PICK f : f = Min(FreeFds(t))  OBVIOUS
    <3>1. f \in ChfsFds /\ ~fd_table[t][f].valid  BY <2>4, <3>0, SearchesFind DEF FreeFds
    <3>2. /\ inode_table' = [inode_table EXCEPT ![i] = [Created(i, p, "file") EXCEPT !.ref = 1]]
          /\ fd_table' = [fd_table EXCEPT ![t][f] = d]
      BY <1>3, <2>4, <3>0 DEF fs_open_create, Opened
    <3>3. d.valid /\ d.ino = i /\ d.life = inode_life[i] + 1  OBVIOUS
    <3> HIDE DEF i, d
    <3> DEFINE n == <<t, f>>
    <3>4. n \in Handles /\ ~Fd(n).valid  BY <3>1 DEF Handles, Fd
    <3>5. Fd(n)' = d /\ \A h \in Handles : h # n => Fd(h)' = Fd(h)  BY <3>1, <3>2, OneFdChanged
    <3>6. inode_table'[i].ref = 1 /\ \A j \in ChfsInodes : j # i => inode_table'[j] = inode_table[j]
      BY <1>0, <1>1, <2>1, <3>2
    <3> HIDE DEF n
    <3> QED BY <2>1, <2>2, <3>3, <3>4, <3>5, <3>6, CountsNew
  <2> QED BY <2>3, <2>4
<1>4. ASSUME NEW p, fs_unlink(p) PROVE CountsInv'
  <2>1. /\ inode_used' = inode_used \ {Lookup(p)}
        /\ inode_table' = [inode_table EXCEPT ![Lookup(p)] = ZeroInode]
        /\ fd_table' = fd_table /\ inode_life' = inode_life /\ miscounted' = miscounted
    BY <1>4 DEF fs_unlink
  <2>2. \A i \in Files' : inode_table'[i].ref = inode_table[i].ref  BY <1>0, <2>1 DEF Files
  <2>3. \A h : Fd(h)' = Fd(h)  BY <2>1 DEF Fd
  <2> QED BY <2>1, <2>2, <2>3, CountsKept
<1>5. ASSUME inode_used' = inode_used, inode_life' = inode_life, miscounted' = miscounted,
             NEW i \in ChfsInodes, NEW r, inode_table' = [inode_table EXCEPT ![i] = r],
             r.ref = inode_table[i].ref,
             \A h \in Handles : /\ Fd(h)'.valid = Fd(h).valid
                                /\ Fd(h)'.ino = Fd(h).ino
                                /\ Fd(h)'.life = Fd(h).life
      PROVE  CountsInv'
  <2>1. \A j \in Files' : inode_table'[j].ref = inode_table[j].ref  BY <1>0, <1>5 DEF Files
  <2> QED BY <1>5, <2>1, CountsKept
<1>6. ASSUME NEW p, chfs_truncate(p) PROVE CountsInv'
  <2> DEFINE i == Lookup(p)
             r == [inode_table[i] EXCEPT !.size = 0]
  <2>1. i \in ChfsInodes  BY <1>0, <1>6, SearchesFind DEF chfs_truncate
  <2>2. inode_table' = [inode_table EXCEPT ![i] = r] /\ fd_table' = fd_table /\ inode_used' = inode_used
        /\ inode_life' = inode_life /\ miscounted' = miscounted
    BY <1>6 DEF chfs_truncate
  <2> HIDE DEF i
  <2>3. inode_table[i] \in InodeRecord  BY <1>0, <2>1
  <2>4. r.ref = inode_table[i].ref  BY <2>3 DEF InodeRecord
  <2>5. \A h : Fd(h)' = Fd(h)  BY <2>2 DEF Fd
  <2> HIDE DEF r
  <2> QED BY <1>5, <2>1, <2>2, <2>4, <2>5
<1>7. ASSUME NEW p, NEW q, chfs_move(p, q) PROVE CountsInv'
  <2> DEFINE i == Lookup(p)
             r == [inode_table[i] EXCEPT !.name = q]
  <2>1. i \in ChfsInodes  BY <1>0, <1>7, SearchesFind DEF chfs_move
  <2>2. inode_table' = [inode_table EXCEPT ![i] = r] /\ fd_table' = fd_table /\ inode_used' = inode_used
        /\ inode_life' = inode_life /\ miscounted' = miscounted
    BY <1>7 DEF chfs_move
  <2> HIDE DEF i
  <2>3. inode_table[i] \in InodeRecord  BY <1>0, <2>1
  <2>4. r.ref = inode_table[i].ref  BY <2>3 DEF InodeRecord
  <2>5. \A h : Fd(h)' = Fd(h)  BY <2>2 DEF Fd
  <2> HIDE DEF r
  <2> QED BY <1>5, <2>1, <2>2, <2>4, <2>5
<1>8. ASSUME inode_used' = inode_used, inode_life' = inode_life, miscounted' = miscounted,
             NEW i \in ChfsInodes, NEW o, NEW n, NEW who, Store(i, o, n, who),
             \A h \in Handles : /\ Fd(h)'.valid = Fd(h).valid
                                /\ Fd(h)'.ino = Fd(h).ino
                                /\ Fd(h)'.life = Fd(h).life
      PROVE  CountsInv'
  <2> DEFINE b == BlockFor(i, o)
             r == [inode_table[i] EXCEPT !.blocks[o] = b, !.size = n]
  <2>1. inode_table' = [inode_table EXCEPT ![i] = r]  BY <1>8 DEF Store
  <2> HIDE DEF b
  <2>2. inode_table[i] \in InodeRecord  BY <1>0
  <2>3. r.ref = inode_table[i].ref  BY <2>2 DEF InodeRecord
  <2> HIDE DEF r
  <2> QED BY <1>5, <1>8, <2>1, <2>3
<1>9. ASSUME NEW p, chfs_write_file(p) PROVE CountsInv'
  <2>1. Lookup(p) \in ChfsInodes  BY <1>0, <1>9, SearchesFind DEF chfs_write_file
  <2>2. \A h : Fd(h)' = Fd(h)  BY <1>9 DEF Fd, chfs_write_file
  <2> QED BY <1>8, <1>9, <2>1, <2>2 DEF chfs_write_file
<1>10. ASSUME NEW g \in Handles, fd_table' = [fd_table EXCEPT ![g[1]][g[2]].off = @ + 1]
       PROVE  \A h \in Handles : /\ Fd(h)'.valid = Fd(h).valid
                                 /\ Fd(h)'.ino = Fd(h).ino
                                 /\ Fd(h)'.life = Fd(h).life
  <2> DEFINE d == [Fd(g) EXCEPT !.off = @ + 1]
  <2>1. Fd(g) \in Descriptor /\ g[1] \in ChfsTasks /\ g[2] \in ChfsFds /\ g = <<g[1], g[2]>>
    BY PiecesTyped DEF Handles
  <2>2. d.valid = Fd(g).valid /\ d.ino = Fd(g).ino /\ d.life = Fd(g).life  BY <2>1 DEF Descriptor
  <2>3. fd_table' = [fd_table EXCEPT ![g[1]][g[2]] = d]  BY <1>10, <2>1 DEF Fd
  <2> HIDE DEF d
  <2>4. \A h \in Handles : Fd(h)' = IF h = g THEN d ELSE Fd(h)  BY <2>1, <2>3 DEF Fd, Handles, ChfsTypeOK
  <2> QED BY <2>2, <2>4
<1>11. ASSUME NEW h \in Handles, fs_write(h) PROVE CountsInv'
  <2>1. Fd(h).ino \in ChfsInodes  BY PiecesTyped DEF Descriptor
  <2> QED BY <1>8, <1>10, <1>11, <2>1 DEF fs_write
<1>12. ASSUME NEW h \in Handles, fs_read(h) PROVE CountsInv'
  <2>1. inode_used' = inode_used /\ inode_life' = inode_life /\ miscounted' = miscounted /\ inode_table' = inode_table
    BY <1>12 DEF fs_read
  <2> QED BY <1>10, <1>12, <2>1, CountsKept DEF fs_read
<1>13. ASSUME NEW g \in Handles, fs_close(g) PROVE CountsInv'
  <2>1. {g} \in SUBSET Handles /\ g[1] \in ChfsTasks /\ g[2] \in ChfsFds /\ g = <<g[1], g[2]>>  BY DEF Handles
  <2>2. \A h \in Handles : Fd(h)' = IF h \in {g} THEN NoFd ELSE Fd(h)
    BY <1>13, <2>1 DEF fs_close, Fd, Handles, ChfsTypeOK
  <2> QED BY <1>13, <2>1, <2>2, CountsDropped DEF fs_close
<1>14. ASSUME NEW t \in ChfsTasks, fs_close_table(t) PROVE CountsInv'
  <2> DEFINE H == {t} \X ChfsFds
  <2>1. H \in SUBSET Handles /\ \A h \in Handles : h \in H <=> h[1] = t  BY DEF Handles
  <2>2. \A h \in Handles : Fd(h)' = IF h[1] = t THEN NoFd ELSE Fd(h)
    BY <1>14 DEF fs_close_table, Fd, Handles, ChfsTypeOK
  <2>3. inode_table' = Dropped(H) /\ miscounted' = StaleIn(H) /\ inode_used' = inode_used /\ inode_life' = inode_life
    BY <1>14 DEF fs_close_table
  <2> HIDE DEF H
  <2>4. \A h \in Handles : Fd(h)' = IF h \in H THEN NoFd ELSE Fd(h)  BY <2>1, <2>2
  <2> QED BY <2>1, <2>3, <2>4, CountsDropped
<1>15. CASE UNCHANGED chfsVars
  <2>1. /\ inode_used' = inode_used /\ inode_life' = inode_life /\ miscounted' = miscounted
        /\ inode_table' = inode_table /\ fd_table' = fd_table
    BY <1>15 DEF chfsVars
  <2>2. \A h : Fd(h)' = Fd(h)  BY <2>1 DEF Fd
  <2> QED BY <2>1, <2>2, CountsKept
<1> QED BY <1>2, <1>3, <1>4, <1>6, <1>7, <1>9, <1>11, <1>12, <1>13, <1>14, <1>15,
     CountsOpened, CountsCopied, CountsDup, ChfsAssumption DEF ChfsNext

------------------------------

\* chfs_init() makes the root out of a cleared inode, field by field.
LEMMA RootOfCleared ==
  ASSUME NEW B, NEW none, NEW root
  PROVE  [[type |-> "none", size |-> 0, name |-> none, blocks |-> B, ref |-> 0]
              EXCEPT !.type = "dir", !.size = 1, !.name = root, !.ref = 1]
             = [type |-> "dir", size |-> 1, name |-> root, blocks |-> B, ref |-> 1]
<1> DEFINE z == [type |-> "none", size |-> 0, name |-> none, blocks |-> B, ref |-> 0]
<1>1. PICK z1 : z1 = [z EXCEPT !.type = "dir"]  OBVIOUS
<1>2. z1 = [type |-> "dir", size |-> 0, name |-> none, blocks |-> B, ref |-> 0]  BY <1>1
<1>3. PICK z2 : z2 = [z1 EXCEPT !.size = 1]  OBVIOUS
<1>4. z2 = [type |-> "dir", size |-> 1, name |-> none, blocks |-> B, ref |-> 0]  BY <1>2, <1>3
<1>5. PICK z3 : z3 = [z2 EXCEPT !.name = root]  OBVIOUS
<1>6. z3 = [type |-> "dir", size |-> 1, name |-> root, blocks |-> B, ref |-> 0]  BY <1>4, <1>5
<1>7. [z3 EXCEPT !.ref = 1] = [type |-> "dir", size |-> 1, name |-> root, blocks |-> B, ref |-> 1]  BY <1>6
<1>8. [z EXCEPT !.type = "dir", !.size = 1, !.name = root, !.ref = 1] = [z3 EXCEPT !.ref = 1]
  BY <1>1, <1>3, <1>5
<1> QED BY <1>7, <1>8

\* chfs_init() establishes the invariant: nothing but the root is there.
LEMMA InitChfsIInv == ChfsInit => ChfsIInv
<1> SUFFICES ASSUME ChfsInit PROVE ChfsIInv  OBVIOUS
<1>0. 0 \in ChfsInodes /\ 0 \in ChfsBlocks /\ 0 \in Blk /\ NoBlk # 0  BY ChfsAssumption DEF Blk, NoBlk
<1>p. PICK none, root : none = "" /\ root = "/"  OBVIOUS
<1> DEFINE B == [b \in Blk |-> 0]
<1> DEFINE z == [type |-> "none", size |-> 0, name |-> none, blocks |-> B, ref |-> 0]
<1> DEFINE r == [type |-> "dir", size |-> 1, name |-> root, blocks |-> B, ref |-> 1]
<1>1. z \in InodeRecord /\ r \in InodeRecord
  <2>1. B \in BlockMap /\ "none" \in InodeType /\ "dir" \in InodeType
    BY <1>0 DEF BlockMap, BlockNumber, InodeType
  <2>2. none \in Paths /\ root \in Paths  BY <1>p, Zenon DEF Paths
  <2> HIDE DEF B
  <2>3. z \in InodeRecord  BY <2>1, <2>2 DEF InodeRecord
  <2>4. r \in InodeRecord  BY <2>1, <2>2 DEF InodeRecord
  <2> QED BY <2>3, <2>4
<1>2. r.type = "dir" /\ r.blocks = B /\ z.blocks = B  OBVIOUS
<1>3. inode_table = [i \in ChfsInodes |-> IF i = 0 THEN r ELSE z]
  <2>1. ZeroInode = z  BY <1>p, Zenon DEF ZeroInode
  <2>2. inode_table = [i \in ChfsInodes |->
            IF i = 0 THEN [ZeroInode EXCEPT !.type = "dir", !.size = 1, !.name = "/", !.ref = 1]
            ELSE ZeroInode]
    BY Zenon DEF ChfsInit
  <2>3. inode_table = [i \in ChfsInodes |->
            IF i = 0 THEN [z EXCEPT !.type = "dir", !.size = 1, !.name = root, !.ref = 1] ELSE z]
    BY <1>p, <2>1, <2>2, Zenon
  <2> HIDE DEF B
  <2>4. [z EXCEPT !.type = "dir", !.size = 1, !.name = root, !.ref = 1] = r  BY RootOfCleared, Zenon
  <2> QED BY <2>3, <2>4, Zenon
<1> HIDE DEF r, z
<1>4. NoFd \in Descriptor /\ NoFd.valid = FALSE  BY <1>0 DEF NoFd, Descriptor
<1>5. ChfsTypeOK
  <2>1. inode_table \in [ChfsInodes -> InodeRecord]  BY <1>1, <1>3
  <2>2. fd_table \in [ChfsTasks -> [ChfsFds -> Descriptor]]  BY <1>4 DEF ChfsInit
  <2> QED BY <1>0, <2>1, <2>2 DEF ChfsInit, ChfsTypeOK
<1>6. ZeroBlocks
  <2>1. inode_table[0] = r /\ \A i \in ChfsInodes : inode_table[i].blocks = B  BY <1>0, <1>2, <1>3
  <2>2. inode_table[0].type = "dir"  BY <1>2, <2>1
  <2>3. \A i \in ChfsInodes, b \in Blk : inode_table[i].blocks[b] = 0  BY <2>1
  <2>4. inode_used = {0}  BY DEF ChfsInit
  <2> QED BY <2>2, <2>3, <2>4 DEF ZeroBlocks
<1>7. LifePast
  <2>1. \A h \in Handles : Fd(h) = NoFd  BY DEF Fd, Handles, ChfsInit
  <2> QED BY <1>4, <2>1 DEF LifePast
<1>8. MarkedExactly /\ OwnedOnce  BY DEF ChfsInit, MarkedExactly, OwnedOnce, Files
<1>9. ChfsBlocksOwned  BY <1>8, OwnedMeans
<1>10. RefCountExact
  <2>1. inode_used \ {0} = {}  BY DEF ChfsInit
  <2> QED BY <2>1 DEF RefCountExact
<1>11. WriteStaysInFile
  <2>1. stored = NotStored  BY DEF ChfsInit
  <2> QED BY <2>1 DEF WriteStaysInFile
<1> QED BY <1>5, <1>6, <1>7, <1>9, <1>10, <1>11 DEF ChfsIInv

\* Every call keeps it.
LEMMA ChfsIInvStep == ChfsIInv /\ [ChfsNext]_chfsVars => ChfsIInv'
<1> SUFFICES ASSUME ChfsIInv, [ChfsNext]_chfsVars PROVE ChfsIInv'  OBVIOUS
<1>1. ChfsTypeOK /\ BlocksInv /\ CountsInv /\ WriteStaysInFile  BY OwnedMeans DEF ChfsIInv, BlocksInv, CountsInv
<1>2. ChfsTypeOK'  BY <1>1, ChfsTypeStep
<1>3. BlocksInv'  BY <1>1, <1>2, BlocksStep
<1>4. CountsInv'  BY <1>1, CountsStep
<1>5. WriteStaysInFile'  BY <1>1, WriteStep
<1>6. ((MarkedExactly /\ OwnedOnce) <=> ChfsBlocksOwned)'  BY OwnedMeans, PTL
<1> QED BY <1>2, <1>3, <1>4, <1>5, <1>6 DEF ChfsIInv, BlocksInv, CountsInv

\* In the file system, whatever the tasks do with their descriptors: every
\* marked block belongs to one place of one file and the other way round,
\* reference counts are exact for a file whose number was not taken over
\* from under an open descriptor, and a write goes into a block of the
\* file it was meant for as long as no open file was unlinked (chfs.c
\* fs_open, fs_write, fs_close, fs_dup2, fs_unlink, task.c fd_table_copy).
THEOREM FilesKeepTheirBlocks == ChfsSpec => [](ChfsBlocksOwned /\ RefCountExact /\ WriteStaysInFile)
<1>1. ChfsIInv => ChfsBlocksOwned /\ RefCountExact /\ WriteStaysInFile  BY DEF ChfsIInv
<1> QED BY InitChfsIInv, ChfsIInvStep, <1>1, PTL DEF ChfsSpec

\* The same among the other parts of the kernel, as the run states it.
THEOREM FilesAreSound == PartsSpec => []ChfsSound
<1>1. PartsInit => ChfsIInv  BY InitChfsIInv DEF PartsInit
<1>2. ChfsIInv /\ [PartsNext]_allVars => ChfsIInv'  BY ChfsIInvStep DEF PartsNext, allVars, chfsVars
<1>3. ChfsIInv => ChfsSound  BY DEF ChfsIInv, ChfsSound
<1> QED BY <1>1, <1>2, <1>3, PTL DEF PartsSpec
==============================
