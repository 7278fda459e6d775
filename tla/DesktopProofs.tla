--------------------------- MODULE DesktopProofs ----------------------------
(***************************************************************************)
(* Proofs about the desktop (module Gui: drivers/fb.c, comp.c, wm.c,       *)
(* wserver.c, inr.c, vt.c), for any number of rows, surfaces and windows,  *)
(* as a part of KernelParts: the screen shows what the windows are, and    *)
(* the windows are where the manager takes them to be.                     *)
(***************************************************************************)
EXTENDS KernelParts, TLAPS, WellFoundedInduction, FiniteSetTheorems

\* What the variables hold.
GuiSlots == 1 .. COMP_MAX
GuiPlaces == 1 .. WM_MAX

GuiLooks == {"none", "blank", "drawn", "lit", "unlit", "client"}

GuiSurface == [id : Nat, y : Int, h : Nat, visible : BOOLEAN, look : GuiLooks]

GuiWindow == [id : Nat, frame : Nat, client : Nat, y : Int, h : Nat, minimized : BOOLEAN]

GuiManagers == [list : [GuiPlaces -> GuiWindow], next : Nat \ {0}, focus : Nat, drag : Nat, grip : Int]

\* No surface is twice in the table.
GuiTable(l) ==
    /\ l \in [GuiSlots -> GuiSurface]
    /\ \A i, j \in GuiSlots : l[i].id # 0 /\ l[i].id = l[j].id => i = j
    /\ \A i \in GuiSlots : l[i].id = 0 => l[i] = NoSurface

\* The slots 1 and 2, 3 and 4 ... are free together or hold a frame with its
\* client above it (the panel and the icons to begin with): nothing ever comes
\* between the two surfaces of a window.
GuiPairs(l) ==
    \A q \in Nat : 2 * q + 1 \in GuiSlots =>
        \/ l[2 * q + 1].id = 0 /\ (2 * q + 2 \in GuiSlots => l[2 * q + 2].id = 0)
        \/ 2 * q + 2 \in GuiSlots /\ \E k \in Nat : l[2 * q + 1].id = 2 * k + 1 /\ l[2 * q + 2].id = 2 * k + 2

\* Numbers of windows are fresh, and the focused window is on the screen.
GuiManager(w) ==
    /\ w \in GuiManagers
    /\ \A i \in GuiPlaces : w.list[i].id < w.next
    /\ \A i, j \in GuiPlaces : w.list[i].id # 0 /\ w.list[i].id = w.list[j].id => i = j
    /\ \A i \in GuiPlaces : w.list[i].id # 0 =>
          /\ w.list[i].frame = 2 * w.list[i].id + 1 /\ w.list[i].client = 2 * w.list[i].id + 2
          /\ w.list[i].h >= 2
    /\ w.focus # 0 => \E i \in GuiPlaces : w.list[i].id = w.focus /\ ~w.list[i].minimized

\* Every surface beside the panel and the icons belongs to a window, and every
\* window has both of its surfaces.
GuiOwner(l, w) ==
    /\ \A k \in GuiSlots : l[k].id \notin {0, 1, 2} =>
          \E i \in GuiPlaces : w.list[i].id # 0 /\ l[k].id \in {w.list[i].frame, w.list[i].client}
    /\ \A i \in GuiPlaces : w.list[i].id # 0 =>
          \E j, k \in GuiSlots : l[j].id = w.list[i].frame /\ l[k].id = w.list[i].client
    /\ \E j, k \in GuiSlots : l[j].id = 1 /\ l[k].id = 2

\* The surfaces lie where their window says, the client below the title; after
\* a resize that was refused in its middle only the frame's height differs.
GuiFits(s, win) ==
    /\ s.id = win.frame => s.y = win.y /\ s.h >= 1 /\ s.visible = ~win.minimized
    /\ s.id = win.client => s.y = win.y + 1 /\ s.h = win.h - 1 /\ s.visible = ~win.minimized

GuiPlaced(l, w) ==
    \A i \in GuiPlaces, k \in GuiSlots : w.list[i].id # 0 => GuiFits(l[k], w.list[i])

GuiTitle(s, win, focus) ==
    s.id = win.frame /\ ~win.minimized => (s.look = "lit" <=> win.id = focus)

GuiTitles(l, w) ==
    \A i \in GuiPlaces, k \in GuiSlots : w.list[i].id # 0 => GuiTitle(l[k], w.list[i], w.focus)

GuiWorld(l, w) ==
    GuiTable(l) /\ GuiPairs(l) /\ GuiManager(w) /\ GuiOwner(l, w) /\ GuiPlaced(l, w) /\ GuiTitles(l, w)

\* The compositor: outside the damage the screen shows the scene.
GuiScreen(g) ==
    /\ DOMAIN g = {"list", "dirty", "cursor", "layer", "back", "front"}
    /\ g.dirty \in Int \X Int
    /\ g.cursor \in [on : BOOLEAN, y : GuiCells]
    /\ g.layer \in BOOLEAN
    /\ g.layer => \A c \in GuiCells : g.front[c] # SceneRow(g, c) => g.dirty[1] <= c /\ c < g.dirty[2]

GuiIInv ==
    /\ GuiWorld(comp.list, wm)
    /\ GuiScreen(comp)
    /\ DOMAIN inr = {"row", "btn", "drag"} /\ inr.row \in GuiCells /\ inr.drag \in Nat
    /\ vt_cur \in {"gui", "text"}

\* What the sizes of the desktop are; a set of numbers has its least and,
\* when they lie in a range, its greatest element.
LEMMA GuiSizes ==
  /\ GuiRows \in Nat /\ GuiRows > 1 /\ COMP_MAX \in Nat /\ COMP_MAX > 1 /\ WM_MAX \in Nat
  /\ GuiHeights \subseteq Nat /\ \A h \in GuiHeights : h >= 2
  /\ IsFiniteSet(GuiSlots) /\ IsFiniteSet(GuiPlaces)
<1>1. GuiRows \in Nat \ {0, 1} /\ COMP_MAX \in Nat \ {0, 1} /\ GuiHeights \subseteq Nat \ {0, 1} /\ WM_MAX \in Nat
  BY GuiAssumption
<1>2. \A h \in Nat : h # 0 /\ h # 1 => h >= 2 /\ h > 1  OBVIOUS
<1>3. IsFiniteSet(GuiSlots) /\ IsFiniteSet(GuiPlaces)  BY <1>1, FS_Interval DEF GuiSlots, GuiPlaces
<1> QED BY <1>1, <1>2, <1>3

LEMMA GuiLeast ==
  ASSUME NEW S, S \subseteq Nat, S # {}
  PROVE  \E x \in S : \A y \in S : x <= y
<1>1. PICK x \in S : \A y \in S : ~(<<y, x>> \in OpToRel(<, Nat))  BY NatLessThanWellFounded, WFMin
<1>2. \A y \in S : x <= y
  <2> TAKE y \in S
  <2>1. x \in Nat /\ y \in Nat  OBVIOUS
  <2>2. ~(y < x)  BY <1>1, <2>1 DEF OpToRel
  <2> QED BY <2>1, <2>2
<1> QED BY <1>2

LEMMA GuiGreatest ==
  ASSUME NEW n \in Nat, NEW S, S \subseteq 0 .. n, S # {}
  PROVE  \E x \in S : \A y \in S : y <= x
<1> DEFINE T == {n - x : x \in S}
<1>1. T \subseteq Nat /\ T # {}
  <2>1. \A x \in S : x \in Nat /\ x <= n /\ n - x \in Nat  OBVIOUS
  <2> QED BY <2>1
<1>2. PICK t \in T : \A u \in T : t <= u  BY <1>1, GuiLeast
<1>3. PICK x \in S : t = n - x  BY <1>2
<1>4. \A y \in S : y <= x
  <2> TAKE y \in S
  <2>1. n - x <= n - y  BY <1>2, <1>3
  <2>2. x \in Nat /\ y \in Nat  OBVIOUS
  <2> QED BY <2>1, <2>2
<1> QED BY <1>4

\* comp_raise: the others keep their order and close up from the first
\* slot, the raised surface follows them, what is left is free.
GuiOthers(l, ids) == {i \in GuiSlots : l[i].id \notin {0} \cup ids}

GuiClosing(f, S, n) ==
    /\ f \in [S -> 1 .. n]
    /\ \A i, j \in S : i < j => f[i] < f[j]
    /\ \A k \in 1 .. n : \E i \in S : f[i] = k

LEMMA GuiRanks ==
  ASSUME NEW S, S \subseteq GuiSlots
  PROVE  /\ IsFiniteSet(S) /\ Cardinality(S) \in Nat /\ Cardinality(S) <= COMP_MAX
         /\ GuiClosing([i \in S |-> Cardinality({j \in S : j <= i})], S, Cardinality(S))
<1> DEFINE R(i) == {j \in S : j <= i}
           f == [i \in S |-> Cardinality(R(i))]
           m == Cardinality(S)
<1>0. COMP_MAX \in Nat /\ S \subseteq Nat  BY GuiSizes DEF GuiSlots
<1>1. IsFiniteSet(GuiSlots) /\ Cardinality(GuiSlots) = COMP_MAX  BY <1>0, FS_Interval DEF GuiSlots
<1>2. IsFiniteSet(S) /\ m \in Nat /\ m <= COMP_MAX  BY <1>1, FS_Subset, FS_CardinalityType
<1>3. ASSUME NEW i \in S PROVE IsFiniteSet(R(i)) /\ f[i] \in Nat /\ f[i] \in 1 .. m
  <2>1. IsFiniteSet(R(i)) /\ Cardinality(R(i)) \in Nat /\ Cardinality(R(i)) <= m
    BY <1>2, FS_Subset, FS_CardinalityType
  <2>2. i \in R(i)  BY <1>0
  <2>3. Cardinality(R(i)) # 0  BY <2>1, <2>2, FS_EmptySet
  <2> QED BY <1>2, <2>1, <2>3
<1>4. ASSUME NEW i \in S, NEW j \in S, i < j PROVE f[i] < f[j]
  <2>0. i \in Nat /\ j \in Nat /\ i < j /\ \A k \in S : k \in Nat  BY <1>0, <1>4
  <2>1. R(i) \in SUBSET R(j) /\ j \in R(j) /\ j \notin R(i)
    <3>1. \A k \in S : k <= i => k <= j  BY <2>0
    <3>2. j <= j /\ ~(j <= i)  BY <2>0
    <3> QED BY <3>1, <3>2
  <2>2. Cardinality(R(i)) <= Cardinality(R(j)) /\ Cardinality(R(i)) # Cardinality(R(j))
    <3>1. IsFiniteSet(R(j))  BY <1>3
    <3>2. Cardinality(R(i)) <= Cardinality(R(j)) /\ (Cardinality(R(j)) = Cardinality(R(i)) => R(j) = R(i))
      BY <2>1, <3>1, FS_Subset
    <3> QED BY <2>1, <3>2
  <2>3. f[i] \in Nat /\ f[j] \in Nat /\ f[i] = Cardinality(R(i)) /\ f[j] = Cardinality(R(j))  BY <1>3
  <2> HIDE DEF f, R
  <2> QED BY <2>2, <2>3
<1>5. f \in [S -> 1 .. m]  BY <1>3
<1>6. f \in Injection(S, 1 .. m)
  <2>1. \A i, j \in S : i # j => f[i] # f[j]
    <3> TAKE i, j \in S
    <3>1. f[i] \in Nat /\ f[j] \in Nat /\ i \in Nat /\ j \in Nat  BY <1>0, <1>3
    <3> HIDE DEF f
    <3> QED BY <1>4, <3>1
  <2> QED BY <1>5, <2>1 DEF Injection, IsInjective
<1>7. f \in Surjection(S, 1 .. m)
  <2>1. IsFiniteSet(1 .. m) /\ Cardinality(1 .. m) = m  BY <1>2, FS_Interval
  <2> QED BY <1>6, <2>1, FS_Injection
<1>8. \A k \in 1 .. m : \E i \in S : f[i] = k  BY <1>7 DEF Surjection
<1> QED BY <1>2, <1>4, <1>5, <1>8 DEF GuiClosing

GuiShape(l, R, p, n, f) ==
    /\ GuiClosing(f, GuiOthers(l, {l[p].id}), n - 1)
    /\ R \in [GuiSlots -> GuiSurface]
    /\ \A i \in GuiOthers(l, {l[p].id}) : R[f[i]] = l[i]
    /\ R[n] = l[p]
    /\ \A k \in GuiSlots : k > n => R[k] = NoSurface

LEMMA GuiRaised ==
  ASSUME NEW l, GuiTable(l), NEW p \in GuiSlots, l[p].id # 0
  PROVE  \E n, f : n \in GuiSlots /\ GuiShape(l, comp_raise(l, l[p].id), p, n, f)
<1> DEFINE id == l[p].id
           O == GuiOthers(l, {id})
           r(i) == Cardinality({j \in O : j <= i})
           f == [i \in O |-> r(i)]
           m == Cardinality(O)
           R == comp_raise(l, id)
<1>1. O = {i \in 1 .. COMP_MAX : l[i].id \notin {0, id}} /\ O \subseteq GuiSlots /\ p \notin O
  BY DEF GuiOthers, GuiSlots
<1>2. IsFiniteSet(O) /\ m \in Nat /\ m <= COMP_MAX /\ GuiClosing(f, O, m)  BY <1>1, GuiRanks
<1>3. m + 1 \in GuiSlots
  <2>1. COMP_MAX \in Nat /\ IsFiniteSet(GuiSlots) /\ Cardinality(GuiSlots) = COMP_MAX
    BY GuiSizes, FS_Interval DEF GuiSlots
  <2>2. m # COMP_MAX  BY <1>1, <2>1, FS_Subset
  <2> QED BY <1>2, <2>1, <2>2 DEF GuiSlots
<1>4. Surface(l, id) = l[p]
  <2>1. \A i \in GuiSlots : At(l, i, id) <=> i = p  BY DEF At, GuiTable
  <2> QED BY <2>1 DEF Surface, GuiSlots
<1>5. NoSurface \in GuiSurface  BY DEF NoSurface, GuiSurface, GuiLooks
<1>6. R = [k \in GuiSlots |->
             IF k = m + 1 THEN l[p]
             ELSE IF \E i \in O : r(i) = k THEN l[CHOOSE i \in O : r(i) = k] ELSE NoSurface]
  BY <1>1, <1>4 DEF comp_raise, GuiSlots
<1>7. R \in [GuiSlots -> GuiSurface]
  <2>1. \A k \in GuiSlots : (\E i \in O : r(i) = k) => (CHOOSE i \in O : r(i) = k) \in GuiSlots  BY <1>1
  <2> HIDE DEF r, O, m, R
  <2> QED BY <1>5, <1>6, <2>1 DEF GuiTable
<1>8. ASSUME NEW i \in O PROVE R[f[i]] = l[i]
  <2>1. f[i] \in 1 .. m /\ f[i] \in GuiSlots /\ f[i] # m + 1 /\ r(i) = f[i]
    <3>1. f \in [O -> 1 .. m] /\ f[i] = r(i)  BY <1>2 DEF GuiClosing
    <3>2. COMP_MAX \in Nat  BY GuiSizes
    <3> HIDE DEF f, r, O, m
    <3> QED BY <1>2, <1>3, <3>1, <3>2 DEF GuiSlots
  <2>2. \A j \in O : r(j) = r(i) => j = i
    <3> TAKE j \in O
    <3>1. i \in Nat /\ j \in Nat /\ f[i] \in Nat /\ f[j] \in Nat /\ f[i] = r(i) /\ f[j] = r(j)
      <4>1. f \in [O -> 1 .. m] /\ f[i] = r(i) /\ f[j] = r(j) /\ COMP_MAX \in Nat
        BY <1>2, GuiSizes DEF GuiClosing
      <4> HIDE DEF f, r, O, m
      <4> QED BY <1>1, <1>2, <4>1 DEF GuiSlots
    <3>2. (i < j => f[i] < f[j]) /\ (j < i => f[j] < f[i])  BY <1>2 DEF GuiClosing
    <3> HIDE DEF f, r
    <3> QED BY <3>1, <3>2
  <2>3. (CHOOSE j \in O : r(j) = f[i]) = i  BY <2>1, <2>2
  <2> HIDE DEF f, r, O, m, R
  <2> QED BY <1>6, <2>1, <2>3
<1>9. R[m + 1] = l[p]  BY <1>3, <1>6
<1>10. ASSUME NEW k \in GuiSlots, k > m + 1 PROVE R[k] = NoSurface
  <2>1. \A i \in O : r(i) # k
    <3> TAKE i \in O
    <3>1. f[i] \in 1 .. m /\ f[i] = r(i)  BY <1>2 DEF GuiClosing
    <3> HIDE DEF f, r
    <3> QED BY <1>2, <1>10, <3>1 DEF GuiSlots
  <2> HIDE DEF f, r, O, m, R
  <2> QED BY <1>2, <1>6, <1>10, <2>1 DEF GuiSlots
<1>11. (m + 1) - 1 = m  BY <1>2
<1> HIDE DEF f, r, O, m, R
<1> QED
  <2>1. GuiShape(l, R, p, m + 1, f)  BY <1>2, <1>7, <1>8, <1>9, <1>10, <1>11 DEF O, R, GuiShape
  <2> QED BY <1>3, <2>1 DEF R

LEMMA GuiRaisedTable ==
  ASSUME NEW l, GuiTable(l), NEW p \in GuiSlots, l[p].id # 0
  PROVE  GuiTable(comp_raise(l, l[p].id))
<1> DEFINE R == comp_raise(l, l[p].id)
           O == GuiOthers(l, {l[p].id})
<1>1. PICK n, f :
              /\ n \in GuiSlots
              /\ GuiClosing(f, O, n - 1)
              /\ R \in [GuiSlots -> GuiSurface]
              /\ \A i \in O : R[f[i]] = l[i]
              /\ R[n] = l[p]
              /\ \A k \in GuiSlots : k > n => R[k] = NoSurface
  <2>1. PICK n, f : n \in GuiSlots /\ GuiShape(l, R, p, n, f)  BY GuiRaised
  <2> QED BY <2>1 DEF GuiShape
<1>s. n \in GuiSlots  BY <1>1
<1>2. COMP_MAX \in Nat /\ n \in Nat /\ n > 0  BY <1>s, GuiSizes DEF GuiSlots
<1>3. ASSUME NEW k \in GuiSlots
      PROVE  \/ k > n /\ R[k] = NoSurface
             \/ k = n /\ R[k] = l[p]
             \/ k < n /\ \E i \in O : f[i] = k /\ R[k] = l[i]
  <2>1. k \in Nat /\ k > 0  BY <1>2 DEF GuiSlots
  <2>2. k < n => k \in 1 .. n - 1  BY <1>2, <2>1
  <2>3. k < n => \E i \in O : f[i] = k  BY <1>1, <2>2 DEF GuiClosing
  <2> HIDE DEF R, O
  <2> QED BY <1>1, <1>2, <2>1, <2>3
<1>4. \A i \in O : i \in GuiSlots /\ l[i].id # 0 /\ l[i].id # l[p].id  BY DEF GuiOthers
<1>5. NoSurface.id = 0  BY DEF NoSurface
<1>6. \A i, j \in GuiSlots : l[i].id # 0 /\ l[i].id = l[j].id => i = j  BY DEF GuiTable
<1> HIDE DEF R, O
<1>7. \A k \in GuiSlots : R[k].id = 0 => R[k] = NoSurface  BY <1>3, <1>4, <1>5
<1>8. ASSUME NEW j \in GuiSlots, NEW k \in GuiSlots, R[j].id # 0, R[j].id = R[k].id
      PROVE  j = k
  <2>1. ~(j > n) /\ ~(k > n)  BY <1>1, <1>5, <1>8
  <2> QED BY <1>3, <1>4, <1>5, <1>6, <1>8, <2>1
<1> QED BY <1>1, <1>7, <1>8 DEF GuiTable, R

\* wm_focus raises the frame and then the client: the other surfaces keep
\* their order, the two come last and the client is the upper one.
GuiPairShape(l, R, p, q, n, g) ==
    /\ n + 2 \in GuiSlots
    /\ GuiClosing(g, GuiOthers(l, {l[p].id, l[q].id}), n)
    /\ GuiTable(R)
    /\ \A i \in GuiOthers(l, {l[p].id, l[q].id}) : R[g[i]] = l[i]
    /\ R[n + 1] = l[p]
    /\ R[n + 2] = l[q]
    /\ \A k \in GuiSlots : k > n + 2 => R[k] = NoSurface

LEMMA GuiPairRaised ==
  ASSUME NEW l, GuiTable(l), NEW p \in GuiSlots, NEW q \in GuiSlots,
         l[p].id # 0, l[q].id # 0, p # q
  PROVE  \E n, g :
            n \in Nat /\ GuiPairShape(l, comp_raise(comp_raise(l, l[p].id), l[q].id), p, q, n, g)
<1> DEFINE a == l[p].id
           b == l[q].id
           L == comp_raise(l, a)
           R == comp_raise(L, b)
           O == GuiOthers(l, {a, b})
           O1 == GuiOthers(l, {a})
           O2 == GuiOthers(L, {b})
<1>1. PICK n1, f1 :
              /\ n1 \in GuiSlots
              /\ GuiClosing(f1, O1, n1 - 1)
              /\ L \in [GuiSlots -> GuiSurface]
              /\ \A i \in O1 : L[f1[i]] = l[i]
              /\ L[n1] = l[p]
              /\ \A k \in GuiSlots : k > n1 => L[k] = NoSurface
  <2>1. PICK n, f : n \in GuiSlots /\ GuiShape(l, L, p, n, f)  BY GuiRaised
  <2> QED BY <2>1 DEF GuiShape
<1>2. GuiTable(L)  BY GuiRaisedTable
<1>s. n1 \in GuiSlots  BY <1>1
<1>3. COMP_MAX \in Nat /\ n1 \in Nat /\ n1 > 0  BY <1>s, GuiSizes DEF GuiSlots
<1>4. a # b /\ q \in O1  BY DEF GuiTable, GuiOthers
<1>5. f1[q] \in GuiSlots /\ L[f1[q]] = l[q]
  <2>1. f1[q] \in 1 .. n1 - 1 /\ L[f1[q]] = l[q]  BY <1>1, <1>4 DEF GuiClosing
  <2> HIDE DEF L
  <2> QED BY <1>s, <1>3, <2>1 DEF GuiSlots
<1>6. PICK n2, f2 :
              /\ n2 \in GuiSlots
              /\ GuiClosing(f2, O2, n2 - 1)
              /\ \A i \in O2 : R[f2[i]] = L[i]
              /\ R[n2] = l[q]
              /\ \A k \in GuiSlots : k > n2 => R[k] = NoSurface
  <2> HIDE DEF L
  <2>1. L[f1[q]].id # 0 /\ L[f1[q]].id = b  BY <1>5
  <2>2. \E n, f : n \in GuiSlots /\ GuiShape(L, comp_raise(L, L[f1[q]].id), f1[q], n, f)
    BY <1>2, <1>5, <2>1, GuiRaised
  <2>3. PICK n, f : n \in GuiSlots /\ GuiShape(L, R, f1[q], n, f)  BY <2>1, <2>2
  <2> QED BY <1>5, <2>1, <2>3 DEF GuiShape
<1>7. GuiTable(R)
  <2> HIDE DEF L
  <2>1. L[f1[q]].id # 0 /\ L[f1[q]].id = b  BY <1>5
  <2> QED BY <1>2, <1>5, <2>1, GuiRaisedTable
<1>t. n2 \in GuiSlots  BY <1>6
<1>8. n2 \in Nat /\ n2 > 0 /\ O1 \subseteq GuiSlots /\ O2 \subseteq GuiSlots /\ O \subseteq O1 /\ GuiSlots \subseteq Nat
  BY <1>t, GuiSizes DEF GuiSlots, GuiOthers
<1>9. n1 \in O2  BY <1>1, <1>4 DEF GuiOthers
<1>10. ASSUME NEW x \in O2, x # n1
       PROVE  x < n1 /\ \E i \in O : f1[i] = x
  <2>1. x \in GuiSlots /\ L[x].id # 0 /\ L[x].id # b  BY DEF GuiOthers
  <2>2. x \in Nat /\ x > 0 /\ ~(x > n1)  BY <1>1, <1>3, <2>1 DEF GuiSlots, NoSurface
  <2>3. x < n1 /\ x \in 1 .. n1 - 1  BY <1>3, <1>10, <2>2
  <2>4. PICK i \in O1 : f1[i] = x  BY <1>1, <2>3 DEF GuiClosing
  <2>5. L[x] = l[i]  BY <1>1, <2>4
  <2>6. i \in O  BY <2>1, <2>5 DEF GuiOthers
  <2> QED BY <2>3, <2>4, <2>6
<1>11. ASSUME NEW i \in O PROVE f1[i] \in O2 /\ f1[i] < n1 /\ f1[i] \in Nat
  <2>1. f1[i] \in 1 .. n1 - 1 /\ L[f1[i]] = l[i]  BY <1>1, <1>8 DEF GuiClosing
  <2>2. f1[i] \in GuiSlots /\ f1[i] < n1 /\ f1[i] \in Nat
    <3> HIDE DEF L
    <3> QED BY <1>s, <1>3, <2>1 DEF GuiSlots
  <2> QED BY <2>1, <2>2 DEF GuiOthers
<1> HIDE DEF L, R, O, O1, O2
<1>12. \A i \in O2 : f2[i] \in Nat /\ f2[i] > 0 /\ f2[i] < n2
  <2> TAKE i \in O2
  <2>1. f2[i] \in 1 .. n2 - 1  BY <1>6 DEF GuiClosing
  <2> QED BY <1>8, <2>1
<1>13. f2[n1] = n2 - 1 /\ n2 >= 2
  <2>1. n2 >= 2 /\ n2 - 1 \in 1 .. n2 - 1  BY <1>8, <1>9, <1>12
  <2>2. PICK x \in O2 : f2[x] = n2 - 1  BY <1>6, <2>1 DEF GuiClosing
  <2>3. x # n1 => f2[x] < f2[n1]  BY <1>6, <1>9, <1>10 DEF GuiClosing
  <2> QED BY <1>8, <1>9, <1>12, <2>1, <2>2, <2>3
<1> DEFINE n == n2 - 2
           g == [i \in O |-> f2[f1[i]]]
<1>14. n \in Nat /\ n + 2 = n2 /\ n + 1 = n2 - 1  BY <1>8, <1>13
<1>15. ASSUME NEW i \in O PROVE g[i] \in 1 .. n /\ R[g[i]] = l[i]
  <2>1. f2[f1[i]] < f2[n1] /\ f2[f1[i]] \in Nat /\ f2[f1[i]] > 0  BY <1>6, <1>9, <1>11, <1>12 DEF GuiClosing
  <2>2. f2[f1[i]] \in 1 .. n  BY <1>8, <1>13, <1>14, <2>1
  <2>3. R[f2[f1[i]]] = L[f1[i]] /\ L[f1[i]] = l[i]  BY <1>1, <1>6, <1>8, <1>11
  <2> QED BY <2>2, <2>3
<1>16. \A i, j \in O : i < j => g[i] < g[j]
  <2> SUFFICES ASSUME NEW i \in O, NEW j \in O, i < j PROVE f2[f1[i]] < f2[f1[j]]  OBVIOUS
  <2>1. f1[i] < f1[j]  BY <1>1, <1>8 DEF GuiClosing
  <2> QED BY <1>6, <1>11, <2>1 DEF GuiClosing
<1>17. \A k \in 1 .. n : \E i \in O : g[i] = k
  <2> TAKE k \in 1 .. n
  <2>1. k \in 1 .. n2 - 1 /\ k # n2 - 1  BY <1>8, <1>14
  <2>2. PICK x \in O2 : f2[x] = k  BY <1>6, <2>1 DEF GuiClosing
  <2>3. x # n1  BY <1>13, <2>1, <2>2
  <2> QED BY <1>10, <2>2, <2>3
<1>18. R[n + 1] = l[p]  BY <1>1, <1>6, <1>9, <1>13, <1>14
<1>19. GuiClosing(g, O, n)  BY <1>15, <1>16, <1>17 DEF GuiClosing
<1>20. R[n + 2] = l[q] /\ n + 2 \in GuiSlots /\ \A k \in GuiSlots : k > n + 2 => R[k] = NoSurface
  BY <1>6, <1>14
<1>21. \A i \in O : R[g[i]] = l[i]  BY <1>15
<1> HIDE DEF n, g
<1> QED
  <2>1. GuiPairShape(l, R, p, q, n, g)  BY <1>7, <1>18, <1>19, <1>20, <1>21 DEF O, GuiPairShape
  <2> QED BY <1>14, <2>1 DEF R, L

\* Frames and clients stay side by side: each takes an odd slot and the
\* slot above it, before and after a window is raised.
LEMMA GuiHalves == \A j \in Nat : j # 0 => \E x \in Nat : j = 2 * x + 1 \/ j = 2 * x + 2
<1> TAKE j \in Nat
<1> HAVE j # 0
<1> DEFINE x == (j - 1) \div 2
<1>1. x \in Nat /\ (j = 2 * x + 1 \/ j = 2 * x + 2)  OBVIOUS
<1> QED BY <1>1

LEMMA GuiPairsRaised ==
  ASSUME NEW l, GuiTable(l), GuiPairs(l), NEW a \in Nat, NEW b \in Nat,
         2 * a + 1 \in GuiSlots, 2 * a + 2 \in GuiSlots,
         l[2 * a + 1].id = 2 * b + 1, l[2 * a + 2].id = 2 * b + 2,
         NEW R, NEW n \in Nat, NEW g, GuiPairShape(l, R, 2 * a + 1, 2 * a + 2, n, g)
  PROVE  GuiPairs(R)
<1> DEFINE O == GuiOthers(l, {l[2 * a + 1].id, l[2 * a + 2].id})
<1>1. /\ g \in [O -> 1 .. n]
      /\ \A i, j \in O : i < j => g[i] < g[j]
      /\ \A k \in 1 .. n : \E i \in O : g[i] = k
      /\ \A i \in O : R[g[i]] = l[i]
      /\ n + 2 \in GuiSlots /\ R[n + 1] = l[2 * a + 1] /\ R[n + 2] = l[2 * a + 2]
      /\ \A k \in GuiSlots : k > n + 2 => R[k] = NoSurface
  BY DEF GuiPairShape, GuiClosing
<1>2. COMP_MAX \in Nat /\ O \subseteq GuiSlots /\ (\A i \in GuiSlots : i \in Nat /\ i > 0 /\ i <= COMP_MAX)
      /\ \A i \in Nat : i > 0 /\ i <= COMP_MAX => i \in GuiSlots
  BY GuiSizes DEF GuiSlots, GuiOthers
<1>3. \A i \in GuiSlots : i \in O <=> l[i].id # 0 /\ i # 2 * a + 1 /\ i # 2 * a + 2  BY DEF GuiOthers, GuiTable
<1>4. \A i \in O : i \in Nat /\ g[i] \in Nat /\ g[i] > 0 /\ g[i] <= n
  <2> TAKE i \in O
  <2>1. g[i] \in 1 .. n /\ i \in GuiSlots  BY <1>1, <1>2
  <2> HIDE DEF O
  <2> QED BY <1>2, <2>1
<1> HIDE DEF O
<1>5. ASSUME NEW x \in Nat, 2 * x + 1 \in O \/ 2 * x + 2 \in O
      PROVE  /\ 2 * x + 1 \in O /\ 2 * x + 2 \in O
             /\ \E k \in Nat : l[2 * x + 1].id = 2 * k + 1 /\ l[2 * x + 2].id = 2 * k + 2
  <2>1. 2 * x + 1 \in GuiSlots /\ x # a  BY <1>2, <1>3, <1>5
  <2>2. 2 * x + 2 \in GuiSlots /\ \E k \in Nat : l[2 * x + 1].id = 2 * k + 1 /\ l[2 * x + 2].id = 2 * k + 2
    <3>1. \/ l[2 * x + 1].id = 0 /\ (2 * x + 2 \in GuiSlots => l[2 * x + 2].id = 0)
          \/ 2 * x + 2 \in GuiSlots /\ \E k \in Nat : l[2 * x + 1].id = 2 * k + 1 /\ l[2 * x + 2].id = 2 * k + 2
      BY <2>1 DEF GuiPairs
    <3>2. 2 * x + 1 \in O => l[2 * x + 1].id # 0  BY <1>2, <1>3
    <3>3. 2 * x + 2 \in O => 2 * x + 2 \in GuiSlots /\ l[2 * x + 2].id # 0  BY <1>2, <1>3
    <3> QED BY <1>5, <3>1, <3>2, <3>3
  <2>3. l[2 * x + 1].id # 0 /\ l[2 * x + 2].id # 0  BY <2>2
  <2>4. 2 * x + 1 # 2 * a + 1 /\ 2 * x + 1 # 2 * a + 2 /\ 2 * x + 2 # 2 * a + 1 /\ 2 * x + 2 # 2 * a + 2
    BY <2>1
  <2> QED BY <1>3, <2>1, <2>2, <2>3, <2>4
<1>6. ASSUME NEW x \in Nat, 2 * x + 1 \in O PROVE g[2 * x + 2] = g[2 * x + 1] + 1
  <2> DEFINE i == 2 * x + 1
             j == 2 * x + 2
  <2>1. i \in O /\ j \in O /\ i \in Nat /\ j = i + 1  BY <1>5, <1>6
  <2> HIDE DEF i, j
  <2>2. g[i] < g[j] /\ g[i] + 1 \in 1 .. n  BY <1>1, <1>4, <2>1
  <2>3. PICK y \in O : g[y] = g[i] + 1  BY <1>1, <2>2
  <2>4. ~(y < i) /\ ~(y > j) /\ y # i  BY <1>1, <1>4, <2>1, <2>2, <2>3
  <2>5. y = j  BY <1>4, <2>1, <2>4
  <2> QED BY <2>3, <2>5 DEF i, j
<1>7. ASSUME NEW j \in O PROVE \E x \in Nat : (j = 2 * x + 1 \/ j = 2 * x + 2) /\ 2 * x + 1 \in O
  <2>1. j \in Nat /\ j # 0  BY <1>2
  <2>2. PICK x \in Nat : j = 2 * x + 1 \/ j = 2 * x + 2  BY <2>1, GuiHalves
  <2> QED BY <1>5, <2>2
<1>8. \A x, e \in Nat : 2 * x + 1 \in O => g[2 * x + 1] # 2 * e
  <2> DEFINE S == {x \in Nat : 2 * x + 1 \in O /\ \E e \in Nat : g[2 * x + 1] = 2 * e}
  <2> SUFFICES ASSUME S # {} PROVE FALSE  OBVIOUS
  <2>1. PICK x \in S : \A y \in S : x <= y  BY GuiLeast
  <2>2. PICK e \in Nat : g[2 * x + 1] = 2 * e  OBVIOUS
  <2>3. x \in Nat /\ 2 * x + 1 \in O  OBVIOUS
  <2>4. e > 0 /\ 2 * e - 1 \in 1 .. n  BY <1>4, <2>2, <2>3
  <2>5. PICK j \in O : g[j] = 2 * e - 1  BY <1>1, <2>4
  <2>6. PICK y \in Nat : (j = 2 * y + 1 \/ j = 2 * y + 2) /\ 2 * y + 1 \in O  BY <1>7
  <2>7. g[2 * y + 2] = g[2 * y + 1] + 1 /\ 2 * y + 2 \in O  BY <1>5, <1>6, <2>6
  <2>8. g[2 * y + 1] \in Nat /\ g[2 * y + 2] \in Nat  BY <1>4, <2>6, <2>7
  <2>9. CASE j = 2 * y + 1
    <3>1. g[2 * y + 2] = 2 * e  BY <2>4, <2>5, <2>7, <2>9
    <3>2. ~(2 * y + 2 < 2 * x + 1) /\ ~(2 * x + 1 < 2 * y + 2)  BY <1>1, <2>2, <2>3, <2>4, <2>7, <3>1
    <3> QED BY <2>3, <3>2
  <2>10. CASE j = 2 * y + 2
    <3>1. g[2 * y + 1] = 2 * (e - 1) /\ e - 1 \in Nat
      <4>1. g[2 * y + 2] = 2 * e - 1  BY <2>5, <2>10
      <4>2. g[2 * y + 1] + 1 = 2 * e - 1 /\ g[2 * y + 1] \in Nat  BY <2>7, <2>8, <4>1
      <4> QED BY <2>4, <4>2
    <3>2. y \in S  BY <2>6, <3>1
    <3>3. x <= y  BY <2>1, <3>2
    <3>4. 2 * x + 1 < 2 * y + 2  BY <2>3, <3>3
    <3>5. g[2 * x + 1] < g[2 * y + 2]  BY <1>1, <2>3, <2>7, <3>4
    <3> QED BY <2>2, <2>4, <2>5, <2>10, <3>5
  <2> QED BY <2>6, <2>9, <2>10
<1>9. \E e \in Nat : n = 2 * e
  <2>1. CASE n = 0  BY <2>1
  <2>2. CASE n # 0
    <3>1. PICK j \in O : g[j] = n  BY <1>1, <2>2
    <3>2. PICK x \in Nat : (j = 2 * x + 1 \/ j = 2 * x + 2) /\ 2 * x + 1 \in O  BY <1>7
    <3>3. g[2 * x + 2] = g[2 * x + 1] + 1 /\ 2 * x + 2 \in O /\ g[2 * x + 2] <= n  BY <1>4, <1>5, <1>6, <3>2
    <3>4. j = 2 * x + 2 /\ n = g[2 * x + 1] + 1 /\ g[2 * x + 1] \in Nat /\ g[2 * x + 1] > 0
      BY <1>4, <3>1, <3>2, <3>3
    <3>5. PICK v \in Nat : v = g[2 * x + 1] /\ v # 0 /\ n = v + 1  BY <3>4
    <3>6. PICK e \in Nat : v = 2 * e + 1 \/ v = 2 * e + 2  BY <3>5, GuiHalves
    <3>7. PICK d \in Nat : d = e + 1  OBVIOUS
    <3>8. g[2 * x + 1] # 2 * d  BY <1>8, <3>2
    <3>9. n = 2 * d  BY <3>5, <3>6, <3>7, <3>8
    <3> QED BY <3>9
  <2> QED BY <2>1, <2>2
<1>10. PICK m \in Nat : n = 2 * m  BY <1>9
<1>11. ASSUME NEW s \in Nat, 2 * s + 1 \in GuiSlots
       PROVE  \/ R[2 * s + 1].id = 0 /\ (2 * s + 2 \in GuiSlots => R[2 * s + 2].id = 0)
              \/ 2 * s + 2 \in GuiSlots /\ \E k \in Nat : R[2 * s + 1].id = 2 * k + 1 /\ R[2 * s + 2].id = 2 * k + 2
  <2>1. CASE s < m
    <3>1. 2 * s + 1 \in 1 .. n  BY <1>10, <2>1
    <3>2. PICK j \in O : g[j] = 2 * s + 1  BY <1>1, <3>1
    <3>3. PICK x \in Nat : (j = 2 * x + 1 \/ j = 2 * x + 2) /\ 2 * x + 1 \in O  BY <1>7
    <3>4. g[2 * x + 2] = g[2 * x + 1] + 1 /\ 2 * x + 2 \in O /\ g[2 * x + 1] \in Nat /\ g[2 * x + 1] # 2 * s
      BY <1>4, <1>5, <1>6, <1>8, <3>3
    <3>5. j = 2 * x + 1 /\ g[2 * x + 2] = 2 * s + 2  BY <3>2, <3>3, <3>4
    <3>6. R[2 * s + 1] = l[2 * x + 1] /\ R[2 * s + 2] = l[2 * x + 2]  BY <1>1, <3>2, <3>4, <3>5
    <3>7. 2 * s + 2 \in GuiSlots
      <4>1. n + 2 <= COMP_MAX  BY <1>1, <1>2
      <4> QED BY <1>2, <1>10, <2>1, <4>1
    <3>8. \E k \in Nat : l[2 * x + 1].id = 2 * k + 1 /\ l[2 * x + 2].id = 2 * k + 2  BY <1>5, <3>3
    <3> QED BY <3>6, <3>7, <3>8
  <2>2. CASE s = m
    <3>1. 2 * s + 1 = n + 1 /\ 2 * s + 2 = n + 2  BY <1>10, <2>2
    <3> QED BY <1>1, <3>1
  <2>3. CASE s > m
    <3>1. 2 * s + 1 > n + 2 /\ 2 * s + 2 > n + 2  BY <1>10, <2>3
    <3> QED BY <1>1, <1>11, <3>1 DEF NoSurface
  <2> QED BY <2>1, <2>2, <2>3
<1> QED BY <1>11 DEF GuiPairs

\* Two tables that hold the same surfaces in the same order but for some,
\* the ones an operation works on.
GuiSame(l, m, ids) ==
    /\ \A i \in GuiOthers(l, ids) : \E k \in GuiSlots : m[k] = l[i]
    /\ \A k \in GuiOthers(m, ids) : \E i \in GuiSlots : m[k] = l[i]
    /\ \A i, j \in GuiOthers(l, ids), h, k \in GuiSlots :
          i < j /\ m[h] = l[i] /\ m[k] = l[j] => h < k

LEMMA GuiSameTrans ==
  ASSUME NEW l, NEW m, NEW r, NEW ids, NEW more, NEW all, GuiSame(l, m, ids), GuiSame(m, r, more),
         ids \subseteq all, more \subseteq all
  PROVE  GuiSame(l, r, all)
<1>1. \A i \in GuiOthers(l, all) : i \in GuiOthers(l, ids)  BY DEF GuiOthers
<1>2. \A i \in GuiOthers(r, all) : i \in GuiOthers(r, more)  BY DEF GuiOthers
<1>3. \A i \in GuiOthers(l, all), k \in GuiSlots : m[k] = l[i] => k \in GuiOthers(m, more)  BY DEF GuiOthers
<1>4. \A k \in GuiOthers(r, all), i \in GuiSlots : r[k] = m[i] => i \in GuiOthers(m, ids)  BY DEF GuiOthers
<1>5. ASSUME NEW i \in GuiOthers(l, all) PROVE \E k \in GuiSlots : r[k] = l[i]  BY <1>1, <1>3 DEF GuiSame
<1>6. ASSUME NEW k \in GuiOthers(r, all) PROVE \E i \in GuiSlots : r[k] = l[i]  BY <1>2, <1>4 DEF GuiSame
<1>7. ASSUME NEW i \in GuiOthers(l, all), NEW j \in GuiOthers(l, all), NEW h \in GuiSlots, NEW k \in GuiSlots,
             i < j, r[h] = l[i], r[k] = l[j]
      PROVE  h < k
  <2>1. PICK x \in GuiSlots : m[x] = l[i]  BY <1>1 DEF GuiSame
  <2>2. PICK y \in GuiSlots : m[y] = l[j]  BY <1>1 DEF GuiSame
  <2>3. x < y  BY <1>1, <1>7, <2>1, <2>2 DEF GuiSame
  <2> QED BY <1>3, <1>7, <2>1, <2>2, <2>3 DEF GuiSame
<1> QED BY <1>5, <1>6, <1>7 DEF GuiSame

LEMMA GuiSameSlots ==
  ASSUME NEW l, NEW m, NEW ids, GuiTable(l), GuiTable(m),
         \A i \in GuiSlots : m[i] = l[i] \/ {l[i].id, m[i].id} \subseteq {0} \cup ids
  PROVE  GuiSame(l, m, ids)
<1>1. \A i \in GuiOthers(l, ids) : i \in GuiSlots /\ m[i] = l[i] /\ m[i].id # 0  BY DEF GuiOthers
<1>2. \A i \in GuiOthers(m, ids) : i \in GuiSlots /\ m[i] = l[i]  BY DEF GuiOthers
<1>3. \A i \in GuiOthers(l, ids), h \in GuiSlots : m[h] = l[i] => h = i  BY <1>1 DEF GuiTable
<1> QED BY <1>1, <1>2, <1>3 DEF GuiSame

GuiRaisedOver(l, R, p, q) ==
    /\ GuiSame(l, R, {l[p].id, l[q].id})
    /\ \A k \in GuiSlots : R[k].id # 0 => \E i \in GuiSlots : R[k] = l[i]
    /\ \A i \in GuiSlots : l[i].id # 0 => \E k \in GuiSlots : R[k] = l[i]

LEMMA GuiSameRaised ==
  ASSUME NEW l, GuiTable(l), NEW p \in GuiSlots, NEW q \in GuiSlots,
         NEW R, NEW n \in Nat, NEW g, GuiPairShape(l, R, p, q, n, g)
  PROVE  GuiRaisedOver(l, R, p, q)
<1> DEFINE ids == {l[p].id, l[q].id}
           O == GuiOthers(l, ids)
<1>1. /\ g \in [O -> 1 .. n]
      /\ \A i, j \in O : i < j => g[i] < g[j]
      /\ \A k \in 1 .. n : \E i \in O : g[i] = k
      /\ \A i \in O : R[g[i]] = l[i]
      /\ n + 2 \in GuiSlots /\ R[n + 1] = l[p] /\ R[n + 2] = l[q] /\ GuiTable(R)
      /\ \A k \in GuiSlots : k > n + 2 => R[k] = NoSurface
  BY DEF GuiPairShape, GuiClosing
<1>2. COMP_MAX \in Nat /\ O \subseteq GuiSlots /\ (\A i \in GuiSlots : i \in Nat /\ i > 0 /\ i <= COMP_MAX)
      /\ \A i \in Nat : i > 0 /\ i <= COMP_MAX => i \in GuiSlots
  BY GuiSizes DEF GuiSlots, GuiOthers
<1>3. \A i \in O : g[i] \in GuiSlots /\ R[g[i]].id # 0
  <2> TAKE i \in O
  <2>1. g[i] \in 1 .. n /\ R[g[i]] = l[i] /\ l[i].id # 0 /\ n + 2 <= COMP_MAX  BY <1>1, <1>2 DEF GuiOthers
  <2> HIDE DEF O
  <2> QED BY <1>2, <2>1
<1>4. n + 1 \in GuiSlots  BY <1>1, <1>2
<1>5. ASSUME NEW k \in GuiSlots, R[k].id # 0
      PROVE  k \in {n + 1, n + 2} \/ \E i \in O : g[i] = k
  <2>1. k \in Nat /\ k > 0 /\ ~(k > n + 2)  BY <1>1, <1>2, <1>5 DEF NoSurface
  <2>2. k <= n => k \in 1 .. n  BY <2>1
  <2> QED BY <1>1, <2>1, <2>2
<1> HIDE DEF O
<1>6. ASSUME NEW k \in GuiSlots, R[k].id # 0 PROVE \E i \in GuiSlots : R[k] = l[i]  BY <1>1, <1>2, <1>5, <1>6
<1>7. ASSUME NEW i \in GuiSlots, l[i].id # 0 PROVE \E k \in GuiSlots : R[k] = l[i]
  <2>1. CASE i \in O  BY <1>1, <1>3, <2>1
  <2>2. CASE i \notin O
    <3>1. l[i].id = l[p].id \/ l[i].id = l[q].id  BY <1>7, <2>2 DEF O, GuiOthers
    <3>2. i = p \/ i = q  BY <1>7, <3>1 DEF GuiTable
    <3> QED BY <1>1, <1>4, <3>2
  <2> QED BY <2>1, <2>2
<1>8. ASSUME NEW i \in O, NEW j \in O, NEW h \in GuiSlots, NEW k \in GuiSlots,
             i < j, R[h] = l[i], R[k] = l[j]
      PROVE  h < k
  <2>1. h = g[i] /\ k = g[j]  BY <1>1, <1>3, <1>8 DEF GuiTable
  <2> QED BY <1>1, <1>8, <2>1
<1>9. GuiSame(l, R, ids)
  <2>1. \A i \in GuiOthers(l, ids) : \E k \in GuiSlots : R[k] = l[i]  BY <1>1, <1>3 DEF O
  <2>2. \A k \in GuiOthers(R, ids) : \E i \in GuiSlots : R[k] = l[i]  BY <1>6 DEF GuiOthers
  <2> QED BY <1>8, <2>1, <2>2 DEF O, GuiSame
<1> QED BY <1>6, <1>7, <1>9 DEF GuiRaisedOver

\* dmg_add: the rectangle that results holds the old one and the new rows,
\* and nothing else changes.
GuiIn(d, c) == d[1] <= c /\ c < d[2]

GuiFields == {"list", "dirty", "cursor", "layer", "back", "front"}

LEMMA GuiDamage ==
  ASSUME NEW g, DOMAIN g = GuiFields, g.dirty \in Int \X Int, NEW rows, rows \subseteq GuiCells
  PROVE  LET h == dmg_add(g, rows)
         IN  /\ DOMAIN h = GuiFields /\ h.dirty \in Int \X Int
             /\ h.list = g.list /\ h.cursor = g.cursor /\ h.layer = g.layer /\ h.front = g.front
             /\ \A c \in GuiCells : c \in rows \/ GuiIn(g.dirty, c) => GuiIn(h.dirty, c)
<1> DEFINE all == rows \cup {c \in GuiCells : g.dirty[1] <= c /\ c < g.dirty[2]}
           low == CHOOSE c \in all : \A k \in all : c <= k
           high == CHOOSE c \in all : \A k \in all : k <= c
           h == dmg_add(g, rows)
<1>1. h = IF all = {} THEN g ELSE [g EXCEPT !.dirty = <<low, 1 + high>>]  BY DEF dmg_add
<1>2. \A c \in GuiCells : c \in rows \/ GuiIn(g.dirty, c) => c \in all  BY DEF GuiIn
<1>3. CASE all = {}  BY <1>1, <1>2, <1>3
<1>4. CASE all # {}
  <2>1. GuiRows \in Nat /\ GuiRows - 1 \in Nat /\ all \subseteq 0 .. GuiRows - 1 /\ all \subseteq Nat
    <3>1. GuiRows \in Nat /\ GuiRows > 1  BY GuiSizes
    <3>2. all \subseteq GuiCells  OBVIOUS
    <3> HIDE DEF all
    <3> QED BY <3>1, <3>2 DEF GuiCells
  <2> HIDE DEF all
  <2>2. low \in all /\ \A k \in all : low <= k  BY <1>4, <2>1, GuiLeast
  <2>3. high \in all /\ \A k \in all : k <= high  BY <1>4, <2>1, GuiGreatest
  <2> HIDE DEF low, high
  <2>4. PICK a \in Nat, b \in Nat : a = low /\ b = high  BY <2>1, <2>2, <2>3
  <2>5. h = [g EXCEPT !.dirty = <<a, 1 + b>>]  BY <1>1, <1>4, <2>4
  <2>6. \A c \in all : c \in Nat /\ a <= c /\ c < 1 + b  BY <2>1, <2>2, <2>3, <2>4
  <2>7. h.dirty = <<a, 1 + b>> /\ DOMAIN h = GuiFields
        /\ h.list = g.list /\ h.cursor = g.cursor /\ h.layer = g.layer /\ h.front = g.front
    BY <2>5 DEF GuiFields
  <2>8. h.dirty[1] = a /\ h.dirty[2] = 1 + b /\ h.dirty \in Int \X Int  BY <2>7
  <2> HIDE DEF h
  <2> QED BY <1>2, <2>6, <2>7, <2>8 DEF GuiIn, h
<1> QED BY <1>3, <1>4

\* A row that no surface of ids covers, before or after, shows the same.
LEMMA GuiSurfaceAt ==
  ASSUME NEW l, GuiTable(l), NEW i \in GuiSlots, l[i].id # 0
  PROVE  Surface(l, l[i].id) = l[i]
<1>1. \A k \in 1 .. COMP_MAX : At(l, k, l[i].id) <=> k = i  BY DEF At, GuiTable, GuiSlots
<1>2. i \in 1 .. COMP_MAX  BY DEF GuiSlots
<1> QED BY <1>1, <1>2 DEF Surface

LEMMA GuiTopUntouched ==
  ASSUME NEW l, NEW m, NEW ids, GuiTable(l), GuiTable(m), GuiSame(l, m, ids), NEW c \in GuiCells,
         NEW g, NEW h, g.list = l, h.list = m,
         \A x \in ids : c \notin SurfaceSpan(Surface(l, x)) /\ c \notin SurfaceSpan(Surface(m, x))
  PROVE  TopSurface(g, c) = TopSurface(h, c)
<1> DEFINE C == {i \in GuiSlots : l[i].visible /\ l[i].y <= c /\ c < l[i].y + l[i].h}
           D == {i \in GuiSlots : m[i].visible /\ m[i].y <= c /\ c < m[i].y + m[i].h}
<1>1. /\ TopSurface(g, c) = IF C = {} THEN NoSurface ELSE l[CHOOSE i \in C : \A j \in C : j <= i]
      /\ TopSurface(h, c) = IF D = {} THEN NoSurface ELSE m[CHOOSE i \in D : \A j \in D : j <= i]
  BY DEF TopSurface, GuiSlots
<1>2. C \subseteq GuiOthers(l, ids)
  <2> SUFFICES ASSUME NEW i \in C PROVE l[i].id # 0 /\ l[i].id \notin ids  BY DEF GuiOthers
  <2>1. l[i].id # 0  BY DEF GuiTable, NoSurface
  <2>2. c \in SurfaceSpan(l[i])  BY DEF SurfaceSpan
  <2> QED BY <2>1, <2>2, GuiSurfaceAt
<1>3. D \subseteq GuiOthers(m, ids)
  <2> SUFFICES ASSUME NEW i \in D PROVE m[i].id # 0 /\ m[i].id \notin ids  BY DEF GuiOthers
  <2>1. m[i].id # 0  BY DEF GuiTable, NoSurface
  <2>2. c \in SurfaceSpan(m[i])  BY DEF SurfaceSpan
  <2> QED BY <2>1, <2>2, GuiSurfaceAt
<1>4. \A i \in C : \E k \in D : m[k] = l[i]
  <2> TAKE i \in C
  <2>1. PICK k \in GuiSlots : m[k] = l[i]  BY <1>2 DEF GuiSame
  <2> QED BY <2>1
<1>5. \A k \in D : \E i \in C : m[k] = l[i]
  <2> TAKE k \in D
  <2>1. PICK i \in GuiSlots : m[k] = l[i]  BY <1>3 DEF GuiSame
  <2> QED BY <2>1
<1>6. COMP_MAX \in Nat /\ C \subseteq 0 .. COMP_MAX /\ D \subseteq 0 .. COMP_MAX /\ C \subseteq GuiSlots /\ D \subseteq GuiSlots
      /\ \A i \in GuiSlots : i \in Nat
  BY GuiSizes DEF GuiSlots
<1> HIDE DEF C, D
<1>7. CASE C = {}
  <2>1. D = {}  BY <1>5, <1>7
  <2> QED BY <1>1, <1>7, <2>1
<1>8. CASE C # {}
  <2>1. D # {}  BY <1>4, <1>8
  <2> DEFINE x == CHOOSE i \in C : \A j \in C : j <= i
             y == CHOOSE i \in D : \A j \in D : j <= i
  <2>2. x \in C /\ \A j \in C : j <= x  BY <1>6, <1>8, GuiGreatest
  <2>3. y \in D /\ \A j \in D : j <= y  BY <1>6, <2>1, GuiGreatest
  <2>4. TopSurface(g, c) = l[x] /\ TopSurface(h, c) = m[y]  BY <1>1, <1>8, <2>1
  <2> HIDE DEF x, y
  <2>5. PICK k \in D : m[k] = l[x]  BY <1>4, <2>2
  <2>6. PICK j \in C : m[y] = l[j]  BY <1>5, <2>3
  <2>7. j < x => y < k  BY <1>2, <1>6, <2>2, <2>3, <2>5, <2>6 DEF GuiSame
  <2>8. k <= y /\ j <= x /\ k \in Nat /\ y \in Nat /\ j \in Nat /\ x \in Nat  BY <1>6, <2>2, <2>3
  <2>9. j = x  BY <2>7, <2>8
  <2> QED BY <2>4, <2>6, <2>9
<1> QED BY <1>7, <1>8

\* Every operation on surfaces damages what it changes on the screen; the
\* compositor repaints all of it.
LEMMA GuiRedrawn ==
  ASSUME NEW g, GuiScreen(g), GuiTable(g.list), NEW l, GuiTable(l), NEW ids, GuiSame(g.list, l, ids)
  PROVE  GuiScreen(Redrawn(g, l, ids)) /\ Redrawn(g, l, ids).list = l
<1> DEFINE rows == UNION {SurfaceSpan(Surface(g.list, id)) \cup SurfaceSpan(Surface(l, id)) : id \in ids}
           d == dmg_add(g, rows)
           h == Redrawn(g, l, ids)
<1>1. rows \subseteq GuiCells  BY DEF SurfaceSpan
<1>2. DOMAIN g = GuiFields /\ g.dirty \in Int \X Int  BY DEF GuiScreen, GuiFields
<1>3. /\ DOMAIN d = GuiFields /\ d.dirty \in Int \X Int
      /\ d.list = g.list /\ d.cursor = g.cursor /\ d.layer = g.layer /\ d.front = g.front
      /\ \A c \in GuiCells : c \in rows \/ GuiIn(g.dirty, c) => GuiIn(d.dirty, c)
  BY <1>1, <1>2, GuiDamage
<1>4. h = [d EXCEPT !.list = l]  BY DEF Redrawn
<1>5. \A id \in ids, c \in GuiCells : c \notin rows =>
          c \notin SurfaceSpan(Surface(g.list, id)) /\ c \notin SurfaceSpan(Surface(l, id))
  OBVIOUS
<1> HIDE DEF rows, d
<1>6. /\ DOMAIN h = GuiFields /\ h.dirty = d.dirty /\ h.list = l /\ h.cursor = g.cursor
      /\ h.layer = g.layer /\ h.front = g.front
  BY <1>3, <1>4 DEF GuiFields
<1> HIDE DEF h
<1>7. ASSUME NEW c \in GuiCells, g.layer, h.front[c] # SceneRow(h, c) PROVE GuiIn(h.dirty, c)
  <2>1. CASE c \in rows  BY <1>3, <1>6, <2>1
  <2>2. CASE c \notin rows
    <3>1. TopSurface(g, c) = TopSurface(h, c)  BY <1>5, <1>6, <2>2, GuiTopUntouched
    <3>2. SceneRow(g, c) = SceneRow(h, c)  BY <1>6, <3>1 DEF SceneRow, Painted
    <3>3. GuiIn(g.dirty, c)  BY <1>6, <1>7, <3>2 DEF GuiScreen, GuiIn
    <3> QED BY <1>3, <1>6, <3>3
  <2> QED BY <2>1, <2>2
<1>8. GuiScreen(h)  BY <1>3, <1>6, <1>7 DEF GuiScreen, GuiFields, GuiIn
<1> QED BY <1>6, <1>8 DEF h

LEMMA GuiDamaged ==
  ASSUME NEW g, GuiScreen(g), NEW rows, rows \subseteq GuiCells
  PROVE  GuiScreen(dmg_add(g, rows)) /\ dmg_add(g, rows).list = g.list
<1> DEFINE h == dmg_add(g, rows)
<1>1. DOMAIN g = GuiFields /\ g.dirty \in Int \X Int  BY DEF GuiScreen, GuiFields
<1>2. /\ DOMAIN h = GuiFields /\ h.dirty \in Int \X Int
      /\ h.list = g.list /\ h.cursor = g.cursor /\ h.layer = g.layer /\ h.front = g.front
      /\ \A c \in GuiCells : c \in rows \/ GuiIn(g.dirty, c) => GuiIn(h.dirty, c)
  BY <1>1, GuiDamage
<1> HIDE DEF h
<1>3. \A c \in GuiCells : SceneRow(g, c) = SceneRow(h, c)  BY <1>2 DEF SceneRow, Painted, TopSurface
<1> QED BY <1>2, <1>3 DEF GuiScreen, GuiFields, GuiIn, h

LEMMA GuiPointed ==
  ASSUME NEW g, GuiScreen(g), NEW y \in GuiCells
  PROVE  GuiScreen(comp_cursor_move(g, y)) /\ comp_cursor_move(g, y).list = g.list
<1> DEFINE rows == {y} \cup {c \in GuiCells : g.cursor.on /\ c = g.cursor.y}
           d == dmg_add(g, rows)
           h == comp_cursor_move(g, y)
<1>1. DOMAIN g = GuiFields /\ g.dirty \in Int \X Int /\ rows \subseteq GuiCells  BY DEF GuiScreen, GuiFields
<1>2. /\ DOMAIN d = GuiFields /\ d.dirty \in Int \X Int
      /\ d.list = g.list /\ d.cursor = g.cursor /\ d.layer = g.layer /\ d.front = g.front
      /\ \A c \in GuiCells : c \in rows \/ GuiIn(g.dirty, c) => GuiIn(d.dirty, c)
  BY <1>1, GuiDamage
<1>3. h = [d EXCEPT !.cursor = [on |-> TRUE, y |-> y]]  BY DEF comp_cursor_move
<1> HIDE DEF d
<1>4. /\ DOMAIN h = GuiFields /\ h.dirty = d.dirty /\ h.list = g.list /\ h.cursor = [on |-> TRUE, y |-> y]
      /\ h.layer = g.layer /\ h.front = g.front
  BY <1>2, <1>3 DEF GuiFields
<1> HIDE DEF h
<1>5. \A c \in GuiCells : Painted(g, c) = Painted(h, c)  BY <1>4 DEF Painted, TopSurface
<1>6. \A c \in GuiCells : c \notin rows => SceneRow(g, c) = SceneRow(h, c)  BY <1>4, <1>5 DEF SceneRow
<1>7. h.cursor \in [on : BOOLEAN, y : GuiCells]  BY <1>4
<1> HIDE DEF rows
<1> QED BY <1>2, <1>4, <1>6, <1>7 DEF GuiScreen, GuiFields, GuiIn, h

LEMMA GuiComposed ==
  ASSUME NEW g, GuiScreen(g)
  PROVE  GuiScreen(comp_composite(g)) /\ comp_composite(g).list = g.list
<1> DEFINE rows  == {c \in GuiCells : g.dirty[1] <= c /\ c < g.dirty[2]}
           point == IF g.cursor.on THEN {g.cursor.y} \cap GuiCells ELSE {}
           back  == [c \in GuiCells |-> IF c \in point THEN <<-1, "pointer">>
                                        ELSE IF c \in rows THEN Painted(g, c) ELSE g.back[c]]
           drawn == [g EXCEPT !.dirty = Clean, !.back = back]
           front == [c \in GuiCells |-> IF c \in rows \cup point THEN drawn.back[c] ELSE drawn.front[c]]
           h == [drawn EXCEPT !.front = front]
<1>1. comp_composite(g) = IF g.dirty = Clean \/ ~g.layer THEN g ELSE h  BY DEF comp_composite, fb_flip
<1>2. CASE g.dirty = Clean \/ ~g.layer  BY <1>1, <1>2
<1>3. CASE ~(g.dirty = Clean \/ ~g.layer)
  <2>1. DOMAIN g = GuiFields  BY DEF GuiScreen, GuiFields
  <2> HIDE DEF back
  <2>2. /\ DOMAIN drawn = GuiFields /\ drawn.dirty = Clean /\ drawn.back = back /\ drawn.list = g.list
        /\ drawn.cursor = g.cursor /\ drawn.layer = g.layer /\ drawn.front = g.front
    BY <2>1 DEF GuiFields
  <2> HIDE DEF drawn
  <2>3. front = [c \in GuiCells |-> IF c \in rows \cup point THEN back[c] ELSE g.front[c]]  BY <2>2
  <2> HIDE DEF front
  <2>4. /\ DOMAIN h = GuiFields /\ h.dirty = Clean /\ h.list = g.list
        /\ h.cursor = g.cursor /\ h.layer = g.layer /\ h.front = front
    BY <2>2 DEF GuiFields
  <2> HIDE DEF h
  <2>5. \A c \in GuiCells : SceneRow(h, c) = SceneRow(g, c) /\ Painted(h, c) = Painted(g, c)
    BY <2>4 DEF SceneRow, Painted, TopSurface
  <2>6. ASSUME NEW c \in GuiCells PROVE front[c] = SceneRow(g, c)
    <3>1. CASE c \in point
      <4>1. front[c] = <<-1, "pointer">>  BY <2>3, <3>1 DEF back
      <4>2. g.cursor.on /\ g.cursor.y = c  BY <3>1
      <4> QED BY <4>1, <4>2 DEF SceneRow
    <3>2. CASE c \notin point /\ c \in rows
      <4>1. front[c] = Painted(g, c)  BY <2>3, <3>2 DEF back
      <4>2. ~(g.cursor.on /\ g.cursor.y = c)  BY <3>2
      <4> QED BY <4>1, <4>2 DEF SceneRow
    <3>3. CASE c \notin point /\ c \notin rows
      <4>1. front[c] = g.front[c]  BY <2>3, <3>3
      <4> QED BY <1>3, <3>3, <4>1 DEF GuiScreen
    <3> QED BY <3>1, <3>2, <3>3
  <2>7. Clean \in Int \X Int  BY DEF Clean
  <2>8. GuiScreen(h)  BY <2>4, <2>5, <2>6, <2>7 DEF GuiScreen, GuiFields
  <2> QED BY <1>1, <1>3, <2>4, <2>8
<1> QED BY <1>2, <1>3

\* A full repaint shows the scene whatever was on the screen.
LEMMA GuiRepainted ==
  ASSUME NEW g, DOMAIN g = GuiFields, g.dirty \in Int \X Int, g.cursor \in [on : BOOLEAN, y : GuiCells],
         g.layer \in BOOLEAN
  PROVE  GuiScreen(comp_full_repaint(g)) /\ comp_full_repaint(g).list = g.list
<1> DEFINE h == dmg_add(g, GuiCells)
<1>1. /\ DOMAIN h = GuiFields /\ h.dirty \in Int \X Int
      /\ h.list = g.list /\ h.cursor = g.cursor /\ h.layer = g.layer /\ h.front = g.front
      /\ \A c \in GuiCells : GuiIn(h.dirty, c)
  BY GuiDamage
<1> HIDE DEF h
<1>2. GuiScreen(h)  BY <1>1 DEF GuiScreen, GuiFields, GuiIn
<1>3. comp_full_repaint(g) = comp_composite(h)  BY DEF comp_full_repaint, h
<1> QED BY <1>1, <1>2, <1>3, GuiComposed

\* Operations that work on surfaces where they are: no surface comes, goes
\* or changes its slot.
GuiEdited(l, m, ids) ==
    /\ m \in [GuiSlots -> GuiSurface]
    /\ \A k \in GuiSlots : m[k].id = l[k].id /\ (l[k].id \notin ids => m[k] = l[k])

LEMMA GuiEditKeeps ==
  ASSUME NEW l, NEW m, NEW ids, GuiTable(l), GuiEdited(l, m, ids), 0 \notin ids
  PROVE  /\ GuiTable(m) /\ GuiSame(l, m, ids)
         /\ GuiPairs(l) => GuiPairs(m)
         /\ \A w : GuiOwner(l, w) => GuiOwner(m, w)
<1>1. GuiTable(m)  BY DEF GuiTable, GuiEdited
<1>2. \A i \in GuiSlots : m[i] = l[i] \/ {l[i].id, m[i].id} \subseteq {0} \cup ids  BY DEF GuiEdited
<1>3. GuiSame(l, m, ids)  BY <1>1, <1>2, GuiSameSlots
<1>4. \A k \in GuiSlots : m[k].id = l[k].id  BY DEF GuiEdited
<1>5. GuiPairs(l) => GuiPairs(m)
  <2> SUFFICES ASSUME GuiPairs(l), NEW q \in Nat, 2 * q + 1 \in GuiSlots
               PROVE  \/ m[2 * q + 1].id = 0 /\ (2 * q + 2 \in GuiSlots => m[2 * q + 2].id = 0)
                      \/ 2 * q + 2 \in GuiSlots /\ \E k \in Nat : m[2 * q + 1].id = 2 * k + 1 /\ m[2 * q + 2].id = 2 * k + 2
    BY DEF GuiPairs
  <2>1. \/ l[2 * q + 1].id = 0 /\ (2 * q + 2 \in GuiSlots => l[2 * q + 2].id = 0)
        \/ 2 * q + 2 \in GuiSlots /\ \E k \in Nat : l[2 * q + 1].id = 2 * k + 1 /\ l[2 * q + 2].id = 2 * k + 2
    BY DEF GuiPairs
  <2> QED BY <1>4, <2>1
<1>6. ASSUME NEW w, GuiOwner(l, w) PROVE GuiOwner(m, w)  BY <1>4, <1>6 DEF GuiOwner
<1> QED BY <1>1, <1>3, <1>5, <1>6

GuiAtRow(l, m, id, y) ==
    /\ GuiEdited(l, m, {id})
    /\ \A k \in GuiSlots : (l[k].id = id => m[k].y = y) /\ m[k].h = l[k].h /\ m[k].visible = l[k].visible /\ m[k].look = l[k].look

LEMMA GuiMoveEdits ==
  ASSUME NEW l, GuiTable(l), NEW id \in Nat, id # 0, NEW y \in Int
  PROVE  GuiAtRow(l, comp_move(l, id, y), id, y)
<1>1. l \in [GuiSlots -> GuiSurface]  BY DEF GuiTable
<1>2. \A k \in GuiSlots :
         /\ [l[k] EXCEPT !.y = y] \in GuiSurface /\ [l[k] EXCEPT !.y = y].y = y
         /\ [l[k] EXCEPT !.y = y].id = l[k].id /\ [l[k] EXCEPT !.y = y].h = l[k].h /\ [l[k] EXCEPT !.y = y].visible = l[k].visible /\ [l[k] EXCEPT !.y = y].look = l[k].look
  BY <1>1 DEF GuiSurface
<1> DEFINE m == comp_move(l, id, y)
<1>3. m = [k \in GuiSlots |-> IF l[k].id = id THEN [l[k] EXCEPT !.y = y] ELSE l[k]]
  BY DEF comp_move, At, GuiSlots
<1> HIDE DEF m
<1>4. m \in [GuiSlots -> GuiSurface]  BY <1>1, <1>2, <1>3
<1>5. \A k \in GuiSlots : m[k] = IF l[k].id = id THEN [l[k] EXCEPT !.y = y] ELSE l[k]  BY <1>3
<1>6. GuiAtRow(l, m, id, y)  BY <1>2, <1>4, <1>5 DEF GuiEdited, GuiAtRow
<1> QED BY <1>6 DEF m

GuiAtHeight(l, m, id, h) ==
    /\ GuiEdited(l, m, {id})
    /\ \A k \in GuiSlots : (l[k].id = id => m[k].h = h) /\ m[k].y = l[k].y /\ m[k].visible = l[k].visible /\ m[k].look = l[k].look

LEMMA GuiResizeEdits ==
  ASSUME NEW l, GuiTable(l), NEW id \in Nat, id # 0, NEW h \in Nat
  PROVE  GuiAtHeight(l, comp_resize(l, id, h), id, h)
<1>1. l \in [GuiSlots -> GuiSurface]  BY DEF GuiTable
<1>2. \A k \in GuiSlots :
         /\ [l[k] EXCEPT !.h = h] \in GuiSurface /\ [l[k] EXCEPT !.h = h].h = h
         /\ [l[k] EXCEPT !.h = h].id = l[k].id /\ [l[k] EXCEPT !.h = h].y = l[k].y /\ [l[k] EXCEPT !.h = h].visible = l[k].visible /\ [l[k] EXCEPT !.h = h].look = l[k].look
  BY <1>1 DEF GuiSurface
<1> DEFINE m == comp_resize(l, id, h)
<1>3. m = [k \in GuiSlots |-> IF l[k].id = id THEN [l[k] EXCEPT !.h = h] ELSE l[k]]
  BY DEF comp_resize, At, GuiSlots
<1> HIDE DEF m
<1>4. m \in [GuiSlots -> GuiSurface]  BY <1>1, <1>2, <1>3
<1>5. \A k \in GuiSlots : m[k] = IF l[k].id = id THEN [l[k] EXCEPT !.h = h] ELSE l[k]  BY <1>3
<1>6. GuiAtHeight(l, m, id, h)  BY <1>2, <1>4, <1>5 DEF GuiEdited, GuiAtHeight
<1> QED BY <1>6 DEF m

GuiWithLook(l, m, id, look) ==
    /\ GuiEdited(l, m, {id})
    /\ \A k \in GuiSlots : (l[k].id = id => m[k].look = look) /\ m[k].y = l[k].y /\ m[k].h = l[k].h /\ m[k].visible = l[k].visible

LEMMA GuiFillEdits ==
  ASSUME NEW l, GuiTable(l), NEW id \in Nat, id # 0, NEW look \in GuiLooks
  PROVE  GuiWithLook(l, comp_fill(l, id, look), id, look)
<1>1. l \in [GuiSlots -> GuiSurface]  BY DEF GuiTable
<1>2. \A k \in GuiSlots :
         /\ [l[k] EXCEPT !.look = look] \in GuiSurface /\ [l[k] EXCEPT !.look = look].look = look
         /\ [l[k] EXCEPT !.look = look].id = l[k].id /\ [l[k] EXCEPT !.look = look].y = l[k].y /\ [l[k] EXCEPT !.look = look].h = l[k].h /\ [l[k] EXCEPT !.look = look].visible = l[k].visible
  BY <1>1 DEF GuiSurface
<1> DEFINE m == comp_fill(l, id, look)
<1>3. m = [k \in GuiSlots |-> IF l[k].id = id THEN [l[k] EXCEPT !.look = look] ELSE l[k]]
  BY DEF comp_fill, At, GuiSlots
<1> HIDE DEF m
<1>4. m \in [GuiSlots -> GuiSurface]  BY <1>1, <1>2, <1>3
<1>5. \A k \in GuiSlots : m[k] = IF l[k].id = id THEN [l[k] EXCEPT !.look = look] ELSE l[k]  BY <1>3
<1>6. GuiWithLook(l, m, id, look)  BY <1>2, <1>4, <1>5 DEF GuiEdited, GuiWithLook
<1> QED BY <1>6 DEF m

LEMMA GuiEditTwice ==
  ASSUME NEW l, NEW m, NEW r, NEW a, NEW b, NEW c, GuiEdited(l, m, a), GuiEdited(m, r, b), a \cup b \subseteq c
  PROVE  GuiEdited(l, r, c)
BY DEF GuiEdited

\* wm_get and SetWindow: a window that is found is in one place.
LEMMA GuiFound ==
  ASSUME NEW w, GuiManager(w), NEW id, wm_get(w, id) # {}
  PROVE  \E i \in GuiPlaces : id # 0 /\ w.list[i].id = id /\ Window(w, id) = w.list[i] /\ wm_get(w, id) = {i}
<1>1. wm_get(w, id) = {i \in GuiPlaces : id # 0 /\ w.list[i].id = id}  BY DEF wm_get, GuiPlaces
<1>2. PICK i \in GuiPlaces : id # 0 /\ w.list[i].id = id  BY <1>1
<1>3. wm_get(w, id) = {i}  BY <1>1, <1>2 DEF GuiManager
<1>4. Window(w, id) = w.list[i]  BY <1>3 DEF Window
<1> QED BY <1>2, <1>3, <1>4

GuiPut(w, v, i, win) ==
    /\ v \in GuiManagers
    /\ v.next = w.next
    /\ \A j \in GuiPlaces : v.list[j] = IF j = i THEN win ELSE w.list[j]

LEMMA GuiSet ==
  ASSUME NEW w, GuiManager(w), NEW id, NEW i \in GuiPlaces, wm_get(w, id) = {i}, NEW win \in GuiWindow,
         NEW v, v = SetWindow(w, id, win)
  PROVE  GuiPut(w, v, i, win) /\ v.focus = w.focus /\ v.drag = w.drag /\ v.grip = w.grip
<1>1. w \in GuiManagers /\ w.list \in [GuiPlaces -> GuiWindow]  BY DEF GuiManager, GuiManagers
<1> DEFINE t == [k \in GuiPlaces |-> IF k = i THEN win ELSE w.list[k]]
<1>2. t \in [GuiPlaces -> GuiWindow] /\ \A j \in GuiPlaces : t[j] = IF j = i THEN win ELSE w.list[j]  BY <1>1
<1>3. v = [w EXCEPT !.list = t]  BY DEF SetWindow, GuiPlaces
<1> HIDE DEF t
<1> QED BY <1>1, <1>2, <1>3 DEF GuiManagers, GuiPut

\* The surfaces of a window: its frame at an odd slot, its client above.
LEMMA GuiPairOf ==
  ASSUME NEW l, GuiTable(l), GuiPairs(l), NEW w, GuiManager(w), GuiOwner(l, w),
         NEW i \in GuiPlaces, w.list[i].id # 0
  PROVE  \E a \in Nat : /\ 2 * a + 1 \in GuiSlots /\ 2 * a + 2 \in GuiSlots
                        /\ l[2 * a + 1].id = w.list[i].frame /\ l[2 * a + 2].id = w.list[i].client
<1>1. PICK id \in Nat : id = w.list[i].id  BY DEF GuiManager, GuiManagers, GuiWindow
<1>2. w.list[i].frame = 2 * id + 1 /\ w.list[i].client = 2 * id + 2  BY <1>1 DEF GuiManager
<1>3. PICK j \in GuiSlots : l[j].id = 2 * id + 1  BY <1>2 DEF GuiOwner
<1>4. j \in Nat /\ j # 0  BY GuiSizes DEF GuiSlots
<1>5. PICK a \in Nat : j = 2 * a + 1 \/ j = 2 * a + 2  BY <1>4, GuiHalves
<1>6. 2 * a + 1 \in GuiSlots  BY <1>4, <1>5, GuiSizes DEF GuiSlots
<1>7. \/ l[2 * a + 1].id = 0 /\ (2 * a + 2 \in GuiSlots => l[2 * a + 2].id = 0)
      \/ 2 * a + 2 \in GuiSlots /\ \E k \in Nat : l[2 * a + 1].id = 2 * k + 1 /\ l[2 * a + 2].id = 2 * k + 2
  BY <1>6 DEF GuiPairs
<1>8. l[j].id # 0  BY <1>3
<1>9. PICK k \in Nat : 2 * a + 2 \in GuiSlots /\ l[2 * a + 1].id = 2 * k + 1 /\ l[2 * a + 2].id = 2 * k + 2
  BY <1>5, <1>7, <1>8
<1>10. j = 2 * a + 1
  <2>1. j = 2 * a + 2 => 2 * k + 2 = 2 * id + 1  BY <1>3, <1>9
  <2> QED BY <1>5, <2>1
<1>11. k = id  BY <1>3, <1>9, <1>10
<1> QED BY <1>2, <1>6, <1>9, <1>11

LEMMA GuiApart ==
  ASSUME NEW w, GuiManager(w), NEW i \in GuiPlaces, NEW j \in GuiPlaces, w.list[i].id # 0, w.list[j].id # 0
  PROVE  /\ w.list[i].frame # w.list[j].client /\ w.list[i].frame \in Nat /\ w.list[i].client \in Nat
         /\ w.list[i].frame > 2 /\ w.list[i].client > 2
         /\ i # j => w.list[i].frame # w.list[j].frame /\ w.list[i].client # w.list[j].client
<1>1. PICK a \in Nat, b \in Nat : a = w.list[i].id /\ b = w.list[j].id /\ a # 0 /\ b # 0
  BY DEF GuiManager, GuiManagers, GuiWindow
<1>2. /\ w.list[i].frame = 2 * a + 1 /\ w.list[i].client = 2 * a + 2
      /\ w.list[j].frame = 2 * b + 1 /\ w.list[j].client = 2 * b + 2
  BY <1>1 DEF GuiManager
<1>3. i # j => a # b  BY <1>1 DEF GuiManager
<1> QED BY <1>1, <1>2, <1>3

\* What every operation of the window manager keeps.
GuiState(st) == GuiWorld(st.g.list, st.w) /\ GuiScreen(st.g)

LEMMA GuiEditStep ==
  ASSUME NEW st, GuiScreen(st.g), GuiTable(st.g.list), GuiPairs(st.g.list), NEW m, NEW ids, NEW v,
         GuiEdited(st.g.list, m, ids), 0 \notin ids,
         GuiManager(v), GuiOwner(st.g.list, v), GuiPlaced(m, v), GuiTitles(m, v)
  PROVE  GuiState([g |-> Redrawn(st.g, m, ids), w |-> v])
<1>1. GuiTable(m) /\ GuiSame(st.g.list, m, ids) /\ GuiPairs(m) /\ GuiOwner(m, v)  BY GuiEditKeeps
<1>2. GuiScreen(Redrawn(st.g, m, ids)) /\ Redrawn(st.g, m, ids).list = m  BY <1>1, GuiRedrawn
<1> QED BY <1>1, <1>2 DEF GuiState, GuiWorld

LEMMA GuiReplaced ==
  ASSUME NEW w, GuiManager(w), NEW i \in GuiPlaces, w.list[i].id # 0, NEW win,
         win.id = w.list[i].id, win.frame = w.list[i].frame, win.client = w.list[i].client, win.h >= 2,
         NEW v, GuiPut(w, v, i, win), v.focus = w.focus \/ v.focus = 0,
         v.focus = win.id => ~win.minimized
  PROVE  GuiManager(v) /\ \A l : GuiOwner(l, w) => GuiOwner(l, v)
<1>0. v \in GuiManagers /\ v.next = w.next /\ \A j \in GuiPlaces : v.list[j] = IF j = i THEN win ELSE w.list[j]
  BY DEF GuiPut
<1>1. \A j \in GuiPlaces : v.list[j].id = w.list[j].id /\ v.list[j].frame = w.list[j].frame
                           /\ v.list[j].client = w.list[j].client
  BY <1>0
<1>2. \A j \in GuiPlaces : v.list[j].id < v.next  BY <1>0, <1>1 DEF GuiManager
<1>3. \A j, k \in GuiPlaces : v.list[j].id # 0 /\ v.list[j].id = v.list[k].id => j = k
  BY <1>0, <1>1 DEF GuiManager
<1>4. \A j \in GuiPlaces : v.list[j].id # 0 =>
          /\ v.list[j].frame = 2 * v.list[j].id + 1 /\ v.list[j].client = 2 * v.list[j].id + 2
          /\ v.list[j].h >= 2
  BY <1>0, <1>1 DEF GuiManager
<1>5. v.focus # 0 => \E j \in GuiPlaces : v.list[j].id = v.focus /\ ~v.list[j].minimized
  BY <1>0, <1>1 DEF GuiManager
<1>6. \A l : GuiOwner(l, w) => GuiOwner(l, v)
  <2> SUFFICES ASSUME NEW l, GuiOwner(l, w) PROVE GuiOwner(l, v)  OBVIOUS
  <2> QED BY <1>1 DEF GuiOwner
<1> QED BY <1>0, <1>2, <1>3, <1>4, <1>5, <1>6 DEF GuiManager

\* wm_move: the frame and the client go together.
GuiBothAt(l, m, a, b, y) ==
    /\ GuiEdited(l, m, {a, b})
    /\ \A k \in GuiSlots : /\ m[k].h = l[k].h /\ m[k].visible = l[k].visible /\ m[k].look = l[k].look
                           /\ l[k].id = a => m[k].y = y
                           /\ l[k].id = b => m[k].y = y + 1

LEMMA GuiMovePair ==
  ASSUME NEW l, GuiTable(l), NEW a \in Nat, NEW b \in Nat, a # 0, b # 0, a # b, NEW y \in Int
  PROVE  GuiBothAt(l, comp_move(comp_move(l, a, y), b, y + 1), a, b, y)
<1> DEFINE o == comp_move(l, a, y)
           m == comp_move(o, b, y + 1)
<1>1. GuiAtRow(l, o, a, y)  BY GuiMoveEdits
<1>2. 0 \notin {a} /\ y + 1 \in Int  OBVIOUS
<1> HIDE DEF o
<1>3. GuiTable(o)  BY <1>1, <1>2, GuiEditKeeps DEF GuiAtRow
<1>4. GuiAtRow(o, m, b, y + 1)  BY <1>2, <1>3, GuiMoveEdits
<1> HIDE DEF m
<1>5. GuiEdited(l, m, {a, b})  BY <1>1, <1>4, GuiEditTwice DEF GuiAtRow
<1>6. GuiBothAt(l, m, a, b, y)  BY <1>1, <1>4, <1>5 DEF GuiAtRow, GuiBothAt, GuiEdited
<1> QED BY <1>6 DEF m, o

LEMMA GuiMoved ==
  ASSUME NEW st, GuiState(st), NEW id, NEW y \in Int
  PROVE  GuiState(wm_move(st, id, y)) /\ wm_move(st, id, y).w.drag = st.w.drag
         /\ wm_move(st, id, y).w.grip = st.w.grip
<1>1. CASE wm_get(st.w, id) = {}  BY <1>1 DEF wm_move
<1>2. CASE wm_get(st.w, id) # {}
  <2>1. PICK l, w : l = st.g.list /\ w = st.w  OBVIOUS
  <2>2. GuiTable(l) /\ GuiPairs(l) /\ GuiManager(w) /\ GuiOwner(l, w) /\ GuiPlaced(l, w) /\ GuiTitles(l, w)
        /\ GuiScreen(st.g)
    BY <2>1 DEF GuiState, GuiWorld
  <2>3. PICK i \in GuiPlaces : id # 0 /\ w.list[i].id = id /\ Window(w, id) = w.list[i] /\ wm_get(w, id) = {i}
    BY <1>2, <2>1, <2>2, GuiFound
  <2>4. PICK win \in GuiWindow : win = w.list[i] /\ win.id # 0 /\ win.h >= 2
    BY <2>2, <2>3 DEF GuiManager, GuiManagers
  <2>5. PICK a \in Nat, b \in Nat : a = win.frame /\ b = win.client /\ a # 0 /\ b # 0 /\ a # b
    BY <2>2, <2>3, <2>4, GuiApart
  <2>6. PICK u : u = [win EXCEPT !.y = y]  OBVIOUS
  <2>7. /\ u \in GuiWindow /\ u.id = win.id /\ u.frame = win.frame /\ u.client = win.client /\ u.h = win.h
        /\ u.y = y /\ u.minimized = win.minimized
    BY <2>6 DEF GuiWindow
  <2>8. PICK v : v = SetWindow(w, id, u)  OBVIOUS
  <2>9. GuiPut(w, v, i, u) /\ v.focus = w.focus /\ v.drag = w.drag /\ v.grip = w.grip
    BY <2>2, <2>3, <2>7, <2>8, GuiSet
  <2>10. GuiManager(v) /\ GuiOwner(l, v)
    <3>1. w.focus = u.id => ~u.minimized  BY <2>2, <2>3, <2>4, <2>7 DEF GuiManager
    <3> QED BY <2>2, <2>3, <2>4, <2>7, <2>9, <3>1, GuiReplaced
  <2>11. PICK m : m = comp_move(comp_move(l, a, y), b, y + 1)  OBVIOUS
  <2>12. GuiBothAt(l, m, a, b, y)  BY <2>2, <2>5, <2>11, GuiMovePair
  <2>13. GuiPlaced(m, v) /\ GuiTitles(m, v)
    <3> SUFFICES ASSUME NEW j \in GuiPlaces, NEW k \in GuiSlots, v.list[j].id # 0
                 PROVE  GuiFits(m[k], v.list[j]) /\ GuiTitle(m[k], v.list[j], v.focus)
      BY DEF GuiPlaced, GuiTitles
    <3>1. w.list[j].id # 0  BY <2>3, <2>4, <2>7, <2>9 DEF GuiPut
    <3>2. GuiFits(l[k], w.list[j]) /\ GuiTitle(l[k], w.list[j], w.focus)  BY <2>2, <3>1 DEF GuiPlaced, GuiTitles
    <3>3. CASE j = i
      <4>1. v.list[j] = u  BY <2>9, <3>3 DEF GuiPut
      <4>2. GuiFits(l[k], win) /\ GuiTitle(l[k], win, w.focus)  BY <2>4, <3>2, <3>3
      <4> QED BY <2>5, <2>7, <2>9, <2>12, <4>1, <4>2 DEF GuiFits, GuiTitle, GuiEdited, GuiBothAt
    <3>4. CASE j # i
      <4>1. w.list[j].frame \notin {a, b} /\ w.list[j].client \notin {a, b}
        BY <2>2, <2>3, <2>4, <2>5, <3>1, <3>4, GuiApart
      <4>2. v.list[j] = w.list[j]  BY <2>9, <3>4 DEF GuiPut
      <4> QED BY <2>9, <2>12, <3>2, <4>1, <4>2 DEF GuiFits, GuiTitle, GuiEdited, GuiBothAt
    <3> QED BY <3>3, <3>4
  <2>14. 0 \notin {a, b}  BY <2>5
  <2>15. GuiState([g |-> Redrawn(st.g, m, {a, b}), w |-> v])
    BY <2>1, <2>2, <2>10, <2>12, <2>13, <2>14, GuiEditStep DEF GuiBothAt
  <2>16. wm_move(st, id, y) = [g |-> Redrawn(st.g, m, {a, b}), w |-> v]
    BY <1>2, <2>1, <2>3, <2>4, <2>5, <2>6, <2>8, <2>11 DEF wm_move
  <2> QED BY <2>1, <2>9, <2>15, <2>16
<1> QED BY <1>1, <1>2

\* wm_minimize: both surfaces are hidden, the focus is given up.
GuiShownAs(l, m, ids, seen) ==
    /\ GuiEdited(l, m, ids)
    /\ \A k \in GuiSlots : (l[k].id \in ids => m[k].visible = seen)
                           /\ m[k].y = l[k].y /\ m[k].h = l[k].h /\ m[k].look = l[k].look

LEMMA GuiShowEdits ==
  ASSUME NEW l, GuiTable(l), NEW ids, NEW seen \in BOOLEAN
  PROVE  GuiShownAs(l, comp_set_visible(l, ids, seen), ids, seen)
<1>1. l \in [GuiSlots -> GuiSurface]  BY DEF GuiTable
<1>2. \A k \in GuiSlots :
         /\ [l[k] EXCEPT !.visible = seen] \in GuiSurface /\ [l[k] EXCEPT !.visible = seen].visible = seen
         /\ [l[k] EXCEPT !.visible = seen].id = l[k].id /\ [l[k] EXCEPT !.visible = seen].y = l[k].y
         /\ [l[k] EXCEPT !.visible = seen].h = l[k].h /\ [l[k] EXCEPT !.visible = seen].look = l[k].look
  BY <1>1 DEF GuiSurface
<1> DEFINE m == comp_set_visible(l, ids, seen)
<1>3. m = [k \in GuiSlots |-> IF l[k].id \in ids THEN [l[k] EXCEPT !.visible = seen] ELSE l[k]]
  BY DEF comp_set_visible, GuiSlots
<1> HIDE DEF m
<1>4. m \in [GuiSlots -> GuiSurface]  BY <1>1, <1>2, <1>3
<1>5. \A k \in GuiSlots : m[k] = IF l[k].id \in ids THEN [l[k] EXCEPT !.visible = seen] ELSE l[k]  BY <1>3
<1>6. GuiShownAs(l, m, ids, seen)  BY <1>2, <1>4, <1>5 DEF GuiEdited, GuiShownAs
<1> QED BY <1>6 DEF m

LEMMA GuiMinimized ==
  ASSUME NEW st, GuiState(st), NEW id
  PROVE  GuiState(wm_minimize(st, id))
<1>1. CASE wm_get(st.w, id) = {} \/ Window(st.w, id).minimized  BY <1>1 DEF wm_minimize, Hidden
<1>2. CASE wm_get(st.w, id) # {} /\ ~Window(st.w, id).minimized
  <2>1. PICK l, w : l = st.g.list /\ w = st.w  OBVIOUS
  <2>2. GuiTable(l) /\ GuiPairs(l) /\ GuiManager(w) /\ GuiOwner(l, w) /\ GuiPlaced(l, w) /\ GuiTitles(l, w)
        /\ GuiScreen(st.g)
    BY <2>1 DEF GuiState, GuiWorld
  <2>3. PICK i \in GuiPlaces : id # 0 /\ w.list[i].id = id /\ Window(w, id) = w.list[i] /\ wm_get(w, id) = {i}
    BY <1>2, <2>1, <2>2, GuiFound
  <2>4. PICK win \in GuiWindow : win = w.list[i] /\ win.id # 0 /\ win.h >= 2
    BY <2>2, <2>3 DEF GuiManager, GuiManagers
  <2>5. PICK a \in Nat, b \in Nat : a = win.frame /\ b = win.client /\ a # 0 /\ b # 0 /\ a # b
    BY <2>2, <2>3, <2>4, GuiApart
  <2>6. PICK u : u = [win EXCEPT !.minimized = TRUE]  OBVIOUS
  <2>7. /\ u \in GuiWindow /\ u.id = win.id /\ u.frame = win.frame /\ u.client = win.client /\ u.h = win.h
        /\ u.y = win.y /\ u.minimized = TRUE
    BY <2>6 DEF GuiWindow
  <2>8. PICK t : t = SetWindow(w, id, u)  OBVIOUS
  <2>9. PICK focus : focus = IF w.focus = id THEN 0 ELSE w.focus  OBVIOUS
  <2>10. PICK v : v = [t EXCEPT !.focus = focus]  OBVIOUS
  <2>11. GuiPut(w, t, i, u) /\ t.focus = w.focus  BY <2>2, <2>3, <2>7, <2>8, GuiSet
  <2>12. GuiPut(w, v, i, u) /\ v.focus = focus
    <3>1. focus \in Nat /\ t \in GuiManagers  BY <2>2, <2>9, <2>11 DEF GuiManager, GuiManagers, GuiPut
    <3>2. v \in GuiManagers /\ v.focus = focus /\ v.next = t.next /\ v.list = t.list
      BY <2>10, <3>1 DEF GuiManagers
    <3> QED BY <2>11, <3>2 DEF GuiPut
  <2>13. GuiManager(v) /\ GuiOwner(l, v)
    <3>1. v.focus # u.id /\ (v.focus = w.focus \/ v.focus = 0)  BY <2>3, <2>4, <2>7, <2>9, <2>12
    <3> QED BY <2>2, <2>3, <2>4, <2>7, <2>12, <3>1, GuiReplaced
  <2>14. PICK m : m = comp_set_visible(l, {a, b}, FALSE)  OBVIOUS
  <2>15. GuiShownAs(l, m, {a, b}, FALSE)  BY <2>2, <2>14, GuiShowEdits
  <2>16. GuiPlaced(m, v) /\ GuiTitles(m, v)
    <3> SUFFICES ASSUME NEW j \in GuiPlaces, NEW k \in GuiSlots, v.list[j].id # 0
                 PROVE  GuiFits(m[k], v.list[j]) /\ GuiTitle(m[k], v.list[j], v.focus)
      BY DEF GuiPlaced, GuiTitles
    <3>1. w.list[j].id # 0  BY <2>3, <2>4, <2>7, <2>12 DEF GuiPut
    <3>2. GuiFits(l[k], w.list[j]) /\ GuiTitle(l[k], w.list[j], w.focus)  BY <2>2, <3>1 DEF GuiPlaced, GuiTitles
    <3>3. CASE j = i
      <4>1. v.list[j] = u  BY <2>12, <3>3 DEF GuiPut
      <4>2. GuiFits(l[k], win) /\ GuiTitle(l[k], win, w.focus)  BY <2>4, <3>2, <3>3
      <4> QED BY <2>5, <2>7, <2>15, <4>1, <4>2 DEF GuiFits, GuiTitle, GuiEdited, GuiShownAs
    <3>4. CASE j # i
      <4>1. w.list[j].frame \notin {a, b} /\ w.list[j].client \notin {a, b}
        BY <2>2, <2>3, <2>4, <2>5, <3>1, <3>4, GuiApart
      <4>2. v.list[j] = w.list[j] /\ w.list[j].id # id  BY <2>2, <2>3, <2>12, <3>1, <3>4 DEF GuiPut, GuiManager
      <4>3. w.list[j].id = w.focus <=> w.list[j].id = v.focus  BY <2>9, <2>12, <3>1, <4>2
      <4> QED BY <2>15, <3>2, <4>1, <4>2, <4>3 DEF GuiFits, GuiTitle, GuiEdited, GuiShownAs
    <3> QED BY <3>3, <3>4
  <2>17. 0 \notin {a, b}  BY <2>5
  <2>18. GuiState([g |-> Redrawn(st.g, m, {a, b}), w |-> v])
    BY <2>1, <2>2, <2>13, <2>15, <2>16, <2>17, GuiEditStep DEF GuiShownAs
  <2>19. wm_minimize(st, id) = [g |-> Redrawn(st.g, m, {a, b}), w |-> v]
    BY <1>2, <2>1, <2>3, <2>4, <2>5, <2>6, <2>8, <2>9, <2>10, <2>14 DEF wm_minimize, Hidden
  <2> QED BY <2>18, <2>19
<1> QED BY <1>1, <1>2

\* wm_resize, also when the client's memory is refused.
GuiResizedTo(l, m, a, b, h, y, look) ==
    /\ GuiEdited(l, m, {a, b})
    /\ \A k \in GuiSlots : /\ m[k].visible = l[k].visible
                           /\ l[k].id = a => m[k].h = h /\ m[k].y = l[k].y /\ m[k].look = look
                           /\ l[k].id = b => m[k].h = h - 1 /\ m[k].y = y

LEMMA GuiResizePair ==
  ASSUME NEW l, GuiTable(l), NEW a \in Nat, NEW b \in Nat, a # 0, b # 0, a # b,
         NEW h \in Nat, h >= 2, NEW y \in Int, NEW look \in GuiLooks
  PROVE  GuiResizedTo(l, comp_fill(comp_move(comp_resize(comp_resize(l, a, h), b, h - 1), b, y), a, look),
                      a, b, h, y, look)
<1> DEFINE o == comp_resize(l, a, h)
           p == comp_resize(o, b, h - 1)
           q == comp_move(p, b, y)
           m == comp_fill(q, a, look)
<1>1. 0 \notin {a} /\ 0 \notin {b} /\ h - 1 \in Nat  OBVIOUS
<1>2. GuiAtHeight(l, o, a, h)  BY GuiResizeEdits
<1> HIDE DEF o
<1>3. GuiTable(o)  BY <1>1, <1>2, GuiEditKeeps DEF GuiAtHeight
<1>4. GuiAtHeight(o, p, b, h - 1)  BY <1>1, <1>3, GuiResizeEdits
<1> HIDE DEF p
<1>5. GuiTable(p)  BY <1>1, <1>3, <1>4, GuiEditKeeps DEF GuiAtHeight
<1>6. GuiAtRow(p, q, b, y)  BY <1>5, GuiMoveEdits
<1> HIDE DEF q
<1>7. GuiTable(q)  BY <1>1, <1>5, <1>6, GuiEditKeeps DEF GuiAtRow
<1>8. GuiWithLook(q, m, a, look)  BY <1>7, GuiFillEdits
<1> HIDE DEF m
<1>9. GuiEdited(l, m, {a, b})
  <2>1. GuiEdited(l, p, {a, b})  BY <1>2, <1>4, GuiEditTwice DEF GuiAtHeight
  <2>2. GuiEdited(p, m, {a, b})  BY <1>6, <1>8, GuiEditTwice DEF GuiAtRow, GuiWithLook
  <2> QED BY <2>1, <2>2, GuiEditTwice
<1>10. ASSUME NEW k \in GuiSlots
       PROVE  /\ m[k].visible = l[k].visible
              /\ l[k].id = a => m[k].h = h /\ m[k].y = l[k].y /\ m[k].look = look
              /\ l[k].id = b => m[k].h = h - 1 /\ m[k].y = y
  <2>1. o[k].id = l[k].id /\ p[k].id = l[k].id /\ q[k].id = l[k].id
    BY <1>2, <1>4, <1>6 DEF GuiEdited, GuiAtHeight, GuiAtRow
  <2>2. o[k].visible = l[k].visible /\ o[k].y = l[k].y /\ (l[k].id = a => o[k].h = h)  BY <1>2 DEF GuiAtHeight
  <2>3. p[k].visible = o[k].visible /\ p[k].y = o[k].y /\ (l[k].id = b => p[k].h = h - 1)
        /\ (l[k].id = a => p[k] = o[k])
    BY <1>4, <2>1 DEF GuiAtHeight, GuiEdited
  <2>4. q[k].visible = p[k].visible /\ q[k].h = p[k].h /\ (l[k].id = b => q[k].y = y)
        /\ (l[k].id = a => q[k] = p[k])
    BY <1>6, <2>1 DEF GuiAtRow, GuiEdited
  <2>5. m[k].visible = q[k].visible /\ m[k].h = q[k].h /\ m[k].y = q[k].y /\ (l[k].id = a => m[k].look = look)
    BY <1>8, <2>1 DEF GuiWithLook
  <2> QED BY <2>2, <2>3, <2>4, <2>5
<1>11. GuiResizedTo(l, m, a, b, h, y, look)  BY <1>9, <1>10 DEF GuiResizedTo
<1> QED BY <1>11 DEF m, q, p, o

LEMMA GuiResized ==
  ASSUME NEW st, GuiState(st), NEW id, NEW h \in Nat, h >= 2, NEW ok1 \in BOOLEAN, NEW ok2 \in BOOLEAN
  PROVE  GuiState(wm_resize(st, id, h, ok1, ok2))
<1>1. CASE wm_get(st.w, id) = {} \/ ~ok1  BY <1>1 DEF wm_resize
<1>2. CASE wm_get(st.w, id) # {} /\ ok1
  <2>1. PICK l, w : l = st.g.list /\ w = st.w  OBVIOUS
  <2>2. GuiTable(l) /\ GuiPairs(l) /\ GuiManager(w) /\ GuiOwner(l, w) /\ GuiPlaced(l, w) /\ GuiTitles(l, w)
        /\ GuiScreen(st.g)
    BY <2>1 DEF GuiState, GuiWorld
  <2>3. PICK i \in GuiPlaces : id # 0 /\ w.list[i].id = id /\ Window(w, id) = w.list[i] /\ wm_get(w, id) = {i}
    BY <1>2, <2>1, <2>2, GuiFound
  <2>4. PICK win \in GuiWindow : win = w.list[i] /\ win.id # 0 /\ win.h >= 2
    BY <2>2, <2>3 DEF GuiManager, GuiManagers
  <2>5. PICK a \in Nat, b \in Nat : a = win.frame /\ b = win.client /\ a # 0 /\ b # 0 /\ a # b
    BY <2>2, <2>3, <2>4, GuiApart
  <2>6. CASE ~ok2
    <3>1. PICK m : m = comp_resize(l, a, h)  OBVIOUS
    <3>2. GuiAtHeight(l, m, a, h)  BY <2>2, <2>5, <3>1, GuiResizeEdits
    <3>3. GuiPlaced(m, w) /\ GuiTitles(m, w)
      <4> SUFFICES ASSUME NEW j \in GuiPlaces, NEW k \in GuiSlots, w.list[j].id # 0
                   PROVE  GuiFits(m[k], w.list[j]) /\ GuiTitle(m[k], w.list[j], w.focus)
        BY DEF GuiPlaced, GuiTitles
      <4>1. GuiFits(l[k], w.list[j]) /\ GuiTitle(l[k], w.list[j], w.focus)  BY <2>2 DEF GuiPlaced, GuiTitles
      <4>2. w.list[j].client # a  BY <2>2, <2>3, <2>4, <2>5, GuiApart
      <4>3. m[k].id = l[k].id /\ m[k].y = l[k].y /\ m[k].visible = l[k].visible /\ m[k].look = l[k].look
            /\ (m[k].h = l[k].h \/ (l[k].id = a /\ m[k].h = h))
        BY <3>2 DEF GuiAtHeight, GuiEdited
      <4> QED BY <4>1, <4>2, <4>3 DEF GuiFits, GuiTitle
    <3>4. 0 \notin {a}  BY <2>5
    <3>5. GuiState([g |-> Redrawn(st.g, m, {a}), w |-> w])
      BY <2>1, <2>2, <3>2, <3>3, <3>4, GuiEditStep DEF GuiAtHeight
    <3>6. wm_resize(st, id, h, ok1, ok2) = [st EXCEPT !.g = Redrawn(st.g, m, {a})]
      BY <1>2, <2>1, <2>3, <2>4, <2>5, <2>6, <3>1 DEF wm_resize
    <3> QED BY <2>1, <3>5, <3>6 DEF GuiState
  <2>7. CASE ok2
    <3>1. PICK u : u = [win EXCEPT !.h = h]  OBVIOUS
    <3>2. /\ u \in GuiWindow /\ u.id = win.id /\ u.frame = win.frame /\ u.client = win.client /\ u.h = h
          /\ u.y = win.y /\ u.minimized = win.minimized
      BY <3>1 DEF GuiWindow
    <3>3. PICK v : v = SetWindow(w, id, u)  OBVIOUS
    <3>4. GuiPut(w, v, i, u) /\ v.focus = w.focus  BY <2>2, <2>3, <3>2, <3>3, GuiSet
    <3>5. GuiManager(v) /\ GuiOwner(l, v)
      <4>1. w.focus = u.id => ~u.minimized  BY <2>2, <2>3, <2>4, <3>2 DEF GuiManager
      <4> QED BY <2>2, <2>3, <2>4, <3>2, <3>4, <4>1, GuiReplaced
    <3>6. PICK y \in Int : y = win.y + 1  BY <2>4 DEF GuiWindow
    <3>7. PICK look \in GuiLooks : look = TitleLook(id = w.focus)  BY DEF TitleLook, GuiLooks
    <3>8. PICK m : m = comp_fill(comp_move(comp_resize(comp_resize(l, a, h), b, h - 1), b, y), a, look)  OBVIOUS
    <3>9. GuiResizedTo(l, m, a, b, h, y, look)  BY <2>2, <2>5, <3>8, GuiResizePair
    <3>10. GuiPlaced(m, v) /\ GuiTitles(m, v)
      <4> SUFFICES ASSUME NEW j \in GuiPlaces, NEW k \in GuiSlots, v.list[j].id # 0
                   PROVE  GuiFits(m[k], v.list[j]) /\ GuiTitle(m[k], v.list[j], v.focus)
        BY DEF GuiPlaced, GuiTitles
      <4>1. w.list[j].id # 0  BY <2>3, <2>4, <3>2, <3>4 DEF GuiPut
      <4>2. GuiFits(l[k], w.list[j]) /\ GuiTitle(l[k], w.list[j], w.focus)
        BY <2>2, <4>1 DEF GuiPlaced, GuiTitles
      <4>3. CASE j = i
        <5>1. v.list[j] = u  BY <3>4, <4>3 DEF GuiPut
        <5>2. GuiFits(l[k], win)  BY <2>4, <4>2, <4>3
        <5>3. look = "lit" <=> win.id = w.focus  BY <2>3, <2>4, <3>7 DEF TitleLook
        <5> QED BY <2>5, <3>2, <3>4, <3>6, <3>9, <5>1, <5>2, <5>3 DEF GuiFits, GuiTitle, GuiEdited, GuiResizedTo
      <4>4. CASE j # i
        <5>1. w.list[j].frame \notin {a, b} /\ w.list[j].client \notin {a, b}
          BY <2>2, <2>3, <2>4, <2>5, <4>1, <4>4, GuiApart
        <5>2. v.list[j] = w.list[j]  BY <3>4, <4>4 DEF GuiPut
        <5> QED BY <3>4, <3>9, <4>2, <5>1, <5>2 DEF GuiFits, GuiTitle, GuiEdited, GuiResizedTo
      <4> QED BY <4>3, <4>4
    <3>11. 0 \notin {a, b}  BY <2>5
    <3>12. GuiState([g |-> Redrawn(st.g, m, {a, b}), w |-> v])
      BY <2>1, <2>2, <3>5, <3>9, <3>10, <3>11, GuiEditStep DEF GuiResizedTo
    <3>13. wm_resize(st, id, h, ok1, ok2) = [g |-> Redrawn(st.g, m, {a, b}), w |-> v]
      BY <1>2, <2>1, <2>3, <2>4, <2>5, <2>7, <3>1, <3>3, <3>6, <3>7, <3>8 DEF wm_resize, wm_draw_frame
    <3> QED BY <3>12, <3>13
  <2> QED BY <2>6, <2>7
<1> QED BY <1>1, <1>2

\* wm_destroy: the two slots of the window and its place are free again.
LEMMA GuiDestroyed ==
  ASSUME NEW st, GuiState(st), NEW id
  PROVE  GuiState(wm_destroy(st, id))
<1>1. CASE wm_get(st.w, id) = {}  BY <1>1 DEF wm_destroy
<1>2. CASE wm_get(st.w, id) # {}
  <2>1. PICK l, w : l = st.g.list /\ w = st.w  OBVIOUS
  <2>2. GuiTable(l) /\ GuiPairs(l) /\ GuiManager(w) /\ GuiOwner(l, w) /\ GuiPlaced(l, w) /\ GuiTitles(l, w)
        /\ GuiScreen(st.g)
    BY <2>1 DEF GuiState, GuiWorld
  <2>3. PICK i \in GuiPlaces : id # 0 /\ w.list[i].id = id /\ Window(w, id) = w.list[i] /\ wm_get(w, id) = {i}
    BY <1>2, <2>1, <2>2, GuiFound
  <2>4. PICK win \in GuiWindow : win = w.list[i] /\ win.id # 0 /\ win.h >= 2
    BY <2>2, <2>3 DEF GuiManager, GuiManagers
  <2>5. PICK a \in Nat, b \in Nat : a = win.frame /\ b = win.client /\ a > 2 /\ b > 2 /\ a # b
    BY <2>2, <2>3, <2>4, GuiApart
  <2>6. PICK x \in Nat : 2 * x + 1 \in GuiSlots /\ 2 * x + 2 \in GuiSlots /\ l[2 * x + 1].id = a /\ l[2 * x + 2].id = b
    BY <2>2, <2>3, <2>4, <2>5, GuiPairOf
  <2>7. PICK t : t = SetWindow(w, id, NoWindow)  OBVIOUS
  <2>8. NoWindow \in GuiWindow /\ NoWindow.id = 0  BY DEF NoWindow, GuiWindow
  <2>9. GuiPut(w, t, i, NoWindow) /\ t.focus = w.focus /\ t.drag = w.drag  BY <2>2, <2>3, <2>7, <2>8, GuiSet
  <2>10. PICK focus, drag : focus = (IF w.focus = id THEN 0 ELSE w.focus) /\ drag = (IF w.drag = id THEN 0 ELSE w.drag)
    OBVIOUS
  <2>11. PICK v : v = [t EXCEPT !.focus = focus, !.drag = drag]  OBVIOUS
  <2>12. GuiPut(w, v, i, NoWindow) /\ v.focus = focus
    <3>1. focus \in Nat /\ drag \in Nat /\ t \in GuiManagers
      BY <2>2, <2>9, <2>10 DEF GuiManager, GuiManagers, GuiPut
    <3>2. v \in GuiManagers /\ v.focus = focus /\ v.next = t.next /\ v.list = t.list
      BY <2>11, <3>1 DEF GuiManagers
    <3> QED BY <2>9, <3>2 DEF GuiPut
  <2>13. \A j \in GuiPlaces : IF j = i THEN v.list[j].id = 0 ELSE v.list[j] = w.list[j]
    BY <2>8, <2>12 DEF GuiPut
  <2>14. GuiManager(v)
    <3>1. v \in GuiManagers /\ v.next = w.next  BY <2>12 DEF GuiPut
    <3>2. \A j \in GuiPlaces : v.list[j].id < v.next
      <4> TAKE j \in GuiPlaces
      <4>1. w.list[j].id < w.next /\ v.next \in Nat /\ v.next # 0  BY <2>2, <3>1 DEF GuiManager, GuiManagers
      <4> QED BY <2>13, <3>1, <4>1
    <3>3. v.focus # 0 => \E j \in GuiPlaces : v.list[j].id = v.focus /\ ~v.list[j].minimized
      <4> SUFFICES ASSUME v.focus # 0 PROVE \E j \in GuiPlaces : v.list[j].id = v.focus /\ ~v.list[j].minimized
        OBVIOUS
      <4>1. v.focus = w.focus /\ w.focus # id  BY <2>10, <2>12
      <4>2. PICK j \in GuiPlaces : w.list[j].id = w.focus /\ ~w.list[j].minimized  BY <2>2, <4>1 DEF GuiManager
      <4> QED BY <2>3, <2>13, <4>1, <4>2
    <3>4. \A j, k \in GuiPlaces : v.list[j].id # 0 /\ v.list[j].id = v.list[k].id => j = k
      BY <2>2, <2>13 DEF GuiManager
    <3>5. \A j \in GuiPlaces : v.list[j].id # 0 =>
             /\ v.list[j].frame = 2 * v.list[j].id + 1 /\ v.list[j].client = 2 * v.list[j].id + 2
             /\ v.list[j].h >= 2
      BY <2>2, <2>13 DEF GuiManager
    <3> QED BY <3>1, <3>2, <3>3, <3>4, <3>5 DEF GuiManager
  <2>15. PICK m : m = comp_destroy(comp_destroy(l, a), b)  OBVIOUS
  <2>16. NoSurface \in GuiSurface /\ NoSurface.id = 0  BY DEF NoSurface, GuiSurface, GuiLooks
  <2>17. /\ m \in [GuiSlots -> GuiSurface]
         /\ \A k \in GuiSlots : m[k] = IF l[k].id \in {a, b} THEN NoSurface ELSE l[k]
    <3>1. l \in [GuiSlots -> GuiSurface]  BY <2>2 DEF GuiTable
    <3>2. PICK o : o = comp_destroy(l, a)  OBVIOUS
    <3>3. o = [k \in GuiSlots |-> IF l[k].id = a THEN NoSurface ELSE l[k]]
      BY <2>5, <3>2 DEF comp_destroy, At, GuiSlots
    <3>4. m = [k \in GuiSlots |-> IF o[k].id = b THEN NoSurface ELSE o[k]]
      BY <2>5, <2>15, <3>2 DEF comp_destroy, At, GuiSlots
    <3>5. \A k \in GuiSlots : o[k] = IF l[k].id = a THEN NoSurface ELSE l[k]  BY <3>3
    <3>6. \A k \in GuiSlots : m[k] = IF o[k].id = b THEN NoSurface ELSE o[k]  BY <3>4
    <3>7. \A k \in GuiSlots : m[k] = IF l[k].id \in {a, b} THEN NoSurface ELSE l[k]  BY <2>5, <2>16, <3>5, <3>6
    <3>8. \A k \in GuiSlots : m[k] \in GuiSurface  BY <2>16, <3>1, <3>7
    <3> QED BY <3>4, <3>7, <3>8
  <2>18. GuiTable(m)  BY <2>2, <2>16, <2>17 DEF GuiTable
  <2>19. GuiSame(l, m, {a, b})
    <3>1. \A k \in GuiSlots : m[k] = l[k] \/ {l[k].id, m[k].id} \subseteq {0} \cup {a, b}  BY <2>16, <2>17
    <3> QED BY <2>2, <2>18, <3>1, GuiSameSlots
  <2>20. GuiPairs(m)
    <3> SUFFICES ASSUME NEW q \in Nat, 2 * q + 1 \in GuiSlots
                 PROVE  \/ m[2 * q + 1].id = 0 /\ (2 * q + 2 \in GuiSlots => m[2 * q + 2].id = 0)
                        \/ 2 * q + 2 \in GuiSlots /\ \E k \in Nat : m[2 * q + 1].id = 2 * k + 1 /\ m[2 * q + 2].id = 2 * k + 2
      BY DEF GuiPairs
    <3>1. \/ l[2 * q + 1].id = 0 /\ (2 * q + 2 \in GuiSlots => l[2 * q + 2].id = 0)
          \/ 2 * q + 2 \in GuiSlots /\ \E k \in Nat : l[2 * q + 1].id = 2 * k + 1 /\ l[2 * q + 2].id = 2 * k + 2
      BY <2>2 DEF GuiPairs
    <3>2. CASE q = x  BY <2>6, <2>16, <2>17, <3>2
    <3>3. CASE q # x
      <4>1. \A k \in GuiSlots : l[k].id \in {a, b} => k = 2 * x + 1 \/ k = 2 * x + 2
        BY <2>2, <2>5, <2>6 DEF GuiTable
      <4>2. 2 * q + 1 # 2 * x + 1 /\ 2 * q + 1 # 2 * x + 2 /\ 2 * q + 2 # 2 * x + 1 /\ 2 * q + 2 # 2 * x + 2
        BY <3>3
      <4>3. m[2 * q + 1] = l[2 * q + 1] /\ (2 * q + 2 \in GuiSlots => m[2 * q + 2] = l[2 * q + 2])
        BY <2>17, <4>1, <4>2
      <4> QED BY <3>1, <4>3
    <3> QED BY <3>2, <3>3
  <2>21. \A j \in GuiPlaces : j # i /\ w.list[j].id # 0 =>
            w.list[j].frame \notin {0, a, b} /\ w.list[j].client \notin {0, a, b}
    <3> TAKE j \in GuiPlaces
    <3> HAVE j # i /\ w.list[j].id # 0
    <3>1. w.list[j].frame > 2 /\ w.list[j].client > 2  BY <2>2, GuiApart
    <3>2. w.list[j].frame \notin {a, b} /\ w.list[j].client \notin {a, b}  BY <2>2, <2>3, <2>4, <2>5, GuiApart
    <3> QED BY <3>1, <3>2
  <2>22. GuiOwner(m, v)
    <3>1. ASSUME NEW k \in GuiSlots, m[k].id \notin {0, 1, 2}
          PROVE  \E j \in GuiPlaces : v.list[j].id # 0 /\ m[k].id \in {v.list[j].frame, v.list[j].client}
      <4>1. m[k] = l[k] /\ l[k].id \notin {a, b}  BY <2>16, <2>17, <3>1
      <4>2. PICK j \in GuiPlaces : w.list[j].id # 0 /\ l[k].id \in {w.list[j].frame, w.list[j].client}
        BY <2>2, <3>1, <4>1 DEF GuiOwner
      <4>3. j # i  BY <2>4, <2>5, <4>1, <4>2
      <4> QED BY <2>13, <4>1, <4>2, <4>3
    <3>2. ASSUME NEW j \in GuiPlaces, v.list[j].id # 0
          PROVE  \E h, k \in GuiSlots : m[h].id = v.list[j].frame /\ m[k].id = v.list[j].client
      <4>1. j # i /\ v.list[j] = w.list[j]  BY <2>13, <3>2
      <4>2. PICK h \in GuiSlots, k \in GuiSlots : l[h].id = w.list[j].frame /\ l[k].id = w.list[j].client
        BY <2>2, <3>2, <4>1 DEF GuiOwner
      <4> QED BY <2>17, <2>21, <3>2, <4>1, <4>2
    <3>3. \E h, k \in GuiSlots : m[h].id = 1 /\ m[k].id = 2
      <4>1. PICK h \in GuiSlots, k \in GuiSlots : l[h].id = 1 /\ l[k].id = 2  BY <2>2 DEF GuiOwner
      <4> QED BY <2>5, <2>17, <4>1
    <3> QED BY <3>1, <3>2, <3>3 DEF GuiOwner
  <2>23. GuiPlaced(m, v) /\ GuiTitles(m, v)
    <3> SUFFICES ASSUME NEW j \in GuiPlaces, NEW k \in GuiSlots, v.list[j].id # 0
                 PROVE  GuiFits(m[k], v.list[j]) /\ GuiTitle(m[k], v.list[j], v.focus)
      BY DEF GuiPlaced, GuiTitles
    <3>1. j # i /\ v.list[j] = w.list[j] /\ w.list[j].id # 0 /\ w.list[j].id # id
      BY <2>2, <2>3, <2>13 DEF GuiManager
    <3>2. GuiFits(l[k], w.list[j]) /\ GuiTitle(l[k], w.list[j], w.focus)  BY <2>2, <3>1 DEF GuiPlaced, GuiTitles
    <3>3. w.list[j].frame # 0 /\ w.list[j].client # 0  BY <2>21, <3>1
    <3>4. m[k] = l[k] \/ m[k].id = 0  BY <2>16, <2>17
    <3>5. w.list[j].id = w.focus <=> w.list[j].id = v.focus  BY <2>10, <2>12, <3>1
    <3> QED BY <3>1, <3>2, <3>3, <3>4, <3>5 DEF GuiFits, GuiTitle
  <2>24. GuiScreen(Redrawn(st.g, m, {a, b})) /\ Redrawn(st.g, m, {a, b}).list = m
    BY <2>1, <2>2, <2>18, <2>19, GuiRedrawn
  <2>25. wm_destroy(st, id) = [g |-> Redrawn(st.g, m, {a, b}), w |-> v]
    BY <1>2, <2>1, <2>3, <2>4, <2>5, <2>7, <2>10, <2>11, <2>15 DEF wm_destroy
  <2> QED BY <2>14, <2>18, <2>20, <2>22, <2>23, <2>24, <2>25 DEF GuiState, GuiWorld
<1> QED BY <1>1, <1>2

\* wm_create: the first free slot is odd and the one above it is free, or
\* the table ends there and nothing is created.
LEMMA GuiFirstFree ==
  ASSUME NEW l, GuiTable(l), FreeSurface(l) # 0
  PROVE  FreeSurface(l) \in GuiSlots /\ l[FreeSurface(l)].id = 0
         /\ \A k \in GuiSlots : l[k].id = 0 => FreeSurface(l) <= k
<1> DEFINE free == {i \in GuiSlots : l[i].id = 0}
<1>1. FreeSurface(l) = IF free = {} THEN 0 ELSE CHOOSE i \in free : \A j \in free : i <= j
  BY DEF FreeSurface, GuiSlots
<1>2. free \subseteq Nat  BY GuiSizes DEF GuiSlots
<1>3. free # {}  BY <1>1
<1>4. FreeSurface(l) \in free /\ \A j \in free : FreeSurface(l) <= j  BY <1>1, <1>2, <1>3, GuiLeast
<1> QED BY <1>4

GuiAdded(l, m, p, a, h) ==
    /\ m \in [GuiSlots -> GuiSurface]
    /\ p + 1 \in GuiSlots /\ p \in GuiSlots
    /\ m[p] = [id |-> a, y |-> 0, h |-> h, visible |-> TRUE, look |-> "unlit"]
    /\ m[p + 1] = [id |-> a + 1, y |-> 1, h |-> h - 1, visible |-> TRUE, look |-> "client"]
    /\ l[p].id = 0 /\ l[p + 1].id = 0
    /\ \A k \in GuiSlots : k # p /\ k # p + 1 => m[k] = l[k]

LEMMA GuiAdds ==
  ASSUME NEW l, GuiTable(l), GuiPairs(l), NEW a \in Nat, a > 2, NEW h \in Nat, h >= 2,
         \A k \in GuiSlots : l[k].id < a,
         FreeSurface(l) # 0, FreeSurface(comp_create(l, a, h)) # 0
  PROVE  \E x \in Nat :
            GuiAdded(l, comp_fill(comp_fill(comp_move(comp_create(comp_create(l, a, h), a + 1, h - 1), a + 1, 1),
                                            a + 1, "client"), a, "unlit"), 2 * x + 1, a, h)
<1>0. COMP_MAX \in Nat /\ (\A k \in GuiSlots : k \in Nat /\ k # 0 /\ k <= COMP_MAX)
      /\ \A k \in Nat : k # 0 /\ k <= COMP_MAX => k \in GuiSlots
  BY GuiSizes DEF GuiSlots
<1>1. PICK p \in GuiSlots : p = FreeSurface(l) /\ l[p].id = 0 /\ \A k \in GuiSlots : l[k].id = 0 => p <= k
  BY GuiFirstFree
<1>2. PICK x \in Nat : p = 2 * x + 1 \/ p = 2 * x + 2  BY <1>0, GuiHalves
<1>3. 2 * x + 1 \in GuiSlots  BY <1>0, <1>1, <1>2
<1>4. \/ l[2 * x + 1].id = 0 /\ (2 * x + 2 \in GuiSlots => l[2 * x + 2].id = 0)
      \/ 2 * x + 2 \in GuiSlots /\ \E k \in Nat : l[2 * x + 1].id = 2 * k + 1 /\ l[2 * x + 2].id = 2 * k + 2
  BY <1>3 DEF GuiPairs
<1>5. l[2 * x + 1].id = 0 /\ (2 * x + 2 \in GuiSlots => l[2 * x + 2].id = 0)  BY <1>1, <1>2, <1>3, <1>4
<1>6. p = 2 * x + 1  BY <1>0, <1>1, <1>2, <1>3, <1>5
<1>7. PICK s \in GuiSurface : s = [id |-> a, y |-> 0, h |-> h, visible |-> TRUE, look |-> "blank"]
  <2>1. [id |-> a, y |-> 0, h |-> h, visible |-> TRUE, look |-> "blank"] \in GuiSurface
    BY DEF GuiSurface, GuiLooks
  <2> QED BY <2>1
<1>8. PICK o : o = comp_create(l, a, h)  OBVIOUS
<1>9. o = [l EXCEPT ![p] = s]  BY <1>1, <1>7, <1>8 DEF comp_create
<1>10. l \in [GuiSlots -> GuiSurface]  BY DEF GuiTable
<1>11. o \in [GuiSlots -> GuiSurface] /\ o[p] = s /\ \A k \in GuiSlots : k # p => o[k] = l[k]  BY <1>9, <1>10
<1>12. s.id = a /\ s.y = 0 /\ s.h = h /\ s.visible = TRUE  BY <1>7
<1>13. GuiTable(o)
  <2>1. \A k \in GuiSlots : o[k].id = 0 => o[k] = NoSurface  BY <1>11, <1>12 DEF GuiTable
  <2>2. \A j, k \in GuiSlots : o[j].id # 0 /\ o[j].id = o[k].id => j = k
    <3> TAKE j, k \in GuiSlots
    <3> HAVE o[j].id # 0 /\ o[j].id = o[k].id
    <3>1. l[j].id # a /\ l[k].id # a
      <4>1. l[j].id \in Nat /\ l[k].id \in Nat /\ l[j].id < a /\ l[k].id < a  BY <1>10 DEF GuiSurface
      <4> QED BY <4>1
    <3> QED BY <1>11, <1>12, <3>1 DEF GuiTable
  <2> QED BY <1>11, <2>1, <2>2 DEF GuiTable
<1>14. PICK q \in GuiSlots : q = FreeSurface(o) /\ o[q].id = 0 /\ \A k \in GuiSlots : o[k].id = 0 => q <= k
  BY <1>8, <1>13, GuiFirstFree
<1>15. q # p /\ l[q].id = 0 /\ p <= q  BY <1>1, <1>11, <1>12, <1>14
<1>16. 2 * x + 2 \in GuiSlots
  <2>1. q \in Nat /\ p \in Nat /\ q <= COMP_MAX  BY <1>0
  <2>2. 2 * x + 2 <= COMP_MAX  BY <1>0, <1>6, <1>15, <2>1
  <2> QED BY <1>0, <2>2
<1>17. q = 2 * x + 2
  <2>1. o[2 * x + 2].id = 0  BY <1>5, <1>6, <1>11, <1>16
  <2>2. q <= 2 * x + 2  BY <1>14, <1>16, <2>1
  <2> QED BY <1>0, <1>6, <1>15, <2>2
<1>18. PICK e : e = comp_create(o, a + 1, h - 1)  OBVIOUS
<1>19. PICK z \in GuiSurface : z = [id |-> a + 1, y |-> 0, h |-> h - 1, visible |-> TRUE, look |-> "blank"]
  <2>1. h - 1 \in Nat /\ a + 1 \in Nat  OBVIOUS
  <2>2. [id |-> a + 1, y |-> 0, h |-> h - 1, visible |-> TRUE, look |-> "blank"] \in GuiSurface
    BY <2>1 DEF GuiSurface, GuiLooks
  <2> QED BY <2>2
<1>20. e = [o EXCEPT ![q] = z]  BY <1>14, <1>18, <1>19 DEF comp_create
<1>21. e \in [GuiSlots -> GuiSurface] /\ e[q] = z /\ \A k \in GuiSlots : k # q => e[k] = o[k]  BY <1>11, <1>20
<1>22. z.id = a + 1 /\ z.y = 0 /\ z.h = h - 1 /\ z.visible = TRUE /\ z.look = "blank"  BY <1>19
<1>23. GuiTable(e)
  <2>1. \A k \in GuiSlots : e[k].id = 0 => e[k] = NoSurface  BY <1>13, <1>21, <1>22 DEF GuiTable
  <2>2. \A j, k \in GuiSlots : e[j].id # 0 /\ e[j].id = e[k].id => j = k
    <3> TAKE j, k \in GuiSlots
    <3> HAVE e[j].id # 0 /\ e[j].id = e[k].id
    <3>1. \A n \in GuiSlots : o[n].id # a + 1
      <4> TAKE n \in GuiSlots
      <4>1. l[n].id \in Nat /\ l[n].id < a  BY <1>10 DEF GuiSurface
      <4>2. o[n].id = a \/ o[n].id = l[n].id  BY <1>11, <1>12
      <4> QED BY <4>1, <4>2
    <3> QED BY <1>13, <1>21, <1>22, <3>1 DEF GuiTable
  <2> QED BY <1>21, <2>1, <2>2 DEF GuiTable
<1>24. PICK b \in Nat : b = a + 1  OBVIOUS
<1>25. PICK r : r = comp_move(e, b, 1)  OBVIOUS
<1>26. GuiAtRow(e, r, b, 1)  BY <1>23, <1>24, <1>25, GuiMoveEdits
<1>27. 0 \notin {b} /\ 0 \notin {a} /\ b # 0 /\ a # 0 /\ a # b  BY <1>24
<1>28. GuiTable(r)  BY <1>23, <1>26, <1>27, GuiEditKeeps DEF GuiAtRow
<1>29. PICK f : f = comp_fill(r, b, "client")  OBVIOUS
<1>30. "client" \in GuiLooks /\ "unlit" \in GuiLooks  BY DEF GuiLooks
<1>31. GuiWithLook(r, f, b, "client")  BY <1>27, <1>28, <1>29, <1>30, GuiFillEdits
<1>32. GuiTable(f)  BY <1>27, <1>28, <1>31, GuiEditKeeps DEF GuiWithLook
<1>33. PICK m : m = comp_fill(f, a, "unlit")  OBVIOUS
<1>34. GuiWithLook(f, m, a, "unlit")  BY <1>27, <1>30, <1>32, <1>33, GuiFillEdits
<1>35. m \in [GuiSlots -> GuiSurface]  BY <1>34 DEF GuiWithLook, GuiEdited
<1>36. \A k \in GuiSlots : k # p /\ k # q => m[k] = l[k]
  <2> TAKE k \in GuiSlots
  <2> HAVE k # p /\ k # q
  <2>1. e[k] = l[k]  BY <1>11, <1>21
  <2>2. l[k].id # a /\ l[k].id # b
    <3>1. l[k].id \in Nat /\ l[k].id < a  BY <1>10 DEF GuiSurface
    <3> QED BY <1>24, <3>1
  <2>3. r[k] = e[k]  BY <1>26, <2>1, <2>2 DEF GuiAtRow, GuiEdited
  <2>4. f[k] = r[k]  BY <1>31, <2>1, <2>2, <2>3 DEF GuiWithLook, GuiEdited
  <2>5. m[k] = f[k]  BY <1>34, <2>1, <2>2, <2>3, <2>4 DEF GuiWithLook, GuiEdited
  <2> QED BY <2>1, <2>3, <2>4, <2>5
<1>37. m[p] = [id |-> a, y |-> 0, h |-> h, visible |-> TRUE, look |-> "unlit"]
  <2>1. e[p] = s /\ s.id = a  BY <1>11, <1>12, <1>15, <1>21
  <2>2. r[p] = s  BY <1>12, <1>26, <1>27, <2>1 DEF GuiAtRow, GuiEdited
  <2>3. f[p] = s  BY <1>12, <1>27, <1>31, <2>2 DEF GuiWithLook, GuiEdited
  <2>4. m[p].id = a /\ m[p].y = s.y /\ m[p].h = s.h /\ m[p].visible = s.visible /\ m[p].look = "unlit"
    BY <1>12, <1>34, <2>3 DEF GuiWithLook, GuiEdited
  <2>5. m[p] \in GuiSurface  BY <1>35
  <2> QED BY <1>12, <2>4, <2>5 DEF GuiSurface
<1>38. m[q] = [id |-> a + 1, y |-> 1, h |-> h - 1, visible |-> TRUE, look |-> "client"]
  <2>1. e[q] = z  BY <1>21
  <2>2. r[q].id = b /\ r[q].y = 1 /\ r[q].h = h - 1 /\ r[q].visible = TRUE
    BY <1>22, <1>24, <1>26, <2>1 DEF GuiAtRow, GuiEdited
  <2>3. f[q].id = b /\ f[q].y = 1 /\ f[q].h = h - 1 /\ f[q].visible = TRUE /\ f[q].look = "client"
    BY <1>31, <2>2 DEF GuiWithLook, GuiEdited
  <2>4. m[q] = f[q]  BY <1>27, <1>34, <2>3 DEF GuiWithLook, GuiEdited
  <2>5. m[q] \in GuiSurface  BY <1>35
  <2> QED BY <1>24, <2>3, <2>4, <2>5 DEF GuiSurface
<1>39. q = p + 1 /\ p + 1 \in GuiSlots  BY <1>6, <1>16, <1>17
<1>40. GuiAdded(l, m, p, a, h)  BY <1>1, <1>15, <1>35, <1>36, <1>37, <1>38, <1>39 DEF GuiAdded
<1>41. m = comp_fill(comp_fill(comp_move(comp_create(comp_create(l, a, h), a + 1, h - 1), a + 1, 1),
                               a + 1, "client"), a, "unlit")
  BY <1>8, <1>18, <1>24, <1>25, <1>29, <1>33
<1> QED BY <1>6, <1>40, <1>41

LEMMA GuiBelow ==
  ASSUME NEW l, GuiTable(l), NEW w, GuiManager(w), GuiOwner(l, w), NEW k \in GuiSlots
  PROVE  l[k].id < 2 * w.next + 1
<1>1. PICK n \in Nat : n = w.next /\ n # 0  BY DEF GuiManager, GuiManagers
<1>2. PICK x \in Nat : x = l[k].id  BY DEF GuiTable, GuiSurface
<1>3. CASE x \in {0, 1, 2}  BY <1>1, <1>2, <1>3
<1>4. CASE x \notin {0, 1, 2}
  <2>1. PICK i \in GuiPlaces : w.list[i].id # 0 /\ x \in {w.list[i].frame, w.list[i].client}
    BY <1>2, <1>4 DEF GuiOwner
  <2>2. PICK id \in Nat : id = w.list[i].id /\ id < n  BY <1>1 DEF GuiManager, GuiManagers, GuiWindow
  <2>3. w.list[i].frame = 2 * id + 1 /\ w.list[i].client = 2 * id + 2  BY <2>1, <2>2 DEF GuiManager
  <2> QED BY <1>1, <1>2, <2>1, <2>2, <2>3
<1> QED BY <1>3, <1>4

GuiOpens(w, v, s, win, n) == v = [w EXCEPT !.list[s] = win, !.next = n + 1]

LEMMA GuiOpened ==
  ASSUME NEW w, GuiManager(w), NEW s \in GuiPlaces, w.list[s].id = 0, NEW n \in Nat, n = w.next,
         NEW win \in GuiWindow, win.id = n, win.frame = 2 * n + 1, win.client = 2 * n + 2, win.h >= 2,
         NEW v, GuiOpens(w, v, s, win, n)
  PROVE  GuiManager(v) /\ v.focus = w.focus /\ \A j \in GuiPlaces : v.list[j] = IF j = s THEN win ELSE w.list[j]
<1>1. w \in GuiManagers /\ w.list \in [GuiPlaces -> GuiWindow] /\ n # 0  BY DEF GuiManager, GuiManagers
<1>2. PICK t : t = [w.list EXCEPT ![s] = win]  OBVIOUS
<1>3. t \in [GuiPlaces -> GuiWindow] /\ \A j \in GuiPlaces : t[j] = IF j = s THEN win ELSE w.list[j]
  BY <1>1, <1>2
<1>4. v = [w EXCEPT !.list = t, !.next = n + 1]  BY <1>1, <1>2 DEF GuiManagers, GuiOpens
<1>5. v \in GuiManagers /\ v.focus = w.focus /\ v.list = t /\ v.next = n + 1
  <2>1. n + 1 \in Nat \ {0}  OBVIOUS
  <2> QED BY <1>1, <1>3, <1>4, <2>1 DEF GuiManagers
<1>6. \A j \in GuiPlaces : w.list[j].id < n /\ w.list[j].id \in Nat  BY <1>1 DEF GuiManager, GuiWindow
<1>7. \A j \in GuiPlaces : v.list[j].id < v.next  BY <1>3, <1>5, <1>6
<1>8. \A j, k \in GuiPlaces : v.list[j].id # 0 /\ v.list[j].id = v.list[k].id => j = k
  <2> TAKE j, k \in GuiPlaces
  <2>1. w.list[j].id # n /\ w.list[k].id # n  BY <1>6
  <2> QED BY <1>3, <1>5, <2>1 DEF GuiManager
<1>9. \A j \in GuiPlaces : v.list[j].id # 0 =>
          /\ v.list[j].frame = 2 * v.list[j].id + 1 /\ v.list[j].client = 2 * v.list[j].id + 2
          /\ v.list[j].h >= 2
  BY <1>3, <1>5 DEF GuiManager
<1>10. v.focus # 0 => \E j \in GuiPlaces : v.list[j].id = v.focus /\ ~v.list[j].minimized
  <2> SUFFICES ASSUME v.focus # 0 PROVE \E j \in GuiPlaces : v.list[j].id = v.focus /\ ~v.list[j].minimized
    OBVIOUS
  <2>1. PICK j \in GuiPlaces : w.list[j].id = w.focus /\ ~w.list[j].minimized  BY <1>5 DEF GuiManager
  <2>2. j # s  BY <1>5, <2>1
  <2> QED BY <1>3, <1>5, <2>1, <2>2
<1> QED BY <1>3, <1>5, <1>7, <1>8, <1>9, <1>10 DEF GuiManager

LEMMA GuiCreatedWorld ==
  ASSUME NEW l, NEW w, GuiWorld(l, w), NEW s \in GuiPlaces, w.list[s].id = 0, NEW n \in Nat, n = w.next,
         NEW h \in Nat, h >= 2, NEW win \in GuiWindow,
         win = [id |-> n, frame |-> 2 * n + 1, client |-> 2 * n + 2, y |-> 0, h |-> h, minimized |-> FALSE],
         NEW v, GuiOpens(w, v, s, win, n),
         NEW m, NEW x \in Nat, GuiAdded(l, m, 2 * x + 1, 2 * n + 1, h)
  PROVE  GuiWorld(m, v) /\ GuiSame(l, m, {2 * n + 1, 2 * n + 2})
<1>1. GuiTable(l) /\ GuiPairs(l) /\ GuiManager(w) /\ GuiOwner(l, w) /\ GuiPlaced(l, w) /\ GuiTitles(l, w)
  BY DEF GuiWorld
<1>2. PICK a \in Nat, b \in Nat, p \in GuiSlots, q \in GuiSlots :
         a = 2 * n + 1 /\ b = 2 * n + 2 /\ p = 2 * x + 1 /\ q = 2 * x + 2 /\ a > 2 /\ b > 2 /\ a # b /\ p # q
  <2>1. n # 0 /\ 2 * n + 1 > 2 /\ 2 * n + 2 > 2  BY <1>1 DEF GuiManager, GuiManagers
  <2>2. 2 * x + 1 \in GuiSlots /\ 2 * x + 1 + 1 \in GuiSlots  BY DEF GuiAdded
  <2>3. 2 * x + 2 \in GuiSlots  BY <2>2
  <2> QED BY <2>1, <2>2, <2>3
<1>3. /\ win.id = n /\ win.frame = a /\ win.client = b /\ win.y = 0 /\ win.h = h /\ win.minimized = FALSE /\ n # 0
  BY <1>1, <1>2 DEF GuiManager, GuiManagers
<1>4. GuiManager(v) /\ v.focus = w.focus /\ \A j \in GuiPlaces : v.list[j] = IF j = s THEN win ELSE w.list[j]
  <2>1. win.id = n /\ win.frame = 2 * n + 1 /\ win.client = 2 * n + 2 /\ win.h >= 2  BY <1>2, <1>3
  <2> QED BY <1>1, <2>1, GuiOpened
<1>5. /\ m \in [GuiSlots -> GuiSurface] /\ l[p].id = 0 /\ l[q].id = 0
      /\ m[p] = [id |-> a, y |-> 0, h |-> h, visible |-> TRUE, look |-> "unlit"]
      /\ m[q] = [id |-> b, y |-> 1, h |-> h - 1, visible |-> TRUE, look |-> "client"]
      /\ \A k \in GuiSlots : k # p /\ k # q => m[k] = l[k]
  <2>1. 2 * x + 1 + 1 = q /\ 2 * n + 1 + 1 = b  BY <1>2
  <2> QED BY <1>2, <2>1 DEF GuiAdded
<1>6. /\ m[p].id = a /\ m[p].y = 0 /\ m[p].h = h /\ m[p].visible = TRUE /\ m[p].look = "unlit"
      /\ m[q].id = b /\ m[q].y = 1 /\ m[q].h = h - 1 /\ m[q].visible = TRUE
  BY <1>5
<1>7. \A k \in GuiSlots : l[k].id \in Nat /\ l[k].id < a /\ l[k].id < b
  <2> TAKE k \in GuiSlots
  <2>1. l[k].id \in Nat  BY <1>1 DEF GuiTable, GuiSurface
  <2>2. l[k].id < 2 * w.next + 1  BY <1>1, GuiBelow
  <2> QED BY <1>2, <2>1, <2>2
<1>8. \A k \in GuiSlots : l[k].id # a /\ l[k].id # b
  <2> TAKE k \in GuiSlots
  <2>1. l[k].id \in Nat /\ l[k].id < a /\ l[k].id < b  BY <1>7
  <2> QED BY <2>1
<1>9. GuiTable(m)
  <2>1. \A k \in GuiSlots : m[k].id = 0 => m[k] = NoSurface  BY <1>1, <1>2, <1>5, <1>6 DEF GuiTable
  <2>2. \A j, k \in GuiSlots : m[j].id # 0 /\ m[j].id = m[k].id => j = k
    BY <1>1, <1>2, <1>5, <1>6, <1>8 DEF GuiTable
  <2> QED BY <1>5, <2>1, <2>2 DEF GuiTable
<1>10. GuiSame(l, m, {a, b})
  <2>1. \A k \in GuiSlots : m[k] = l[k] \/ {l[k].id, m[k].id} \subseteq {0} \cup {a, b}  BY <1>5, <1>6
  <2> QED BY <1>1, <1>9, <2>1, GuiSameSlots
<1>11. GuiPairs(m)
  <2> SUFFICES ASSUME NEW r \in Nat, 2 * r + 1 \in GuiSlots
               PROVE  \/ m[2 * r + 1].id = 0 /\ (2 * r + 2 \in GuiSlots => m[2 * r + 2].id = 0)
                      \/ 2 * r + 2 \in GuiSlots /\ \E k \in Nat : m[2 * r + 1].id = 2 * k + 1 /\ m[2 * r + 2].id = 2 * k + 2
    BY DEF GuiPairs
  <2>1. \/ l[2 * r + 1].id = 0 /\ (2 * r + 2 \in GuiSlots => l[2 * r + 2].id = 0)
        \/ 2 * r + 2 \in GuiSlots /\ \E k \in Nat : l[2 * r + 1].id = 2 * k + 1 /\ l[2 * r + 2].id = 2 * k + 2
    BY <1>1 DEF GuiPairs
  <2>2. CASE r = x  BY <1>2, <1>6, <2>2
  <2>3. CASE r # x
    <3>0. 2 * r + 1 # 2 * x + 1 /\ 2 * r + 1 # 2 * x + 2 /\ 2 * r + 2 # 2 * x + 1 /\ 2 * r + 2 # 2 * x + 2
      BY <2>3
    <3>1. 2 * r + 1 # p /\ 2 * r + 1 # q /\ 2 * r + 2 # p /\ 2 * r + 2 # q  BY <1>2, <3>0
    <3>2. m[2 * r + 1] = l[2 * r + 1] /\ (2 * r + 2 \in GuiSlots => m[2 * r + 2] = l[2 * r + 2])  BY <1>5, <3>1
    <3> QED BY <2>1, <3>2
  <2> QED BY <2>2, <2>3
<1>12. GuiOwner(m, v)
  <2>1. ASSUME NEW k \in GuiSlots, m[k].id \notin {0, 1, 2}
        PROVE  \E i \in GuiPlaces : v.list[i].id # 0 /\ m[k].id \in {v.list[i].frame, v.list[i].client}
    <3>1. CASE k = p \/ k = q  BY <1>3, <1>4, <1>6, <3>1
    <3>2. CASE k # p /\ k # q
      <4>1. PICK i \in GuiPlaces : w.list[i].id # 0 /\ l[k].id \in {w.list[i].frame, w.list[i].client}
        BY <1>1, <1>5, <2>1, <3>2 DEF GuiOwner
      <4> QED BY <1>4, <1>5, <3>2, <4>1
    <3> QED BY <3>1, <3>2
  <2>2. \A k \in GuiSlots : l[k].id # 0 => m[k] = l[k]  BY <1>5
  <2>3. ASSUME NEW i \in GuiPlaces, v.list[i].id # 0
        PROVE  \E j, k \in GuiSlots : m[j].id = v.list[i].frame /\ m[k].id = v.list[i].client
    <3>1. CASE i = s  BY <1>3, <1>4, <1>6, <3>1
    <3>2. CASE i # s
      <4>0. v.list[i] = w.list[i] /\ w.list[i].id # 0  BY <1>4, <2>3, <3>2
      <4>1. PICK j \in GuiSlots, k \in GuiSlots : l[j].id = w.list[i].frame /\ l[k].id = w.list[i].client
        BY <1>1, <4>0 DEF GuiOwner
      <4>2. w.list[i].frame # 0 /\ w.list[i].client # 0
        <5>1. w.list[i].frame > 2 /\ w.list[i].client > 2  BY <1>1, <4>0, GuiApart
        <5> QED BY <5>1
      <4> QED BY <2>2, <4>0, <4>1, <4>2
    <3> QED BY <3>1, <3>2
  <2>4. \E j, k \in GuiSlots : m[j].id = 1 /\ m[k].id = 2
    <3>1. PICK j \in GuiSlots, k \in GuiSlots : l[j].id = 1 /\ l[k].id = 2  BY <1>1 DEF GuiOwner
    <3> QED BY <2>2, <3>1
  <2> QED BY <2>1, <2>3, <2>4 DEF GuiOwner
<1>13. GuiPlaced(m, v) /\ GuiTitles(m, v)
  <2> SUFFICES ASSUME NEW i \in GuiPlaces, NEW k \in GuiSlots, v.list[i].id # 0
               PROVE  GuiFits(m[k], v.list[i]) /\ GuiTitle(m[k], v.list[i], v.focus)
    BY DEF GuiPlaced, GuiTitles
  <2>1. CASE i = s
    <3>1. v.list[i] = win /\ w.focus # n
      <4>1. w.focus # 0 => \E j \in GuiPlaces : w.list[j].id = w.focus /\ w.list[j].id < n /\ w.list[j].id \in Nat
        BY <1>1 DEF GuiManager, GuiManagers, GuiWindow
      <4>2. w.focus # n  BY <1>3, <4>1
      <4>3. v.list[i] = win  BY <1>4, <2>1
      <4> QED BY <4>2, <4>3
    <3>2. CASE k = p
      <4>1. m[k].id = win.frame /\ m[k].id # win.client /\ m[k].y = 0 /\ m[k].h = h /\ m[k].visible = TRUE /\ m[k].look = "unlit"
        BY <1>2, <1>3, <1>6, <3>2
      <4>2. GuiFits(m[k], win)
        <5>1. m[k].visible = ~win.minimized  BY <1>3, <4>1, Zenon
        <5> QED BY <1>3, <4>1, <5>1 DEF GuiFits
      <4>3. GuiTitle(m[k], win, v.focus)  BY <1>3, <1>4, <3>1, <4>1 DEF GuiTitle
      <4> QED BY <3>1, <4>2, <4>3
    <3>3. CASE k = q
      <4>1. m[k].id = win.client /\ m[k].id # win.frame  BY <1>2, <1>3, <1>6, <3>3
      <4> QED
        <5>1. m[k].y = 1 /\ m[k].h = h - 1 /\ m[k].visible = TRUE  BY <1>6, <3>3
        <5>2. GuiFits(m[k], win)
          <6>1. m[k].visible = ~win.minimized  BY <1>3, <5>1, Zenon
          <6> QED BY <1>3, <4>1, <5>1, <6>1 DEF GuiFits
        <5>3. GuiTitle(m[k], win, v.focus)  BY <4>1 DEF GuiTitle
        <5> QED BY <3>1, <5>2, <5>3
    <3>4. CASE k # p /\ k # q
      <4>1. m[k].id # win.client /\ m[k].id # win.frame  BY <1>3, <1>5, <1>8, <3>4
      <4> QED BY <3>1, <4>1 DEF GuiFits, GuiTitle
    <3> QED BY <3>2, <3>3, <3>4
  <2>2. CASE i # s
    <3>1. v.list[i] = w.list[i] /\ w.list[i].id # 0  BY <1>4, <2>2
    <3>2. GuiFits(l[k], w.list[i]) /\ GuiTitle(l[k], w.list[i], w.focus)  BY <1>1, <3>1 DEF GuiPlaced, GuiTitles
    <3>3. v.list[s] = win  BY <1>4
    <3>4. CASE k = p \/ k = q
      <4>1. w.list[i].frame \notin {a, b} /\ w.list[i].client \notin {a, b}
        <5>1. v.list[s].id # 0 /\ v.list[i].id # 0 /\ s # i  BY <1>3, <2>2, <3>3
        <5>2. /\ v.list[s].frame # v.list[i].client /\ v.list[s].frame # v.list[i].frame
              /\ v.list[s].client # v.list[i].client
          BY <1>4, <5>1, GuiApart
        <5>3. v.list[i].frame # v.list[s].client  BY <1>4, <5>1, GuiApart
        <5> QED BY <1>3, <3>1, <3>3, <5>2, <5>3
      <4> QED BY <1>6, <3>1, <3>4, <4>1 DEF GuiFits, GuiTitle
    <3>5. CASE k # p /\ k # q  BY <1>4, <1>5, <3>1, <3>2, <3>5
    <3> QED BY <3>4, <3>5
  <2> QED BY <2>1, <2>2
<1>14. GuiWorld(m, v)  BY <1>4, <1>9, <1>11, <1>12, <1>13 DEF GuiWorld
<1> QED BY <1>2, <1>10, <1>14

LEMMA GuiCreated ==
  ASSUME NEW st, GuiState(st), NEW h \in Nat, h >= 2, NEW ok1 \in BOOLEAN, NEW ok2 \in BOOLEAN
  PROVE  GuiState(wm_create(st, h, ok1, ok2))
<1>1. PICK l, w : l = st.g.list /\ w = st.w  OBVIOUS
<1>2. GuiTable(l) /\ GuiPairs(l) /\ GuiManager(w) /\ GuiOwner(l, w) /\ GuiWorld(l, w) /\ GuiScreen(st.g)
  BY <1>1 DEF GuiState, GuiWorld
<1>3. PICK n \in Nat : n = w.next /\ n # 0  BY <1>2 DEF GuiManager, GuiManagers
<1>4. PICK a \in Nat, b \in Nat : a = 2 * n + 1 /\ b = a + 1 /\ b = 2 * n + 2 /\ a > 2  BY <1>3
<1> DEFINE slots == {i \in GuiPlaces : w.list[i].id = 0}
<1>5. PICK s : s = CHOOSE i \in slots : \A j \in slots : i <= j  OBVIOUS
<1>6. PICK one : one = comp_create(l, a, h)  OBVIOUS
<1>7. PICK m : m = comp_fill(comp_fill(comp_move(comp_create(one, b, h - 1), b, 1), b, "client"), a, "unlit")
  OBVIOUS
<1>8. PICK win : win = [id |-> n, frame |-> a, client |-> b, y |-> 0, h |-> h, minimized |-> FALSE]  OBVIOUS
<1>9. PICK v : v = [w EXCEPT !.list[s] = win, !.next = n + 1]  OBVIOUS
<1>10. win.frame = a  BY <1>8
<1>11. wm_create(st, h, ok1, ok2) =
          IF slots = {} \/ FreeSurface(l) = 0 \/ ~ok1 THEN st
          ELSE IF FreeSurface(one) = 0 \/ ~ok2 THEN [st EXCEPT !.g = dmg_add(st.g, GuiCells \cap (0 .. h - 1))]
          ELSE [g |-> Redrawn(st.g, m, {a, b}), w |-> v]
  BY <1>1, <1>3, <1>4, <1>5, <1>6, <1>7, <1>8, <1>9, <1>10 DEF wm_create, wm_draw_frame, TitleLook, GuiPlaces
<1>12. CASE slots = {} \/ FreeSurface(l) = 0 \/ ~ok1  BY <1>11, <1>12
<1>13. CASE ~(slots = {} \/ FreeSurface(l) = 0 \/ ~ok1) /\ (FreeSurface(one) = 0 \/ ~ok2)
  <2>1. PICK g : g = dmg_add(st.g, GuiCells \cap (0 .. h - 1))  OBVIOUS
  <2>2. GuiScreen(g) /\ g.list = l  BY <1>1, <1>2, <2>1, GuiDamaged
  <2>3. wm_create(st, h, ok1, ok2) = [st EXCEPT !.g = g]  BY <1>11, <1>13, <2>1
  <2> QED BY <1>1, <1>2, <2>2, <2>3 DEF GuiState
<1>14. CASE ~(slots = {} \/ FreeSurface(l) = 0 \/ ~ok1) /\ ~(FreeSurface(one) = 0 \/ ~ok2)
  <2>1. s \in slots
    <3>1. slots # {} /\ slots \subseteq Nat  BY <1>14, GuiSizes DEF GuiPlaces
    <3> QED BY <1>5, <3>1, GuiLeast
  <2>2. \A k \in GuiSlots : l[k].id < a  BY <1>2, <1>3, <1>4, GuiBelow
  <2>3. PICK x \in Nat : GuiAdded(l, m, 2 * x + 1, a, h)  BY <1>2, <1>4, <1>6, <1>7, <1>14, <2>2, GuiAdds
  <2>4. win \in GuiWindow  BY <1>8 DEF GuiWindow
  <2>5. GuiWorld(m, v) /\ GuiSame(l, m, {a, b})
    <3>1. win = [id |-> n, frame |-> 2 * n + 1, client |-> 2 * n + 2, y |-> 0, h |-> h, minimized |-> FALSE]
      BY <1>4, <1>8
    <3>2. GuiAdded(l, m, 2 * x + 1, 2 * n + 1, h)  BY <1>4, <2>3
    <3>3. s \in GuiPlaces /\ w.list[s].id = 0  BY <2>1
    <3>4. GuiWorld(m, v) /\ GuiSame(l, m, {2 * n + 1, 2 * n + 2})
      BY <1>2, <1>3, <1>9, <2>4, <3>1, <3>2, <3>3, GuiCreatedWorld DEF GuiOpens
    <3> QED BY <1>4, <3>4
  <2>6. GuiScreen(Redrawn(st.g, m, {a, b})) /\ Redrawn(st.g, m, {a, b}).list = m
    <3>1. GuiTable(m)  BY <2>5 DEF GuiWorld
    <3> QED BY <1>1, <1>2, <2>5, <3>1, GuiRedrawn
  <2> QED BY <1>11, <1>14, <2>5, <2>6 DEF GuiState
<1> QED BY <1>12, <1>13, <1>14

\* wm_focus: the old title goes out, the two surfaces are raised, the new
\* title is lit.  Before it, the title of the window itself may be wrong.
GuiTitlesBut(l, w, id) ==
    \A i \in GuiPlaces, k \in GuiSlots : w.list[i].id \notin {0, id} => GuiTitle(l[k], w.list[i], w.focus)

GuiAlmost(l, w, id) ==
    GuiTable(l) /\ GuiPairs(l) /\ GuiManager(w) /\ GuiOwner(l, w) /\ GuiPlaced(l, w) /\ GuiTitlesBut(l, w, id)

GuiDim(l, m, old) ==
    \A k \in GuiSlots : /\ m[k].id = l[k].id /\ m[k].y = l[k].y /\ m[k].h = l[k].h /\ m[k].visible = l[k].visible
                        /\ l[k].id # old => m[k] = l[k]
                        /\ old # 0 /\ l[k].id = old => m[k].look = "unlit"

GuiOldFrame(w, old) ==
    \A j \in GuiPlaces : w.list[j].id # 0 /\ w.list[j].id = w.focus => w.list[j].frame = old /\ old # 0

LEMMA GuiDimmed ==
  ASSUME NEW l, NEW w, GuiTable(l), GuiPairs(l), GuiManager(w), GuiOwner(l, w),
         NEW old, old = OldFrame(w), NEW m, m = comp_fill(l, old, "unlit")
  PROVE  GuiTable(m) /\ GuiPairs(m) /\ GuiOwner(m, w) /\ GuiSame(l, m, {old}) /\ GuiDim(l, m, old)
         /\ GuiOldFrame(w, old)
<1>1. CASE wm_get(w, w.focus) = {}
  <2>1. old = 0  BY <1>1 DEF OldFrame
  <2>2. l \in [GuiSlots -> GuiSurface]  BY DEF GuiTable
  <2>3. m = l
    <3>1. m = [k \in GuiSlots |-> l[k]]  BY <2>1 DEF comp_fill, At, GuiSlots
    <3> QED BY <2>2, <3>1
  <2>4. GuiSame(l, m, {old})
    <3>1. \A i \in GuiSlots : m[i] = l[i]  BY <2>3
    <3>2. GuiTable(m)  BY <2>3
    <3> QED BY <3>1, <3>2, GuiSameSlots
  <2>5. GuiDim(l, m, old)  BY <2>1, <2>3 DEF GuiDim
  <2>6. GuiOldFrame(w, old)
    <3>1. \A j \in GuiPlaces : ~(w.focus # 0 /\ w.list[j].id = w.focus)  BY <1>1 DEF wm_get, GuiPlaces
    <3> QED BY <3>1 DEF GuiOldFrame
  <2> QED BY <2>3, <2>4, <2>5, <2>6
<1>2. CASE wm_get(w, w.focus) # {}
  <2>1. PICK i \in GuiPlaces : w.focus # 0 /\ w.list[i].id = w.focus /\ Window(w, w.focus) = w.list[i]
    BY <1>2, GuiFound
  <2>2. PICK a \in Nat : a = w.list[i].frame /\ a # 0
    <3>1. w.list[i].frame \in Nat /\ w.list[i].frame > 2  BY <2>1, GuiApart
    <3> QED BY <3>1
  <2>3. old = a  BY <1>2, <2>1, <2>2 DEF OldFrame
  <2>4. "unlit" \in GuiLooks /\ 0 \notin {a}  BY <2>2 DEF GuiLooks
  <2>5. GuiWithLook(l, m, a, "unlit")  BY <2>2, <2>3, <2>4, GuiFillEdits
  <2>6. GuiEdited(l, m, {a})  BY <2>5 DEF GuiWithLook
  <2>7. GuiTable(m) /\ GuiPairs(m) /\ GuiOwner(m, w) /\ GuiSame(l, m, {a})  BY <2>4, <2>6, GuiEditKeeps
  <2>8. GuiDim(l, m, a)  BY <2>5, <2>6 DEF GuiDim, GuiEdited, GuiWithLook
  <2>9. GuiOldFrame(w, a)  BY <2>1, <2>2 DEF GuiOldFrame, GuiManager
  <2> QED BY <2>3, <2>7, <2>8, <2>9
<1> QED BY <1>1, <1>2

GuiRefocused(w, v, id) == v = [w EXCEPT !.focus = id]

GuiLitOver(l, m, a, b, old) ==
    \A k \in GuiSlots : m[k].id # 0 =>
        \E r \in GuiSlots : /\ m[k].id = l[r].id /\ m[k].y = l[r].y /\ m[k].h = l[r].h /\ m[k].visible = l[r].visible
                            /\ l[r].id = a => m[k].look = "lit"
                            /\ l[r].id # a /\ l[r].id # old => m[k].look = l[r].look
                            /\ l[r].id # a /\ l[r].id = old => m[k].look = "unlit"

LEMMA GuiLit ==
  ASSUME NEW l, NEW w, GuiTable(l), GuiPairs(l), GuiManager(w), GuiOwner(l, w),
         NEW i \in GuiPlaces, w.list[i].id # 0, NEW a, NEW b, a = w.list[i].frame, b = w.list[i].client,
         NEW old, old = OldFrame(w), NEW m,
         m = comp_fill(comp_raise(comp_raise(comp_fill(l, old, "unlit"), a), b), a, "lit")
  PROVE  /\ GuiTable(m) /\ GuiPairs(m) /\ GuiSame(l, m, {old, a, b}) /\ GuiLitOver(l, m, a, b, old)
         /\ \A r \in GuiSlots : l[r].id # 0 => \E k \in GuiSlots : m[k].id = l[r].id
<1>1. PICK dim : dim = comp_fill(l, old, "unlit")  OBVIOUS
<1>2. /\ GuiTable(dim) /\ GuiPairs(dim) /\ GuiOwner(dim, w) /\ GuiSame(l, dim, {old}) /\ GuiDim(l, dim, old)
      /\ GuiOldFrame(w, old)
  BY <1>1, GuiDimmed
<1>3. PICK id \in Nat : id = w.list[i].id /\ id # 0  BY DEF GuiManager, GuiManagers, GuiWindow
<1>4. a = 2 * id + 1 /\ b = 2 * id + 2  BY <1>3 DEF GuiManager
<1>5. a \in Nat /\ b \in Nat /\ a # 0 /\ b # 0 /\ a # b  BY <1>3, <1>4
<1>6. PICK x \in Nat : /\ 2 * x + 1 \in GuiSlots /\ 2 * x + 2 \in GuiSlots
                       /\ dim[2 * x + 1].id = w.list[i].frame /\ dim[2 * x + 2].id = w.list[i].client
  BY <1>2, GuiPairOf
<1>7. PICK p \in GuiSlots, q \in GuiSlots : p = 2 * x + 1 /\ q = 2 * x + 2 /\ p # q /\ dim[p].id = a /\ dim[q].id = b
  BY <1>6
<1>8. PICK R : R = comp_raise(comp_raise(dim, a), b)  OBVIOUS
<1>9. PICK n, g : n \in Nat /\ GuiPairShape(dim, R, p, q, n, g)
  <2>1. dim[p].id # 0 /\ dim[q].id # 0  BY <1>5, <1>7
  <2>2. \E n, g : n \in Nat /\ GuiPairShape(dim, comp_raise(comp_raise(dim, dim[p].id), dim[q].id), p, q, n, g)
    BY <1>2, <1>7, <2>1, GuiPairRaised
  <2> QED BY <1>7, <1>8, <2>2
<1>10. GuiTable(R)  BY <1>9 DEF GuiPairShape
<1>11. GuiPairs(R)
  <2>1. GuiPairShape(dim, R, 2 * x + 1, 2 * x + 2, n, g)  BY <1>7, <1>9
  <2>2. dim[2 * x + 1].id = 2 * id + 1 /\ dim[2 * x + 2].id = 2 * id + 2  BY <1>4, <1>7
  <2>3. n \in Nat  BY <1>9
  <2> QED BY <1>2, <1>3, <1>6, <2>1, <2>2, <2>3, GuiPairsRaised
<1>12. /\ GuiSame(dim, R, {a, b})
       /\ \A k \in GuiSlots : R[k].id # 0 => \E r \in GuiSlots : R[k] = dim[r]
       /\ \A r \in GuiSlots : dim[r].id # 0 => \E k \in GuiSlots : R[k] = dim[r]
  <2>1. GuiRaisedOver(dim, R, p, q)  BY <1>2, <1>9, GuiSameRaised
  <2> QED BY <1>7, <2>1 DEF GuiRaisedOver
<1>13. m = comp_fill(R, a, "lit")  BY <1>1, <1>8
<1>14. "lit" \in GuiLooks /\ 0 \notin {a}  BY <1>5 DEF GuiLooks
<1>15. GuiWithLook(R, m, a, "lit")  BY <1>5, <1>10, <1>13, <1>14, GuiFillEdits
<1>16. GuiEdited(R, m, {a})  BY <1>15 DEF GuiWithLook
<1>17. GuiTable(m) /\ GuiPairs(m) /\ GuiSame(R, m, {a})  BY <1>10, <1>11, <1>14, <1>16, GuiEditKeeps
<1>18. GuiSame(l, m, {old, a, b})
  <2>1. GuiSame(l, R, {old, a, b})
    <3>1. {old} \subseteq {old, a, b} /\ {a, b} \subseteq {old, a, b}  OBVIOUS
    <3> QED BY <1>2, <1>12, <3>1, GuiSameTrans
  <2>2. {a} \subseteq {old, a, b} /\ {old, a, b} \subseteq {old, a, b}  OBVIOUS
  <2> QED BY <1>17, <2>1, <2>2, GuiSameTrans
<1>19. GuiLitOver(l, m, a, b, old)
  <2> SUFFICES ASSUME NEW k \in GuiSlots, m[k].id # 0
               PROVE  \E r \in GuiSlots :
                         /\ m[k].id = l[r].id /\ m[k].y = l[r].y /\ m[k].h = l[r].h /\ m[k].visible = l[r].visible
                         /\ l[r].id = a => m[k].look = "lit"
                         /\ l[r].id # a /\ l[r].id # old => m[k].look = l[r].look
                         /\ l[r].id # a /\ l[r].id = old => m[k].look = "unlit"
    BY DEF GuiLitOver
  <2>1. /\ m[k].id = R[k].id /\ m[k].y = R[k].y /\ m[k].h = R[k].h /\ m[k].visible = R[k].visible
        /\ R[k].id = a => m[k].look = "lit"
        /\ R[k].id # a => m[k] = R[k]
    BY <1>15, <1>16 DEF GuiWithLook, GuiEdited
  <2>2. PICK r \in GuiSlots : R[k] = dim[r]  BY <1>12, <2>1
  <2>3. /\ dim[r].id = l[r].id /\ dim[r].y = l[r].y /\ dim[r].h = l[r].h /\ dim[r].visible = l[r].visible
        /\ l[r].id # old => dim[r] = l[r]
        /\ old # 0 /\ l[r].id = old => dim[r].look = "unlit"
    BY <1>2 DEF GuiDim
  <2>4. l[r].id # 0  BY <2>1, <2>2, <2>3
  <2>5. /\ m[k].id = l[r].id /\ m[k].y = l[r].y /\ m[k].h = l[r].h /\ m[k].visible = l[r].visible
        /\ l[r].id = a => m[k].look = "lit"
    BY <2>1, <2>2, <2>3
  <2>6. l[r].id # a => m[k].look = dim[r].look  BY <2>1, <2>2, <2>3
  <2>7. /\ l[r].id # old => dim[r].look = l[r].look
        /\ l[r].id = old => dim[r].look = "unlit"
    BY <2>3, <2>4
  <2> QED BY <2>5, <2>6, <2>7
<1>20. \A r \in GuiSlots : l[r].id # 0 => \E k \in GuiSlots : m[k].id = l[r].id
  <2> TAKE r \in GuiSlots
  <2> HAVE l[r].id # 0
  <2>1. dim[r].id = l[r].id  BY <1>2 DEF GuiDim
  <2>2. PICK k \in GuiSlots : R[k] = dim[r]  BY <1>12, <2>1
  <2>3. m[k].id = R[k].id  BY <1>16 DEF GuiEdited
  <2> QED BY <2>1, <2>2, <2>3
<1> QED BY <1>17, <1>18, <1>19, <1>20

LEMMA GuiFocused ==
  ASSUME NEW st, NEW id, GuiAlmost(st.g.list, st.w, id), GuiScreen(st.g),
         (wm_get(st.w, id) = {} \/ Window(st.w, id).minimized \/ st.w.focus = id) => GuiTitles(st.g.list, st.w)
  PROVE  GuiState(wm_focus(st, id)) /\ wm_focus(st, id).w.drag = st.w.drag /\ wm_focus(st, id).w.grip = st.w.grip
<1>1. CASE wm_get(st.w, id) = {} \/ Window(st.w, id).minimized \/ st.w.focus = id
  <2>1. wm_focus(st, id) = st  BY <1>1 DEF wm_focus, FocusOf
  <2>2. GuiState(st)  BY <1>1 DEF GuiState, GuiWorld, GuiAlmost
  <2> QED BY <2>1, <2>2
<1>2. CASE ~(wm_get(st.w, id) = {} \/ Window(st.w, id).minimized \/ st.w.focus = id)
  <2>1. PICK l, w : l = st.g.list /\ w = st.w  OBVIOUS
  <2>2. GuiTable(l) /\ GuiPairs(l) /\ GuiManager(w) /\ GuiOwner(l, w) /\ GuiPlaced(l, w) /\ GuiTitlesBut(l, w, id)
    BY <2>1 DEF GuiAlmost
  <2>3. PICK i \in GuiPlaces : id # 0 /\ w.list[i].id = id /\ Window(w, id) = w.list[i] /\ wm_get(w, id) = {i}
    BY <1>2, <2>1, <2>2, GuiFound
  <2>4. PICK win \in GuiWindow : win = w.list[i] /\ win.id # 0 /\ ~win.minimized
    BY <1>2, <2>1, <2>2, <2>3 DEF GuiManager, GuiManagers
  <2>5. PICK a \in Nat, b \in Nat : a = win.frame /\ b = win.client /\ a # 0 /\ b # 0 /\ a # b
    BY <2>2, <2>3, <2>4, GuiApart
  <2>6. PICK old : old = OldFrame(w)  OBVIOUS
  <2>7. PICK m : m = comp_fill(comp_raise(comp_raise(comp_fill(l, old, "unlit"), a), b), a, "lit")  OBVIOUS
  <2>8. PICK v : GuiRefocused(w, v, id)  BY DEF GuiRefocused
  <2>9. /\ GuiTable(m) /\ GuiPairs(m) /\ GuiSame(l, m, {old, a, b}) /\ GuiLitOver(l, m, a, b, old)
        /\ \A r \in GuiSlots : l[r].id # 0 => \E k \in GuiSlots : m[k].id = l[r].id
    BY <2>2, <2>3, <2>4, <2>5, <2>6, <2>7, GuiLit
  <2>10. v \in GuiManagers /\ v.list = w.list /\ v.next = w.next /\ v.focus = id /\ v.drag = w.drag /\ v.grip = w.grip
    <3>1. w \in GuiManagers /\ id \in Nat  BY <2>2, <2>3, <2>4 DEF GuiManager, GuiWindow
    <3> QED BY <2>8, <3>1 DEF GuiManagers, GuiRefocused
  <2>11. GuiManager(v)
    <3>1. \E j \in GuiPlaces : v.list[j].id = v.focus /\ ~v.list[j].minimized  BY <2>3, <2>4, <2>10
    <3> QED BY <2>2, <2>10, <3>1 DEF GuiManager
  <2>12. GuiOldFrame(w, old)
    <3>1. PICK dim : dim = comp_fill(l, old, "unlit")  OBVIOUS
    <3> QED BY <2>2, <2>6, <3>1, GuiDimmed
  <2>13. GuiOwner(m, v)
    <3>1. ASSUME NEW k \in GuiSlots, m[k].id \notin {0, 1, 2}
          PROVE  \E j \in GuiPlaces : v.list[j].id # 0 /\ m[k].id \in {v.list[j].frame, v.list[j].client}
      <4>1. PICK r \in GuiSlots : m[k].id = l[r].id  BY <2>9, <3>1 DEF GuiLitOver
      <4>2. PICK j \in GuiPlaces : w.list[j].id # 0 /\ l[r].id \in {w.list[j].frame, w.list[j].client}
        BY <2>2, <3>1, <4>1 DEF GuiOwner
      <4> QED BY <2>10, <4>1, <4>2
    <3>2. ASSUME NEW j \in GuiPlaces, v.list[j].id # 0
          PROVE  \E h, k \in GuiSlots : m[h].id = v.list[j].frame /\ m[k].id = v.list[j].client
      <4>0. v.list[j] = w.list[j] /\ w.list[j].id # 0  BY <2>10, <3>2
      <4>1. PICK h \in GuiSlots, k \in GuiSlots : l[h].id = w.list[j].frame /\ l[k].id = w.list[j].client
        BY <2>2, <4>0 DEF GuiOwner
      <4>2. l[h].id # 0 /\ l[k].id # 0
        <5>1. w.list[j].frame > 2 /\ w.list[j].client > 2  BY <2>2, <4>0, GuiApart
        <5> QED BY <4>1, <5>1
      <4>3. PICK x \in GuiSlots, y \in GuiSlots : m[x].id = l[h].id /\ m[y].id = l[k].id  BY <2>9, <4>2
      <4> QED BY <4>0, <4>1, <4>3
    <3>3. \E j, k \in GuiSlots : m[j].id = 1 /\ m[k].id = 2
      <4>1. PICK j \in GuiSlots, k \in GuiSlots : l[j].id = 1 /\ l[k].id = 2  BY <2>2 DEF GuiOwner
      <4>2. PICK x \in GuiSlots, y \in GuiSlots : m[x].id = l[j].id /\ m[y].id = l[k].id  BY <2>9, <4>1
      <4> QED BY <4>1, <4>2
    <3> QED BY <3>1, <3>2, <3>3 DEF GuiOwner
  <2>14. GuiPlaced(m, v) /\ GuiTitles(m, v)
    <3> SUFFICES ASSUME NEW j \in GuiPlaces, NEW k \in GuiSlots, v.list[j].id # 0
                 PROVE  GuiFits(m[k], v.list[j]) /\ GuiTitle(m[k], v.list[j], v.focus)
      BY DEF GuiPlaced, GuiTitles
    <3>1. v.list[j] = w.list[j] /\ w.list[j].id # 0  BY <2>10
    <3>2. PICK d : d = w.list[j]  OBVIOUS
    <3>3. d.frame # 0 /\ d.client # 0
      <4>1. w.list[j].frame > 2 /\ w.list[j].client > 2  BY <2>2, <3>1, GuiApart
      <4> QED BY <3>2, <4>1
    <3>4. CASE m[k].id = 0  BY <3>1, <3>2, <3>3, <3>4 DEF GuiFits, GuiTitle
    <3>5. CASE m[k].id # 0
      <4>1. PICK r \in GuiSlots :
               /\ m[k].id = l[r].id /\ m[k].y = l[r].y /\ m[k].h = l[r].h /\ m[k].visible = l[r].visible
               /\ l[r].id = a => m[k].look = "lit"
               /\ l[r].id # a /\ l[r].id # old => m[k].look = l[r].look
               /\ l[r].id # a /\ l[r].id = old => m[k].look = "unlit"
        BY <2>9, <3>5 DEF GuiLitOver
      <4>2. GuiFits(l[r], d)  BY <2>2, <3>1, <3>2 DEF GuiPlaced
      <4>3. GuiFits(m[k], d)  BY <4>1, <4>2 DEF GuiFits
      <4>4. GuiTitle(m[k], d, id)
        <5>1. CASE j = i
          <6>1. d = win /\ d.id = id  BY <2>3, <2>4, <3>2, <5>1
          <6> QED BY <2>5, <4>1, <6>1 DEF GuiTitle
        <5>2. CASE j # i
          <6>1. d.id # id /\ d.id # 0  BY <2>2, <2>3, <3>1, <3>2, <5>2 DEF GuiManager
          <6>2. d.frame # a  BY <2>2, <2>3, <2>4, <2>5, <3>1, <3>2, <5>2, GuiApart
          <6>3. d.id = w.focus => d.frame = old  BY <2>12, <3>2, <6>1 DEF GuiOldFrame
          <6>4. GuiTitle(l[r], d, w.focus)  BY <2>2, <3>2, <6>1 DEF GuiTitlesBut
          <6> QED BY <4>1, <6>1, <6>2, <6>3, <6>4 DEF GuiTitle
        <5> QED BY <5>1, <5>2
      <4> QED BY <2>10, <3>1, <3>2, <4>3, <4>4
    <3> QED BY <3>4, <3>5
  <2>15. GuiScreen(Redrawn(st.g, m, {old, a, b})) /\ Redrawn(st.g, m, {old, a, b}).list = m
    BY <2>1, <2>2, <2>9, GuiRedrawn
  <2>16. wm_focus(st, id) = [g |-> Redrawn(st.g, m, {old, a, b}), w |-> v]
    BY <1>2, <2>1, <2>3, <2>4, <2>5, <2>6, <2>7, <2>8 DEF wm_focus, FocusOf, wm_draw_frame, TitleLook, GuiRefocused
  <2> QED BY <2>1, <2>9, <2>10, <2>11, <2>13, <2>14, <2>15, <2>16 DEF GuiState, GuiWorld
<1> QED BY <1>1, <1>2

LEMMA GuiStateFocused ==
  ASSUME NEW st, GuiState(st), NEW id
  PROVE  GuiState(wm_focus(st, id)) /\ wm_focus(st, id).w.drag = st.w.drag /\ wm_focus(st, id).w.grip = st.w.grip
<1>1. GuiAlmost(st.g.list, st.w, id) /\ GuiScreen(st.g) /\ GuiTitles(st.g.list, st.w)
  BY DEF GuiState, GuiWorld, GuiAlmost, GuiTitles, GuiTitlesBut
<1> QED BY <1>1, GuiFocused

\* wm_restore: both surfaces are shown again, then the window is focused.
LEMMA GuiRestored ==
  ASSUME NEW st, GuiState(st), NEW id
  PROVE  GuiState(wm_restore(st, id))
<1>1. CASE wm_get(st.w, id) = {} \/ ~Window(st.w, id).minimized  BY <1>1 DEF wm_restore
<1>2. CASE wm_get(st.w, id) # {} /\ Window(st.w, id).minimized
  <2>1. PICK l, w : l = st.g.list /\ w = st.w  OBVIOUS
  <2>2. GuiTable(l) /\ GuiPairs(l) /\ GuiManager(w) /\ GuiOwner(l, w) /\ GuiPlaced(l, w) /\ GuiTitles(l, w)
        /\ GuiScreen(st.g)
    BY <2>1 DEF GuiState, GuiWorld
  <2>3. PICK i \in GuiPlaces : id # 0 /\ w.list[i].id = id /\ Window(w, id) = w.list[i] /\ wm_get(w, id) = {i}
    BY <1>2, <2>1, <2>2, GuiFound
  <2>4. PICK win \in GuiWindow : win = w.list[i] /\ win.id # 0 /\ win.h >= 2 /\ win.minimized
    BY <1>2, <2>1, <2>2, <2>3 DEF GuiManager, GuiManagers
  <2>5. PICK a \in Nat, b \in Nat : a = win.frame /\ b = win.client /\ a # 0 /\ b # 0 /\ a # b
    BY <2>2, <2>3, <2>4, GuiApart
  <2>6. PICK u : u = [win EXCEPT !.minimized = FALSE]  OBVIOUS
  <2>7. /\ u \in GuiWindow /\ u.id = win.id /\ u.frame = win.frame /\ u.client = win.client /\ u.h = win.h
        /\ u.y = win.y /\ u.minimized = FALSE
    BY <2>6 DEF GuiWindow
  <2>8. PICK v : v = SetWindow(w, id, u)  OBVIOUS
  <2>9. GuiPut(w, v, i, u) /\ v.focus = w.focus  BY <2>2, <2>3, <2>7, <2>8, GuiSet
  <2>10. GuiManager(v) /\ GuiOwner(l, v)
    <3>1. v.focus = u.id => ~u.minimized  BY <2>7
    <3> QED BY <2>2, <2>3, <2>4, <2>7, <2>9, <3>1, GuiReplaced
  <2>11. w.focus # id  BY <2>2, <2>3, <2>4 DEF GuiManager
  <2>12. PICK m : m = comp_set_visible(l, {a, b}, TRUE)  OBVIOUS
  <2>13. GuiShownAs(l, m, {a, b}, TRUE)  BY <2>2, <2>12, GuiShowEdits
  <2>14. GuiPlaced(m, v) /\ GuiTitlesBut(m, v, id)
    <3> SUFFICES ASSUME NEW j \in GuiPlaces, NEW k \in GuiSlots, v.list[j].id # 0
                 PROVE  GuiFits(m[k], v.list[j]) /\ (v.list[j].id # id => GuiTitle(m[k], v.list[j], v.focus))
      BY DEF GuiPlaced, GuiTitlesBut
    <3>1. w.list[j].id # 0  BY <2>3, <2>4, <2>7, <2>9 DEF GuiPut
    <3>2. GuiFits(l[k], w.list[j]) /\ GuiTitle(l[k], w.list[j], w.focus)  BY <2>2, <3>1 DEF GuiPlaced, GuiTitles
    <3>3. CASE j = i
      <4>1. v.list[j] = u  BY <2>9, <3>3 DEF GuiPut
      <4>2. GuiFits(l[k], win)  BY <2>4, <3>2, <3>3
      <4>3. GuiFits(m[k], u)  BY <2>5, <2>7, <2>13, <4>2 DEF GuiFits, GuiEdited, GuiShownAs
      <4> QED BY <2>3, <2>4, <2>7, <4>1, <4>3
    <3>4. CASE j # i
      <4>1. w.list[j].frame \notin {a, b} /\ w.list[j].client \notin {a, b}
        BY <2>2, <2>3, <2>4, <2>5, <3>1, <3>4, GuiApart
      <4>2. v.list[j] = w.list[j]  BY <2>9, <3>4 DEF GuiPut
      <4> QED BY <2>9, <2>13, <3>2, <4>1, <4>2 DEF GuiFits, GuiTitle, GuiEdited, GuiShownAs
    <3> QED BY <3>3, <3>4
  <2>15. 0 \notin {a, b} /\ GuiEdited(l, m, {a, b})  BY <2>5, <2>13 DEF GuiShownAs
  <2>16. GuiTable(m) /\ GuiSame(l, m, {a, b}) /\ GuiPairs(m) /\ GuiOwner(m, v)
    BY <2>2, <2>10, <2>15, GuiEditKeeps
  <2>17. PICK g : g = Redrawn(st.g, m, {a, b})  OBVIOUS
  <2>18. GuiScreen(g) /\ g.list = m  BY <2>1, <2>2, <2>16, <2>17, GuiRedrawn
  <2>19. PICK s2 : s2 = [g |-> g, w |-> v]  OBVIOUS
  <2>20. s2.g = g /\ s2.w = v  BY <2>19
  <2>21. GuiAlmost(s2.g.list, s2.w, id) /\ GuiScreen(s2.g)  BY <2>10, <2>14, <2>16, <2>18, <2>20 DEF GuiAlmost
  <2>22. ~(wm_get(s2.w, id) = {} \/ Window(s2.w, id).minimized \/ s2.w.focus = id)
    <3>1. v.list[i] = u  BY <2>9 DEF GuiPut
    <3>2. wm_get(v, id) = {i}
      <4>1. \A j \in GuiPlaces : v.list[j].id = id <=> j = i
        BY <2>2, <2>3, <2>4, <2>7, <2>9 DEF GuiPut, GuiManager
      <4> QED BY <2>3, <4>1 DEF wm_get, GuiPlaces
    <3>3. Window(v, id) = u  BY <3>1, <3>2 DEF Window
    <3> QED BY <2>7, <2>9, <2>11, <2>20, <3>2, <3>3
  <2>23. wm_restore(st, id) = wm_focus(s2, id)
    BY <1>2, <2>1, <2>3, <2>4, <2>5, <2>6, <2>8, <2>12, <2>17, <2>19 DEF wm_restore
  <2> QED BY <2>21, <2>22, <2>23, GuiFocused
<1> QED BY <1>1, <1>2

\* The drag: wm_drag_start, wm_drag_to and the end of a drag.
LEMMA GuiHeld ==
  ASSUME NEW l, NEW w, GuiWorld(l, w), NEW v, v \in GuiManagers,
         v.list = w.list, v.next = w.next, v.focus = w.focus
  PROVE  GuiWorld(l, v)
<1>1. GuiManager(v)  BY DEF GuiWorld, GuiManager
<1>2. GuiOwner(l, v) /\ GuiPlaced(l, v) /\ GuiTitles(l, v)  BY DEF GuiWorld, GuiOwner, GuiPlaced, GuiTitles
<1> QED BY <1>1, <1>2 DEF GuiWorld

LEMMA GuiGripped ==
  ASSUME NEW st, GuiState(st), NEW d \in Nat, NEW y \in Int
  PROVE  GuiState([st EXCEPT !.w.drag = d, !.w.grip = y]) /\ GuiState([st EXCEPT !.w.drag = d])
<1>1. PICK w : w = st.w  OBVIOUS
<1>2. w \in GuiManagers /\ GuiWorld(st.g.list, w) /\ GuiScreen(st.g)  BY <1>1 DEF GuiState, GuiWorld, GuiManager
<1>3. PICK u, v : u = [w EXCEPT !.drag = d] /\ v = [u EXCEPT !.grip = y]  OBVIOUS
<1>4. u \in GuiManagers /\ u.list = w.list /\ u.next = w.next /\ u.focus = w.focus
  BY <1>2, <1>3 DEF GuiManagers
<1>5. v \in GuiManagers /\ v.list = w.list /\ v.next = w.next /\ v.focus = w.focus
  BY <1>3, <1>4 DEF GuiManagers
<1>6. GuiWorld(st.g.list, u) /\ GuiWorld(st.g.list, v)  BY <1>2, <1>4, <1>5, GuiHeld
<1>7. PICK s1, s2 : s1 = [st EXCEPT !.w.drag = d] /\ s2 = [st EXCEPT !.w.drag = d, !.w.grip = y]  OBVIOUS
<1>8. s1.g = st.g /\ (s1.w = u \/ s1.w = w)  BY <1>1, <1>3, <1>7
<1>9. s2.g = st.g /\ (s2.w = v \/ s2.w = w)  BY <1>1, <1>3, <1>7
<1>10. GuiState(s1) /\ GuiState(s2)  BY <1>2, <1>6, <1>8, <1>9 DEF GuiState
<1> QED BY <1>7, <1>10

LEMMA GuiDragged ==
  ASSUME NEW st, GuiState(st), NEW c \in Int
  PROVE  GuiState(wm_drag_to(st, c))
<1>1. st.w.grip \in Int  BY DEF GuiState, GuiWorld, GuiManager, GuiManagers
<1>2. c - st.w.grip \in Int  BY <1>1
<1>3. GuiState(wm_move(st, st.w.drag, c - st.w.grip))  BY <1>2, GuiMoved
<1> QED BY <1>3 DEF wm_drag_to

LEMMA GuiDragStarted ==
  ASSUME NEW st, GuiState(st), NEW id \in Nat, NEW c \in Int
  PROVE  GuiState(wm_drag_start(st, id, c))
<1>1. CASE wm_get(st.w, id) = {} \/ Window(st.w, id).minimized  BY <1>1, GuiGripped DEF wm_drag_start
<1>2. CASE ~(wm_get(st.w, id) = {} \/ Window(st.w, id).minimized)
  <2>1. PICK w : w = st.w  OBVIOUS
  <2>2. GuiManager(w)  BY <2>1 DEF GuiState, GuiWorld
  <2>3. PICK i \in GuiPlaces : Window(w, id) = w.list[i]  BY <1>2, <2>1, <2>2, GuiFound
  <2>4. PICK y \in Int : y = c - Window(st.w, id).y
    <3>1. w.list[i].y \in Int  BY <2>2 DEF GuiManager, GuiManagers, GuiWindow
    <3> QED BY <2>1, <2>3, <3>1
  <2>5. GuiState([st EXCEPT !.w.drag = id, !.w.grip = y])  BY GuiGripped
  <2> QED BY <1>2, <2>4, <2>5, GuiStateFocused DEF wm_drag_start
<1> QED BY <1>1, <1>2

\* A click and a movement of the pointer.
LEMMA GuiHit ==
  ASSUME NEW g, NEW w, GuiManager(w), NEW c
  PROVE  wm_hit_test(g, w, c) \in Nat
<1> DEFINE here  == {i \in GuiPlaces : /\ w.list[i].id # 0 /\ ~w.list[i].minimized
                                       /\ w.list[i].y <= c /\ c < w.list[i].y + w.list[i].h}
           owned(k, i) == g.list[k].id \in {w.list[i].frame, w.list[i].client}
           under == {k \in GuiSlots : \E i \in here : owned(k, i)}
           top   == CHOOSE k \in under : \A j \in under : j <= k
           win   == CHOOSE i \in here : owned(top, i)
<1>1. wm_hit_test(g, w, c) = IF under = {} THEN 0 ELSE w.list[win].id  BY DEF wm_hit_test, GuiPlaces, GuiSlots
<1>2. ASSUME under # {} PROVE w.list[win].id \in Nat
  <2>1. COMP_MAX \in Nat /\ under \subseteq 0 .. COMP_MAX  BY GuiSizes DEF GuiSlots
  <2>2. top \in under
    <3> HIDE DEF under
    <3> QED BY <1>2, <2>1, GuiGreatest
  <2>3. \E i \in here : owned(top, i)
    <3> HIDE DEF top, here, owned
    <3> QED BY <2>2
  <2>4. win \in here
    <3> HIDE DEF here, owned, top
    <3> QED BY <2>3
  <2>5. win \in GuiPlaces
    <3> HIDE DEF win
    <3> QED BY <2>4
  <2> HIDE DEF win
  <2> QED BY <2>5 DEF GuiManager, GuiManagers, GuiWindow
<1>3. w.list[win].id \in Nat \/ under = {}  BY <1>2
<1> HIDE DEF under, win
<1> QED BY <1>1, <1>3

GuiRouter(r) == DOMAIN r = {"row", "btn", "drag"} /\ r.row \in GuiCells /\ r.drag \in Nat

LEMMA GuiPointerTo ==
  ASSUME NEW st, GuiState(st), NEW c \in GuiCells
  PROVE  GuiState(PointerTo(st, c))
<1>1. PICK g : g = comp_cursor_move(st.g, c)  OBVIOUS
<1>2. GuiScreen(g) /\ g.list = st.g.list  BY <1>1, GuiPointed DEF GuiState
<1>3. PICK moved : moved = [st EXCEPT !.g = g]  OBVIOUS
<1>4. GuiState(moved)
  <2>1. moved.w = st.w /\ (moved.g = g \/ moved.g = st.g)  BY <1>3
  <2> QED BY <1>2, <2>1 DEF GuiState
<1>5. c \in Int  BY GuiSizes DEF GuiCells
<1>6. GuiState(wm_drag_to(moved, c))  BY <1>4, <1>5, GuiDragged
<1>7. PointerTo(st, c) = IF inr.drag # 0 /\ vt_cur = "gui" THEN wm_drag_to(moved, c) ELSE moved
  BY <1>1, <1>3 DEF PointerTo
<1> QED BY <1>4, <1>6, <1>7

LEMMA GuiClicked ==
  ASSUME NEW st, GuiState(st), NEW c \in GuiCells, NEW b, GuiRouter(inr)
  PROVE  GuiState(Clicked(st, c, b).st) /\ GuiRouter(Clicked(st, c, b).inr)
<1>1. PICK hit \in Nat : hit = wm_hit_test(st.g, st.w, c)  BY GuiHit DEF GuiState, GuiWorld
<1>2. PICK lit : lit = wm_focus(st, hit)  OBVIOUS
<1>3. GuiState(lit)  BY <1>2, GuiStateFocused
<1>4. c \in Int  BY GuiSizes DEF GuiCells
<1>5. PICK held : held = wm_drag_start(lit, hit, c)  OBVIOUS
<1>6. GuiState(held)  BY <1>3, <1>4, <1>5, GuiDragStarted
<1>7. PICK let : let = [wm_drag_to(st, c) EXCEPT !.w.drag = 0, !.w.grip = 0]  OBVIOUS
<1>8. GuiState(let)
  <2>1. PICK t : t = wm_drag_to(st, c)  OBVIOUS
  <2>2. GuiState(t)  BY <1>4, <2>1, GuiDragged
  <2>3. PICK z : z = 0 /\ z \in Nat /\ z \in Int  OBVIOUS
  <2>4. GuiState([t EXCEPT !.w.drag = z, !.w.grip = z])  BY <2>2, <2>3, GuiGripped
  <2> QED BY <1>7, <2>1, <2>3, <2>4
<1>9. PICK here : here = [row |-> c, btn |-> b, drag |-> inr.drag]  OBVIOUS
<1>10. GuiRouter(here) /\ GuiRouter([here EXCEPT !.drag = hit]) /\ GuiRouter([here EXCEPT !.drag = 0])
  BY <1>9 DEF GuiRouter
<1>11. \/ Clicked(st, c, b) = [st |-> st, inr |-> here]
       \/ Clicked(st, c, b) = [st |-> lit, inr |-> here]
       \/ Clicked(st, c, b) = [st |-> held, inr |-> [here EXCEPT !.drag = hit]]
       \/ Clicked(st, c, b) = [st |-> let, inr |-> [here EXCEPT !.drag = 0]]
  BY <1>1, <1>2, <1>5, <1>7, <1>9 DEF Clicked
<1> QED BY <1>3, <1>6, <1>8, <1>10, <1>11

\* Every command of the window server, every event and both switches.
LEMMA GuiBecomes ==
  ASSUME NEW st, GuiState(st), DesktopBecomes(st)
  PROVE  GuiWorld(comp'.list, wm') /\ GuiScreen(comp')
BY DEF GuiState, DesktopBecomes

LEMMA GuiSeen == GuiIInv => GuiState(Seen(comp))
BY DEF GuiIInv, GuiState, Seen

LEMMA GuiInput ==
  ASSUME GuiIInv, GuiWorld(comp'.list, wm') /\ GuiScreen(comp'), UNCHANGED <<inr, vt_cur>>
  PROVE  GuiIInv'
BY DEF GuiIInv

LEMMA GuiCommandSteps ==
  ASSUME GuiIInv,
         \/ WCmdCreate(comp)
         \/ \E id \in ClientIds, y \in {0, GuiRows - 1} : WCmdMove(comp, id, y)
         \/ \E id \in ClientIds : WCmdFocus(comp, id)
         \/ \E id \in ClientIds, h \in GuiHeights : WCmdResize(comp, id, h)
         \/ \E id \in ClientIds : WCmdMinimize(comp, id)
         \/ \E id \in ClientIds : WCmdRestore(comp, id)
         \/ \E id \in ClientIds : WCmdDestroy(comp, id)
  PROVE  GuiIInv'
<1>1. GuiState(Seen(comp))  BY GuiSeen
<1>2. CASE WCmdCreate(comp)
  <2>1. PICK ok1 \in BOOLEAN, ok2 \in BOOLEAN : DesktopBecomes(wm_create(Seen(comp), 2, ok1, ok2))
    BY <1>2 DEF WCmdCreate
  <2>2. UNCHANGED <<inr, vt_cur>>  BY <1>2 DEF WCmdCreate
  <2>3. PICK h \in Nat : h = 2 /\ h >= 2  OBVIOUS
  <2>4. GuiState(wm_create(Seen(comp), h, ok1, ok2))  BY <1>1, <2>3, GuiCreated
  <2> QED BY <2>1, <2>2, <2>3, <2>4, GuiBecomes, GuiInput
<1>3. ASSUME NEW id \in ClientIds, NEW y \in {0, GuiRows - 1}, WCmdMove(comp, id, y) PROVE GuiIInv'
  <2>1. y \in Int  BY GuiSizes
  <2>2. GuiState(wm_move(Seen(comp), id, y))  BY <1>1, <2>1, GuiMoved
  <2> QED BY <1>3, <2>2, GuiBecomes, GuiInput DEF WCmdMove
<1>4. ASSUME NEW id \in ClientIds, WCmdFocus(comp, id) PROVE GuiIInv'
  <2>1. GuiState(wm_focus(Seen(comp), id))  BY <1>1, GuiStateFocused
  <2> QED BY <1>4, <2>1, GuiBecomes, GuiInput DEF WCmdFocus
<1>5. ASSUME NEW id \in ClientIds, NEW h \in GuiHeights, WCmdResize(comp, id, h) PROVE GuiIInv'
  <2>1. PICK ok1 \in BOOLEAN, ok2 \in BOOLEAN : DesktopBecomes(wm_resize(Seen(comp), id, h, ok1, ok2))
    BY <1>5 DEF WCmdResize
  <2>2. UNCHANGED <<inr, vt_cur>>  BY <1>5 DEF WCmdResize
  <2>3. h \in Nat /\ h >= 2  BY GuiSizes
  <2>4. GuiState(wm_resize(Seen(comp), id, h, ok1, ok2))  BY <1>1, <2>3, GuiResized
  <2> QED BY <2>1, <2>2, <2>4, GuiBecomes, GuiInput
<1>6. ASSUME NEW id \in ClientIds, WCmdMinimize(comp, id) PROVE GuiIInv'
  <2>1. GuiState(wm_minimize(Seen(comp), id))  BY <1>1, GuiMinimized
  <2> QED BY <1>6, <2>1, GuiBecomes, GuiInput DEF WCmdMinimize
<1>7. ASSUME NEW id \in ClientIds, WCmdRestore(comp, id) PROVE GuiIInv'
  <2>1. GuiState(wm_restore(Seen(comp), id))  BY <1>1, GuiRestored
  <2> QED BY <1>7, <2>1, GuiBecomes, GuiInput DEF WCmdRestore
<1>8. ASSUME NEW id \in ClientIds, WCmdDestroy(comp, id) PROVE GuiIInv'
  <2>1. GuiState(wm_destroy(Seen(comp), id))  BY <1>1, GuiDestroyed
  <2> QED BY <1>8, <2>1, GuiBecomes, GuiInput DEF WCmdDestroy
<1> QED BY <1>2, <1>3, <1>4, <1>5, <1>6, <1>7, <1>8

LEMMA GuiMouseSteps ==
  ASSUME GuiIInv, NEW c \in GuiCells, NEW b \in {0, 1}, MouseEvent(comp, c, b)
  PROVE  GuiIInv'
<1>1. PICK moved : moved = IF c = inr.row THEN Seen(comp) ELSE PointerTo(Seen(comp), c)  OBVIOUS
<1>2. PICK done : done = Clicked(moved, c, b) /\ DesktopBecomes(done.st) /\ inr' = done.inr /\ vt_cur' = vt_cur
  BY <1>1 DEF MouseEvent
<1>3. GuiState(moved)  BY <1>1, GuiSeen, GuiPointerTo
<1>4. GuiRouter(inr)  BY DEF GuiIInv, GuiRouter
<1>5. GuiState(done.st) /\ GuiRouter(done.inr)  BY <1>2, <1>3, <1>4, GuiClicked
<1>6. GuiWorld(comp'.list, wm') /\ GuiScreen(comp')  BY <1>2, <1>5, GuiBecomes
<1> QED BY <1>2, <1>5, <1>6 DEF GuiIInv, GuiRouter

LEMMA GuiSwitchSteps == GuiIInv /\ (VtText(comp) \/ VtGui(comp)) => GuiIInv'
<1> SUFFICES ASSUME GuiIInv, VtText(comp) \/ VtGui(comp) PROVE GuiIInv'  OBVIOUS
<1>1. PICK g : g = comp  OBVIOUS
<1>2. DOMAIN g = GuiFields /\ g.dirty \in Int \X Int /\ g.cursor \in [on : BOOLEAN, y : GuiCells] /\ GuiWorld(g.list, wm)
  BY <1>1 DEF GuiIInv, GuiScreen, GuiFields
<1>3. inr.row \in GuiCells  BY DEF GuiIInv
<1>4. CASE VtText(comp)
  <2>1. PICK rows : rows = {c \in GuiCells : g.cursor.on /\ c = g.cursor.y}  OBVIOUS
  <2>2. PICK d : d = dmg_add(g, rows)  OBVIOUS
  <2>3. rows \subseteq GuiCells  BY <2>1
  <2>4. /\ DOMAIN d = GuiFields /\ d.dirty \in Int \X Int
        /\ d.list = g.list /\ d.cursor = g.cursor
    BY <1>2, <2>2, <2>3, GuiDamage
  <2>5. PICK e : e = [d EXCEPT !.cursor.on = FALSE]  OBVIOUS
  <2>6. DOMAIN e = GuiFields /\ e.dirty = d.dirty /\ e.list = g.list /\ e.cursor = [g.cursor EXCEPT !.on = FALSE]
    BY <2>4, <2>5 DEF GuiFields
  <2>7. e.cursor \in [on : BOOLEAN, y : GuiCells]  BY <1>2, <2>6
  <2>8. PICK text : text = [c \in GuiCells |-> TextRow]  OBVIOUS
  <2>9. comp' = [e EXCEPT !.layer = FALSE, !.back = text, !.front = text]
    BY <1>1, <1>4, <2>1, <2>2, <2>5, <2>8 DEF VtText, comp_cursor_hide
  <2>10. /\ DOMAIN comp' = GuiFields /\ comp'.dirty = d.dirty /\ comp'.list = g.list /\ comp'.cursor = e.cursor
         /\ comp'.layer = FALSE
    BY <2>6, <2>9 DEF GuiFields
  <2>11. GuiScreen(comp')  BY <2>4, <2>7, <2>10 DEF GuiScreen, GuiFields
  <2>12. vt_cur' = "text" /\ wm' = wm /\ inr' = inr  BY <1>4 DEF VtText
  <2> QED BY <1>2, <2>10, <2>11, <2>12 DEF GuiIInv
<1>5. CASE VtGui(comp)
  <2>1. PICK here : here = [on |-> TRUE, y |-> 0]  OBVIOUS
  <2>2. PICK e : e = [g EXCEPT !.layer = TRUE, !.cursor = here]  OBVIOUS
  <2>3. DOMAIN e = GuiFields /\ e.dirty = g.dirty /\ e.list = g.list /\ e.layer = TRUE /\ e.cursor = here
    BY <1>2, <2>2 DEF GuiFields
  <2>4. PICK rows : rows = {inr.row} \cup {c \in GuiCells : e.cursor.on /\ c = e.cursor.y}  OBVIOUS
  <2>5. PICK d : d = dmg_add(e, rows)  OBVIOUS
  <2>6. rows \subseteq GuiCells  BY <1>3, <2>4
  <2>7. DOMAIN d = GuiFields /\ d.dirty \in Int \X Int /\ d.list = g.list /\ d.layer = TRUE
    BY <1>2, <2>3, <2>5, <2>6, GuiDamage
  <2>8. PICK h : h = [d EXCEPT !.cursor = [on |-> TRUE, y |-> inr.row]]  OBVIOUS
  <2>9. DOMAIN h = GuiFields /\ h.dirty = d.dirty /\ h.list = g.list /\ h.layer = TRUE /\ h.cursor = [on |-> TRUE, y |-> inr.row]
    BY <2>7, <2>8 DEF GuiFields
  <2>10. h.cursor \in [on : BOOLEAN, y : GuiCells]  BY <1>3, <2>9
  <2>11. GuiScreen(comp_full_repaint(h)) /\ comp_full_repaint(h).list = g.list
    BY <2>7, <2>9, <2>10, GuiRepainted
  <2>12. comp' = comp_full_repaint(h)  BY <1>1, <1>5, <2>1, <2>2, <2>4, <2>5, <2>8 DEF VtGui, comp_cursor_move
  <2>13. vt_cur' = "gui" /\ wm' = wm /\ inr' = inr  BY <1>5 DEF VtGui
  <2> QED BY <1>2, <2>11, <2>12, <2>13 DEF GuiIInv
<1> QED BY <1>4, <1>5

LEMMA GuiCompositeSteps == GuiIInv /\ Composited(comp) => GuiIInv'
<1> SUFFICES ASSUME GuiIInv, Composited(comp) PROVE GuiIInv'  OBVIOUS
<1>1. comp' = comp_composite(comp) /\ UNCHANGED <<wm, inr, vt_cur>>  BY DEF Composited
<1>2. GuiScreen(comp') /\ comp'.list = comp.list  BY <1>1, GuiComposed DEF GuiIInv
<1> QED BY <1>1, <1>2, GuiInput DEF GuiIInv

LEMMA GuiSteps == GuiIInv /\ GuiOperation(comp) => GuiIInv'
<1> SUFFICES ASSUME GuiIInv, GuiOperation(comp) PROVE GuiIInv'  OBVIOUS
<1>1. CASE \E c \in GuiCells, b \in {0, 1} : MouseEvent(comp, c, b)  BY <1>1, GuiMouseSteps
<1>2. CASE VtText(comp) \/ VtGui(comp) \/ Composited(comp)  BY <1>2, GuiSwitchSteps, GuiCompositeSteps
<1>3. CASE /\ ~(VtText(comp) \/ VtGui(comp) \/ Composited(comp))
           /\ ~(\E c \in GuiCells, b \in {0, 1} : MouseEvent(comp, c, b))
  BY <1>3, GuiCommandSteps DEF GuiOperation
<1> QED BY <1>1, <1>2, <1>3

LEMMA GuiStill == GuiIInv /\ UNCHANGED <<comp, wm, inr, vt_cur>> => GuiIInv'
BY DEF GuiIInv

\* The desktop after boot: the panel and the icons.
LEMMA GuiBoot ==
  ASSUME NEW l, l = [i \in GuiSlots |-> BootSurface(i)],
         NEW w, w = [list |-> [i \in GuiPlaces |-> NoWindow], next |-> 1, focus |-> 0, drag |-> 0, grip |-> 0]
  PROVE  GuiWorld(l, w)
<1>1. /\ GuiRows \in Nat /\ GuiRows - 1 \in Int /\ COMP_MAX \in Nat /\ 1 \in GuiSlots /\ 2 \in GuiSlots
      /\ \A k \in GuiSlots : k \in Nat /\ k # 0
  BY GuiSizes DEF GuiSlots
<1>2. /\ l[1] = [id |-> 1, y |-> GuiRows - 1, h |-> 1, visible |-> TRUE, look |-> "drawn"]
      /\ l[2] = [id |-> 2, y |-> 0, h |-> 1, visible |-> TRUE, look |-> "drawn"]
      /\ \A k \in GuiSlots : k # 1 /\ k # 2 => l[k] = NoSurface
  BY <1>1 DEF BootSurface
<1>3. NoSurface.id = 0 /\ NoSurface \in GuiSurface  BY DEF NoSurface, GuiSurface, GuiLooks
<1>4. l[1].id = 1 /\ l[2].id = 2 /\ \A k \in GuiSlots : k # 1 /\ k # 2 => l[k].id = 0  BY <1>2, <1>3
<1>5. l[1] \in GuiSurface /\ l[2] \in GuiSurface
  <2>1. [id |-> 1, y |-> GuiRows - 1, h |-> 1, visible |-> TRUE, look |-> "drawn"] \in GuiSurface
    BY <1>1 DEF GuiSurface, GuiLooks
  <2>2. [id |-> 2, y |-> 0, h |-> 1, visible |-> TRUE, look |-> "drawn"] \in GuiSurface
    BY DEF GuiSurface, GuiLooks
  <2> QED BY <1>2, <2>1, <2>2
<1>6. GuiTable(l)
  <2>1. l \in [GuiSlots -> GuiSurface]
    <3>1. \A k \in GuiSlots : l[k] \in GuiSurface  BY <1>2, <1>3, <1>5
    <3> QED BY <3>1
  <2>2. \A i, j \in GuiSlots : l[i].id # 0 /\ l[i].id = l[j].id => i = j  BY <1>4
  <2>3. \A i \in GuiSlots : l[i].id = 0 => l[i] = NoSurface  BY <1>2, <1>4
  <2> QED BY <2>1, <2>2, <2>3 DEF GuiTable
<1>7. GuiPairs(l)
  <2> SUFFICES ASSUME NEW q \in Nat, 2 * q + 1 \in GuiSlots
               PROVE  \/ l[2 * q + 1].id = 0 /\ (2 * q + 2 \in GuiSlots => l[2 * q + 2].id = 0)
                      \/ 2 * q + 2 \in GuiSlots /\ \E k \in Nat : l[2 * q + 1].id = 2 * k + 1 /\ l[2 * q + 2].id = 2 * k + 2
    BY DEF GuiPairs
  <2>1. CASE q = 0
    <3>1. 2 * q + 1 = 1 /\ 2 * q + 2 = 2 /\ l[1].id = 2 * q + 1 /\ l[2].id = 2 * q + 2  BY <1>4, <2>1
    <3> QED BY <1>1, <3>1
  <2>2. CASE q # 0
    <3>1. 2 * q + 1 # 1 /\ 2 * q + 1 # 2 /\ 2 * q + 2 # 1 /\ 2 * q + 2 # 2  BY <2>2
    <3> QED BY <1>4, <3>1
  <2> QED BY <2>1, <2>2
<1>8. /\ NoWindow \in GuiWindow /\ NoWindow.id = 0  BY DEF NoWindow, GuiWindow
<1>9. w.list = [i \in GuiPlaces |-> NoWindow] /\ w.next = 1 /\ w.focus = 0  OBVIOUS
<1>10. \A i \in GuiPlaces : w.list[i].id = 0  BY <1>8, <1>9
<1>11. w \in GuiManagers  BY <1>8 DEF GuiManagers
<1>12. GuiManager(w)  BY <1>9, <1>10, <1>11 DEF GuiManager
<1>13. GuiOwner(l, w)
  <2>1. \A k \in GuiSlots : l[k].id \in {0, 1, 2}  BY <1>4
  <2> QED BY <1>1, <1>4, <1>10, <2>1 DEF GuiOwner
<1>14. GuiPlaced(l, w) /\ GuiTitles(l, w)  BY <1>10 DEF GuiPlaced, GuiTitles
<1> QED BY <1>6, <1>7, <1>12, <1>13, <1>14 DEF GuiWorld

LEMMA GuiStart == guiInit => GuiIInv
<1> SUFFICES ASSUME guiInit PROVE GuiIInv  OBVIOUS
<1>1. PICK l : l = [i \in GuiSlots |-> BootSurface(i)]  OBVIOUS
<1>2. PICK text : text = [c \in GuiCells |-> TextRow]  OBVIOUS
<1>3. PICK here : here = [on |-> TRUE, y |-> 1]  OBVIOUS
<1>4. PICK g : g = [list |-> l, dirty |-> Clean, cursor |-> here, layer |-> TRUE, back |-> text, front |-> text]
  OBVIOUS
<1>5. 1 \in GuiCells  BY GuiSizes DEF GuiCells
<1>6. DOMAIN g = GuiFields /\ g.dirty = Clean /\ g.list = l /\ g.layer = TRUE /\ g.cursor = here
  BY <1>4 DEF GuiFields
<1>7. Clean \in Int \X Int /\ here \in [on : BOOLEAN, y : GuiCells]  BY <1>3, <1>5 DEF Clean
<1>8. GuiScreen(comp_full_repaint(g)) /\ comp_full_repaint(g).list = l  BY <1>6, <1>7, GuiRepainted
<1>9. comp = comp_full_repaint(g)  BY <1>1, <1>2, <1>3, <1>4 DEF guiInit, GuiSlots
<1>10. GuiWorld(l, wm)  BY <1>1, GuiBoot DEF guiInit, GuiPlaces
<1>11. DOMAIN inr = {"row", "btn", "drag"} /\ inr.row \in GuiCells /\ inr.drag \in Nat /\ vt_cur \in {"gui", "text"}
  BY <1>5 DEF guiInit
<1> QED BY <1>8, <1>9, <1>10, <1>11 DEF GuiIInv

\* What the invariant says of the screen, the stack and the titles.
LEMMA GuiFresh == GuiIInv => ScreenFresh
BY DEF GuiIInv, GuiScreen, ScreenFresh

LEMMA GuiClientsAbove == GuiIInv => ClientAboveFrame
<1> SUFFICES ASSUME GuiIInv, NEW i \in SurfaceUsed
             PROVE  \E j, k \in GuiSlots :
                       /\ j < k
                       /\ comp.list[j].id = wm.list[i].frame /\ comp.list[k].id = wm.list[i].client
  BY DEF ClientAboveFrame, GuiSlots
<1>1. i \in GuiPlaces /\ wm.list[i].id # 0  BY DEF SurfaceUsed, GuiPlaces
<1>2. PICK l, w : l = comp.list /\ w = wm  OBVIOUS
<1>3. GuiTable(l) /\ GuiPairs(l) /\ GuiManager(w) /\ GuiOwner(l, w)  BY <1>2 DEF GuiIInv, GuiWorld
<1>4. PICK a \in Nat : /\ 2 * a + 1 \in GuiSlots /\ 2 * a + 2 \in GuiSlots
                       /\ l[2 * a + 1].id = w.list[i].frame /\ l[2 * a + 2].id = w.list[i].client
  BY <1>1, <1>2, <1>3, GuiPairOf
<1>5. 2 * a + 1 < 2 * a + 2  OBVIOUS
<1> QED BY <1>2, <1>4, <1>5

LEMMA GuiTitlesTrue == GuiIInv => OneLitTitle
<1> SUFFICES ASSUME GuiIInv PROVE OneLitTitle  OBVIOUS
<1>1. PICK l, w : l = comp.list /\ w = wm  OBVIOUS
<1>2. GuiTable(l) /\ GuiManager(w) /\ GuiOwner(l, w) /\ GuiTitles(l, w)  BY <1>1 DEF GuiIInv, GuiWorld
<1>3. SurfaceUsed = {i \in GuiPlaces : w.list[i].id # 0}  BY <1>1 DEF SurfaceUsed, GuiPlaces
<1>4. w.focus # 0 => \E i \in SurfaceUsed : w.list[i].id = w.focus /\ ~w.list[i].minimized
  BY <1>2, <1>3 DEF GuiManager
<1>5. ASSUME NEW i \in SurfaceUsed, ~w.list[i].minimized
      PROVE  Surface(l, w.list[i].frame).look = "lit" <=> w.list[i].id = w.focus
  <2>1. i \in GuiPlaces /\ w.list[i].id # 0  BY <1>3
  <2>2. PICK j \in GuiSlots : l[j].id = w.list[i].frame  BY <1>2, <2>1 DEF GuiOwner
  <2>3. l[j].id # 0
    <3>1. w.list[i].frame > 2  BY <1>2, <2>1, GuiApart
    <3> QED BY <2>2, <3>1
  <2>4. Surface(l, w.list[i].frame) = l[j]  BY <1>2, <2>2, <2>3, GuiSurfaceAt
  <2>5. GuiTitle(l[j], w.list[i], w.focus)  BY <1>2, <2>1 DEF GuiTitles
  <2> QED BY <1>5, <2>2, <2>4, <2>5 DEF GuiTitle
<1> QED BY <1>1, <1>4, <1>5 DEF OneLitTitle

\* Surfaces are counted by their owners: one frame and one client for each
\* window, the panel and the icons.
LEMMA GuiCounted ==
  ASSUME NEW U, IsFiniteSet(U), NEW f, NEW T, f \in [U -> T],
         \A i, j \in U : f[i] = f[j] => i = j, \A k \in T : \E i \in U : f[i] = k
  PROVE  IsFiniteSet(T) /\ Cardinality(T) = Cardinality(U)
<1>1. f \in Bijection(U, T)  BY DEF Bijection, Injection, Surjection, IsInjective
<1>2. ExistsBijection(U, T)  BY <1>1 DEF ExistsBijection
<1> QED BY <1>2, FS_Bijection

LEMMA GuiOwned == GuiIInv => SurfacesOwned
<1> SUFFICES ASSUME GuiIInv PROVE SurfacesOwned  OBVIOUS
<1>1. PICK l, w : l = comp.list /\ w = wm  OBVIOUS
<1>2. GuiTable(l) /\ GuiManager(w) /\ GuiOwner(l, w)  BY <1>1 DEF GuiIInv, GuiWorld
<1>3. PICK U : U = {i \in GuiPlaces : w.list[i].id # 0}  OBVIOUS
<1>4. SurfaceUsed = U  BY <1>1, <1>3 DEF SurfaceUsed, GuiPlaces
<1>5. IsFiniteSet(U) /\ U \subseteq GuiPlaces /\ Cardinality(U) \in Nat
  BY <1>3, GuiSizes, FS_Subset, FS_CardinalityType
<1>6. \A i \in U : \E j, k \in GuiSlots : l[j].id = w.list[i].frame /\ l[k].id = w.list[i].client
  BY <1>2, <1>3 DEF GuiOwner
<1>7. \A i, j \in U : /\ w.list[i].frame # w.list[j].client /\ w.list[i].frame > 2 /\ w.list[i].client > 2
                      /\ w.list[i].frame \in Nat /\ w.list[i].client \in Nat
                      /\ i # j => w.list[i].frame # w.list[j].frame /\ w.list[i].client # w.list[j].client
  BY <1>2, <1>3, GuiApart
<1>8. \A i, j \in GuiSlots : l[i].id # 0 /\ l[i].id = l[j].id => i = j  BY <1>2 DEF GuiTable
<1>9. PICK F : F = {k \in GuiSlots : \E i \in U : l[k].id = w.list[i].frame}  OBVIOUS
<1>10. PICK C : C = {k \in GuiSlots : \E i \in U : l[k].id = w.list[i].client}  OBVIOUS
<1>11. PICK P : P = {k \in GuiSlots : l[k].id \in {1, 2}}  OBVIOUS
<1>12. {i \in GuiSlots : l[i].id # 0} = (P \cup F) \cup C
  <2>1. ASSUME NEW k \in GuiSlots, l[k].id # 0 PROVE k \in (P \cup F) \cup C
    <3>1. CASE l[k].id \in {1, 2}  BY <1>11, <3>1
    <3>2. CASE l[k].id \notin {0, 1, 2}
      <4>1. PICK i \in U : l[k].id \in {w.list[i].frame, w.list[i].client}  BY <1>2, <1>3, <3>2 DEF GuiOwner
      <4> QED BY <1>9, <1>10, <4>1
    <3> QED BY <2>1, <3>1, <3>2
  <2>2. ASSUME NEW k \in (P \cup F) \cup C PROVE k \in GuiSlots /\ l[k].id # 0
    <3>1. \A i \in U : w.list[i].frame # 0 /\ w.list[i].client # 0  BY <1>7
    <3> QED BY <1>9, <1>10, <1>11, <2>2, <3>1
  <2> QED BY <2>1, <2>2
<1>13. IsFiniteSet(F) /\ Cardinality(F) = Cardinality(U)
  <2>1. PICK f : f = [i \in U |-> CHOOSE k \in GuiSlots : l[k].id = w.list[i].frame]  OBVIOUS
  <2>2. \A i \in U : f[i] \in GuiSlots /\ l[f[i]].id = w.list[i].frame  BY <1>6, <2>1
  <2>3. f \in [U -> F]
    <3>1. \A i \in U : f[i] \in F  BY <1>9, <2>2
    <3> QED BY <2>1, <3>1
  <2>4. \A i, j \in U : f[i] = f[j] => i = j  BY <1>7, <2>2
  <2>5. \A k \in F : \E i \in U : f[i] = k
    <3> TAKE k \in F
    <3>1. PICK i \in U : k \in GuiSlots /\ l[k].id = w.list[i].frame  BY <1>9
    <3>2. l[k].id # 0  BY <1>7, <3>1
    <3> QED BY <1>8, <2>2, <3>1, <3>2
  <2> QED BY <1>5, <2>3, <2>4, <2>5, GuiCounted
<1>14. IsFiniteSet(C) /\ Cardinality(C) = Cardinality(U)
  <2>1. PICK f : f = [i \in U |-> CHOOSE k \in GuiSlots : l[k].id = w.list[i].client]  OBVIOUS
  <2>2. \A i \in U : f[i] \in GuiSlots /\ l[f[i]].id = w.list[i].client  BY <1>6, <2>1
  <2>3. f \in [U -> C]
    <3>1. \A i \in U : f[i] \in C  BY <1>10, <2>2
    <3> QED BY <2>1, <3>1
  <2>4. \A i, j \in U : f[i] = f[j] => i = j  BY <1>7, <2>2
  <2>5. \A k \in C : \E i \in U : f[i] = k
    <3> TAKE k \in C
    <3>1. PICK i \in U : k \in GuiSlots /\ l[k].id = w.list[i].client  BY <1>10
    <3>2. l[k].id # 0  BY <1>7, <3>1
    <3> QED BY <1>8, <2>2, <3>1, <3>2
  <2> QED BY <1>5, <2>3, <2>4, <2>5, GuiCounted
<1>15. IsFiniteSet(P) /\ Cardinality(P) = 2
  <2>1. PICK j \in GuiSlots, k \in GuiSlots : l[j].id = 1 /\ l[k].id = 2  BY <1>2 DEF GuiOwner
  <2>2. j # k /\ P = {j} \cup {k}  BY <1>8, <1>11, <2>1
  <2>3. IsFiniteSet({j}) /\ Cardinality({j}) = 1 /\ k \notin {j}  BY <2>2, FS_Singleton
  <2> QED BY <2>2, <2>3, FS_AddElement
<1>16. P \cap F = {}  BY <1>7, <1>9, <1>11
<1>17. (P \cup F) \cap C = {}  BY <1>7, <1>9, <1>10, <1>11
<1>18. Cardinality({}) = 0  BY FS_EmptySet
<1>19. IsFiniteSet(P \cup F) /\ Cardinality(P \cup F) = 2 + Cardinality(U)
  <2>1. Cardinality(P \cup F) = Cardinality(P) + Cardinality(F) - Cardinality(P \cap F) /\ IsFiniteSet(P \cup F)
    BY <1>13, <1>15, FS_Union
  <2>2. Cardinality(P \cap F) = 0  BY <1>16, <1>18
  <2> QED BY <1>5, <1>13, <1>15, <2>1, <2>2
<1>20. Cardinality((P \cup F) \cup C) = 2 + 2 * Cardinality(U)
  <2>1. Cardinality((P \cup F) \cup C) = Cardinality(P \cup F) + Cardinality(C) - Cardinality((P \cup F) \cap C)
    BY <1>14, <1>19, FS_Union
  <2>2. Cardinality((P \cup F) \cap C) = 0  BY <1>17, <1>18
  <2> QED BY <1>5, <1>14, <1>19, <2>1, <2>2
<1> QED BY <1>1, <1>4, <1>12, <1>20 DEF SurfacesOwned, GuiSlots

\* A click: of the surfaces whose windows hold the row, the topmost is the
\* one that is seen, because a frame and its client are neighbours.
GuiHolds(win, c) == win.id # 0 /\ ~win.minimized /\ win.y <= c /\ c < win.y + win.h

GuiShows(s, c) == s.visible /\ s.y <= c /\ c < s.y + s.h

LEMMA GuiUncovered ==
  ASSUME NEW l, NEW w, GuiTable(l), GuiPairs(l), GuiManager(w), GuiOwner(l, w), GuiPlaced(l, w),
         NEW c \in Int, NEW i \in GuiPlaces, w.list[i].id # 0, NEW j \in GuiPlaces, GuiHolds(w.list[j], c),
         NEW t \in GuiSlots, l[t].id \in {w.list[i].frame, w.list[i].client},
         \A k \in GuiSlots : GuiShows(l[k], c) => k <= t,
         NEW u \in GuiSlots, t <= u, l[u].id \in {w.list[j].frame, w.list[j].client},
         \A k \in GuiSlots : l[k].id \in {w.list[j].frame, w.list[j].client} => k <= u
  PROVE  j = i
<1> SUFFICES ASSUME j # i PROVE FALSE  OBVIOUS
<1>1. PICK win \in GuiWindow : win = w.list[j] /\ win.id # 0  BY DEF GuiManager, GuiManagers, GuiHolds
<1>2. win.y \in Int /\ win.h \in Nat /\ win.y <= c /\ c < win.y + win.h /\ ~win.minimized
  BY <1>1 DEF GuiWindow, GuiHolds
<1>3. PICK a \in Nat : /\ 2 * a + 1 \in GuiSlots /\ 2 * a + 2 \in GuiSlots
                       /\ l[2 * a + 1].id = win.frame /\ l[2 * a + 2].id = win.client
  BY <1>1, GuiPairOf
<1>4. PICK p \in GuiSlots, q \in GuiSlots : p = 2 * a + 1 /\ q = 2 * a + 2 /\ l[p].id = win.frame /\ l[q].id = win.client
  BY <1>3
<1>5. l[p].id # 0 /\ l[q].id # 0 /\ l[p].id # l[q].id
  <2>1. w.list[j].frame > 2 /\ w.list[j].client > 2 /\ w.list[j].frame # w.list[j].client  BY <1>1, GuiApart
  <2> QED BY <1>1, <1>4, <2>1
<1>6. u = p \/ u = q  BY <1>1, <1>4, <1>5 DEF GuiTable
<1>7. q <= u  BY <1>1, <1>4
<1>8. u = q /\ p = q - 1 /\ t \in Nat /\ q \in Nat
  <2>1. p < q /\ t \in Nat /\ p \in Nat /\ q \in Nat  BY <1>4, GuiSizes DEF GuiSlots
  <2> QED BY <1>4, <1>6, <1>7, <2>1
<1>9. l[t].id \notin {win.frame, win.client}  BY <1>1, GuiApart
<1>10. t < p
  <2>1. t # p /\ t # q  BY <1>4, <1>9
  <2> QED BY <1>8, <2>1
<1>11. GuiFits(l[p], win) /\ GuiFits(l[q], win)  BY <1>1 DEF GuiPlaced
<1>12. l[p].visible /\ l[p].y = win.y /\ l[p].h >= 1 /\ l[p].h \in Nat
  BY <1>2, <1>4, <1>11 DEF GuiFits, GuiTable, GuiSurface
<1>13. l[q].visible /\ l[q].y = win.y + 1 /\ l[q].h = win.h - 1  BY <1>2, <1>4, <1>11 DEF GuiFits
<1>14. CASE c = win.y
  <2>1. GuiShows(l[p], c)  BY <1>2, <1>12, <1>14 DEF GuiShows
  <2> QED BY <1>8, <1>10, <2>1
<1>15. CASE c # win.y
  <2>1. GuiShows(l[q], c)  BY <1>2, <1>13, <1>15 DEF GuiShows
  <2> QED BY <1>8, <1>10, <2>1
<1> QED BY <1>14, <1>15

LEMMA GuiHits == GuiIInv => HitIsSeen
<1> SUFFICES ASSUME GuiIInv, NEW c \in GuiCells, NEW i \in SurfaceUsed,
                    TopSurface(comp, c).id \in {wm.list[i].frame, wm.list[i].client},
                    wm.list[i].y <= c /\ c < wm.list[i].y + wm.list[i].h
             PROVE  wm_hit_test(comp, wm, c) = wm.list[i].id
  BY DEF HitIsSeen
<1>1. PICK l, w, g : g = comp /\ l = g.list /\ w = wm  OBVIOUS
<1>2. GuiTable(l) /\ GuiPairs(l) /\ GuiManager(w) /\ GuiOwner(l, w) /\ GuiPlaced(l, w)
  BY <1>1 DEF GuiIInv, GuiWorld
<1>3. i \in GuiPlaces /\ w.list[i].id # 0  BY <1>1 DEF SurfaceUsed, GuiPlaces
<1>4. COMP_MAX \in Nat /\ (\A k \in GuiSlots : k \in Nat) /\ c \in Int /\ GuiSlots \subseteq 0 .. COMP_MAX
  BY GuiSizes DEF GuiSlots, GuiCells
<1>5. PICK cover : cover = {k \in GuiSlots : GuiShows(l[k], c)}  OBVIOUS
<1>6. PICK t : t = CHOOSE k \in cover : \A j \in cover : j <= k  OBVIOUS
<1>7. TopSurface(g, c) = IF cover = {} THEN NoSurface ELSE l[t]
  BY <1>1, <1>5, <1>6 DEF TopSurface, GuiSlots, GuiShows
<1>8. w.list[i].frame # 0 /\ w.list[i].client # 0
  <2>1. w.list[i].frame > 2 /\ w.list[i].client > 2  BY <1>2, <1>3, GuiApart
  <2> QED BY <2>1
<1>9. cover # {} /\ l[t].id \in {w.list[i].frame, w.list[i].client}
  <2>1. TopSurface(g, c).id \in {w.list[i].frame, w.list[i].client}  BY <1>1
  <2> QED BY <1>7, <1>8, <2>1 DEF NoSurface
<1>10. t \in cover /\ \A k \in cover : k <= t
  <2>1. cover \subseteq 0 .. COMP_MAX  BY <1>4, <1>5
  <2> QED BY <1>4, <1>6, <1>9, <2>1, GuiGreatest
<1>11. t \in GuiSlots /\ GuiShows(l[t], c) /\ \A k \in GuiSlots : GuiShows(l[k], c) => k <= t  BY <1>5, <1>10
<1>12. GuiHolds(w.list[i], c)
  <2>1. GuiFits(l[t], w.list[i])  BY <1>2, <1>3, <1>11 DEF GuiPlaced
  <2>2. ~w.list[i].minimized  BY <1>9, <1>11, <2>1 DEF GuiFits, GuiShows
  <2> QED BY <1>1, <1>3, <2>2 DEF GuiHolds
<1> DEFINE here == {j \in GuiPlaces : /\ w.list[j].id # 0 /\ ~w.list[j].minimized
                                      /\ w.list[j].y <= c /\ c < w.list[j].y + w.list[j].h}
           under == {k \in GuiSlots : \E j \in here : l[k].id \in {w.list[j].frame, w.list[j].client}}
           u == CHOOSE k \in under : \A j \in under : j <= k
           x == CHOOSE j \in here : l[u].id \in {w.list[j].frame, w.list[j].client}
<1>13. here = {j \in GuiPlaces : GuiHolds(w.list[j], c)}  BY DEF GuiHolds
<1>14. wm_hit_test(g, w, c) = IF under = {} THEN 0 ELSE w.list[x].id
  BY <1>1 DEF wm_hit_test, GuiPlaces, GuiSlots
<1> HIDE DEF here
<1>15. under = {k \in GuiSlots : \E j \in here : l[k].id \in {w.list[j].frame, w.list[j].client}}  OBVIOUS
<1>16. x = CHOOSE j \in here : l[u].id \in {w.list[j].frame, w.list[j].client}  OBVIOUS
<1> HIDE DEF x
<1>17. u = CHOOSE k \in under : \A j \in under : j <= k  OBVIOUS
<1> HIDE DEF u, under
<1>18. t \in under  BY <1>3, <1>9, <1>11, <1>12, <1>13, <1>15
<1>19. u \in under /\ \A k \in under : k <= u
  <2>1. under \subseteq 0 .. COMP_MAX  BY <1>4, <1>15
  <2> QED BY <1>4, <1>17, <1>18, <2>1, GuiGreatest
<1>20. x \in here /\ l[u].id \in {w.list[x].frame, w.list[x].client}
  <2>1. \E j \in here : l[u].id \in {w.list[j].frame, w.list[j].client}  BY <1>15, <1>19
  <2> QED BY <1>16, <2>1
<1>21. x \in GuiPlaces /\ GuiHolds(w.list[x], c)  BY <1>13, <1>20
<1>22. u \in GuiSlots /\ t <= u  BY <1>15, <1>18, <1>19
<1>23. \A k \in GuiSlots : l[k].id \in {w.list[x].frame, w.list[x].client} => k <= u  BY <1>15, <1>19, <1>20
<1>24. x = i  BY <1>2, <1>3, <1>4, <1>9, <1>11, <1>20, <1>21, <1>22, <1>23, GuiUncovered
<1> QED BY <1>1, <1>14, <1>18, <1>24

\* The desktop as a part of the kernel.  An operation made in the middle of
\* another ends what is claimed.
GuiSound == ~gui_mixed => GuiIInv

LEMMA GuiStarts == PartsInit => GuiSound
BY GuiStart DEF PartsInit, GuiSound

LEMMA GuiKept == GuiSound /\ [PartsNext]_allVars => GuiSound'
<1> SUFFICES ASSUME GuiSound, [PartsNext]_allVars, ~gui_mixed' PROVE GuiIInv'  BY DEF GuiSound
<1>1. guiNext \/ UNCHANGED guiVars  BY DEF PartsNext, allVars, guiVars
<1>2. CASE UNCHANGED guiVars  BY <1>2, GuiStill DEF guiVars, GuiSound
<1>3. CASE Preempted  BY <1>3, GuiStill DEF Preempted, GuiSound
<1>4. CASE Made  BY <1>4, GuiSteps DEF Made, GuiSound
<1>5. CASE MadeBetween  BY <1>5 DEF MadeBetween
<1>6. CASE Resumed  BY <1>6 DEF Resumed
<1> QED BY <1>1, <1>2, <1>3, <1>4, <1>5, <1>6 DEF guiNext

\* The desktop (comp.c, wm.c, inr.c, vt.c): for every number of rows, slots and
\* windows, and as long as no operation is made in the middle of another,
\* damage tracking loses nothing, a client lies above its frame, the focused
\* title alone is lit, surfaces are neither lost nor shared, and a click
\* reaches the window that is seen, also between a command and its composite.
THEOREM DesktopIsSound == PartsSpec => []DesktopSound
<1>1. PartsInit => GuiSound  BY GuiStarts
<1>2. GuiSound /\ [PartsNext]_allVars => GuiSound'  BY GuiKept
<1>3. GuiSound => DesktopSound
  BY GuiFresh, GuiClientsAbove, GuiTitlesTrue, GuiOwned, GuiHits DEF DesktopSound, GuiSound
<1> QED BY <1>1, <1>2, <1>3, PTL DEF PartsSpec

==============================
