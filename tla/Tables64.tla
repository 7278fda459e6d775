------------------------------ MODULE Tables64 ------------------------------
(***************************************************************************)
(* What the services of the 64-bit port have in common: fixed tables whose *)
(* entries carry a used flag, searched from the first entry on, and lists  *)
(* put in order by exchanging pairs.                                       *)
(***************************************************************************)
EXTENDS Integers, Sequences, FiniteSets, FiniteSetsExt, SequencesExt

\* The entries of a table that are taken, and the first free one, 0 if full.
Taken(tab) == {i \in DOMAIN tab : tab[i].used}
FirstFree(tab) ==
    LET free == DOMAIN tab \ Taken(tab) IN IF free = {} THEN 0 ELSE Min(free)

\* The first taken entry in S, 0 if there is none.
FirstOf(S) == IF S = {} THEN 0 ELSE Min(S)

\* The double loop "for i, for j > i: if s[j] goes before s[i], exchange".
Pairs(n) ==
    FlattenSeq([i \in 1 .. n |-> [k \in 1 .. n - i |-> <<i, i + k>>]])
ExchangeSort(s, Before(_, _)) ==
    FoldLeft(LAMBDA t, p : IF Before(t[p[2]], t[p[1]])
                           THEN [t EXCEPT ![p[1]] = t[p[2]], ![p[2]] = t[p[1]]]
                           ELSE t,
             s, Pairs(Len(s)))

\* The indices of S in the order of the table.
InTableOrder(S) == SetToSortSeq(S, <)
==============================
