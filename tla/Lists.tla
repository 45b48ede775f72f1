------------------------------- MODULE Lists -------------------------------
(***************************************************************************)
(* A list with some of its elements left out, as the comprehensions of     *)
(* store.py and snapshots.py make it, and rows sorted (ORDER BY), said     *)
(* without recursion: the k-th element is the one of those kept that has   *)
(* k - 1 of them before it.                                                *)
(***************************************************************************)
EXTENDS Naturals, FiniteSets, Sequences

Rank(I, i) == Cardinality({j \in I : j < i})
Nth(I, k) == CHOOSE i \in I : Rank(I, i) = k - 1

\* The elements at the indexes I, and those of a set, in their order.
SubList(list, I) == [k \in 1 .. Cardinality(I) |-> list[Nth(I, k)]]
Those(list, S) == SubList(list, {i \in DOMAIN list : list[i] \in S})
Ascending(I) == [k \in 1 .. Cardinality(I) |-> Nth(I, k)]

\* The elements of S sorted, r before s where <<r, s>> is in `before`.
Sorted(S, before) ==
  [k \in 1 .. Cardinality(S) |->
     CHOOSE r \in S : Cardinality({s \in S : <<s, r>> \in before}) = k - 1]
=============================================================================
