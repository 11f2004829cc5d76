-------------------------------- MODULE Orders --------------------------------
(***************************************************************************)
(* Sorting and filtering without recursion: sort_by of the planner, retain *)
(* of the installer and the entries a resource walk follows.               *)
(***************************************************************************)
EXTENDS Integers, Sequences, FiniteSets

(* The k-th element of S in the order `before`, a set of pairs.            *)
Nth(S, before, k) == CHOOSE i \in S : Cardinality({j \in S : << j, i >> \in before}) = k - 1

Ascending(I) == {p \in I \X I : p[1] < p[2]}

(* The entries of s at the positions I, in order.                          *)
Picked(s, I) ==
  LET order == Ascending(I)
  IN [k \in 1 .. Cardinality(I) |-> s[Nth(I, order, k)]]
==============================================================================
