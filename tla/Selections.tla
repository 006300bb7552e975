----------------------------- MODULE Selections -----------------------------
(***************************************************************************)
(* The elements of a list that stay when others are removed, in order.     *)
(* The code filters its lists in loops; here the positions that stay are a *)
(* set, and the k-th of them is the one with k of them up to it.  (The     *)
(* filters of SequencesExt take an operator, about which nothing could be  *)
(* proved.)                                                                *)
(***************************************************************************)
EXTENDS Naturals, Sequences, FiniteSets

\* How many elements of K there are up to i.
Rank(K, i) == Cardinality({j \in K : j <= i})

\* The k-th smallest element of a finite set K of numbers.
Nth(K, k) == CHOOSE i \in K : Rank(K, i) = k

\* The elements of K in ascending order.
Ascending(K) == [k \in 1 .. Cardinality(K) |-> Nth(K, k)]

\* The elements of s at the positions in K.
Pick(s, K) == [k \in 1 .. Cardinality(K) |-> s[Nth(K, k)]]

\* s without the first e, if there is one.
WithoutFirst(s, e) ==
    Pick(s, {i \in DOMAIN s : s[i] = e => \E j \in 1 .. i - 1 : s[j] = e})
=============================================================================
