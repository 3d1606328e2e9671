------------------------------- MODULE Places -------------------------------
(***************************************************************************)
(* Filters over sequences, by the set of the places that are kept: what an   *)
(* iterator's filter, rev, take and collect return.                          *)
(***************************************************************************)
EXTENDS Integers, Sequences, FiniteSets

\* The k-th of the places S, counted from the lowest.
Kth(S, k) == CHOOSE i \in S : Cardinality({j \in S : j <= i}) = k

\* The elements of s at the places S, in their order.
Pick(s, S) == [k \in 1..Cardinality(S) |-> s[Kth(S, k)]]

\* The n highest of the places S, or all of them.
Highest(S, n) == {i \in S : Cardinality({j \in S : j > i}) < n}
=============================================================================
