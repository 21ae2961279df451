------------------------------- MODULE Ordered -------------------------------
(***************************************************************************)
(* Finite sets of numbers in their order: the entries of a table, or the   *)
(* places of a sequence, that a loop comes upon one after the other.       *)
(***************************************************************************)
EXTENDS Integers, Sequences, FiniteSets

FirstOf(S) == CHOOSE i \in S : \A j \in S : i <= j
LastOf(S)  == CHOOSE i \in S : \A j \in S : j <= i

\* The k-th from below, counted from 1.
Below(S, i) == {j \in S : j < i}
NthOf(S, k) == CHOOSE i \in S : Cardinality(Below(S, i)) = k - 1

\* What is left of a sequence when only the places in S are kept.
PickedFrom(s, S) == [k \in 1..Cardinality(S) |-> s[NthOf(S, k)]]

=============================================================================
