---------------------------- MODULE Subsequence ----------------------------
(***************************************************************************)
(* What std::remove_if and push_back in a loop leave of a sequence: the    *)
(* elements at some of its places, in their order.                         *)
(***************************************************************************)
EXTENDS Integers, Sequences, FiniteSets

\* The place of i in ix.
Rank(ix, i) == Cardinality({j \in ix : j <= i})

\* The first of a set of places.
First(S) == CHOOSE i \in S : \A j \in S : i <= j

\* The elements of s at the places ix.
Picked(s, ix) == [n \in 1..Cardinality(ix) |-> s[CHOOSE i \in ix : Rank(ix, i) = n]]
=============================================================================
