------------------------------- MODULE Listing -------------------------------
(***************************************************************************)
(* The elements of a finite set of numbers in their order, defined by how  *)
(* many there are below each, so that proofs can count.  (For TLC it is    *)
(* SetToSortSeq(S, <).)                                                    *)
(***************************************************************************)
EXTENDS Naturals, FiniteSets

Rank(x, S) == Cardinality({y \in S : y <= x})

Listed(S) == [n \in 1..Cardinality(S) |-> CHOOSE x \in S : Rank(x, S) = n]

\* What a list, or part of one, has at these places, in their order.
Keep(list, places) ==
    LET kept == Listed(places) IN [n \in DOMAIN kept |-> list[kept[n]]]
=============================================================================
