-------------------------------- MODULE Ordering --------------------------------
(***************************************************************************)
(* Finite sets put in order, and the part of a sequence at some of its     *)
(* positions: what sorted() and a list comprehension with a condition do.  *)
(* An order is a set of pairs; <<a, b>> is in it when a comes first or is b. *)
(*                                                                         *)
(* These stand for SortSeq and SelectSeq, of which no prover knows more    *)
(* than the name.  OrderingProofs has what they return.                    *)
(***************************************************************************)
EXTENDS Integers, FiniteSets, Sequences

TotalOrder(R, S) ==
    /\ \A a, b \in S : <<a, b>> \in R \/ <<b, a>> \in R
    /\ \A a, b \in S : <<a, b>> \in R /\ <<b, a>> \in R => a = b
    /\ \A a, b, c \in S : <<a, b>> \in R /\ <<b, c>> \in R => <<a, c>> \in R

Place(S, R, a) == Cardinality({b \in S : <<b, a>> \in R})

InOrder(S, R) == [n \in 1..Cardinality(S) |-> CHOOSE a \in S : Place(S, R, a) = n]

\* Numbers in their own order.
Ascending(S) == [n \in 1..Cardinality(S) |-> CHOOSE a \in S : Cardinality({b \in S : b <= a}) = n]

\* The elements of s at the positions in I, and those that pass a test.
At(s, I) == [n \in 1..Cardinality(I) |-> s[Ascending(I)[n]]]

Where(s, Test(_)) == At(s, {i \in DOMAIN s : Test(s[i])})
=============================================================================
