------------------------------- MODULE Listing -------------------------------
(***************************************************************************)
(* The elements of a finite set of numbers, from the least to the          *)
(* greatest: what SetToSortSeq(S, <) of SequencesExt computes, stated by   *)
(* what it is, as the proofs need it. Loops of the code that go through a  *)
(* list and keep some of it, in its order, are written with it.            *)
(***************************************************************************)
EXTENDS Naturals, FiniteSets

Ascending(S) ==
    LET n == Cardinality(S)
    IN  CHOOSE s \in [1..n -> S] : \A i, j \in 1..n : i < j => s[i] < s[j]
=============================================================================
