----------------------------- MODULE Subsequence -----------------------------
(***************************************************************************)
(* The subsequence at a set of positions.  It is what SelectSeq makes of   *)
(* the positions that pass a test, written with the ranks of the positions *)
(* so that what it keeps can be proved.                                    *)
(***************************************************************************)
EXTENDS Integers, Sequences, FiniteSets

Rank(I, i) == Cardinality({j \in I : j <= i})
Nth(I, k) == CHOOSE i \in I : Rank(I, i) = k
Picked(s, I) == [k \in 1..Cardinality(I) |-> s[Nth(I, k)]]
=============================================================================
