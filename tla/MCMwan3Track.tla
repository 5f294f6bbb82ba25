---------------------------- MODULE MCMwan3Track ----------------------------
(* Mwan3Track for TLC: calls and hosts are interchangeable. *)
EXTENDS Mwan3Track, TLC

Symmetry == Permutations(Call) \cup Permutations(Hosts)
=============================================================================
