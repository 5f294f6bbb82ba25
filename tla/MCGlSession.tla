----------------------------- MODULE MCGlSession -----------------------------
(* Model values and symmetry for checking GlSession. *)
EXTENDS GlSession, TLC

Symmetry == Permutations(Sid) \cup Permutations(Nonce)
=============================================================================
