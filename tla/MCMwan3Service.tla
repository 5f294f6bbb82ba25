--------------------------- MODULE MCMwan3Service ---------------------------
(* Mwan3Service for TLC: two interfaces, the name of one a prefix of the   *)
(* other's, as wan and wan6 in etc/config/mwan3.                           *)
EXTENDS Mwan3Service, TLC

CONSTANTS wan, wan6

WanAndWan6 == {wan, wan6}
WanLikeWan6 == {<<wan, wan6>>}

Symmetry == Permutations(Handler) \cup Permutations(Monitor)
=============================================================================
