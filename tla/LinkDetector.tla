---------------------------- MODULE LinkDetector ----------------------------
(***************************************************************************)
(* What a link monitor promises, without saying how it counts.  Rounds of  *)
(* probes are judged one at a time.  The verdict turns only on a run of    *)
(* rounds that all speak against it: Down bad ones in a row to give a link *)
(* up, Up good ones in a row to take it back; one round of the other kind  *)
(* starts the run over.  Besides that the monitor may be told that the     *)
(* link is gone (Drop), stopped, and started afresh with either verdict.   *)
(***************************************************************************)
EXTENDS Naturals

CONSTANTS Up, Down

VARIABLES
  online,  \* the verdict
  run,     \* rounds in a row that spoke against the verdict
  round    \* outcome of the round being judged, "idle" between rounds

vars == <<online, run, round>>

Init == online \in BOOLEAN /\ run = 0 /\ round = "idle"

(* A round is measured. *)
Measure ==
  /\ round = "idle"
  /\ round' \in {"good", "bad"}
  /\ UNCHANGED <<online, run>>

(* The round confirms the verdict. *)
Confirm ==
  /\ round = (IF online THEN "good" ELSE "bad")
  /\ round' = "idle" /\ run' = 0
  /\ UNCHANGED online

(* The round speaks against the verdict, and the run gets longer ... *)
Doubt ==
  /\ round = (IF online THEN "bad" ELSE "good")
  /\ run + 1 # (IF online THEN Down ELSE Up)
  /\ round' = "idle" /\ run' = run + 1
  /\ UNCHANGED online

(* ... or is long enough to turn it. *)
Turn ==
  /\ round = (IF online THEN "bad" ELSE "good")
  /\ run + 1 = (IF online THEN Down ELSE Up)
  /\ round' = "idle" /\ run' = 0
  /\ online' = ~online

(* Word came that the link is gone. *)
Drop == online' = FALSE /\ run' = 0 /\ round = "idle" /\ UNCHANGED round

Stop == round' = "idle" /\ run' = 0 /\ UNCHANGED online

Start == round = "idle" /\ online' \in BOOLEAN /\ run' = 0 /\ UNCHANGED round

Next == Measure \/ Confirm \/ Doubt \/ Turn \/ Drop \/ Stop \/ Start

Spec == Init /\ [][Next]_vars
=============================================================================
