----------------------------- MODULE SessionPool -----------------------------
(***************************************************************************)
(* What the session table promises: a pool of at most Limit sessions.      *)
(* Opening one more replaces a session, and only when the pool is full;    *)
(* sessions leave by logout, expiry or a restart.                          *)
(***************************************************************************)
EXTENDS Naturals, FiniteSets

CONSTANTS Sid, Limit

VARIABLE live

Init == live = {}

Open(s) ==
  /\ s \notin live
  /\ Cardinality(live) < Limit
  /\ live' = live \cup {s}

Replace(s, v) ==
  /\ s \notin live
  /\ v \in live
  /\ Cardinality(live) = Limit
  /\ live' = (live \ {v}) \cup {s}

Close(gone) ==
  /\ gone # {}
  /\ live' = live \ gone

Next ==
  \/ \E s \in Sid : Open(s)
  \/ \E s, v \in Sid : Replace(s, v)
  \/ \E gone \in SUBSET live : Close(gone)

Spec == Init /\ [][Next]_live
=============================================================================
