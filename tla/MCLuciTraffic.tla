---------------------------- MODULE MCLuciTraffic ----------------------------
EXTENDS LuciTraffic

CONSTANTS f1, f2

Intervals == [f \in Fn |-> IF f = f1 THEN 1 ELSE 2]
=============================================================================
