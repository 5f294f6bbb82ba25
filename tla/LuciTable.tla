------------------------------ MODULE LuciTable ------------------------------
(***************************************************************************)
(* What the pending-edit layer of LuCI's uci class promises its callers:   *)
(* one table of sections.  An edit changes one section of it, reading and  *)
(* reordering change nothing, and the sections of a package come and go    *)
(* together, when it is loaded and when it is dropped.                     *)
(***************************************************************************)
CONSTANTS Sid, Opt, Val, Empty, Nil

VARIABLES
  table,    \* the options get() returns of each section, Nil: no section
  present   \* the package is loaded

Options == [Opt -> Val \cup {Empty, Nil}]
NoOptions == [o \in Opt |-> Nil]

Init == table = [s \in Sid |-> Nil] /\ present = FALSE

Set(s, o, v) ==
  /\ table[s] # Nil
  /\ table' = [table EXCEPT ![s][o] = v]
  /\ UNCHANGED present

Add(s) ==
  /\ table[s] = Nil
  /\ table' = [table EXCEPT ![s] = NoOptions]
  /\ UNCHANGED present

Remove(s) ==
  /\ table[s] # Nil
  /\ table' = [table EXCEPT ![s] = Nil]
  /\ UNCHANGED present

(* Sections that were added while the package was away stay as they are.   *)
Load(loaded) ==
  /\ ~present /\ present'
  /\ table' = [s \in Sid |-> IF table[s] # Nil THEN table[s] ELSE loaded[s]]

Drop == present' = FALSE /\ table' = [s \in Sid |-> Nil]

Next ==
  \/ \E s \in Sid, o \in Opt, v \in Val \cup {Empty, Nil} : Set(s, o, v)
  \/ \E s \in Sid : Add(s) \/ Remove(s)
  \/ \E loaded \in [Sid -> Options \cup {Nil}] : Load(loaded)
  \/ Drop

Spec == Init /\ [][Next]_<<table, present>>
=============================================================================
