----------------------------- MODULE LuciLoader -----------------------------
(***************************************************************************)
(* The class loader of the web interface (resources/luci.js, require).     *)
(* The first request for a class fetches its file; once the file is there  *)
(* the classes it names in its head are required in turn, and when all of  *)
(* them are there the class is instantiated.  A class is asked for once    *)
(* however often it is required: later callers get the same promise,       *)
(* answered or not.                                                        *)
(***************************************************************************)
EXTENDS Integers, SequencesExt

CONSTANTS
  Class,
  Root,       \* classes the page itself requires, in parallel
  Graph,      \* what the heads of the files may say: functions to sequences
  Nil

VARIABLES
  head,       \* external: the classes each file names, in order
  class,      \* classes[name]: Nil, "fetching", "waiting", "ready", "failed"
  from,       \* the chain of classes the first request came through
  made,       \* history: the classes in the order they were instantiated
  lost        \* history: classes whose file could not be had

vars == <<head, class, from, made, lost>>

Init ==
  /\ head \in Graph
  /\ class = [c \in Class |-> Nil]
  /\ from = [c \in Class |-> << >>]
  /\ made = << >>
  /\ lost = {}

-----------------------------------------------------------------------------
(* require(): what is known is returned; else its file is asked for.       *)
Ask(cl, fr, names, chain) ==
  LET new == {d \in names : cl[d] = Nil}
  IN /\ class' = [d \in Class |-> IF d \in new THEN "fetching" ELSE cl[d]]
     /\ from' = [d \in Class |-> IF d \in new THEN <<d>> \o chain ELSE fr[d]]

require(c) ==
  /\ c \in Root /\ class[c] = Nil
  /\ Ask(class, from, {c}, << >>)
  /\ UNCHANGED <<head, made, lost>>

(* A class of its own chain is under way and can never come.               *)
Circular(c) == {i \in DOMAIN head[c] : head[c][i] \in Range(from[c])}

(* compileClass(): the names in the head are required one after the other, *)
(* up to the one that closes a circle.                                     *)
compileClass(c) ==
  /\ class[c] = "fetching"
  /\ LET asked == {i \in DOMAIN head[c] : \A k \in Circular(c) : i < k}
         next == IF Circular(c) = {} THEN "waiting" ELSE "failed"
     IN Ask([class EXCEPT ![c] = next], from, {head[c][i] : i \in asked}, from[c])
  /\ UNCHANGED <<head, made, lost>>

FetchFails(c) ==
  /\ class[c] = "fetching"
  /\ class' = [class EXCEPT ![c] = "failed"]
  /\ lost' = lost \cup {c}
  /\ UNCHANGED <<head, from, made>>

Instantiated_Early(c) == class[c] = "waiting"
Instantiated(c) == class[c] = "waiting" /\ \A d \in Range(head[c]) : class[d] = "ready"
Instantiate(c) ==
  /\ Instantiated(c)
  /\ class' = [class EXCEPT ![c] = "ready"]
  /\ made' = Append(made, c)
  /\ UNCHANGED <<head, from, lost>>

Rejected(c) == class[c] = "waiting" /\ \E d \in Range(head[c]) : class[d] = "failed"
Reject(c) ==
  /\ Rejected(c)
  /\ class' = [class EXCEPT ![c] = "failed"]
  /\ UNCHANGED <<head, from, made, lost>>

Next == \E c \in Class :
  require(c) \/ compileClass(c) \/ FetchFails(c) \/ Instantiate(c) \/ Reject(c)

Spec == Init /\ [][Next]_vars

-----------------------------------------------------------------------------
(* What a class needs, in so many steps.                                   *)
Needs(c) ==
  LET below[n \in Nat] == IF n = 0 THEN Range(head[c])
                          ELSE below[n - 1] \cup UNION {Range(head[d]) : d \in below[n - 1]}
  IN below[Cardinality(Class)]
Doomed(c) == \E d \in Needs(c) \cup {c} : d \in lost \/ d \in Needs(d)

Resting == \A c \in Class : class[c] # "fetching" /\ ~Instantiated(c) /\ ~Rejected(c)

(* A class is instantiated once, after every class its head names; when    *)
(* nothing is under way a class that was required is there, unless a file  *)
(* it needs was lost or its classes need one another in a circle, and then *)
(* it is not.  (A circle that two parallel requests enter waits for ever:  *)
(* neither request is in the other's chain.)                               *)
ClassesCome ==
  /\ \A i \in DOMAIN made : \A d \in Range(head[made[i]]) : \E k \in 1..(i - 1) : made[k] = d
  /\ \A i, k \in DOMAIN made : made[i] = made[k] => i = k
  /\ Resting => \A c \in Class : class[c] # Nil => (class[c] = "ready") = ~Doomed(c)
  /\ \A c \in Class : class[c] = "failed" => Doomed(c)
=============================================================================
