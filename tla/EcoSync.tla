-------------------------------- MODULE EcoSync --------------------------------
(***************************************************************************)
(* The condition variable and the wait group of eco's coroutines           *)
(* (usr/local/lib/lua/5.3/eco/sync.lua).  Each wait makes a watcher of its *)
(* own; the event loop resumes the coroutine when the watcher is sent to   *)
(* or its time is over.  A watcher whose time is over stays in the list.   *)
(***************************************************************************)
EXTENDS Integers, Sequences, FiniteSets

CONSTANTS
  Co,        \* coroutines
  MaxCount,  \* bound on the group's counter
  MaxWaits   \* bound on waits

VARIABLES
  watchers,  \* of the condition and of the group: [co, live] in order
  co,        \* what each coroutine does
  counter,   \* of the wait group
  waits,     \* waits so far
  timeouts,  \* waits on the condition that timed out
  spent,     \* signals that woke nobody though somebody waited
  misused    \* done() more often than add()

ecoVars == <<watchers, co, counter, waits, timeouts, spent, misused>>

Runs(c) == co[c] = "runs"
WatcherLists == {"cond", "group"}
LiveIn(q) == {i \in 1..Len(q) : q[i].live}

EcoInit ==
  /\ watchers = [of \in WatcherLists |-> << >>]
  /\ co = [c \in Co |-> "runs"]
  /\ counter = 0 /\ waits = 0 /\ timeouts = 0 /\ spent = 0
  /\ misused = FALSE

(* wait of a condition; the group's is one with a test before it.          *)
Watch(c, of) ==
  /\ waits < MaxWaits
  /\ waits' = waits + 1
  /\ watchers' = [watchers EXCEPT ![of] = Append(@, [co |-> c, live |-> TRUE])]
  /\ co' = [co EXCEPT ![c] = "waits"]
  /\ UNCHANGED <<counter, timeouts, spent, misused>>
Wait(c) == Runs(c) /\ Watch(c, "cond")
WaitGroup(c) == Runs(c) /\ counter # 0 /\ Watch(c, "group")

(* The loop resumes a coroutine whose watcher was sent to, or whose time   *)
(* is over.                                                                *)
Resume(c) ==
  /\ co[c] = "woken"
  /\ co' = [co EXCEPT ![c] = "runs"]
  /\ UNCHANGED <<watchers, counter, waits, timeouts, spent, misused>>
Timeout(of) ==
  \E i \in LiveIn(watchers[of]) :
    /\ watchers' = [watchers EXCEPT ![of][i].live = FALSE]
    /\ co' = [co EXCEPT ![watchers[of][i].co] = "runs"]
    /\ timeouts' = IF of = "cond" THEN timeouts + 1 ELSE timeouts
    /\ UNCHANGED <<counter, waits, spent, misused>>

(* The coroutines of the watchers in q are to run again.                   *)
Woken_Head(q) ==
  [c \in Co |-> IF 1 \in LiveIn(q) /\ q[1].co = c THEN "woken" ELSE co[c]]
Woken(q) == [c \in Co |-> IF \E i \in LiveIn(q) : q[i].co = c THEN "woken" ELSE co[c]]

Signal(c) ==
  /\ Runs(c) /\ watchers["cond"] # << >>
  /\ LET q == watchers["cond"]
     IN /\ co' = Woken(<<Head(q)>>)
        /\ watchers' = [watchers EXCEPT !["cond"] = Tail(q)]
        /\ spent' = IF ~Head(q).live /\ LiveIn(q) # {} THEN spent + 1 ELSE spent
  /\ UNCHANGED <<counter, waits, timeouts, misused>>

Broadcast(c) ==
  /\ Runs(c)
  /\ co' = Woken(watchers["cond"])
  /\ watchers' = [watchers EXCEPT !["cond"] = << >>]
  /\ UNCHANGED <<counter, waits, timeouts, spent, misused>>

Add(c) ==
  /\ Runs(c) /\ counter < MaxCount
  /\ counter' = counter + 1
  /\ UNCHANGED <<watchers, co, waits, timeouts, spent, misused>>

(* Below zero it raises, with the counter as it is by then.                *)
Done(c) ==
  /\ Runs(c) /\ counter > -2
  /\ counter' = counter - 1
  /\ misused' = (misused \/ counter' < 0)
  /\ IF counter' = 0
     THEN /\ co' = Woken(watchers["group"])
          /\ watchers' = [watchers EXCEPT !["group"] = << >>]
     ELSE UNCHANGED <<co, watchers>>
  /\ UNCHANGED <<waits, timeouts, spent>>

EcoNext ==
  \/ Timeout("cond") \/ Timeout("group")
  \/ \E c \in Co : \/ Wait(c) \/ WaitGroup(c) \/ Resume(c) \/ Signal(c) \/ Broadcast(c)
                   \/ Add(c) \/ Done(c)

EcoSpec == EcoInit /\ [][EcoNext]_ecoVars

-----------------------------------------------------------------------------
Dead(q) == {i \in 1..Len(q) : ~q[i].live}

(* A coroutine that waits is waited for by exactly one watcher, and a      *)
(* signal is spent on nobody only on a watcher whose wait timed out        *)
(* (sync.lua:26): each timeout costs at most one wake-up.                  *)
SignalsWake ==
  /\ \A c \in Co : co[c] = "waits" <=>
       \E of \in WatcherLists : \E i \in LiveIn(watchers[of]) : watchers[of][i].co = c
  /\ \A of, to \in WatcherLists : \A i \in LiveIn(watchers[of]), j \in LiveIn(watchers[to]) :
       watchers[of][i].co = watchers[to][j].co => of = to /\ i = j
  /\ spent + Cardinality(Dead(watchers["cond"])) <= timeouts

(* When the counter reaches zero everybody who waits for the group is      *)
(* woken, and nobody begins to wait; unless done() has been called too     *)
(* often, which leaves the counter below zero.                             *)
GroupEnds == counter = 0 => misused \/ LiveIn(watchers["group"]) = {}

CoroutinesWake == SignalsWake /\ GroupEnds
=============================================================================
