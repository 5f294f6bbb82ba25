------------------------------ MODULE LuciPoll ------------------------------
(***************************************************************************)
(* LuCI's poll loop (LuCI.poll in resources/luci.js): a list of functions, *)
(* each with an interval, which one timer calls once a second.  An entry   *)
(* is not called while the promise of its last call is pending.            *)
(***************************************************************************)
EXTENDS Subsequence, SequencesExt

CONSTANTS
  Fn,         \* the functions views register
  Interval,   \* their intervals
  Modulus,    \* 2^32 in the code
  MaxGen,     \* bound: how often each function is registered
  MaxThrows   \* bound: calls that throw instead of returning a promise

ASSUME IntervalAssumption == Interval \in [Fn -> Nat \ {0}]
ASSUME MaxGenAssumption == MaxGen \in Nat
ASSUME ModulusAssumption == Modulus \in Nat \ {0}

(* The n-th registration of a function is an object of its own.            *)
Entry == Fn \X (1..MaxGen)

VARIABLES
  entries,  \* Poll.queue
  ready,    \* e.r of each entry
  timer,    \* Poll.timer is set
  tick,     \* Poll.tick, Unset after stop()
  gen,      \* registrations so far
  threw,    \* history: entries whose call threw
  paused    \* history: stop() was called, and start() not since

pollVars == <<entries, ready, timer, tick, gen, threw, paused>>

Unset == -1

Busy(called) == [e \in Entry |-> ready[e] /\ ~Contains(called, e)]

NextTick(t) == (t + 1) % Modulus

(* One pass of step() over the list at time t.  It calls what is due; a    *)
(* call that throws ends the pass: its entry is never ready again, and the *)
(* time stands still.                                                      *)
Due(list, r, t) ==
  Picked(list, {i \in DOMAIN list : t % Interval[list[i][1]] = 0 /\ r[list[i]]})

Pass(list, t, called) ==
  \/ /\ called = Due(list, ready, t)
     /\ ready' = Busy(called)
     /\ tick' = NextTick(t)
     /\ UNCHANGED threw
  \/ /\ Cardinality(threw) < MaxThrows
     /\ \E n \in DOMAIN Due(list, ready, t) :
          LET due == Due(list, ready, t)
          IN /\ called = SubSeq(due, 1, n - 1)
             /\ ready' = Busy(Append(called, due[n]))
             /\ threw' = threw \cup {due[n]}
     /\ tick' = t

(* The calls a pass can make: all that are due, or those before one.       *)
Calls(list, t) ==
  {SubSeq(Due(list, ready, t), 1, n) : n \in 0..Len(Due(list, ready, t))}

NoPass == UNCHANGED <<ready, threw>>

(* start() of a stopped loop: the timer runs only if the list has entries, *)
(* and a first pass is made at once.                                       *)
Started(list, called) ==
  IF list = << >> THEN tick' = 0 /\ timer' = FALSE /\ called = << >> /\ NoPass
  ELSE timer' = TRUE /\ Pass(list, 0, called)

PollStart(called) ==
  /\ ~timer
  /\ Started(entries, called)
  /\ paused' = FALSE
  /\ UNCHANGED <<entries, gen>>

Stopped == timer' = FALSE /\ tick' = Unset

PollStop ==
  /\ timer
  /\ Stopped
  /\ paused' = TRUE
  /\ UNCHANGED <<entries, ready, gen, threw>>

(* A loop that was stopped has no tick.                                    *)
MayStart_Always == TRUE
MayStart == tick # Unset

(* add(): a function is on the list once; the loop is started unless it    *)
(* was stopped.                                                            *)
PollAdd(f, called) ==
  /\ \A i \in DOMAIN entries : entries[i][1] # f
  /\ gen[f] < MaxGen
  /\ gen' = [gen EXCEPT ![f] = @ + 1]
  /\ entries' = Append(entries, <<f, gen'[f]>>)
  /\ IF MayStart /\ ~timer THEN Started(entries', called)
     ELSE called = << >> /\ NoPass /\ UNCHANGED <<timer, tick>>
  /\ UNCHANGED paused

(* remove(): the loop stops with the last entry, and the next one starts   *)
(* it again.                                                               *)
PollRemove(f) ==
  /\ \E i \in DOMAIN entries : entries[i][1] = f
  /\ entries' = Picked(entries, {i \in DOMAIN entries : entries[i][1] # f})
  /\ IF entries' = << >> /\ timer THEN timer' = FALSE /\ tick' = 0
     ELSE UNCHANGED <<timer, tick>>
  /\ UNCHANGED <<ready, gen, threw, paused>>

PollStep(called) ==
  /\ timer
  /\ Pass(entries, tick, called)
  /\ UNCHANGED <<entries, timer, gen, paused>>

Rearmed_Not(S) == ready
Rearmed(S) == [e \in Entry |-> ready[e] \/ e \in S]

(* The promises of the calls in S settle, one way or the other; the page   *)
(* may be told that its session has ended, which stops the loop.           *)
PollSettle(S, stops) ==
  /\ ready' = Rearmed(S)
  /\ IF stops /\ timer THEN Stopped /\ paused' = TRUE
     ELSE UNCHANGED <<timer, tick, paused>>
  /\ UNCHANGED <<entries, gen, threw>>

PollInit ==
  /\ entries = << >> /\ ready = [e \in Entry |-> TRUE]
  /\ timer = FALSE /\ tick = Unset
  /\ gen = [f \in Fn |-> 0] /\ threw = {} /\ paused = FALSE
=============================================================================
