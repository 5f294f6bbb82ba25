----------------------------- MODULE LuciTraffic -----------------------------
(***************************************************************************)
(* A LuCI page that polls: every call of the poll loop's functions makes   *)
(* one remote call, and its promise is that call's.  When the session has  *)
(* ended, the page says so and the loop stops.                             *)
(***************************************************************************)
EXTENDS LuciPoll, LuciRequest

ASSUME CallsAreEntries == Call = Entry

vars == <<pollVars, requestVars>>

Init == PollInit /\ RequestInit

(* Views register and remove functions, the user pauses and resumes the    *)
(* loop, its timer fires.                                                  *)
Register(f) ==
  \E called \in {<< >>} \cup {<<e>> : e \in Entry} :
    PollAdd(f, called) /\ Issue(called)
Unregister(f) == PollRemove(f) /\ UNCHANGED requestVars
Start == \E called \in Calls(entries, 0) : PollStart(called) /\ Issue(called)
Stop == PollStop /\ UNCHANGED requestVars
Step == \E called \in Calls(entries, tick) : PollStep(called) /\ Issue(called)

FlushFrame == Flush /\ UNCHANGED pollVars
AnswerBatch(id) == \E b \in batches :
  Contains(b.calls, id) /\ Serve(b) /\ UNCHANGED pollVars
FailBatch == \E b \in batches : ServeBadly(b) /\ UNCHANGED pollVars
HandleBatch(id) == \E b \in batches :
  Contains(b.calls, id) /\ Deliver(b) /\ PollSettle(Settles(b), Expires(b))
SessionEnds == Expire /\ UNCHANGED pollVars

Next ==
  \/ \E f \in Fn : Register(f) \/ Unregister(f)
  \/ Start \/ Stop \/ Step
  \/ FlushFrame \/ FailBatch \/ SessionEnds
  \/ \E id \in Id : AnswerBatch(id) \/ HandleBatch(id)

Spec == Init /\ [][Next]_vars

(* Timer and animation frame fire, the server answers every batch or the   *)
(* request times out, and the answer is handled.                           *)
FairSpec ==
  /\ Spec
  /\ WF_vars(Step) /\ WF_vars(FlushFrame)
  /\ \A id \in Id : WF_vars(AnswerBatch(id)) /\ WF_vars(HandleBatch(id))

-----------------------------------------------------------------------------
TypeOK ==
  /\ entries \in Seq(Entry) /\ ready \in [Entry -> BOOLEAN]
  /\ timer \in BOOLEAN /\ tick \in {Unset} \cup (0..(Modulus - 1))
  /\ threw \in SUBSET Entry /\ paused \in BOOLEAN
  /\ queue \in Seq(Id)
  /\ status \in [Id -> {"idle", "queued", "sent", "checking"}]
  /\ session \in BOOLEAN /\ notice \in BOOLEAN

Occurs(id, s) == Cardinality({i \in DOMAIN s : s[i] = id})

(* No call is dropped or made twice on its way (luci.js:36-45, 50): it is  *)
(* once in the queue, or once in one batch, or its session check is.       *)
CallsConserved ==
  \A id \in Id :
    /\ Occurs(id, queue) = IF status[id] = "queued" THEN 1 ELSE 0
    /\ LET inBatches == {b \in batches : Occurs(id, b.calls) > 0}
       IN IF status[id] = "sent"
          THEN \E b \in batches : inBatches = {b} /\ Occurs(id, b.calls) = 1
          ELSE inBatches = {}
    /\ (status[id] = "checking") <=>
         (id[2] = "call" /\ status[Check(id[1])] # "idle")

(* A call is given the answer to its own message (luci.js:41-43), also     *)
(* when the list of answers ends early.                                    *)
OwnAnswer == \A e \in Entry : got[e] = Main(e)

(* An entry of the loop waits exactly while its call is under way          *)
(* (luci.js:90-92), so it is never called twice at a time; an entry whose  *)
(* function threw waits for ever.                                          *)
WaitsForCall ==
  \A e \in Entry : ready[e] <=> (status[Main(e)] = "idle" /\ e \notin threw)

(* A loop the user has paused stays paused, whatever is registered or      *)
(* removed (luci.js:82-87).                                                *)
PauseLasts == paused => ~timer

(* The page reports an expired session only if it has expired, or if the   *)
(* request that was to find out failed (luci.js:194-198).                  *)
NoticeIsTrue == notice => (~session \/ faults > 0)

(* Shared batches lose, swap and invent nothing.                           *)
CallsAnswered == TypeOK /\ CallsConserved /\ OwnAnswer /\ NoticeIsTrue

(* The loop knows what it waits for, and keeps still when told to.         *)
LoopKept == WaitsForCall /\ PauseLasts

(* Every call settles.                                                     *)
CallsSettle ==
  \A e \in Entry : status[Main(e)] # "idle" ~> status[Main(e)] = "idle"

(* An entry that stays on the list of a running loop is called again and   *)
(* again.                                                                  *)
EntriesPolled ==
  \A e \in Entry :
    <>[](timer /\ e \notin threw /\ \E i \in DOMAIN entries : entries[i] = e)
      => []<>(status[Main(e)] # "idle")

(* Once the session has ended, a loop that still polls finds out and       *)
(* stops.                                                                  *)
ExpiryStopsLoop ==
  (~session /\ timer) ~>
    (~timer \/ \A i \in DOMAIN entries : entries[i] \in threw)

(* The loop lives as long as it should: no batch and no entry stalls it,   *)
(* and the end of the session ends it.                                     *)
LoopLives == CallsSettle /\ EntriesPolled /\ ExpiryStopsLoop
=============================================================================
