----------------------------- MODULE LuciRequest -----------------------------
(***************************************************************************)
(* LuCI's remote calls: rpc.declare() (resources/rpc.js) and the request   *)
(* queue that sends the calls of one animation frame as one batch and      *)
(* hands the answers out by position (resources/luci.js).  A call that is  *)
(* refused asks whether the session is still there before it fails.  The   *)
(* server is external; it answers a batch in order.                        *)
(***************************************************************************)
EXTENDS Subsequence, SequencesExt, FiniteSetsExt

CONSTANTS
  Call,       \* calls, each made again once it has settled
  MaxFaults   \* bound: batches that fail

(* A call, and the session.access call made on its behalf.                 *)
Id == Call \X {"call", "check"}
Main(c) == <<c, "call">>
Check(c) == <<c, "check">>

VARIABLES
  queue,     \* requestQueue
  batches,   \* batches under way, with the answer once there is one
  status,    \* where each call is
  got,       \* history: the message whose result the call was last given
  session,   \* the session is valid
  notice,    \* the page says that the session has expired
  faults

requestVars == <<queue, batches, status, got, session, notice, faults>>

Unanswered == [kind |-> "none", replies |-> << >>]

(* rpc.declare(): the calls of one callback are queued in order; an        *)
(* animation frame is pending whenever the queue is not empty.             *)
Queued(ids) ==
  /\ queue' = queue \o ids
  /\ status' = [i \in Id |-> IF Contains(ids, i) THEN "queued" ELSE status[i]]

Issue(calls) ==
  /\ \A i \in DOMAIN calls : status[Main(calls[i])] = "idle"
  /\ Queued([i \in DOMAIN calls |-> Main(calls[i])])
  /\ UNCHANGED <<batches, got, session, notice, faults>>

(* flushRequestQueue(): later frames of the same queue find it empty.      *)
Flush ==
  /\ queue # << >>
  /\ batches' = batches \cup {[calls |-> queue, answer |-> Unanswered]}
  /\ status' = [i \in Id |-> IF Contains(queue, i) THEN "sent" ELSE status[i]]
  /\ queue' = << >>
  /\ UNCHANGED <<got, session, notice, faults>>

(* The server: an error for every call of a session that has ended, and    *)
(* for a call the session has no right to make; or a page that asks for    *)
(* the login; or nothing of use.                                           *)
Replies(calls, refused) ==
  [i \in DOMAIN calls |->
     [of |-> calls[i], kind |-> IF ~session \/ i \in refused THEN "denied" ELSE "ok"]]

Serve(b) ==
  /\ b.answer = Unanswered
  /\ \E a \in
       {[kind |-> "replies", replies |-> Replies(b.calls, refused)] :
          refused \in {{}} \cup {{i} : i \in {j \in DOMAIN b.calls : b.calls[j][2] = "call"}}}
       \cup (IF session THEN {} ELSE {[kind |-> "login", replies |-> << >>]}) :
       batches' = (batches \ {b}) \cup {[b EXCEPT !.answer = a]}
  /\ UNCHANGED <<queue, status, got, session, notice, faults>>

(* A time-out, an answer that is no list, or one that ends early.          *)
ServeBadly(b) ==
  /\ b.answer = Unanswered /\ faults < MaxFaults
  /\ faults' = faults + 1
  /\ \E n \in 0..(Len(b.calls) - 1) :
       batches' = (batches \ {b}) \cup {[b EXCEPT !.answer =
         [kind |-> "replies", replies |-> SubSeq(Replies(b.calls, {}), 1, n)]]}
  /\ UNCHANGED <<queue, status, got, session, notice>>

(* What a call of the batch gets: the answer at its position, or an error. *)
Result(b, i) ==
  IF b.answer.kind = "replies" /\ i <= Len(b.answer.replies)
  THEN b.answer.replies[i].kind ELSE "error"

(* parseCallReply(): a refused call checks the session first, and is       *)
(* settled with the check.  The check fails the call in any case, and says *)
(* that the session has expired unless it was answered.                    *)
Refused(b) == {c \in Call : \E i \in DOMAIN b.calls :
                 b.calls[i] = Main(c) /\ Result(b, i) = "denied"}
CheckFails(b) == \E i \in DOMAIN b.calls :
                   b.calls[i][2] = "check" /\ Result(b, i) # "ok"
Expires(b) == b.answer.kind = "login" \/ CheckFails(b)

Settles(b) == {c \in Call : Contains(b.calls, Check(c))
                 \/ (Contains(b.calls, Main(c)) /\ c \notin Refused(b))}

Checks(b) ==
  LET refused == Picked(b.calls, {i \in DOMAIN b.calls :
                   b.calls[i][2] = "call" /\ b.calls[i][1] \in Refused(b)})
  IN [i \in DOMAIN refused |-> Check(refused[i][1])]

(* Answers are taken from the front.                                       *)
Given_FromBack(b, id) ==
  b.answer.replies[Len(b.answer.replies) + 1 -
                   CHOOSE i \in DOMAIN b.calls : b.calls[i] = id].of
Given(b, id) ==
  b.answer.replies[CHOOSE i \in DOMAIN b.calls : b.calls[i] = id].of

Deliver(b) ==
  /\ b \in batches /\ b.answer # Unanswered
  /\ batches' = batches \ {b}
  /\ queue' = queue \o Checks(b)
  /\ status' = [id \in Id |->
       IF Contains(Checks(b), id) THEN "queued"
       ELSE IF id[1] \in Settles(b) THEN "idle"
       ELSE IF Contains(b.calls, id) THEN "checking"
       ELSE status[id]]
  /\ got' = [c \in Call |->
       IF \E i \in DOMAIN b.calls : b.calls[i] = Main(c) /\ Result(b, i) = "ok"
       THEN Given(b, Main(c))
       ELSE got[c]]
  /\ notice' = (notice \/ Expires(b))
  /\ UNCHANGED <<session, faults>>

Expire ==
  /\ session /\ session' = FALSE
  /\ UNCHANGED <<queue, batches, status, got, notice, faults>>

RequestInit ==
  /\ queue = << >> /\ batches = {}
  /\ status = [i \in Id |-> "idle"]
  /\ got = [c \in Call |-> Main(c)]
  /\ session = TRUE /\ notice = FALSE /\ faults = 0
=============================================================================
