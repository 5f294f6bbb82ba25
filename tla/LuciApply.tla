------------------------------ MODULE LuciApply ------------------------------
(***************************************************************************)
(* Applying the saved changes with a rollback: the dialogs and requests of *)
(* LuCI's `changes' object (resources/ui.js), the controller and model     *)
(* that answer them (controller/admin/uci.lua, model/uci.lua), and rpcd's  *)
(* rollback timer, which is external.  Requests and replies can be lost,   *)
(* and a request the browser has given up on can still be carried out.     *)
(* Times count down in ticks.                                              *)
(***************************************************************************)
EXTENDS Integers

CONSTANTS
  ApplyRollback,  \* env.apply_rollback: how long the page tries to confirm
  RpcdTimeout,    \* how long rpcd waits for the confirmation
  TokenTimeout,   \* how long the token is kept in the session
  MaxApplies, MaxLost

ASSUME TimesAssumption ==
  /\ ApplyRollback \in Nat \ {0} /\ RpcdTimeout \in Nat \ {0}
  /\ TokenTimeout \in Nat /\ TokenTimeout >= RpcdTimeout
ASSUME BoundsAssumption == MaxApplies \in Nat /\ MaxLost \in Nat

VARIABLES
  stage,        \* what the page is at
  checked,      \* the apply under way has a rollback
  left,         \* time to the deadline of confirm()
  armed,        \* call() has passed the deadline test and will send
  auth,         \* confirm_auth is the token of the pending rollback
  req,          \* the request under way
  onWire,       \* it has not reached the server yet
  reply,        \* the status on its way back
  stray,        \* a confirm of the pending rollback that the page has given
                \* up is still under way
  polling,      \* request.poll.active()
  wasPolling,   \* this.was_polling
  active,       \* the configuration the device runs: "old" or "new"
  staged,       \* there are changes to apply
  back,         \* time until rpcd rolls back, None: no rollback pending
  token,        \* time until the rollback token expires
  applies, lost,       \* bounds
  kept, answer,        \* history: rpcd was confirmed; status that ended it
  dismissed            \* history: this page has closed a dialog

page == <<stage, checked, left, armed, auth, polling, wasPolling>>
net == <<req, onWire, reply, stray>>
device == <<active, staged, back, token>>
rest == <<applies, lost, kept, answer, dismissed>>
vars == <<page, net, device, rest>>

None == -1
Stages == {"idle", "checking", "asking", "applying", "confirming", "done",
           "rolling", "rolledback", "unreachable", "notice", "reverting",
           "reverted"}

-----------------------------------------------------------------------------
(* The page                                                                *)

DisplayStatus_NoStop == UNCHANGED <<polling, wasPolling>>
(* displayStatus(type): the poll loop is stopped, unless it was stopped by *)
(* an earlier dialog of this page; nothing forgets was_polling.            *)
DisplayStatus ==
  IF wasPolling THEN UNCHANGED <<polling, wasPolling>>
  ELSE wasPolling' = polling /\ polling' = FALSE

(* displayStatus(false)                                                    *)
DisplayOff ==
  /\ polling' = (polling \/ wasPolling)
  /\ dismissed' = TRUE
  /\ UNCHANGED wasPolling

Send(kind) ==
  /\ req' = kind /\ onWire' = TRUE /\ reply' = None
  /\ UNCHANGED stray

(* Save & Apply, Apply unchecked, or the button of the rollback dialog.    *)
Apply(c) ==
  /\ stage = "idle" \/ (stage = "rolledback" /\ ~c)
  /\ applies < MaxApplies
  /\ applies' = applies + 1
  /\ DisplayStatus
  /\ IF c THEN stage' = "checking" /\ UNCHANGED <<checked, net>>
          ELSE stage' = "applying" /\ checked' = FALSE /\ Send("apply")
  /\ answer' = None
  /\ UNCHANGED <<left, armed, auth, device, lost, kept, dismissed>>

(* checkConnectivityAffected(): null if the peer cannot be asked for.      *)
Checked(affected) ==
  /\ stage = "checking"
  /\ DisplayStatus
  /\ IF affected THEN stage' = "asking" /\ UNCHANGED <<checked, net>>
          ELSE stage' = "applying" /\ checked' = TRUE /\ Send("apply")
  /\ UNCHANGED <<left, armed, auth, device, rest>>

Choose(c) ==
  /\ stage = "asking"
  /\ stage' = "applying" /\ checked' = c /\ Send("apply")
  /\ UNCHANGED <<left, armed, auth, polling, wasPolling, device, rest>>

Cancel ==
  /\ stage = "asking"
  /\ stage' = "idle" /\ DisplayOff
  /\ UNCHANGED <<checked, left, armed, auth, net, device, applies, lost, kept,
                 answer>>

Answered(kind) == req = kind /\ reply # None
Close == req' = "none" /\ reply' = None /\ UNCHANGED <<onWire, stray>>

(* max(rollback setting, 90), from the arrival of the reply.               *)
Deadline == ApplyRollback

(* The reply to the apply request.                                         *)
StartConfirm ==
  /\ Answered("apply") /\ reply = (IF checked THEN 200 ELSE 204)
  /\ stage' = "confirming" /\ left' = Deadline /\ armed' = FALSE
  /\ auth' = (auth \/ checked)
  /\ DisplayStatus /\ Close
  /\ UNCHANGED <<checked, device, rest>>

ApplyRefused ==
  /\ Answered("apply") /\ reply # (IF checked THEN 200 ELSE 204)
  /\ stage' = "notice"
  /\ DisplayStatus /\ Close
  /\ UNCHANGED <<checked, left, armed, auth, device, rest>>

(* `No changes' and failures go away after a moment, the rollback dialog   *)
(* when it is dismissed.                                                   *)
Dismiss ==
  /\ stage \in {"notice", "rolledback"}
  /\ stage' = "idle" /\ DisplayOff
  /\ UNCHANGED <<checked, left, armed, auth, net, device, applies, lost, kept,
                 answer>>

(* rollback(): wait for the rollback, or, unchecked, say so and stop.      *)
GiveUp_Not == UNCHANGED <<stage, armed, polling, wasPolling>>
GiveUp ==
  /\ stage' = IF checked THEN "rolling" ELSE "unreachable"
  /\ armed' = checked
  /\ DisplayStatus

(* call() of confirm(): first after the holdoff, then on each reply; the   *)
(* deadline is tested before the status.                                   *)
ConfirmStarts ==
  /\ stage = "confirming" /\ req = "none" /\ ~armed
  /\ IF left = 0 THEN GiveUp
     ELSE armed' = TRUE /\ UNCHANGED <<stage, polling, wasPolling>>
  /\ UNCHANGED <<checked, left, auth, net, device, rest>>

SendConfirm ==
  /\ stage = "confirming" /\ req = "none" /\ armed
  /\ Send("confirm")
  /\ UNCHANGED <<page, device, rest>>

ConfirmAnswered ==
  /\ Answered("confirm") /\ stage = "confirming"
  /\ \/ left = 0 /\ GiveUp /\ UNCHANGED answer
     \/ /\ left > 0 /\ reply \in {200, 204}
        /\ stage' = "done" /\ answer' = reply
        /\ DisplayStatus
        /\ UNCHANGED armed
     \/ /\ left > 0 /\ reply \notin {200, 204}
        /\ armed' = TRUE
        /\ UNCHANGED <<stage, polling, wasPolling, answer>>
  /\ Close
  /\ UNCHANGED <<checked, left, auth, device, applies, lost, kept, dismissed>>

RolledBack(status) == status = 204

(* call() of rollback() asks with the page's own token.                    *)
SendProbe ==
  /\ stage = "rolling" /\ req = "none"
  /\ Send("probe")
  /\ UNCHANGED <<page, device, rest>>

ProbeAnswered ==
  /\ Answered("probe")
  /\ IF RolledBack(reply) THEN stage' = "rolledback" /\ DisplayStatus
     ELSE UNCHANGED <<stage, polling, wasPolling>>
  /\ Close
  /\ UNCHANGED <<checked, left, armed, auth, device, rest>>

(* Revert: of the changes dialog or of the rollback dialog.                *)
Revert ==
  /\ stage \in {"idle", "rolledback"}
  /\ stage' = "reverting" /\ DisplayStatus /\ Send("revert")
  /\ UNCHANGED <<checked, left, armed, auth, device, rest>>

RevertAnswered ==
  /\ Answered("revert")
  /\ stage' = IF reply = 200 THEN "reverted" ELSE "notice"
  /\ DisplayStatus /\ Close
  /\ UNCHANGED <<checked, left, armed, auth, device, rest>>

(* window.location is set again: a new page, which polls.                  *)
PageReloads ==
  /\ stage \in {"done", "reverted"}
  /\ stage' = "idle" /\ armed' = FALSE /\ auth' = FALSE
  /\ polling' = TRUE /\ wasPolling' = FALSE /\ dismissed' = FALSE
  /\ UNCHANGED <<checked, left, net, device, applies, lost, kept, answer>>

-----------------------------------------------------------------------------
(* The server                                                              *)

Answer(status) == onWire' = FALSE /\ reply' = status /\ UNCHANGED req

Rollback_None == None
Rollback == RpcdTimeout

(* action_apply_rollback and action_apply_unchecked: 204 is rpcd's `No     *)
(* data', also of the apply after an unchecked commit; 403 is its answer   *)
(* while another rollback is pending.                                      *)
ServeApply ==
  /\ onWire /\ req = "apply"
  /\ \/ /\ checked /\ back # None
        /\ Answer(403) /\ UNCHANGED <<device, auth, kept, stray>>
     \/ /\ checked /\ back = None /\ ~staged
        /\ Answer(204) /\ UNCHANGED <<device, auth, kept, stray>>
     \/ /\ checked /\ back = None /\ staged
        /\ active' = "new" /\ staged' = FALSE
        /\ back' = Rollback /\ token' = TokenTimeout
        /\ kept' = FALSE /\ auth' = FALSE /\ stray' = FALSE
        /\ Answer(200)
     \/ /\ ~checked
        /\ active' = IF staged THEN "new" ELSE active
        /\ staged' = FALSE
        /\ kept' = (kept \/ staged)
        /\ UNCHANGED <<back, token, auth, stray>>
        /\ Answer(204)
  /\ UNCHANGED <<stage, checked, left, armed, polling, wasPolling, applies,
                 lost, answer, dismissed>>

(* confirm() of the model: the token of another page, or the page's own    *)
(* token (a probe), is refused.                                            *)
Confirm(right) ==
  IF token = None THEN 204 ELSE IF ~right THEN 403
  ELSE IF back = None THEN 204 ELSE 200

Confirmed_StillPending ==
  token' = None /\ kept' = TRUE /\ UNCHANGED back
Confirmed == back' = None /\ token' = None /\ kept' = TRUE

ServeConfirm ==
  /\ onWire /\ req \in {"confirm", "probe"}
  /\ LET status == Confirm(req = "confirm" /\ auth)
     IN /\ Answer(status)
        /\ IF status = 200
             THEN Confirmed
             ELSE UNCHANGED <<back, token, kept>>
  /\ UNCHANGED <<page, stray, active, staged, applies, lost, answer, dismissed>>

ServeStray ==
  /\ stray /\ stray' = FALSE
  /\ IF Confirm(TRUE) = 200
       THEN Confirmed
       ELSE UNCHANGED <<back, token, kept>>
  /\ UNCHANGED <<page, req, onWire, reply, active, staged, applies, lost,
                 answer, dismissed>>

ServeRevert ==
  /\ onWire /\ req = "revert"
  /\ staged' = FALSE
  /\ Answer(200)
  /\ UNCHANGED <<page, stray, active, back, token, rest>>

(* rpcd restores the files and the changes that were staged.               *)
RpcdRollsBack ==
  /\ back = 0
  /\ back' = None /\ active' = "old" /\ staged' = TRUE
  /\ UNCHANGED <<page, net, token, rest>>

Countdown(t) == IF t > 0 THEN t - 1 ELSE t

Tick ==
  /\ back # 0 /\ (back # None \/ token # None \/ left > 0)
  /\ back' = Countdown(back)
  /\ left' = Countdown(left)
  /\ token' = IF token > 1 THEN token - 1 ELSE None
  /\ UNCHANGED <<stage, checked, armed, auth, polling, wasPolling, net, active,
                 staged, rest>>

-----------------------------------------------------------------------------
(* The network: the request or its reply is lost, and the page is told of  *)
(* a time-out; a confirm it gave up may still arrive.  A reply to apply or *)
(* revert that does not come leaves the dialog as it is: nothing handles   *)
(* the rejected promise.                                                   *)
Lose ==
  /\ req # "none" /\ lost < MaxLost
  /\ lost' = lost + 1
  /\ stray' = (stray \/ (onWire /\ req = "confirm" /\ auth))
  /\ onWire' = FALSE
  /\ IF req \in {"confirm", "probe"}
       THEN req' = req /\ reply' = 0
       ELSE req' = "none" /\ reply' = None
  /\ UNCHANGED <<page, device, applies, kept, answer, dismissed>>

(* The user leaves the page or loads it again.                             *)
Leave ==
  /\ stage # "idle" /\ (onWire => req = "confirm")
  /\ stage' = "idle" /\ armed' = FALSE /\ auth' = FALSE /\ left' = 0
  /\ polling' = TRUE /\ wasPolling' = FALSE /\ dismissed' = FALSE
  /\ stray' = (stray \/ (onWire /\ auth))
  /\ req' = "none" /\ onWire' = FALSE /\ reply' = None
  /\ UNCHANGED <<checked, device, applies, lost, kept, answer>>

Init ==
  /\ stage = "idle" /\ checked = FALSE /\ left = 0 /\ armed = FALSE
  /\ auth = FALSE /\ polling \in BOOLEAN /\ wasPolling = FALSE
  /\ req = "none" /\ onWire = FALSE /\ reply = None /\ stray = FALSE
  /\ active = "old" /\ staged = TRUE /\ back = None /\ token = None
  /\ applies = 0 /\ lost = 0 /\ kept = FALSE /\ answer = None
  /\ dismissed = FALSE

User ==
  \/ \E c \in BOOLEAN : Apply(c) \/ Choose(c)
  \/ Cancel \/ Dismiss \/ Revert

Client ==
  \/ \E affected \in BOOLEAN : Checked(affected)
  \/ StartConfirm \/ ApplyRefused \/ ConfirmStarts \/ SendConfirm
  \/ ConfirmAnswered \/ SendProbe \/ ProbeAnswered \/ RevertAnswered
  \/ PageReloads

Server == ServeApply \/ ServeConfirm \/ ServeRevert

Next ==
  User \/ Client \/ Server \/ ServeStray \/ RpcdRollsBack \/ Tick
  \/ Lose \/ Leave

Spec == Init /\ [][Next]_vars

(* The browser runs its timers and handles replies, the server answers     *)
(* what reaches it, and time passes; losses are bounded.                   *)
FairSpec ==
  /\ Spec
  /\ WF_vars(Client) /\ WF_vars(Server) /\ WF_vars(RpcdRollsBack) /\ WF_vars(Tick)

-----------------------------------------------------------------------------
TypeOK ==
  /\ stage \in Stages /\ checked \in BOOLEAN /\ armed \in BOOLEAN
  /\ left \in 0..ApplyRollback
  /\ auth \in BOOLEAN /\ polling \in BOOLEAN /\ wasPolling \in BOOLEAN
  /\ req \in {"none", "apply", "confirm", "probe", "revert"}
  /\ onWire \in BOOLEAN /\ stray \in BOOLEAN
  /\ reply \in {None, 0, 200, 204, 403}
  /\ active \in {"old", "new"} /\ staged \in BOOLEAN
  /\ back \in {None} \cup 0..RpcdTimeout
  /\ token \in {None} \cup 0..TokenTimeout
  /\ applies \in 0..MaxApplies /\ lost \in 0..MaxLost
  /\ kept \in BOOLEAN /\ answer \in {None, 200, 204}
  /\ dismissed \in BOOLEAN

(* A configuration nobody has confirmed is never left running without a    *)
(* rollback pending (model/uci.lua:127-205): whatever the page does and    *)
(* whatever is lost, the device is reachable again after a while.          *)
UnconfirmedRollsBack == (active = "new" /\ ~kept) => back # None

(* A confirmed configuration stays: no rollback timer is left that could   *)
(* take it back.                                                           *)
ConfirmedStays == kept => (back = None \/ active = "old")

(* A confirmation answered with 200 means what the page then says,         *)
(* `Configuration changes applied' (ui.js:341).                            *)
AppliedIsKept ==
  (stage = "done" /\ checked /\ answer = 200) => (kept /\ back = None)

(* The same for every answer the page takes for success (ui.js:341 accepts *)
(* 204 as well, which is also the answer after a rollback).                *)
AppliedMeansKept == (stage = "done" /\ checked) => active = "new"

(* While a dialog is shown the poll loop is stopped (ui.js:332-335), as    *)
(* long as no dialog of the page was closed before: nothing resets         *)
(* was_polling, so a later one finds it set and does not stop the loop.    *)
PollingPaused == (stage # "idle" /\ polling) => dismissed

(* So a confirmation that the page has learned of lasts.                   *)
ConfirmedIsKept == ConfirmedStays /\ AppliedIsKept

(* Trying to confirm ends, with success, with the rollback or with the     *)
(* deadline, unless the page is left.                                      *)
ConfirmEnds ==
  stage = "confirming" ~> stage \in {"done", "rolledback", "unreachable", "idle"}

(* Waiting for the rollback ends: the page is told of it (ui.js:337-339),  *)
(* also when the configuration was confirmed after all, unless it is left. *)
RollbackNoticed == stage = "rolling" ~> stage # "rolling"

(* The dialog of an apply comes to a verdict, whatever gets lost.          *)
ApplyEnds == ConfirmEnds /\ RollbackNoticed
=============================================================================
