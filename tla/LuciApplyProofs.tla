-------------------------- MODULE LuciApplyProofs --------------------------
(***************************************************************************)
(* Proofs about LuciApply, for all times and bounds: a configuration that  *)
(* nobody confirmed is rolled back, one that was confirmed stays, and the  *)
(* poll loop rests while a dialog is shown.                                *)
(***************************************************************************)
EXTENDS LuciApply, TLAPS

(* The part of the type that counting down needs.                          *)
BackTyped == back \in {None} \cup Nat

(* What is applied with a rollback pending is all there was to apply.      *)
NothingStaged == back # None => ~staged

(* A 200 on its way to confirm() means that rpcd was confirmed, and no     *)
(* request is under way once the page has said so.                         *)
ConfirmedOnWire == (req = "confirm" /\ reply = 200) => (kept /\ back = None)
DoneIsQuiet == stage = "done" => req = "none"

(* A loop that runs although a dialog has stopped it was started again by  *)
(* a dialog that was closed.                                               *)
StoppedOnce == (wasPolling /\ polling) => dismissed

DeviceInv == BackTyped /\ UnconfirmedRollsBack /\ NothingStaged /\ ConfirmedStays
AnswerInv == ConfirmedOnWire /\ DoneIsQuiet /\ AppliedIsKept
DialogInv == StoppedOnce /\ PollingPaused

-----------------------------------------------------------------------------
(* What the device runs                                                    *)

LEMMA DeviceInit == Init => DeviceInv
BY DEF Init, DeviceInv, BackTyped, UnconfirmedRollsBack, NothingStaged, ConfirmedStays, None

(* The steps of the page leave the device alone.                           *)
LEMMA PageLeavesDevice ==
  ASSUME \/ User \/ Client \/ Lose \/ Leave
  PROVE  UNCHANGED device /\ kept' = kept
BY DEF User, Client, Apply, Choose, Cancel, Dismiss, Revert, Checked, StartConfirm, ApplyRefused,
   ConfirmStarts, SendConfirm, ConfirmAnswered, SendProbe, ProbeAnswered, RevertAnswered,
   PageReloads, Lose, Leave, rest

LEMMA DeviceStep == DeviceInv /\ [Next]_vars => DeviceInv'
<1>. SUFFICES ASSUME DeviceInv, [Next]_vars PROVE DeviceInv'
  OBVIOUS
<1>. USE DEF DeviceInv, BackTyped, UnconfirmedRollsBack, NothingStaged, ConfirmedStays, None
<1>1. CASE UNCHANGED device /\ kept' = kept
  BY <1>1 DEF device
<1>2. CASE ServeApply
  <2>1. CASE UNCHANGED <<device, kept>>
    BY <2>1 DEF device
  <2>2. CASE active' = "new" /\ staged' = FALSE /\ back' = Rollback /\ kept' = FALSE
    BY <2>2, TimesAssumption DEF Rollback
  <2>3. CASE staged /\ active' = "new" /\ staged' = FALSE /\ kept' = TRUE /\ back' = back
    BY <2>3
  <2>4. CASE ~ staged /\ active' = active /\ staged' = FALSE /\ (kept' <=> kept) /\ back' = back
    BY <2>4
  <2>. HIDE DEF DeviceInv
  <2>. QED  BY <1>2, <2>1, <2>2, <2>3, <2>4 DEF ServeApply
<1>3. CASE ServeConfirm \/ ServeStray
  <2>1. /\ UNCHANGED <<active, staged>>
        /\ Confirmed \/ UNCHANGED <<back, kept>>
    BY <1>3 DEF ServeConfirm, ServeStray
  <2>. QED  BY <2>1 DEF Confirmed
<1>4. CASE ServeRevert
  BY <1>4 DEF ServeRevert, rest
<1>5. CASE RpcdRollsBack
  BY <1>5 DEF RpcdRollsBack, rest
<1>6. CASE Tick
  BY <1>6 DEF Tick, Countdown, rest
<1>7. CASE UNCHANGED vars
  BY <1>7 DEF vars, device, rest
<1>. HIDE DEF DeviceInv
<1>. QED
  BY <1>1, <1>2, <1>3, <1>4, <1>5, <1>6, <1>7, PageLeavesDevice DEF Next, Server

(* A configuration that runs unconfirmed has its rollback pending, for any *)
(* timeouts and any number of applies and losses.                          *)
THEOREM RollbackCorrect == Spec => []UnconfirmedRollsBack
<1>1. DeviceInv => UnconfirmedRollsBack
  BY DEF DeviceInv
<1>. QED  BY <1>1, DeviceInit, DeviceStep, PTL DEF Spec

-----------------------------------------------------------------------------
(* What the page was answered                                              *)

LEMMA AnswerInit == Init => AnswerInv
BY DEF Init, AnswerInv, ConfirmedOnWire, DoneIsQuiet, AppliedIsKept

(* What was confirmed stays so until something else is applied.            *)
LEMMA KeptStays ==
  ASSUME DeviceInv, [Next]_vars, kept /\ back = None
  PROVE  (kept' /\ back' = None) \/ (onWire /\ req = "apply")
<1>1. CASE UNCHANGED device /\ kept' = kept
  BY <1>1 DEF device
<1>2. CASE ServeApply
  BY <1>2 DEF ServeApply
<1>3. CASE ServeConfirm \/ ServeStray
  <2>1. Confirmed \/ UNCHANGED <<back, kept>>
    BY <1>3 DEF ServeConfirm, ServeStray
  <2>. QED  BY <2>1 DEF Confirmed
<1>4. CASE ServeRevert \/ UNCHANGED vars
  BY <1>4 DEF ServeRevert, rest, vars, device
<1>5. CASE RpcdRollsBack
  BY <1>5 DEF RpcdRollsBack, None
<1>6. CASE Tick
  BY <1>6 DEF Tick, Countdown, rest, None
<1>. QED
  BY <1>1, <1>2, <1>3, <1>4, <1>5, <1>6, PageLeavesDevice DEF Next, Server

LEMMA ConfirmedOnWireStep ==
  DeviceInv /\ ConfirmedOnWire /\ [Next]_vars => ConfirmedOnWire'
<1>. SUFFICES ASSUME DeviceInv, ConfirmedOnWire, [Next]_vars, req' = "confirm", reply' = 200
              PROVE  kept' /\ back' = None
  BY DEF ConfirmedOnWire
<1>1. CASE req = "confirm" /\ reply = 200
  BY <1>1, KeptStays DEF ConfirmedOnWire
<1>2. CASE ServeConfirm
  BY <1>1, <1>2 DEF ServeConfirm, Confirmed, Answer
<1>3. CASE ~ (req = "confirm" /\ reply = 200) /\ ~ ServeConfirm
  <2>1. CASE User \/ Client
    BY <1>3, <2>1 DEF User, Client, Apply, Choose, Cancel, Dismiss, Revert, Checked, StartConfirm,
       ApplyRefused, ConfirmStarts, SendConfirm, ConfirmAnswered, SendProbe, ProbeAnswered,
       RevertAnswered, PageReloads, Send, Close, net, None
  <2>2. CASE ServeApply \/ ServeRevert \/ ServeStray \/ RpcdRollsBack \/ Tick \/ UNCHANGED vars
    BY <1>3, <2>2 DEF ServeApply, ServeRevert, ServeStray, RpcdRollsBack, Tick, Answer, net, vars
  <2>3. CASE Lose \/ Leave
    BY <1>3, <2>3 DEF Lose, Leave, None
  <2>. QED  BY <1>3, <2>1, <2>2, <2>3 DEF Next, Server
<1>. QED  BY <1>1, <1>2, <1>3

LEMMA DoneIsQuietStep == DoneIsQuiet /\ [Next]_vars => DoneIsQuiet'
<1>. SUFFICES ASSUME DoneIsQuiet, [Next]_vars, stage' = "done" PROVE req' = "none"
  BY DEF DoneIsQuiet
<1>1. CASE stage # "done"
  BY <1>1 DEF Next, User, Client, Server, Apply, Choose, Cancel, Dismiss, Revert, Checked,
     StartConfirm, ApplyRefused, ConfirmStarts, GiveUp, SendConfirm, ConfirmAnswered, SendProbe,
     ProbeAnswered, RevertAnswered, PageReloads, ServeApply, ServeConfirm, ServeRevert, ServeStray,
     RpcdRollsBack, Tick, Lose, Leave, Close, page, vars
<1>2. CASE stage = "done"
  <2>1. req = "none"
    BY <1>2 DEF DoneIsQuiet
  <2>2. CASE User \/ Client
    BY <1>2, <2>1, <2>2 DEF User, Client, Apply, Choose, Cancel, Dismiss, Revert, Checked,
       StartConfirm, ApplyRefused, ConfirmStarts, SendConfirm, ConfirmAnswered, SendProbe,
       ProbeAnswered, RevertAnswered, PageReloads, Answered, net
  <2>3. CASE ~ (User \/ Client)
    BY <1>2, <2>1, <2>3 DEF Next, Server, ServeApply, ServeConfirm, ServeRevert, ServeStray,
       RpcdRollsBack, Tick, Lose, Leave, net, vars
  <2>. QED  BY <2>2, <2>3
<1>. QED  BY <1>1, <1>2

LEMMA AppliedIsKeptStep ==
  DeviceInv /\ AnswerInv /\ [Next]_vars => AppliedIsKept'
<1>. SUFFICES ASSUME DeviceInv, AnswerInv, [Next]_vars,
                     stage' = "done", checked', answer' = 200
              PROVE  kept' /\ back' = None
  BY DEF AppliedIsKept
<1>1. CASE stage = "done"
  <2>1. UNCHANGED <<checked, answer>>
    BY <1>1 DEF Next, User, Client, Server, Apply, Choose, Cancel, Dismiss, Revert, Checked,
       StartConfirm, ApplyRefused, ConfirmStarts, SendConfirm, ConfirmAnswered, SendProbe,
       ProbeAnswered, RevertAnswered, PageReloads, ServeApply, ServeConfirm, ServeRevert,
       ServeStray, RpcdRollsBack, Tick, Lose, Leave, page, rest, vars
  <2>2. kept /\ back = None /\ req = "none"
    BY <1>1, <2>1 DEF AnswerInv, AppliedIsKept, DoneIsQuiet
  <2>. QED  BY <2>2, KeptStays
<1>2. CASE stage # "done"
  <2>1. ConfirmAnswered
    BY <1>2 DEF Next, User, Client, Server, Apply, Choose, Cancel, Dismiss, Revert, Checked,
       StartConfirm, ApplyRefused, ConfirmStarts, GiveUp, SendConfirm, SendProbe,
       ProbeAnswered, RevertAnswered, PageReloads, ServeApply, ServeConfirm, ServeRevert,
       ServeStray, RpcdRollsBack, Tick, Lose, Leave, page, vars
  <2>2. req = "confirm" /\ reply = 200
    BY <1>2, <2>1 DEF ConfirmAnswered, Answered, GiveUp
  <2>3. UNCHANGED <<kept, back>>
    BY <2>1 DEF ConfirmAnswered, device
  <2>. QED  BY <2>2, <2>3 DEF AnswerInv, ConfirmedOnWire
<1>. QED  BY <1>1, <1>2

(* A confirmed configuration has no rollback left that could take it back, *)
(* and a page that was answered 200 speaks of one.                         *)
THEOREM ConfirmedCorrect == Spec => []ConfirmedIsKept
<1>1. DeviceInv /\ AnswerInv => ConfirmedIsKept
  BY DEF DeviceInv, AnswerInv, ConfirmedIsKept
<1>2. DeviceInv /\ AnswerInv /\ [Next]_vars => AnswerInv'
  BY ConfirmedOnWireStep, DoneIsQuietStep, AppliedIsKeptStep DEF AnswerInv
<1>. QED  BY <1>1, <1>2, DeviceInit, DeviceStep, AnswerInit, PTL DEF Spec

-----------------------------------------------------------------------------
(* The poll loop                                                           *)

LEMMA DialogInit == Init => DialogInv
BY DEF Init, DialogInv, StoppedOnce, PollingPaused

(* A dialog that is shown stops the loop, if an earlier one has not.       *)
LEMMA DisplayPauses ==
  ASSUME StoppedOnce, DisplayStatus, dismissed' = dismissed
  PROVE  DialogInv'
<1>1. CASE wasPolling
  BY <1>1 DEF DisplayStatus, DialogInv, StoppedOnce, PollingPaused
<1>2. CASE ~ wasPolling
  BY <1>2 DEF DisplayStatus, DialogInv, StoppedOnce, PollingPaused
<1>. QED  BY <1>1, <1>2

LEMMA DialogStep == DialogInv /\ [Next]_vars => DialogInv'
<1>. SUFFICES ASSUME DialogInv, [Next]_vars PROVE DialogInv'
  OBVIOUS
<1>1. CASE DisplayStatus /\ dismissed' = dismissed
  BY <1>1, DisplayPauses DEF DialogInv
<1>2. CASE dismissed'
  BY <1>2 DEF DialogInv, StoppedOnce, PollingPaused
<1>3. CASE stage' = "idle" /\ wasPolling' = FALSE
  BY <1>3 DEF DialogInv, StoppedOnce, PollingPaused
<1>4. CASE UNCHANGED <<polling, wasPolling, dismissed>> /\ (stage = "idle" => stage' = "idle")
  BY <1>4 DEF DialogInv, StoppedOnce, PollingPaused
<1>5. CASE User
  BY <1>1, <1>2, <1>4, <1>5 DEF User, Apply, Choose, Cancel, Dismiss, Revert, DisplayOff, rest
<1>6. CASE Client
  BY <1>1, <1>3, <1>4, <1>6 DEF Client, Checked, StartConfirm, ApplyRefused, ConfirmStarts,
     GiveUp, SendConfirm, ConfirmAnswered, SendProbe, ProbeAnswered, RevertAnswered, PageReloads,
     page, rest
<1>7. CASE Leave
  BY <1>3, <1>7 DEF Leave
<1>8. CASE Server \/ ServeStray \/ RpcdRollsBack \/ Tick \/ Lose \/ UNCHANGED vars
  BY <1>4, <1>8 DEF Server, ServeApply, ServeConfirm, ServeRevert, ServeStray, RpcdRollsBack,
     Tick, Lose, page, rest, vars
<1>. QED  BY <1>5, <1>6, <1>7, <1>8 DEF Next

(* While a dialog is shown the poll loop rests, unless the page had closed *)
(* a dialog before.                                                        *)
THEOREM PollingCorrect == Spec => []PollingPaused
<1>1. DialogInv => PollingPaused
  BY DEF DialogInv
<1>. QED  BY <1>1, DialogInit, DialogStep, PTL DEF Spec
=============================================================================
