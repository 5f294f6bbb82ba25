-------------------------- MODULE Mwan3TrackProofs --------------------------
(***************************************************************************)
(* Proofs about Mwan3Track, for every up, down, host list, reliability and *)
(* number of hotplug calls at once.                                        *)
(***************************************************************************)
EXTENDS Mwan3Track, TLAPS

(* What score and STATUS may be at each place of the tracker's loop.       *)
ScoreInv ==
  /\ pc = "start" => score \in {0, Up + Down}
  /\ pc = "connected" => STATUS = "online" /\ score = Up + Down
  /\ pc \in {"probe", "judge", "rest"} =>
       IF STATUS = "online" THEN score > Up ELSE score < Up
  /\ pc = "judge" => result # "none"
  /\ pc = "ifdown" => STATUS = "offline" /\ score = 0
  /\ pc = "ifup" => STATUS = "online"
  /\ pc = "disconnected" => STATUS = "offline"

(* The call that holds the lock is the one in its handler.                 *)
LockInv ==
  /\ \A c \in Call :
       (lock = c) <=> call[c].pc \in {"state", "track", "signal", "policy"}
  /\ lock # NoCall => lock \in Call

(* What a handler has established before it ends.                          *)
ServiceInv ==
  /\ InServiceAgrees
  /\ \A c \in Call :
       /\ ~overruled /\ call[c].pc \in {"track", "policy"} /\ call[c].action = "ifup"
            => iface_state = call[c].status
       /\ call[c].pc \in {"track", "policy"} /\ call[c].action = "ifup" => route
       /\ ~overruled /\ call[c].pc \in {"signal", "policy"} /\ call[c].action = "ifdown"
            => iface_state = "offline"

-----------------------------------------------------------------------------
LEMMA InitTyped == Init => TypeOK
<1> SUFFICES ASSUME Init PROVE TypeOK
  OBVIOUS
<1>1. call \in [Call -> CallState]
  BY DEF Init, CallState
<1>2. /\ score \in 0 .. Up + Down
      /\ flaps \in 0 .. MaxFlaps
  BY TrackConstants DEF Init
<1> QED
  BY <1>1, <1>2 DEF Init, TypeOK, TrackerPc, Verdict

(* An active call has all its fields.                                      *)
LEMMA ActiveFields ==
  ASSUME TypeOK, NEW c \in Call, call[c].pc # "idle"
  PROVE  call[c] \in Active
<1>1. call[c] \in CallState
  BY DEF TypeOK
<1>2. call[c] \in [pc : {"idle"}] => call[c].pc = "idle"
  OBVIOUS
<1> QED
  BY <1>1, <1>2 DEF CallState

(* The three ways in which a step writes the table of calls.               *)
LEMMA AdvanceTyped ==
  ASSUME TypeOK, NEW c \in Call, call[c].pc # "idle",
         NEW p \in {"state", "track", "signal", "policy", "script"},
         call' = [call EXCEPT ![c].pc = p]
  PROVE  call' \in [Call -> CallState]
<1>1. call[c] \in Active
  BY ActiveFields
<1>2. [call[c] EXCEPT !.pc = p] \in Active
  BY <1>1 DEF Active
<1>3. call' = [call EXCEPT ![c] = [call[c] EXCEPT !.pc = p]]
  OBVIOUS
<1> QED
  BY <1>2, <1>3 DEF TypeOK, CallState

LEMMA EnterTyped ==
  ASSUME TypeOK, NEW c \in Call, Enter(c)
  PROVE  call' \in [Call -> CallState]
<1>1. call[c] \in Active
  BY ActiveFields DEF Enter
<1>2. EntryStatus \in Verdict
  BY DEF EntryStatus, ReportedStatus, Verdict
<1>3. [call[c] EXCEPT !.pc = "state", !.status = EntryStatus] \in Active
  BY <1>1, <1>2 DEF Active
<1>4. call' = [call EXCEPT ![c] = [call[c] EXCEPT !.pc = "state", !.status = EntryStatus]]
  BY DEF Enter
<1> QED
  BY <1>3, <1>4 DEF TypeOK, CallState

LEMMA IdleTyped ==
  ASSUME TypeOK, NEW c \in Call, call' = [call EXCEPT ![c] = [pc |-> "idle"]]
  PROVE  call' \in [Call -> CallState]
BY DEF TypeOK, CallState

LEMMA NewCallTyped ==
  ASSUME TypeOK, NEW c \in Call, NEW who \in {"netifd", "tracker"},
         NEW act \in {"ifup", "ifdown", "disconnected"},
         call' = [call EXCEPT ![c] = NewCall(who, act)]
  PROVE  call' \in [Call -> CallState]
<1>1. NewCall(who, act) \in Active
  BY DEF NewCall, Active, Verdict
<1> QED
  BY <1>1 DEF TypeOK, CallState

LEMMA MakeCallTyped ==
  ASSUME TypeOK, NEW act \in {"ifup", "ifdown", "disconnected"}, MakeCall(act)
  PROVE  /\ call' \in [Call -> CallState]
         /\ waitsFor' \in Call /\ waitsFor' # NoCall
         /\ pc' = act
<1>1. PICK c \in Call : /\ call' = [call EXCEPT ![c] = NewCall("tracker", act)]
                        /\ waitsFor' = c
                        /\ pc' = act
  BY DEF MakeCall
<1>2. call' \in [Call -> CallState]
  BY <1>1, NewCallTyped
<1> QED
  BY <1>1, <1>2, TrackConstants

LEMMA NextTyped == TypeOK /\ [Next]_vars => TypeOK'
<1> SUFFICES ASSUME TypeOK, [Next]_vars PROVE TypeOK'
  OBVIOUS
<1> USE TrackConstants
<1>1. CASE Answer
  BY <1>1 DEF Answer, TypeOK, tracker, firewall, history
<1>2. CASE Flap
  BY <1>2 DEF Flap, TypeOK, tracker, firewall, history
<1>3. CASE OtherHandler
  <2>1. CASE EndTracker
    BY <1>3, <2>1 DEF OtherHandler, EndTracker, TypeOK, TrackerPc, Running, env
  <2>2. CASE UNCHANGED <<tracker, unwatched>>
    BY <1>3, <2>2 DEF OtherHandler, TypeOK, env, tracker
  <2> QED
    BY <1>3, <2>1, <2>2 DEF OtherHandler
<1>4. ASSUME NEW c \in Call, Announce(c) PROVE TypeOK'
  <2>1. call' \in [Call -> CallState]
    BY <1>4, NewCallTyped DEF Announce, TypeOK
  <2> QED
    BY <1>4, <2>1 DEF Announce, TypeOK, tracker, firewall, history
<1>5. ASSUME NEW c \in Call, Enter(c) PROVE TypeOK'
  <2>1. call' \in [Call -> CallState]
    BY <1>5, EnterTyped
  <2> QED
    BY <1>5, <2>1 DEF Enter, TypeOK, env, tracker, firewall, history
<1>6. ASSUME NEW c \in Call, IfupState(c) PROVE TypeOK'
  <2>1. call' \in [Call -> CallState]
    BY <1>6, AdvanceTyped DEF IfupState, At
  <2>2. call[c].status \in Verdict
    BY <1>6, ActiveFields DEF IfupState, At, Active
  <2> QED
    BY <1>6, <2>1, <2>2 DEF IfupState, TypeOK, env, tracker, history
<1>7. ASSUME NEW c \in Call, IfupTrack(c) PROVE TypeOK'
  <2>1. call' \in [Call -> CallState]
    BY <1>7, AdvanceTyped DEF IfupTrack, At
  <2>2. score' \in 0 .. Up + Down
    BY <1>7 DEF IfupTrack
  <2> QED
    BY <1>7, <2>1, <2>2 DEF IfupTrack, TypeOK, env, firewall, TrackerPc, history
<1>8. ASSUME NEW c \in Call, IfupFinish(c) PROVE TypeOK'
  <2>1. call' \in [Call -> CallState]
    BY <1>8, IdleTyped DEF IfupFinish
  <2> QED
    BY <1>8, <2>1 DEF IfupFinish, RouteDeleted, TypeOK, env, tracker, history
<1>9. ASSUME NEW c \in Call, IfdownState(c) PROVE TypeOK'
  <2>1. call' \in [Call -> CallState]
    BY <1>9, AdvanceTyped DEF IfdownState, At
  <2>2. iface_state' \in Verdict
    BY <1>9 DEF IfdownState, Verdict
  <2>3. overruled' \in BOOLEAN
    BY <1>9 DEF IfdownState
  <2> QED
    BY <1>9, <2>1, <2>2, <2>3, ZenonT(60)
    DEF IfdownState, TypeOK, env, tracker, firewall, history
<1>10. ASSUME NEW c \in Call, IfdownSignal(c) PROVE TypeOK'
  <2>1. call' \in [Call -> CallState]
    BY <1>10, AdvanceTyped DEF IfdownSignal, At
  <2>2. /\ pc' \in TrackerPc
        /\ IFDOWN_EVENT' \in BOOLEAN
        /\ pc' \in {"ifup", "ifdown", "disconnected"}
             <=> pc \in {"ifup", "ifdown", "disconnected"}
    <3>1. Signalled
      BY <1>10 DEF IfdownSignal
    <3>2. \/ pc' = pc /\ IFDOWN_EVENT' = TRUE
          \/ pc' = pc /\ IFDOWN_EVENT' = IFDOWN_EVENT
          \/ pc = "start" /\ pc' = "none" /\ IFDOWN_EVENT' = IFDOWN_EVENT
      BY <3>1, Zenon DEF Signalled
    <3> QED
      BY <3>2 DEF TypeOK, TrackerPc, history
  <2> QED
    BY <1>10, <2>1, <2>2 DEF IfdownSignal, TypeOK, env, firewall, history
<1>11. ASSUME NEW c \in Call, IfdownFinish(c) PROVE TypeOK'
  <2>1. call' \in [Call -> CallState]
    BY <1>11, IdleTyped DEF IfdownFinish
  <2> QED
    BY <1>11, <2>1 DEF IfdownFinish, RouteDeleted, TypeOK, env, tracker, history
<1>12. CASE Begin
  BY <1>12 DEF Begin, TypeOK, env, firewall, TrackerPc, Verdict, history
<1>13. CASE Connected
  BY <1>13 DEF Connected, TypeOK, env, firewall, TrackerPc, history
<1>14. CASE Probe
  BY <1>14 DEF Probe, TypeOK, env, firewall, TrackerPc, history
<1>15. CASE Failed
  <2> DEFINE s == score - 1
  <2>1. CASE s = Up
    <3>1. /\ score' = 0
          /\ STATUS' = "offline"
          /\ MakeCall("ifdown")
      BY <1>15, <2>1 DEF Failed, TypeOK
    <3>2. /\ call' \in [Call -> CallState]
          /\ waitsFor' \in Call /\ waitsFor' # NoCall
          /\ pc' = "ifdown"
      BY <3>1, MakeCallTyped
    <3> QED
      BY <1>15, <3>1, <3>2 DEF Failed, TypeOK, env, firewall, TrackerPc, Verdict, history
  <2>2. CASE s # Up
    <3>1. \E t \in 0 .. Up + Down : RestWith(t)
      BY <1>15, <2>2 DEF Failed, TypeOK
    <3> QED
      BY <1>15, <3>1 DEF Failed, RestWith, TypeOK, env, firewall, TrackerPc, history
  <2> QED
    BY <2>1, <2>2
<1>16. CASE Succeeded
  BY <1>16 DEF Succeeded, TypeOK, env, firewall, TrackerPc, Verdict, history
<1>17. CASE Recovering
  <2> DEFINE s == score + 1
  <2>1. CASE s = Up
    <3>1. /\ score' = s
          /\ STATUS' = "online"
          /\ MakeCall("ifup")
      BY <1>17, <2>1 DEF Recovering, TypeOK
    <3>2. /\ call' \in [Call -> CallState]
          /\ waitsFor' \in Call /\ waitsFor' # NoCall
          /\ pc' = "ifup"
      BY <3>1, MakeCallTyped
    <3>3. score' \in 0 .. Up + Down
      BY <2>1, <3>1
    <3> QED
      BY <1>17, <3>1, <3>2, <3>3 DEF Recovering, TypeOK, env, firewall, TrackerPc, Verdict, history
  <2>2. CASE s # Up
    <3>1. RestWith(s) /\ s \in 0 .. Up + Down
      BY <1>17, <2>2 DEF Recovering, TypeOK
    <3> QED
      BY <1>17, <3>1 DEF Recovering, RestWith, TypeOK, env, firewall, TrackerPc, history
  <2> QED
    BY <2>1, <2>2
<1>18. CASE CallOver
  BY <1>18 DEF CallOver, TypeOK, env, firewall, TrackerPc, history
<1>19. CASE Wake
  <2>1. CASE IFDOWN_EVENT
    <3>1. /\ STATUS' = "offline" /\ MakeCall("disconnected")
          /\ UNCHANGED <<env, lock, result, score, IFDOWN_EVENT,
                         iface_state, firewall, history>>
      BY <1>19, <2>1 DEF Wake
    <3>2. /\ call' \in [Call -> CallState]
          /\ waitsFor' \in Call /\ waitsFor' # NoCall
          /\ pc' = "disconnected"
      BY <3>1, MakeCallTyped
    <3> QED
      BY <3>1, <3>2 DEF TypeOK, env, firewall, history, TrackerPc, Verdict
  <2>2. CASE ~IFDOWN_EVENT
    BY <1>19, <2>2 DEF Wake, TypeOK, env, firewall, history, TrackerPc
  <2> QED
    BY <2>1, <2>2
<1>20. CASE Disconnected
  <2>1. /\ score' = 0 /\ IFDOWN_EVENT' = FALSE
        /\ pc' = "probe" /\ waitsFor' = NoCall
        /\ UNCHANGED <<env, call, lock, result, STATUS, iface_state, firewall, history>>
    BY <1>20, Zenon DEF Disconnected
  <2>2. score' \in 0 .. Up + Down
    BY <2>1
  <2>3. IFDOWN_EVENT' \in BOOLEAN
    BY <2>1, Zenon
  <2>4. pc' \in TrackerPc \ {"ifup", "ifdown", "disconnected"}
    BY <2>1 DEF TrackerPc
  <2>5. waitsFor' = NoCall
    BY <2>1
  <2>6. UNCHANGED <<env, call, lock, result, STATUS, iface_state, firewall, history>>
    BY <2>1
  <2> QED
    BY <2>2, <2>3, <2>4, <2>5, <2>6 DEF TypeOK, env, firewall, history
<1>22. ASSUME NEW c \in Call, Flush(c) PROVE TypeOK'
  <2>1. call' \in [Call -> CallState]
    BY <1>22, AdvanceTyped DEF Flush, At
  <2> QED
    BY <1>22, <2>1 DEF Flush, TypeOK, env, tracker, firewall, history
<1>23. ASSUME NEW c \in Call, UserScript(c) PROVE TypeOK'
  <2>1. call' \in [Call -> CallState]
    BY <1>23, IdleTyped DEF UserScript
  <2>2. CASE EndTracker
    BY <1>23, <2>1, <2>2 DEF UserScript, EndTracker, TypeOK, TrackerPc, Running, env, firewall
  <2>3. CASE UNCHANGED <<tracker, unwatched>>
    BY <1>23, <2>1, <2>3 DEF UserScript, TypeOK, env, tracker, firewall
  <2> QED
    BY <1>23, <2>2, <2>3 DEF UserScript
<1>21. CASE UNCHANGED vars
  BY <1>21 DEF vars, TypeOK, env, tracker, firewall, history
<1> QED
  BY <1>1, <1>2, <1>3, <1>4, <1>5, <1>6, <1>7, <1>8, <1>9, <1>10, <1>11, <1>12,
     <1>13, <1>14, <1>15, <1>16, <1>17, <1>18, <1>19, <1>20, <1>21, <1>22, <1>23
  DEF Next, Tracker, Handler

(* The type invariant, for every up, down, set of hosts and of calls.      *)
THEOREM TypeCorrect == Spec => []TypeOK
<1> QED
  BY InitTyped, NextTyped, PTL DEF Spec
-----------------------------------------------------------------------------
(* MakeCall with its effect on pc alone. *)
LEMMA MakeCallPc == ASSUME NEW act, MakeCall(act) PROVE pc' = act
BY DEF MakeCall

(* Steps of the network, of netifd and of handlers that leave the tracker  *)
(* alone ...                                                               *)
Aside ==
  \/ Answer \/ Flap
  \/ \E c \in Call : \/ Announce(c) \/ Enter(c) \/ IfupState(c) \/ IfupFinish(c)
                     \/ IfdownState(c) \/ IfdownFinish(c) \/ Flush(c)

LEMMA AsideTracker == ASSUME Aside PROVE UNCHANGED tracker
BY Zenon DEF Aside, Answer, Flap, Announce, Enter, IfupState, IfupFinish, IfdownState,
   IfdownFinish, Flush

(* ... and those that leave it alone or end it.                            *)
Ending == OtherHandler \/ \E c \in Call : UserScript(c)

LEMMA EndingTracker ==
  ASSUME Ending
  PROVE  \/ UNCHANGED tracker
         \/ /\ pc' = "none" /\ waitsFor' = NoCall /\ IFDOWN_EVENT' = FALSE
            /\ UNCHANGED <<result, score, STATUS>>
<1>1. UNCHANGED tracker \/ EndTracker
  BY Zenon DEF Ending, OtherHandler, UserScript
<1> QED
  BY <1>1 DEF EndTracker

LEMMA ScorePreserved == TypeOK /\ ScoreInv /\ [Next]_vars => ScoreInv'
<1> SUFFICES ASSUME TypeOK, ScoreInv, [Next]_vars PROVE ScoreInv'
  OBVIOUS
<1> USE TrackConstants
<1>1. CASE UNCHANGED tracker
  BY <1>1 DEF ScoreInv, tracker
<1>2. CASE \E c \in Call : IfupTrack(c)
  BY <1>2, 0 # Up + Down DEF IfupTrack, ScoreInv, TypeOK
<1>3. CASE \E c \in Call : IfdownSignal(c)
  <2>1. UNCHANGED <<score, STATUS, result>> /\ (pc' = pc \/ pc' = "none")
    BY <1>3, Zenon DEF IfdownSignal, Signalled
  <2> QED
    BY <2>1 DEF ScoreInv
<1>4. CASE Begin
  BY <1>4 DEF Begin, ScoreInv, TypeOK
<1>5. CASE Connected
  BY <1>5 DEF Connected, ScoreInv, TypeOK
<1>6. CASE Probe
  BY <1>6 DEF Probe, ScoreInv, TypeOK
<1>7. CASE Failed
  <2>1. CASE score - 1 = Up
    <3>1. score' = 0 /\ STATUS' = "offline" /\ pc' = "ifdown"
      BY <1>7, <2>1, MakeCallPc DEF Failed, TypeOK
    <3> QED
      BY <3>1 DEF ScoreInv
  <2>2. CASE score - 1 < Up
    <3>1. RestWith(0)
      BY <1>7, <2>2 DEF Failed, TypeOK
    <3>2. score # Up + Down \/ Down = 1
      BY <2>2 DEF TypeOK
    <3>3. STATUS # "online"
      BY <1>7, <2>2 DEF Failed, ScoreInv, TypeOK
    <3> QED
      BY <3>1, <3>3 DEF RestWith, ScoreInv
  <2>3. CASE score - 1 > Up
    <3>1. RestWith(score - 1)
      BY <1>7, <2>3 DEF Failed, TypeOK
    <3>2. STATUS = "online"
      BY <1>7, <2>3 DEF Failed, ScoreInv, TypeOK
    <3> QED
      BY <3>1, <3>2, <2>3 DEF RestWith, ScoreInv
  <2> QED
    BY <2>1, <2>2, <2>3 DEF TypeOK
<1>8. CASE Succeeded
  BY <1>8 DEF Succeeded, ScoreInv, TypeOK
<1>9. CASE Recovering
  <2>1. CASE score + 1 = Up
    <3>1. score' = Up /\ STATUS' = "online" /\ pc' = "ifup"
      BY <1>9, <2>1, MakeCallPc DEF Recovering, TypeOK
    <3> QED
      BY <3>1 DEF ScoreInv
  <2>2. CASE score + 1 < Up
    <3>1. RestWith(score + 1) /\ pc = "judge"
      BY <1>9, <2>2 DEF Recovering, TypeOK
    <3>2. STATUS # "online"
      BY <3>1, <2>2 DEF ScoreInv, TypeOK
    <3> QED
      BY <3>1, <3>2, <2>2 DEF RestWith, ScoreInv
  <2> QED
    BY <1>9, <2>1, <2>2 DEF Recovering, TypeOK
<1>10. CASE CallOver
  BY <1>10 DEF CallOver, ScoreInv, TypeOK
<1>11. CASE Wake
  BY <1>11, MakeCallPc DEF Wake, ScoreInv, TypeOK
<1>12. CASE Disconnected
  BY <1>12 DEF Disconnected, ScoreInv, TypeOK
<1>13. CASE Aside
  BY <1>1, <1>13, AsideTracker
<1>14. CASE Ending
  BY <1>1, <1>14, EndingTracker DEF ScoreInv
<1>15. CASE UNCHANGED vars
  BY <1>1, <1>15 DEF vars
<1> QED
  BY <1>2, <1>3, <1>4, <1>5, <1>6, <1>7, <1>8, <1>9, <1>10, <1>11, <1>12, <1>13,
     <1>14, <1>15
  DEF Next, Tracker, Handler, Aside, Ending
-----------------------------------------------------------------------------
(* What a step of each kind does to the lock and the table of calls.       *)
Quiet == UNCHANGED <<call, lock, iface_state, policy, route, overruled>>

(* A new call takes an idle place; nothing else of a handler's changes.    *)
Called ==
  /\ \E c \in Call, who \in {"netifd", "tracker"}, act \in {"ifup", "ifdown", "disconnected"} :
       /\ call[c].pc = "idle"
       /\ call' = [call EXCEPT ![c] = NewCall(who, act)]
  /\ UNCHANGED <<lock, iface_state, policy, route, overruled>>

LEMMA MakeCallCalls ==
  ASSUME NEW act \in {"ifup", "ifdown", "disconnected"}, MakeCall(act),
         UNCHANGED <<lock, iface_state, firewall, overruled>>
  PROVE  Called
BY DEF MakeCall, Idle, Called, firewall

(* Steps of the network, of netifd and of the tracker, seen from the       *)
(* handlers.                                                               *)
LEMMA OtherSteps ==
  ASSUME TypeOK, Answer \/ Flap \/ Tracker \/ UNCHANGED vars
                   \/ \E c \in Call : Announce(c)
  PROVE  Quiet \/ Called \/ Succeeded
<1>1. CASE Answer \/ Flap
  BY <1>1 DEF Answer, Flap, Quiet, firewall, history
<1>2. CASE Begin \/ Connected \/ Probe
  BY <1>2 DEF Begin, Connected, Probe, Quiet, firewall, history
<1>3. CASE CallOver \/ Disconnected
  BY <1>3 DEF CallOver, Disconnected, Quiet, firewall, history
<1>4. CASE Wake
  <2>1. UNCHANGED <<lock, iface_state, firewall, overruled>>
    BY <1>4 DEF Wake, history
  <2>2. MakeCall("disconnected") \/ UNCHANGED call
    BY <1>4 DEF Wake
  <2> QED
    BY <2>1, <2>2, MakeCallCalls DEF Quiet, firewall
<1>5. CASE Failed
  <2>1. UNCHANGED <<lock, iface_state, firewall, overruled>>
    BY <1>5 DEF Failed, history
  <2>2. MakeCall("ifdown") \/ UNCHANGED call
    BY <1>5 DEF Failed, RestWith
  <2> QED
    BY <2>1, <2>2, MakeCallCalls DEF Quiet, firewall
<1>6. CASE Recovering
  <2>1. UNCHANGED <<lock, iface_state, firewall, overruled>>
    BY <1>6 DEF Recovering, history
  <2>2. MakeCall("ifup") \/ UNCHANGED call
    BY <1>6 DEF Recovering, RestWith
  <2> QED
    BY <2>1, <2>2, MakeCallCalls DEF Quiet, firewall
<1>7. CASE \E c \in Call : Announce(c)
  BY <1>7 DEF Announce, Idle, Called, firewall, history, TypeOK
<1>8. CASE UNCHANGED vars
  BY <1>8 DEF vars, Quiet, firewall, history
<1> QED
  BY <1>1, <1>2, <1>3, <1>4, <1>5, <1>6, <1>7, <1>8 DEF Tracker

(* A "disconnected" call is never in the part under the lock.              *)
LEMMA ScriptSteps ==
  ASSUME TypeOK, NEW c \in Call, Flush(c) \/ UserScript(c)
  PROVE  /\ call[c].pc \in {"lock", "script"} /\ call[c].action = "disconnected"
         /\ call'[c].pc \in {"script", "idle"}
         /\ \A d \in Call : d # c => call'[d] = call[d]
         /\ UNCHANGED <<lock, iface_state, policy, route, overruled>>
<1>1. CASE Flush(c)
  <2>1. call[c] \in Active
    BY <1>1, ActiveFields DEF Flush, At
  <2> QED
    BY <1>1, <2>1 DEF Flush, At, TypeOK, Active, firewall, history
<1>2. CASE UserScript(c)
  BY <1>2 DEF UserScript, At, TypeOK, firewall
<1> QED
  BY <1>1, <1>2

LEMMA LockPreserved == TypeOK /\ LockInv /\ [Next]_vars => LockInv'
<1> SUFFICES ASSUME TypeOK, LockInv, [Next]_vars PROVE LockInv'
  OBVIOUS
<1> USE TrackConstants
<1>1. CASE UNCHANGED <<call, lock>>
  BY <1>1 DEF LockInv
<1>2. CASE Called
  <2>1. PICK c \in Call : /\ call[c].pc = "idle"
                          /\ \E who, act : call' = [call EXCEPT ![c] = NewCall(who, act)]
    BY <1>2 DEF Called
  <2>2. call'[c].pc = "lock" /\ \A d \in Call : d # c => call'[d] = call[d]
    BY <2>1 DEF TypeOK, NewCall
  <2> QED
    BY <1>2, <2>1, <2>2 DEF Called, LockInv
<1>3. ASSUME NEW c \in Call, Enter(c) PROVE LockInv'
  <2>1. /\ call[c].pc = "lock" /\ lock = NoCall /\ lock' = c
        /\ \A d \in Call : d # c => call'[d] = call[d]
    BY <1>3 DEF Enter, TypeOK
  <2>2. call'[c].pc = "state"
    BY <1>3, ActiveFields DEF Enter, TypeOK, Active
  <2> QED
    BY <2>1, <2>2 DEF LockInv
<1>4. ASSUME NEW c \in Call, NEW p \in {"state", "track", "signal", "policy"},
             call[c].pc \in {"state", "track", "signal", "policy"},
             call' = [call EXCEPT ![c].pc = p], UNCHANGED lock
      PROVE  LockInv'
  <2>1. call[c] \in Active
    BY <1>4, ActiveFields
  <2>2. call'[c].pc = p /\ \A d \in Call : d # c => call'[d] = call[d]
    BY <1>4, <2>1 DEF TypeOK, Active
  <2> QED
    BY <1>4, <2>2 DEF LockInv
<1>5. ASSUME NEW c \in Call, IfupState(c) \/ IfupTrack(c) \/ IfdownState(c) \/ IfdownSignal(c)
      PROVE  LockInv'
  <2>1. CASE IfupState(c)
    BY <2>1, <1>4 DEF IfupState, At
  <2>2. CASE IfupTrack(c)
    BY <2>2, <1>4 DEF IfupTrack, At
  <2>3. CASE IfdownState(c)
    BY <2>3, <1>4 DEF IfdownState, At
  <2>4. CASE IfdownSignal(c)
    BY <2>4, <1>4 DEF IfdownSignal, At
  <2> QED
    BY <1>5, <2>1, <2>2, <2>3, <2>4
<1>6. ASSUME NEW c \in Call, IfupFinish(c) \/ IfdownFinish(c)
      PROVE  LockInv'
  <2>1. /\ call[c].pc = "policy" /\ lock' = NoCall
        /\ call' = [call EXCEPT ![c] = [pc |-> "idle"]]
    BY <1>6 DEF IfupFinish, IfdownFinish, At
  <2>2. call'[c].pc = "idle" /\ \A d \in Call : d # c => call'[d] = call[d]
    BY <2>1 DEF TypeOK
  <2> QED
    BY <2>1, <2>2 DEF LockInv
<1>7. CASE Succeeded \/ OtherHandler \/ Quiet
  BY <1>7, <1>1 DEF Succeeded, OtherHandler, Quiet
<1>8. ASSUME NEW c \in Call, Flush(c) \/ UserScript(c) PROVE LockInv'
  BY <1>8, ScriptSteps DEF LockInv
<1> QED
  BY <1>2, <1>3, <1>5, <1>6, <1>7, <1>8, OtherSteps DEF Next, Handler

(* The handler at work is alone in its part under the lock.                *)
LEMMA AloneInLock ==
  ASSUME LockInv,
         NEW c \in Call, call[c].pc \in {"state", "track", "signal", "policy"},
         NEW d \in Call, d # c
  PROVE  call[d].pc \notin {"state", "track", "signal", "policy"}
BY DEF LockInv

(* A handler that goes on to its next step keeps its call as it is.        *)
LEMMA AdvanceEffect ==
  ASSUME TypeOK, NEW c \in Call, NEW p \in {"state", "track", "signal", "policy"},
         call[c].pc \in {"state", "track", "signal", "policy"},
         call' = [call EXCEPT ![c].pc = p]
  PROVE  /\ call'[c].pc = p /\ call'[c].action = call[c].action
         /\ call'[c].status = call[c].status
         /\ \A d \in Call : d # c => call'[d] = call[d]
<1>1. call[c] \in Active
  BY ActiveFields
<1> QED
  BY <1>1 DEF TypeOK, Active

(* An overruling write is the only one from outside a handler.             *)
LEMMA OverruleOnly ==
  ASSUME TypeOK, ServiceInv, UNCHANGED <<call, lock, policy, route>>,
         iface_state' = "online", overruled' = (overruled \/ iface_state = "offline")
  PROVE  ServiceInv'
<1>1. CASE iface_state = "online"
  BY <1>1 DEF ServiceInv, InServiceAgrees, TypeOK
<1>2. CASE iface_state = "offline"
  <2>1. overruled'
    BY <1>2
  <2> QED
    BY <2>1 DEF ServiceInv, InServiceAgrees
<1> QED
  BY <1>1, <1>2 DEF TypeOK, Verdict

LEMMA ServicePreserved ==
  TypeOK /\ LockInv /\ ServiceInv /\ [Next]_vars => ServiceInv'
<1> SUFFICES ASSUME TypeOK, LockInv, ServiceInv, [Next]_vars PROVE ServiceInv'
  OBVIOUS
<1> USE TrackConstants
<1>1. CASE Quiet
  BY <1>1 DEF Quiet, ServiceInv, InServiceAgrees
<1>2. CASE Called
  <2>1. PICK c \in Call : /\ call[c].pc = "idle"
                          /\ \E who, act : call' = [call EXCEPT ![c] = NewCall(who, act)]
    BY <1>2 DEF Called
  <2>2. call'[c].pc = "lock" /\ \A d \in Call : d # c => call'[d] = call[d]
    BY <2>1 DEF TypeOK, NewCall
  <2> QED
    BY <1>2, <2>1, <2>2 DEF Called, ServiceInv, InServiceAgrees
<1>3. CASE Succeeded
  <2>1. /\ UNCHANGED <<call, lock, policy, route>> /\ iface_state' = "online"
        /\ overruled' = (overruled \/ iface_state = "offline")
    BY <1>3 DEF Succeeded, firewall
  <2> QED
    BY <2>1, OverruleOnly
<1>4. CASE OtherHandler
  BY <1>4 DEF OtherHandler, ServiceInv, InServiceAgrees
<1>5. ASSUME NEW c \in Call, Enter(c) PROVE ServiceInv'
  <2>1. /\ lock' # NoCall /\ UNCHANGED <<iface_state, route, overruled>>
        /\ \A d \in Call : d # c => call'[d] = call[d]
    BY <1>5 DEF Enter, TypeOK, firewall, history
  <2>2. call'[c].pc = "state"
    BY <1>5, ActiveFields DEF Enter, TypeOK, Active
  <2> QED
    BY <2>1, <2>2 DEF ServiceInv, InServiceAgrees
<1>6. ASSUME NEW c \in Call, IfupState(c) PROVE ServiceInv'
  <2>1. /\ call[c].pc = "state" /\ call[c].action = "ifup"
        /\ call' = [call EXCEPT ![c].pc = "track"]
        /\ iface_state' = call[c].status /\ lock' = lock /\ route'
    BY <1>6 DEF IfupState, At
  <2>2. lock' # NoCall
    BY <2>1 DEF LockInv
  <2> QED
    BY <2>1, <2>2, AloneInLock, AdvanceEffect DEF ServiceInv, InServiceAgrees
<1>7. ASSUME NEW c \in Call, IfdownState(c) PROVE ServiceInv'
  <2>1. /\ call[c].pc = "state" /\ call[c].action = "ifdown"
        /\ call' = [call EXCEPT ![c].pc = "signal"]
        /\ iface_state' = "offline" /\ UNCHANGED <<lock, route>>
    BY <1>7 DEF IfdownState, At, firewall
  <2>2. lock' # NoCall
    BY <2>1 DEF LockInv
  <2> QED
    BY <2>1, <2>2, AloneInLock, AdvanceEffect DEF ServiceInv, InServiceAgrees
<1>8. ASSUME NEW c \in Call, IfupTrack(c) \/ IfdownSignal(c) PROVE ServiceInv'
  <2>1. /\ \/ call[c].pc = "track" /\ call[c].action = "ifup"
           \/ call[c].pc = "signal" /\ call[c].action = "ifdown"
        /\ call' = [call EXCEPT ![c].pc = "policy"]
        /\ UNCHANGED <<iface_state, lock, route, overruled>>
    BY <1>8, Zenon DEF IfupTrack, IfdownSignal, At, firewall, history
  <2>2. lock' # NoCall
    BY <2>1 DEF LockInv
  <2> QED
    BY <2>1, <2>2, AloneInLock, AdvanceEffect DEF ServiceInv, InServiceAgrees
<1>9. ASSUME NEW c \in Call, IfupFinish(c) \/ IfdownFinish(c) PROVE ServiceInv'
  <2>1. /\ call[c].pc = "policy"
        /\ call' = [call EXCEPT ![c] = [pc |-> "idle"]]
        /\ policy' = (iface_state = "online")
        /\ UNCHANGED <<iface_state, overruled>>
    BY <1>9 DEF IfupFinish, IfdownFinish, At, history
  <2>2. ~overruled => /\ iface_state = "online" => route'
                      /\ iface_state = "offline" /\ Family = "ipv6" => ~route'
    <3>1. CASE IfupFinish(c)
      BY <3>1 DEF IfupFinish, At, ServiceInv, RouteDeleted
    <3>2. CASE IfdownFinish(c)
      BY <3>2 DEF IfdownFinish, At, ServiceInv, RouteDeleted
    <3> QED
      BY <1>9, <3>1, <3>2
  <2>3. call'[c].pc = "idle" /\ \A d \in Call : d # c => call'[d] = call[d]
    BY <2>1 DEF TypeOK
  <2>4. \A d \in Call \ {c} : call[d].pc \notin {"track", "policy"}
    BY <2>1, AloneInLock
  <2> QED
    BY <2>1, <2>2, <2>3, <2>4 DEF ServiceInv, InServiceAgrees
<1>10. ASSUME NEW c \in Call, Flush(c) \/ UserScript(c) PROVE ServiceInv'
  BY <1>10, ScriptSteps DEF ServiceInv, InServiceAgrees
<1> QED
  BY <1>1, <1>2, <1>3, <1>4, <1>5, <1>6, <1>7, <1>8, <1>9, <1>10, OtherSteps
  DEF Next, Handler

LEMMA ServiceInitially == Init => ScoreInv /\ LockInv /\ ServiceInv
<1> SUFFICES ASSUME Init PROVE ScoreInv /\ LockInv /\ ServiceInv
  OBVIOUS
<1>1. \A c \in Call : call[c].pc = "idle" /\ c # NoCall
  BY TrackConstants DEF Init
<1>2. ScoreInv
  BY DEF Init, ScoreInv
<1>3. LockInv
  BY <1>1 DEF Init, LockInv
<1>4. ServiceInv
  BY <1>1 DEF Init, ServiceInv, InServiceAgrees
<1> QED
  BY <1>2, <1>3, <1>4

(* Policies, route and iface_state agree between handlers, except after an *)
(* overruling write, for every number of calls at once.                    *)
THEOREM InServiceCorrect == Spec => []InServiceAgrees
<1>1. Init => TypeOK /\ LockInv /\ ServiceInv
  BY InitTyped, ServiceInitially
<1>2. TypeOK /\ LockInv /\ ServiceInv /\ [Next]_vars
        => (TypeOK /\ LockInv /\ ServiceInv)'
  BY NextTyped, LockPreserved, ServicePreserved
<1>3. ServiceInv => InServiceAgrees
  BY DEF ServiceInv
<1> QED
  BY <1>1, <1>2, <1>3, PTL DEF Spec

-----------------------------------------------------------------------------
(* The tracker refines the detector.                                       *)

LEMMA DetectorInit == Init => Detector!Init
BY DEF Init, Detector!Init

LEMMA DetectorStep ==
  TypeOK /\ ScoreInv /\ [Next]_vars => [Detector!Next]_(Detector!vars)
<1> SUFFICES ASSUME TypeOK, ScoreInv, [Next]_vars
             PROVE  Detector!Next \/ UNCHANGED Detector!vars
  OBVIOUS
<1> USE TrackConstants
<1>1. CASE UNCHANGED tracker
  BY <1>1 DEF tracker, Detector!vars
<1>2. CASE \E c \in Call : IfupTrack(c)
  <2>1. pc' = "start" /\ UNCHANGED STATUS
    BY <1>2 DEF IfupTrack
  <2> QED
    BY <2>1 DEF Detector!Next, Detector!Stop
<1>3. CASE \E c \in Call : IfdownSignal(c)
  <2>1. /\ UNCHANGED <<score, STATUS, result>>
        /\ pc' = pc \/ (pc = "start" /\ pc' = "none")
    BY <1>3, Zenon DEF IfdownSignal, Signalled
  <2> QED
    BY <2>1 DEF Detector!vars
<1>4. CASE Begin
  BY <1>4 DEF Begin, ScoreInv, TypeOK, Detector!Next, Detector!Start
<1>5. CASE Connected
  BY <1>5 DEF Connected, Detector!vars
<1>6. CASE Probe
  BY <1>6 DEF Probe, Detector!Next, Detector!Measure
<1>7. CASE Failed
  <2>0. pc = "judge" /\ result = "bad"
    BY <1>7 DEF Failed
  <2>1. CASE score - 1 = Up
    <3>1. score' = 0 /\ STATUS' = "offline" /\ pc' = "ifdown"
      BY <1>7, <2>1, MakeCallPc DEF Failed, TypeOK
    <3>2. STATUS = "online"
      BY <2>0, <2>1 DEF ScoreInv, TypeOK, Verdict
    <3> QED
      BY <2>0, <2>1, <3>1, <3>2 DEF Detector!Next, Detector!Turn, TypeOK
  <2>2. CASE score - 1 < Up
    <3>1. RestWith(0)
      BY <1>7, <2>2 DEF Failed, TypeOK
    <3>2. STATUS = "offline"
      BY <2>0, <2>2 DEF ScoreInv, TypeOK, Verdict
    <3> QED
      BY <2>0, <3>1, <3>2 DEF RestWith, Detector!Next, Detector!Confirm
  <2>3. CASE score - 1 > Up
    <3>1. RestWith(score - 1)
      BY <1>7, <2>3 DEF Failed, TypeOK
    <3>2. STATUS = "online"
      BY <2>0, <2>3 DEF ScoreInv, TypeOK, Verdict
    <3>3. Up + Down - score + 1 = Up + Down - (score - 1)
      BY DEF TypeOK
    <3>4. Up + Down - (score - 1) # Down
      BY <2>3 DEF TypeOK
    <3> QED
      BY <2>0, <3>1, <3>2, <3>3, <3>4 DEF RestWith, Detector!Next, Detector!Doubt
  <2> QED
    BY <2>1, <2>2, <2>3 DEF TypeOK
<1>8. CASE Succeeded
  <2>1. /\ pc = "judge" /\ result = "good" /\ score + 1 > Up
        /\ score' = Up + Down /\ STATUS' = "online" /\ pc' = "rest"
    BY <1>8 DEF Succeeded
  <2>2. STATUS = "online"
    BY <2>1 DEF ScoreInv, TypeOK, Verdict
  <2> QED
    BY <2>1, <2>2 DEF Detector!Next, Detector!Confirm
<1>9. CASE Recovering
  <2>0. pc = "judge" /\ result = "good"
    BY <1>9 DEF Recovering
  <2>1. CASE score + 1 = Up
    <3>1. score' = Up /\ STATUS' = "online" /\ pc' = "ifup"
      BY <1>9, <2>1, MakeCallPc DEF Recovering, TypeOK
    <3>2. STATUS = "offline"
      BY <2>0, <2>1 DEF ScoreInv, TypeOK, Verdict
    <3> QED
      BY <2>0, <2>1, <3>1, <3>2 DEF Detector!Next, Detector!Turn
  <2>2. CASE score + 1 < Up
    <3>1. RestWith(score + 1)
      BY <1>9, <2>2 DEF Recovering, TypeOK
    <3>2. STATUS = "offline"
      BY <2>0, <2>2 DEF ScoreInv, TypeOK, Verdict
    <3> QED
      BY <2>0, <2>2, <3>1, <3>2 DEF RestWith, Detector!Next, Detector!Doubt, TypeOK
  <2> QED
    BY <1>9, <2>1, <2>2 DEF Recovering, TypeOK
<1>10. CASE CallOver
  <2>1. /\ pc \in {"ifup", "ifdown"} /\ pc' \in {"none", "rest"}
        /\ pc = "ifup" => pc' = "none"
        /\ UNCHANGED <<score, STATUS, result>>
    BY <1>10 DEF CallOver
  <2> QED
    BY <2>1 DEF ScoreInv, Detector!vars
<1>11. CASE Wake
  <2>1. CASE IFDOWN_EVENT
    <3>1. pc = "rest" /\ pc' = "disconnected" /\ STATUS' = "offline"
      BY <1>11, <2>1, MakeCallPc DEF Wake
    <3> QED
      BY <3>1 DEF Detector!Next, Detector!Drop
  <2>2. CASE ~IFDOWN_EVENT
    <3>1. pc = "rest" /\ pc' = "probe" /\ UNCHANGED <<STATUS, score>>
      BY <1>11, <2>2 DEF Wake
    <3> QED
      BY <3>1 DEF Detector!vars
  <2> QED
    BY <2>1, <2>2
<1>12. CASE Disconnected
  <2>1. /\ pc = "disconnected" /\ pc' = "probe"
        /\ score' = 0 /\ UNCHANGED STATUS
    BY <1>12 DEF Disconnected
  <2> QED
    BY <2>1 DEF ScoreInv, Detector!vars
<1>13. CASE Aside
  BY <1>1, <1>13, AsideTracker
<1>14. CASE Ending
  BY <1>1, <1>14, EndingTracker DEF Detector!Next, Detector!Stop, Detector!vars
<1>15. CASE UNCHANGED vars
  BY <1>1, <1>15 DEF vars
<1> QED
  BY <1>2, <1>3, <1>4, <1>5, <1>6, <1>7, <1>8, <1>9, <1>10, <1>11, <1>12, <1>13,
     <1>14, <1>15
  DEF Next, Tracker, Handler, Aside, Ending

(* The verdict in STATUS turns only as a link detector's may.              *)
THEOREM DetectorRefined == Spec => ImplementsDetector
<1>1. Init => TypeOK /\ ScoreInv
  BY InitTyped, ServiceInitially
<1>2. TypeOK /\ ScoreInv /\ [Next]_vars => (TypeOK /\ ScoreInv)'
  BY NextTyped, ScorePreserved
<1> QED
  BY <1>1, <1>2, DetectorInit, DetectorStep, PTL
  DEF Spec, ImplementsDetector, Detector!Spec

-----------------------------------------------------------------------------
(* STATUS and iface_state, when no signal misses its tracker.              *)

(* Between these steps a handler has changed iface_state and has yet to    *)
(* replace or to signal the tracker.                                       *)
Between ==
  \E c \in Call : At(c, "ifup", "track") \/ At(c, "ifdown", "signal")

(* A tracker that has not begun is the one its handler has just started,   *)
(* and the handler still holds the lock.                                   *)
StartInv ==
  pc = "start" =>
    \E c \in Call :
      /\ At(c, "ifup", "policy")
      /\ score = IF call[c].status = "online" THEN Up + Down ELSE 0

(* Between handlers a tracker with nothing to notice agrees with           *)
(* iface_state; one with an ifdown to notice finds it offline.             *)
VerdictInv ==
  /\ /\ pc \in {"connected", "probe", "judge", "rest"}
     /\ ~IFDOWN_EVENT /\ ~overruled /\ ~Between
     => STATUS = iface_state
  /\ IFDOWN_EVENT /\ ~overruled /\ ~(\E c \in Call : At(c, "ifup", "track"))
     => iface_state = "offline"

(* The tracker learns from its own ifdown call that it has ended.          *)
CallInv ==
  /\ pc = "ifdown" =>
       /\ call[waitsFor].pc # "idle" => call[waitsFor].action = "ifdown"
       /\ call[waitsFor].pc \in {"policy", "idle"} => IFDOWN_EVENT
  /\ pc = "disconnected" => IFDOWN_EVENT

StatusInv == StartInv /\ VerdictInv /\ CallInv

(* A step that adds a call, or none, and writes neither iface_state nor    *)
(* overruled keeps what StatusInv says of the calls.                       *)
LEMMA CallsKept ==
  ASSUME TypeOK, Quiet \/ Called
  PROVE  /\ Between <=> Between'
         /\ (\E c \in Call : At(c, "ifup", "track")) <=> (\E c \in Call : At(c, "ifup", "track"))'
         /\ \A c \in Call : call[c].pc # "idle" => call'[c] = call[c]
<1>1. CASE Quiet
  BY <1>1 DEF Quiet, Between, At
<1>2. CASE Called
  <2>1. PICK c \in Call : /\ call[c].pc = "idle"
                          /\ \E who, act : call' = [call EXCEPT ![c] = NewCall(who, act)]
    BY <1>2 DEF Called
  <2>2. call'[c].pc = "lock" /\ \A d \in Call : d # c => call'[d] = call[d]
    BY <2>1 DEF TypeOK, NewCall
  <2> QED
    BY <2>1, <2>2 DEF Between, At
<1> QED
  BY <1>1, <1>2

(* A handler other than the one that started the tracker cannot run while  *)
(* the tracker has not begun.                                              *)
LEMMA StartAlone ==
  ASSUME LockInv, StartInv, pc = "start",
         NEW c \in Call, call[c].pc \in {"state", "track", "signal", "policy"}
  PROVE  /\ At(c, "ifup", "policy")
         /\ score = IF call[c].status = "online" THEN Up + Down ELSE 0
<1>1. PICK d \in Call : /\ At(d, "ifup", "policy")
                        /\ score = IF call[d].status = "online" THEN Up + Down ELSE 0
  BY DEF StartInv
<1>2. d = c
  BY <1>1, AloneInLock DEF At
<1> QED
  BY <1>1, <1>2

LEMMA StartPreserved ==
  TypeOK /\ LockInv /\ ~SignalMayMiss /\ StartInv /\ [Next]_vars => StartInv'
<1> SUFFICES ASSUME TypeOK, LockInv, ~SignalMayMiss, StartInv, [Next]_vars, pc' = "start"
             PROVE  \E c \in Call :
                      /\ At(c, "ifup", "policy")'
                      /\ score' = IF call'[c].status = "online" THEN Up + Down ELSE 0
  BY DEF StartInv
<1>1. ASSUME NEW c \in Call, IfupTrack(c)
      PROVE  /\ At(c, "ifup", "policy")'
             /\ score' = IF call'[c].status = "online" THEN Up + Down ELSE 0
  <2>1. /\ call[c].pc = "track" /\ call[c].action = "ifup"
        /\ score' = IF call[c].status = "online" THEN Up + Down ELSE 0
        /\ call' = [call EXCEPT ![c].pc = "policy"]
    BY <1>1 DEF IfupTrack, At
  <2> QED
    BY <2>1, AdvanceEffect DEF At
<1>2. CASE pc = "start" /\ UNCHANGED score
  <2>1. PICK c \in Call : /\ At(c, "ifup", "policy")
                          /\ score = IF call[c].status = "online" THEN Up + Down ELSE 0
    BY <1>2 DEF StartInv
  <2>2. ASSUME NEW d \in Call,
               \/ Enter(d)
               \/ IfupState(d) \/ IfupTrack(d) \/ IfupFinish(d)
               \/ IfdownState(d) \/ IfdownSignal(d) \/ IfdownFinish(d)
        PROVE  FALSE
    <3>1. CASE Enter(d)
      BY <2>1, <3>1, TrackConstants DEF Enter, LockInv, At
    <3>2. CASE IfupFinish(d)
      BY <3>2, <1>2 DEF IfupFinish
    <3>3. CASE \/ IfupState(d) \/ IfupTrack(d)
               \/ IfdownState(d) \/ IfdownSignal(d) \/ IfdownFinish(d)
      <4>1. /\ call[d].pc \in {"state", "track", "signal", "policy"}
            /\ ~At(d, "ifup", "policy")
        BY <3>3, Zenon DEF IfupState, IfupTrack, IfdownState, IfdownSignal, IfdownFinish, At
      <4> QED
        BY <4>1, <1>2, StartAlone
    <3> QED
      BY <2>2, <3>1, <3>2, <3>3
  <2>3. CASE OtherHandler
    BY <1>2, <2>1, <2>3 DEF OtherHandler, At
  <2>4. CASE Succeeded
    BY <1>2, <2>4 DEF Succeeded
  <2>5. CASE Quiet \/ Called
    <3>1. call'[c] = call[c]
      BY <2>1, <2>5, CallsKept DEF At
    <3> QED
      BY <1>2, <2>1, <3>1 DEF At
  <2>6. ASSUME NEW d \in Call, Flush(d) \/ UserScript(d) PROVE call'[c] = call[c]
    BY <2>1, <2>6, ScriptSteps DEF At
  <2> QED
    BY <1>2, <2>1, <2>2, <2>3, <2>4, <2>5, <2>6, OtherSteps DEF Next, Handler, At
<1>3. \/ \E c \in Call : IfupTrack(c)
      \/ pc = "start" /\ UNCHANGED score
  <2>1. CASE UNCHANGED tracker
    BY <2>1 DEF tracker
  <2>2. CASE \E c \in Call : IfdownSignal(c)
    BY <2>2, Zenon DEF IfdownSignal, Signalled
  <2>3. CASE Begin \/ Connected \/ Probe \/ CallOver \/ Succeeded \/ Disconnected
    BY <2>3 DEF Begin, Connected, Probe, CallOver, Succeeded, Disconnected
  <2>4. CASE Failed \/ Recovering \/ Wake
    BY <2>4, MakeCallPc DEF Failed, Recovering, RestWith, Wake
  <2>5. CASE Aside
    BY <2>1, <2>5, AsideTracker
  <2>6. CASE Ending
    BY <2>1, <2>6, EndingTracker
  <2> QED
    BY <2>1, <2>2, <2>3, <2>4, <2>5, <2>6 DEF Next, Tracker, Handler, Aside, Ending, vars
<1> QED
  BY <1>1, <1>2, <1>3, Zenon

LEMMA VerdictPreserved ==
  /\ TypeOK /\ ScoreInv /\ LockInv /\ ServiceInv
  /\ ~SignalMayMiss /\ StartInv /\ VerdictInv /\ CallInv
  /\ [Next]_vars
  => VerdictInv'
<1> SUFFICES ASSUME TypeOK, ScoreInv, LockInv, ServiceInv,
                    ~SignalMayMiss, StartInv, VerdictInv, CallInv, [Next]_vars
             PROVE  VerdictInv'
  OBVIOUS
<1> DEFINE Settled == pc \in {"connected", "probe", "judge", "rest"}
           Tracking == \E c \in Call : At(c, "ifup", "track")
(* A step that writes none of the variables but pc and score, and keeps    *)
(* Settled and the calls.                                                  *)
<1>1. ASSUME Quiet \/ Called, UNCHANGED <<STATUS, IFDOWN_EVENT>>, Settled' => Settled
      PROVE  VerdictInv'
  <2>1. UNCHANGED <<iface_state, overruled>>
    BY <1>1 DEF Quiet, Called
  <2>2. (Between <=> Between') /\ (Tracking <=> Tracking')
    BY <1>1, CallsKept
  <2> QED
    BY <1>1, <2>1, <2>2 DEF VerdictInv
<1>2. CASE Answer \/ Flap \/ (\E c \in Call : Announce(c)) \/ UNCHANGED vars
  <2>1. Quiet \/ Called
    BY <1>2, OtherSteps DEF Quiet, Succeeded, Answer, Flap, Announce, vars, tracker
  <2>2. UNCHANGED <<pc, STATUS, IFDOWN_EVENT>>
    BY <1>2 DEF Answer, Flap, Announce, tracker, vars
  <2> QED
    BY <1>1, <2>1, <2>2
<1>3. CASE Begin
  <2>1. /\ pc = "start" /\ UNCHANGED <<IFDOWN_EVENT, call, iface_state, overruled>>
        /\ STATUS' = IF score = 0 THEN "offline" ELSE "online"
    BY <1>3 DEF Begin, history
  <2>2. PICK c \in Call : /\ At(c, "ifup", "policy")
                          /\ score = IF call[c].status = "online" THEN Up + Down ELSE 0
    BY <2>1 DEF StartInv
  <2>3. call[c].status \in Verdict
    BY <2>2, ActiveFields DEF At, Active
  <2>4. STATUS' = call[c].status
    BY <2>1, <2>2, <2>3, TrackConstants DEF Verdict
  <2>5. ~overruled => iface_state = call[c].status
    BY <2>2 DEF ServiceInv, At
  <2> QED
    BY <2>1, <2>4, <2>5 DEF VerdictInv, At
<1>4. CASE Connected \/ Probe
  BY <1>4, <1>1 DEF Connected, Probe, Quiet, firewall, history
<1>5. CASE Failed
  <2>1. /\ pc = "judge" /\ UNCHANGED <<lock, IFDOWN_EVENT, iface_state, firewall, overruled>>
        /\ \/ MakeCall("ifdown")
           \/ UNCHANGED <<call, STATUS>>
    BY <1>5 DEF Failed, RestWith, history
  <2>2. CASE MakeCall("ifdown")
    <3>1. Called /\ pc' = "ifdown"
      BY <2>1, <2>2, MakeCallCalls, MakeCallPc
    <3>2. Tracking <=> Tracking'
      BY <3>1, CallsKept
    <3> QED
      BY <2>1, <3>1, <3>2 DEF VerdictInv
  <2>3. CASE UNCHANGED <<call, STATUS>>
    BY <2>1, <2>3, <1>1 DEF Quiet, firewall
  <2> QED
    BY <2>1, <2>2, <2>3
<1>6. CASE Recovering
  <2>1. /\ pc = "judge" /\ UNCHANGED <<lock, IFDOWN_EVENT, iface_state, firewall, overruled>>
        /\ \/ MakeCall("ifup")
           \/ UNCHANGED <<call, STATUS>>
    BY <1>6 DEF Recovering, RestWith, history
  <2>2. CASE MakeCall("ifup")
    <3>1. Called /\ pc' = "ifup"
      BY <2>1, <2>2, MakeCallCalls, MakeCallPc
    <3>2. Tracking <=> Tracking'
      BY <3>1, CallsKept
    <3> QED
      BY <2>1, <3>1, <3>2 DEF VerdictInv
  <2>3. CASE UNCHANGED <<call, STATUS>>
    BY <2>1, <2>3, <1>1 DEF Quiet, firewall
  <2> QED
    BY <2>1, <2>2, <2>3
<1>7. CASE Succeeded
  <2>1. /\ STATUS' = "online" /\ iface_state' = "online"
        /\ overruled' = (overruled \/ iface_state = "offline")
        /\ UNCHANGED IFDOWN_EVENT /\ UNCHANGED call
    BY <1>7 DEF Succeeded
  <2>2. IFDOWN_EVENT /\ ~overruled' /\ ~Tracking => FALSE
    BY <2>1 DEF VerdictInv
  <2>3. Tracking <=> Tracking'
    BY <2>1 DEF At
  <2> QED
    BY <2>1, <2>2, <2>3 DEF VerdictInv
<1>8. CASE CallOver
  <2>1. /\ pc \in {"ifup", "ifdown"} /\ pc' \in {"none", "rest"}
        /\ pc = "ifup" => pc' = "none"
        /\ call[waitsFor].pc = "idle"
        /\ UNCHANGED <<IFDOWN_EVENT, STATUS, iface_state, overruled, call>>
    BY <1>8 DEF CallOver, history
  <2>2. pc' = "rest" => IFDOWN_EVENT
    BY <2>1 DEF CallInv
  <2>3. Tracking <=> Tracking'
    BY <2>1 DEF At
  <2> QED
    BY <2>1, <2>2, <2>3 DEF VerdictInv
<1>9. CASE Wake
  <2>1. CASE IFDOWN_EVENT
    <3>1. /\ MakeCall("disconnected")
          /\ UNCHANGED <<lock, IFDOWN_EVENT, iface_state, firewall, overruled>>
      BY <1>9, <2>1 DEF Wake, history
    <3>2. Called /\ pc' = "disconnected"
      BY <3>1, MakeCallCalls, MakeCallPc
    <3>3. Tracking <=> Tracking'
      BY <3>2, CallsKept
    <3> QED
      BY <3>1, <3>2, <3>3 DEF VerdictInv
  <2>2. CASE ~IFDOWN_EVENT
    BY <1>9, <2>2, <1>1 DEF Wake, Quiet, firewall, history
  <2> QED
    BY <2>1, <2>2
<1>10. CASE Disconnected
  <2>1. /\ pc = "disconnected" /\ IFDOWN_EVENT' = FALSE
        /\ UNCHANGED <<call, STATUS, iface_state, overruled>>
    BY <1>10 DEF Disconnected, history
  <2>2. STATUS = "offline"
    BY <2>1 DEF ScoreInv
  <2>3. Between <=> Between'
    BY <2>1 DEF Between, At
  <2>4. ~overruled /\ ~Between => iface_state = "offline"
    BY <2>1 DEF VerdictInv, CallInv, Between
  <2> QED
    BY <2>1, <2>2, <2>3, <2>4 DEF VerdictInv
<1>11. CASE OtherHandler
  <2>1. UNCHANGED <<call, iface_state, overruled>>
    BY <1>11 DEF OtherHandler
  <2>2. (Between <=> Between') /\ (Tracking <=> Tracking')
    BY <2>1 DEF Between, At
  <2>3. \/ UNCHANGED tracker
        \/ pc' = "none" /\ IFDOWN_EVENT' = FALSE
    BY <1>11, EndingTracker DEF Ending
  <2> QED
    BY <2>1, <2>2, <2>3 DEF VerdictInv, tracker
<1>18. ASSUME NEW c \in Call, Flush(c) \/ UserScript(c) PROVE VerdictInv'
  <2>1. (Between <=> Between') /\ (Tracking <=> Tracking')
    BY <1>18, ScriptSteps DEF Between, At
  <2>2. UNCHANGED <<iface_state, overruled>>
    BY <1>18, ScriptSteps
  <2>3. \/ UNCHANGED tracker
        \/ pc' = "none" /\ IFDOWN_EVENT' = FALSE
    BY <1>18, AsideTracker, EndingTracker DEF Aside, Ending
  <2> QED
    BY <2>1, <2>2, <2>3 DEF VerdictInv, tracker
<1>12. ASSUME NEW c \in Call, Enter(c) PROVE VerdictInv'
  <2>1. /\ call[c].pc = "lock"
        /\ UNCHANGED <<tracker, iface_state, overruled>>
        /\ \A d \in Call : d # c => call'[d] = call[d]
    BY <1>12 DEF Enter, TypeOK, history
  <2>2. call'[c].pc = "state"
    BY <1>12, ActiveFields DEF Enter, TypeOK, Active
  <2>3. (Between <=> Between') /\ (Tracking <=> Tracking')
    BY <2>1, <2>2 DEF Between, At
  <2> QED
    BY <2>1, <2>3 DEF VerdictInv, tracker
<1>13. ASSUME NEW c \in Call, IfupState(c) PROVE VerdictInv'
  <2>1. /\ call[c].pc = "state" /\ call[c].action = "ifup"
        /\ call' = [call EXCEPT ![c].pc = "track"]
    BY <1>13 DEF IfupState, At
  <2>2. Tracking' /\ Between'
    BY ZenonT(60), <2>1, AdvanceEffect DEF Between, At
  <2> QED
    BY <2>2 DEF VerdictInv
<1>14. ASSUME NEW c \in Call, IfdownState(c) PROVE VerdictInv'
  <2>1. /\ call[c].pc = "state" /\ call[c].action = "ifdown"
        /\ call' = [call EXCEPT ![c].pc = "signal"]
        /\ iface_state' = "offline"
    BY <1>14 DEF IfdownState, At
  <2>2. Between'
    BY <2>1, AdvanceEffect DEF Between, At
  <2> QED
    BY <2>1, <2>2 DEF VerdictInv
<1>15. ASSUME NEW c \in Call, IfupTrack(c) PROVE VerdictInv'
  BY <1>15 DEF IfupTrack, VerdictInv
<1>16. ASSUME NEW c \in Call, IfdownSignal(c) PROVE VerdictInv'
  <2>1. /\ call[c].pc = "signal" /\ call[c].action = "ifdown"
        /\ UNCHANGED <<iface_state, overruled>>
    BY <1>16, Zenon DEF IfdownSignal, At, history
  <2>2. ~overruled => iface_state = "offline"
    BY <2>1 DEF ServiceInv
  <2>3. Settled' => IFDOWN_EVENT'
    BY <1>16, SMT DEF IfdownSignal, Signalled
  <2> QED
    BY <2>1, <2>2, <2>3 DEF VerdictInv
<1>17. ASSUME NEW c \in Call, IfupFinish(c) \/ IfdownFinish(c) PROVE VerdictInv'
  <2>1. /\ call[c].pc = "policy"
        /\ call' = [call EXCEPT ![c] = [pc |-> "idle"]]
        /\ UNCHANGED <<iface_state, overruled, tracker>>
    BY <1>17 DEF IfupFinish, IfdownFinish, At, history
  <2>2. call'[c].pc = "idle" /\ \A d \in Call : d # c => call'[d] = call[d]
    BY <2>1 DEF TypeOK
  <2>3. (Between <=> Between') /\ (Tracking <=> Tracking')
    BY <2>1, <2>2 DEF Between, At
  <2> QED
    BY <2>1, <2>3 DEF VerdictInv, tracker
<1> QED
  BY <1>2, <1>3, <1>4, <1>5, <1>6, <1>7, <1>8, <1>9, <1>10, <1>11, <1>12, <1>13,
     <1>14, <1>15, <1>16, <1>17, <1>18
  DEF Next, Tracker, Handler

LEMMA CallPreserved ==
  TypeOK /\ LockInv /\ ~SignalMayMiss /\ CallInv /\ [Next]_vars => CallInv'
<1> SUFFICES ASSUME TypeOK, LockInv, ~SignalMayMiss, CallInv, [Next]_vars PROVE CallInv'
  OBVIOUS
(* A step that leaves the tracker where it was, or takes it elsewhere than *)
(* to a call or to "disconnected", and keeps the call it waits for.        *)
<1>1. ASSUME \/ pc' \notin {"ifdown", "disconnected"}
             \/ pc' = pc /\ UNCHANGED <<waitsFor, IFDOWN_EVENT>>
                         /\ (pc = "ifdown" => call'[waitsFor] = call[waitsFor])
      PROVE  CallInv'
  BY <1>1 DEF CallInv
<1>2. pc = "ifdown" => waitsFor \in Call
  BY DEF TypeOK
<1>3. CASE Begin \/ Connected \/ Probe \/ Succeeded \/ CallOver
  BY <1>3, <1>1 DEF Begin, Connected, Probe, Succeeded, CallOver
<1>4. CASE Disconnected
  BY <1>4, <1>1 DEF Disconnected
<1>5. CASE Wake
  BY <1>5, MakeCallPc DEF Wake, CallInv
<1>6. CASE Failed
  <2>1. CASE MakeCall("ifdown")
    <3>1. PICK c \in Call : /\ call' = [call EXCEPT ![c] = NewCall("tracker", "ifdown")]
                            /\ waitsFor' = c
                            /\ pc' = "ifdown"
      BY <2>1 DEF MakeCall
    <3>2. call'[c].pc = "lock" /\ call'[c].action = "ifdown"
      BY <3>1 DEF NewCall, TypeOK
    <3> QED
      BY <3>1, <3>2 DEF CallInv
  <2>2. CASE pc' = "rest"
    BY <2>2, <1>1
  <2> QED
    BY <1>6, <2>1, <2>2 DEF Failed, RestWith
<1>7. CASE Recovering
  <2>1. pc' \in {"ifup", "rest"}
    BY <1>7, MakeCallPc DEF Recovering, RestWith
  <2> QED
    BY <2>1, <1>1
<1>8. CASE Answer \/ Flap \/ OtherHandler \/ UNCHANGED vars
  <2>1. CASE Answer \/ Flap \/ UNCHANGED vars
    BY <2>1, <1>1 DEF Answer, Flap, vars, tracker
  <2>2. CASE OtherHandler
    BY <2>2, <1>1, EndingTracker DEF Ending, OtherHandler, tracker
  <2> QED
    BY <1>8, <2>1, <2>2
<1>9. ASSUME NEW c \in Call, Announce(c) PROVE CallInv'
  <2>1. /\ UNCHANGED tracker /\ c # waitsFor
        /\ \A d \in Call : d # c => call'[d] = call[d]
    BY <1>9 DEF Announce, Idle, TypeOK
  <2> QED
    BY <2>1, <1>1, <1>2 DEF tracker
<1>10. ASSUME NEW c \in Call, Enter(c) PROVE CallInv'
  <2>1. /\ UNCHANGED tracker /\ call[c].pc = "lock"
        /\ \A d \in Call : d # c => call'[d] = call[d]
    BY <1>10 DEF Enter, TypeOK
  <2>2. call'[c].pc = "state" /\ call'[c].action = call[c].action
    BY <1>10, ActiveFields DEF Enter, TypeOK, Active
  <2> QED
    BY <2>1, <2>2, <1>2 DEF tracker, CallInv
<1>11. ASSUME NEW c \in Call, IfupState(c) \/ IfdownState(c) PROVE CallInv'
  <2>1. /\ UNCHANGED tracker /\ call[c].pc = "state"
        /\ \E p \in {"track", "signal"} : call' = [call EXCEPT ![c].pc = p]
    BY <1>11 DEF IfupState, IfdownState, At
  <2>2. PICK p \in {"track", "signal"} : call' = [call EXCEPT ![c].pc = p]
    BY <2>1
  <2>3. /\ call'[c].pc = p /\ call'[c].action = call[c].action
        /\ \A d \in Call : d # c => call'[d] = call[d]
    BY <2>1, <2>2, AdvanceEffect
  <2> QED
    BY <2>1, <2>3, <1>2 DEF tracker, CallInv
<1>12. ASSUME NEW c \in Call, IfupTrack(c) PROVE CallInv'
  BY <1>12, <1>1 DEF IfupTrack
<1>13. ASSUME NEW c \in Call, IfdownSignal(c) PROVE CallInv'
  <2>1. /\ call[c].pc = "signal" /\ UNCHANGED waitsFor
        /\ call' = [call EXCEPT ![c].pc = "policy"]
    BY <1>13, Zenon DEF IfdownSignal, At
  <2>2. /\ call'[c].pc = "policy" /\ call'[c].action = call[c].action
        /\ \A d \in Call : d # c => call'[d] = call[d]
    BY <2>1, AdvanceEffect
  <2>3. pc' \in {"ifdown", "disconnected"} => pc' = pc /\ IFDOWN_EVENT'
    BY <1>13, SMT DEF IfdownSignal, Signalled
  <2> QED
    BY <2>1, <2>2, <2>3, <1>2 DEF CallInv
<1>14. ASSUME NEW c \in Call, IfupFinish(c) \/ IfdownFinish(c) PROVE CallInv'
  <2>1. /\ call[c].pc = "policy" /\ UNCHANGED tracker
        /\ call' = [call EXCEPT ![c] = [pc |-> "idle"]]
    BY <1>14 DEF IfupFinish, IfdownFinish, At
  <2>2. call'[c].pc = "idle" /\ \A d \in Call : d # c => call'[d] = call[d]
    BY <2>1 DEF TypeOK
  <2> QED
    BY <2>1, <2>2, <1>2 DEF tracker, CallInv
<1>15. ASSUME NEW c \in Call, Flush(c) \/ UserScript(c) PROVE CallInv'
  <2>1. pc = "ifdown" => c # waitsFor
    BY <1>15, ScriptSteps DEF CallInv
  <2>2. pc = "ifdown" => call'[waitsFor] = call[waitsFor]
    BY <1>15, <2>1, <1>2, ScriptSteps
  <2>3. UNCHANGED tracker \/ pc' = "none"
    BY <1>15, AsideTracker, EndingTracker DEF Aside, Ending
  <2> QED
    BY <1>1, <2>2, <2>3 DEF tracker
<1> QED
  BY <1>3, <1>4, <1>5, <1>6, <1>7, <1>8, <1>9, <1>10, <1>11, <1>12, <1>13, <1>14, <1>15
  DEF Next, Tracker, Handler

LEMMA StatusInitially == Init => StatusInv
BY DEF Init, StatusInv, StartInv, VerdictInv, CallInv

(* STATUS and iface_state agree when the tracker is at work and has        *)
(* nothing to notice, if no signal misses its tracker.                     *)
THEOREM StatusCorrect ==
  ASSUME SignalMayMiss = FALSE
  PROVE  Spec => []StatusAgrees
<1> DEFINE Inv == TypeOK /\ ScoreInv /\ LockInv /\ ServiceInv /\ StatusInv
<1>1. Init => Inv
  BY InitTyped, ServiceInitially, StatusInitially
<1>2. Inv /\ [Next]_vars => Inv'
  <2> SUFFICES ASSUME Inv, [Next]_vars PROVE Inv'
    OBVIOUS
  <2>1. TypeOK' /\ ScoreInv' /\ LockInv' /\ ServiceInv'
    BY NextTyped, ScorePreserved, LockPreserved, ServicePreserved
  <2>2. StartInv' /\ VerdictInv' /\ CallInv'
    BY StartPreserved, VerdictPreserved, CallPreserved DEF StatusInv
  <2>3. StatusInv'
    BY <2>2 DEF StatusInv
  <2> QED
    BY <2>1, <2>3
<1>3. Inv => StatusAgrees
  <2> SUFFICES ASSUME Inv, lock = NoCall, ~overruled,
                      pc \in {"probe", "judge", "rest"}, ~IFDOWN_EVENT
               PROVE  STATUS = iface_state
    BY DEF StatusAgrees
  <2>1. ~Between
    BY TrackConstants DEF Between, LockInv, At
  <2> QED
    BY <2>1 DEF StatusInv, VerdictInv
<1> QED
  BY <1>1, <1>2, <1>3, PTL DEF Spec

=============================================================================
