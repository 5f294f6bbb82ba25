----------------------------- MODULE DaemonProofs -----------------------------
(***************************************************************************)
(* Proofs about three daemons of the router that share nothing but the     *)
(* shape of the argument: the processes that switch the SIM agree about    *)
(* the modem and about what was asked of them (DualSim), one updater of a  *)
(* section is at work and a stop is final (DdnsUpdater), and no wake-up of *)
(* eco's coroutines is lost (EcoSync); for any number of processes, calls, *)
(* restarts, coroutines and timeouts.                                      *)
(***************************************************************************)
EXTENDS DualSim, DdnsUpdater, EcoSync, FiniteSetTheorems, TLAPS

-----------------------------------------------------------------------------
(* The two SIMs of a modem                                                 *)

SimPc == {"idle", "begin", "probe", "check"} \cup Deciding \cup {"create"}
SimAction == {"none", "switch", "ifup", "ifup-failed", "main", "current"}
SimFiles == [switch_now : {0, 1}, env_send : {0, 1}, switch_wait : {0, 1}, main_flag : {0, 1},
          secondary_flag : {0, 1}, ifup_fail : Int, current_sim : {1, 2}]

SimTypeOK ==
  /\ simEnabled \in BOOLEAN /\ locked \in BOOLEAN
  /\ dual_sim \in SimFiles
  /\ slot \in {1, 2}
  /\ call \in [Process -> [pc : SimPc, action : SimAction, sim : {0, 1, 2}]]
  /\ stuck \in BOOLEAN /\ mute \in BOOLEAN /\ lockRaced \in BOOLEAN /\ crossed \in BOOLEAN
  /\ tour \in 0..3

(* Who can be where, and with what                                         *)
Placed ==
  \A p \in Process :
    /\ At(p, {"begin", "probe", "check", "wait", "decide", "finish"}) => Handles(p)
    /\ At(p, {"probe"}) => call[p].action # "switch"
    /\ At(p, {"idle"}) => call[p].action = "none"
    /\ At(p, {"write"}) => call[p].sim \in {1, 2}

(* The lock file is there exactly while somebody drives the modem, and     *)
(* whoever writes current_sim holds what the modem said.                   *)
Claiming == {"create"} \cup Driving
LockHeld ==
  lockRaced \/ /\ \A p, q \in Process : At(p, Claiming) /\ At(q, Claiming) => p = q
               /\ locked => \E p \in Process : At(p, Driving)
               /\ \A p \in Process : At(p, Driving) => locked
               /\ \A p \in Process : At(p, {"write"}) => call[p].sim = slot

(* Handlers decide one after the other.                                    *)
Alone ==
  crossed \/ \A p, q \in Process :
    Handles(p) /\ Handles(q) /\ At(p, Deciding) /\ At(q, Deciding) => p = q

(* What the flags remember of the handlers' tour, and what a handler that  *)
(* has decided will make of it                                             *)
TourNoted ==
  /\ tour = 1 => dual_sim.secondary_flag = 1 \/ dual_sim.switch_wait = 1
  /\ tour = 2 => dual_sim.switch_wait = 1
  /\ tour # 3
Planned(p) ==
  /\ At(p, {"decide"}) => dual_sim.switch_wait = 0 /\ tour # 2
  /\ At(p, {"lock", "create", "modem"}) =>
       /\ tour # 2 /\ call[p].sim \in {1, 2}
       /\ call[p].sim = Other => dual_sim.secondary_flag = 1
       /\ call[p].sim = Main /\ tour = 1 => dual_sim.switch_wait = 1
TourPlanned ==
  crossed \/ mute \/ (TourNoted /\ \A p \in Process : Handles(p) => Planned(p))

SimsInv ==
  /\ SimTypeOK /\ Placed
  /\ LockHeld /\ SlotKnown
  /\ RequestAnswered /\ SwitchUnderWay
  /\ Alone /\ TourPlanned

SimStep(p) ==
  \/ Detect(p) \/ Event(p) \/ Direct(p)
  \/ NotEnabled(p) \/ Asked(p) \/ ComesUpOffline(p) \/ Probe(p) \/ ComesUp(p) \/ Fails(p)
  \/ CalledOff(p) \/ GoesOn(p) \/ Waited(p) \/ Decide(p) \/ Finish(p)
  \/ FindFree(p) \/ Create(p) \/ NothingToDo(p) \/ Switch(p) \/ SwitchBlindly(p) \/ ReadSlot(p)
  \/ WriteSlot(p) \/ RemoveLock(p)

-----------------------------------------------------------------------------
USE DEF At, Go, Exit, Idle, Handles, Modem, SimHistory, Deciding, Driving

(* Every step leaves the variables in their types.                         *)
LEMMA SimTypeStep ==
  ASSUME SimsInv, Main \in {1, 2}, NEW p \in Process, SimStep(p)
  PROVE  SimTypeOK'
<1>1. CASE Direct(p)
  BY <1>1 DEF Direct, Free, SimFiles, SimPc, SimAction, SimTypeOK, SimsInv
<1>2. CASE Detect(p) \/ Event(p)
  BY <1>2 DEF Detect, Event, Free, SimFiles, SimPc, SimAction, SimTypeOK, SimsInv
<1>3. CASE NotEnabled(p)
  BY <1>3 DEF NotEnabled, SimFiles, SimPc, SimAction, SimTypeOK, SimsInv
<1>4. CASE Asked(p)
  BY <1>4 DEF Asked, Wanted, SimFiles, SimPc, SimAction, SimTypeOK, SimsInv
<1>5. CASE ComesUpOffline(p)
  BY <1>5 DEF ComesUpOffline, SimFiles, SimPc, SimAction, SimTypeOK, SimsInv
<1>6. CASE Probe(p)
  BY <1>6 DEF Probe, Wanted, SimFiles, SimPc, SimAction, SimTypeOK, SimsInv
<1>7. CASE ComesUp(p)
  BY <1>7 DEF ComesUp, SimFiles, SimPc, SimAction, SimTypeOK, SimsInv
<1>8. CASE Fails(p)
  <2>1. dual_sim' \in SimFiles
    BY <1>8 DEF Fails, SimTypeOK, SimsInv, Placed, SimFiles
  <2>2. call' \in [Process -> [pc : SimPc, action : SimAction, sim : {0, 1, 2}]]
    BY <1>8 DEF Fails, SimTypeOK, SimsInv, SimPc, SimAction
  <2> QED
    BY <1>8, <2>1, <2>2 DEF Fails, SimTypeOK, SimsInv
<1>9. CASE CalledOff(p)
  BY <1>9 DEF CalledOff, Calm, SimFiles, SimPc, SimAction, SimTypeOK, SimsInv
<1>10. CASE GoesOn(p)
  BY <1>10 DEF GoesOn, SimFiles, SimPc, SimAction, SimTypeOK, SimsInv
<1>11. CASE Waited(p)
  <2>1. dual_sim' \in SimFiles
    BY <1>11 DEF Waited, SimTypeOK, SimsInv, Placed, SimFiles
  <2>2. call' \in [Process -> [pc : SimPc, action : SimAction, sim : {0, 1, 2}]]
    BY <1>11 DEF Waited, SimTypeOK, SimsInv, SimPc, SimAction
  <2> QED
    BY <1>11, <2>1, <2>2 DEF Waited, SimTypeOK, SimsInv
<1>12. CASE Decide(p)
  <2>1. dual_sim' \in SimFiles
    BY <1>12 DEF Decide, Noted, OtherThan, Other, SimTypeOK, SimsInv, Placed, SimFiles
  <2>2. call' \in [Process -> [pc : SimPc, action : SimAction, sim : {0, 1, 2}]]
    <3> DEFINE next == OtherThan(dual_sim.current_sim)
               Place == [pc : SimPc, action : SimAction, sim : {0, 1, 2}]
    <3>1. call[p] \in Place
      BY DEF SimTypeOK, SimsInv
    <3>2. next \in {0, 1, 2}
      BY DEF OtherThan
    <3>3. [call[p] EXCEPT !.pc = "lock", !.sim = next] \in Place
      BY <3>1, <3>2 DEF SimPc
    <3>4. call' = [call EXCEPT ![p] = [call[p] EXCEPT !.pc = "lock", !.sim = next]]
      BY <1>12 DEF Decide, SimTypeOK, SimsInv
    <3> QED
      BY <3>3, <3>4 DEF SimTypeOK, SimsInv
  <2> QED
    BY <1>12, <2>1, <2>2 DEF Decide, SimTypeOK, SimsInv
<1>13. CASE Finish(p)
  BY <1>13 DEF Finish, Calm, SimFiles, SimPc, SimAction, SimTypeOK, SimsInv
<1>14. CASE FindFree(p)
  BY <1>14 DEF FindFree, SimFiles, SimPc, SimAction, SimTypeOK, SimsInv
<1>15. CASE Create(p)
  BY <1>15 DEF Create, SimFiles, SimPc, SimAction, SimTypeOK, SimsInv
<1>16. CASE NothingToDo(p)
  BY <1>16 DEF NothingToDo, SimFiles, SimPc, SimAction, SimTypeOK, SimsInv
<1>17. CASE Switch(p)
  BY <1>17 DEF Switch, OtherThan, Toured, Other, SimFiles, SimPc, SimAction, SimTypeOK, SimsInv
<1>18. CASE SwitchBlindly(p)
  BY <1>18 DEF SwitchBlindly, OtherThan, Toured, Other, SimFiles, SimPc, SimAction, SimTypeOK,
          SimsInv
<1>19. CASE ReadSlot(p)
  <2>1. dual_sim' \in SimFiles
    BY <1>19 DEF ReadSlot, SimTypeOK, SimsInv, Placed, SimFiles
  <2>2. call' \in [Process -> [pc : SimPc, action : SimAction, sim : {0, 1, 2}]]
    BY <1>19 DEF ReadSlot, SimTypeOK, SimsInv, SimPc, SimAction
  <2> QED
    BY <1>19, <2>1, <2>2 DEF ReadSlot, SimTypeOK, SimsInv
<1>20. CASE WriteSlot(p)
  <2>1. dual_sim' \in SimFiles
    BY <1>20 DEF WriteSlot, SimTypeOK, SimsInv, Placed, SimFiles
  <2>2. call' \in [Process -> [pc : SimPc, action : SimAction, sim : {0, 1, 2}]]
    BY <1>20 DEF WriteSlot, SimTypeOK, SimsInv, SimPc, SimAction
  <2> QED
    BY <1>20, <2>1, <2>2 DEF WriteSlot, SimTypeOK, SimsInv
<1>21. CASE RemoveLock(p)
  <2>1. dual_sim' \in SimFiles
    BY <1>21 DEF RemoveLock, SimTypeOK, SimsInv, Placed, SimFiles
  <2>2. call' \in [Process -> [pc : SimPc, action : SimAction, sim : {0, 1, 2}]]
    BY <1>21 DEF RemoveLock, SimTypeOK, SimsInv, SimPc, SimAction
  <2> QED
    BY <1>21, <2>1, <2>2 DEF RemoveLock, SimTypeOK, SimsInv
<1> QED
  BY <1>1, <1>2, <1>3, <1>4, <1>5, <1>6, <1>7, <1>8, <1>9, <1>10, <1>11, <1>12, <1>13,
     <1>14, <1>15, <1>16, <1>17, <1>18, <1>19, <1>20, <1>21 DEF SimStep

(* A call changes only its own place, and a free one is nobody's.          *)
LEMMA PlacedStep ==
  ASSUME SimsInv, Main \in {1, 2}, NEW p \in Process, SimStep(p)
  PROVE  Placed'
<1>1. CASE Detect(p)
  BY <1>1 DEF Detect, Free, Placed, SimTypeOK, SimsInv
<1>2. CASE Event(p)
  BY <1>2 DEF Event, Free, Placed, SimTypeOK, SimsInv
<1>3. CASE Direct(p)
  BY <1>3 DEF Direct, Free, Placed, SimTypeOK, SimsInv
<1>4. CASE NotEnabled(p) \/ Asked(p) \/ ComesUpOffline(p) \/ Probe(p)
  BY <1>4 DEF NotEnabled, Asked, ComesUpOffline, Probe, Wanted, Placed, SimTypeOK,
          SimsInv
<1>5. CASE ComesUp(p) \/ Fails(p)
  BY <1>5 DEF ComesUp, Fails, Placed, SimTypeOK, SimsInv
<1>6. CASE CalledOff(p) \/ GoesOn(p) \/ Waited(p) \/ Decide(p)
  BY <1>6 DEF CalledOff, GoesOn, Waited, Decide, Calm, Noted, OtherThan, Other, Placed,
          SimTypeOK, SimsInv
<1>7. CASE Finish(p)
  BY <1>7 DEF Finish, Calm, Placed, SimTypeOK, SimsInv
<1>8. CASE ReadSlot(p)
  BY <1>8 DEF ReadSlot, Placed, SimTypeOK, SimsInv
<1>9. CASE FindFree(p) \/ Create(p) \/ NothingToDo(p) \/ Switch(p)
  BY <1>9 DEF FindFree, Create, NothingToDo, Switch, OtherThan, Toured, Other, Placed,
          SimTypeOK, SimsInv
<1>10. CASE SwitchBlindly(p) \/ WriteSlot(p) \/ RemoveLock(p)
  BY <1>10 DEF SwitchBlindly, WriteSlot, RemoveLock, OtherThan, Toured, Other, Placed,
          SimTypeOK, SimsInv
<1> QED
  BY <1>1, <1>2, <1>3, <1>4, <1>5, <1>6, <1>7, <1>8, <1>9, <1>10 DEF SimStep

(* Only the making and the removal of the lock file change it.             *)
LEMMA LockStep ==
  ASSUME SimsInv, Main \in {1, 2}, NEW p \in Process, SimStep(p)
  PROVE  LockHeld'
<1>1. CASE Detect(p) \/ Event(p) \/ Direct(p)
  BY <1>1 DEF Detect, Event, Direct, Free, LockHeld, Claiming, SimTypeOK, SimsInv
<1>2. CASE NotEnabled(p) \/ Asked(p) \/ ComesUpOffline(p) \/ Probe(p)
  <2>1. CASE NotEnabled(p) \/ Asked(p)
    BY <2>1 DEF NotEnabled, Asked, Wanted, LockHeld, Claiming, SimTypeOK, SimsInv
  <2>2. CASE ComesUpOffline(p)
    BY <2>2 DEF ComesUpOffline, LockHeld, Claiming, SimTypeOK, SimsInv
  <2>3. CASE Probe(p)
    BY <2>3 DEF Probe, Wanted, LockHeld, Claiming, SimTypeOK, SimsInv
  <2> QED
    BY <1>2, <2>1, <2>2, <2>3
<1>3. CASE ComesUp(p) \/ Fails(p)
  BY <1>3 DEF ComesUp, Fails, LockHeld, Claiming, SimTypeOK, SimsInv
<1>4. CASE CalledOff(p) \/ GoesOn(p) \/ Waited(p) \/ Decide(p)
  BY <1>4 DEF CalledOff, GoesOn, Waited, Decide, Calm, Noted, OtherThan, Other,
          LockHeld, Claiming, SimTypeOK, SimsInv
<1>5. CASE Finish(p)
  BY <1>5 DEF Finish, Calm, LockHeld, Claiming, SimTypeOK, SimsInv
<1>6. CASE FindFree(p)
  BY ZenonT(60), <1>6 DEF FindFree, LockHeld, Claiming, SimTypeOK, SimsInv
<1>7. CASE Create(p)
  BY <1>7 DEF Create, LockHeld, Claiming, SimTypeOK, SimsInv
<1>8. CASE Switch(p)
  BY <1>8 DEF Switch, OtherThan, Toured, Other, LockHeld, Claiming, SimTypeOK, SimsInv
<1>9. CASE SwitchBlindly(p)
  BY <1>9 DEF SwitchBlindly, OtherThan, Toured, Other, LockHeld, Claiming, SimTypeOK,
          SimsInv
<1>10. CASE ReadSlot(p)
  BY <1>10 DEF ReadSlot, LockHeld, Claiming, SimTypeOK, SimsInv
<1>11. CASE RemoveLock(p)
  BY <1>11 DEF RemoveLock, LockHeld, Claiming, SimTypeOK, SimsInv
<1>12. CASE NothingToDo(p) \/ WriteSlot(p)
  BY <1>12 DEF NothingToDo, WriteSlot, LockHeld, Claiming, SimTypeOK, SimsInv
<1> QED
  BY <1>1, <1>2, <1>3, <1>4, <1>5, <1>6, <1>7, <1>8, <1>9, <1>10, <1>11, <1>12 DEF SimStep

(* Whoever changes the slot goes on to read it and to write it down.       *)
LEMMA SlotStep ==
  ASSUME SimsInv, Main \in {1, 2}, NEW p \in Process, SimStep(p)
  PROVE  SlotKnown'
<1>1. CASE Detect(p) \/ Event(p) \/ Direct(p)
  BY <1>1 DEF Detect, Event, Direct, Free, LockHeld, Claiming, SlotKnown, SimTypeOK,
          SimsInv, SimFiles
<1>2. CASE NotEnabled(p) \/ Asked(p) \/ ComesUpOffline(p) \/ Probe(p)
  BY <1>2 DEF NotEnabled, Asked, ComesUpOffline, Probe, Wanted, LockHeld, Claiming,
          SlotKnown, SimTypeOK, SimsInv, SimFiles
<1>3. CASE ComesUp(p) \/ Fails(p)
  BY <1>3 DEF ComesUp, Fails, LockHeld, Claiming, SlotKnown, SimTypeOK, SimsInv, SimFiles
<1>4. CASE CalledOff(p) \/ GoesOn(p) \/ Waited(p) \/ Decide(p)
  BY ZenonT(60), <1>4 DEF CalledOff, GoesOn, Waited, Decide, Calm, Noted, OtherThan, Other,
          LockHeld, Claiming, SlotKnown, SimTypeOK, SimsInv, SimFiles
<1>5. CASE Finish(p)
  BY <1>5 DEF Finish, Calm, LockHeld, Claiming, SlotKnown, SimTypeOK, SimsInv, SimFiles
<1>6. CASE Switch(p)
  BY <1>6 DEF Switch, OtherThan, Toured, Other, LockHeld, Claiming, SlotKnown,
          SimTypeOK, SimsInv, SimFiles
<1>7. CASE SwitchBlindly(p)
  BY <1>7 DEF SwitchBlindly, OtherThan, Toured, Other, LockHeld, Claiming, SlotKnown,
          SimTypeOK, SimsInv, SimFiles
<1>8. CASE ReadSlot(p)
  BY <1>8 DEF ReadSlot, LockHeld, Claiming, SlotKnown, SimTypeOK, SimsInv, SimFiles
<1>9. CASE WriteSlot(p)
  BY <1>9 DEF WriteSlot, LockHeld, Claiming, SlotKnown, SimTypeOK, SimsInv, SimFiles
<1>10. CASE RemoveLock(p)
  BY <1>10 DEF RemoveLock, LockHeld, Claiming, SlotKnown, SimTypeOK, SimsInv, SimFiles
<1>11. CASE FindFree(p) \/ Create(p) \/ NothingToDo(p)
  BY <1>11 DEF FindFree, Create, NothingToDo, LockHeld, Claiming, SlotKnown, SimTypeOK,
          SimsInv, SimFiles
<1> QED
  BY <1>1, <1>2, <1>3, <1>4, <1>5, <1>6, <1>7, <1>8, <1>9, <1>10, <1>11 DEF SimStep

(* A handler of a request ends with env_send taken back, or stuck.         *)
LEMMA RequestStep ==
  ASSUME SimsInv, Main \in {1, 2}, NEW p \in Process, SimStep(p)
  PROVE  RequestAnswered'
<1>1. CASE Detect(p)
  BY <1>1 DEF Detect, Free, RequestAnswered, Placed, SimTypeOK, SimsInv, SimFiles
<1>2. CASE Event(p) \/ Direct(p)
  BY <1>2 DEF Event, Direct, Free, RequestAnswered, Placed, SimTypeOK, SimsInv, SimFiles
<1>3. CASE NotEnabled(p)
  BY <1>3 DEF NotEnabled, RequestAnswered, Placed, SimTypeOK, SimsInv, SimFiles
<1>4. CASE Probe(p)
  BY <1>4 DEF Probe, Wanted, RequestAnswered, Placed, SimTypeOK, SimsInv, SimFiles
<1>5. CASE ComesUp(p)
  BY <1>5 DEF ComesUp, RequestAnswered, Placed, SimTypeOK, SimsInv, SimFiles
<1>6. CASE Fails(p)
  BY <1>6 DEF Fails, RequestAnswered, Placed, SimTypeOK, SimsInv, SimFiles
<1>7. CASE Asked(p) \/ ComesUpOffline(p)
  BY <1>7 DEF Asked, ComesUpOffline, Wanted, RequestAnswered, Placed, SimTypeOK,
          SimsInv, SimFiles
<1>8. CASE CalledOff(p)
  BY <1>8 DEF CalledOff, Calm, RequestAnswered, Placed, SimTypeOK, SimsInv, SimFiles
<1>9. CASE Waited(p)
  BY <1>9 DEF Waited, RequestAnswered, Placed, SimTypeOK, SimsInv, SimFiles
<1>10. CASE Decide(p)
  BY <1>10 DEF Decide, Noted, OtherThan, Other, RequestAnswered, Placed, SimTypeOK,
          SimsInv, SimFiles
<1>11. CASE Finish(p)
  BY <1>11 DEF Finish, Calm, RequestAnswered, Placed, SimTypeOK, SimsInv, SimFiles
<1>12. CASE GoesOn(p)
  BY <1>12 DEF GoesOn, RequestAnswered, Placed, SimTypeOK, SimsInv, SimFiles
<1>13. CASE RemoveLock(p)
  BY <1>13 DEF RemoveLock, RequestAnswered, Placed, SimTypeOK, SimsInv, SimFiles
<1>14. CASE FindFree(p) \/ Create(p) \/ NothingToDo(p) \/ Switch(p)
  BY <1>14 DEF FindFree, Create, NothingToDo, Switch, OtherThan, Toured, Other,
          RequestAnswered, Placed, SimTypeOK, SimsInv, SimFiles
<1>15. CASE SwitchBlindly(p) \/ ReadSlot(p) \/ WriteSlot(p)
  BY <1>15 DEF SwitchBlindly, ReadSlot, WriteSlot, OtherThan, Toured, Other,
          RequestAnswered, Placed, SimTypeOK, SimsInv, SimFiles
<1> QED
  BY <1>1, <1>2, <1>3, <1>4, <1>5, <1>6, <1>7, <1>8, <1>9, <1>10, <1>11, <1>12, <1>13,
     <1>14, <1>15 DEF SimStep

(* Whoever sets switch_now goes on to take it back.                        *)
LEMMA WantedStep ==
  ASSUME SimsInv, Main \in {1, 2}, NEW p \in Process, SimStep(p)
  PROVE  SwitchUnderWay'
<1>1. CASE Detect(p) \/ Event(p) \/ Direct(p)
  BY <1>1 DEF Detect, Event, Direct, Free, SwitchUnderWay, Placed, SimTypeOK, SimsInv,
          SimFiles
<1>2. CASE Asked(p)
  BY <1>2 DEF Asked, Wanted, SwitchUnderWay, Placed, SimTypeOK, SimsInv, SimFiles
<1>3. CASE Probe(p)
  BY <1>3 DEF Probe, Wanted, SwitchUnderWay, Placed, SimTypeOK, SimsInv, SimFiles
<1>4. CASE NotEnabled(p) \/ ComesUpOffline(p) \/ ComesUp(p) \/ Fails(p)
  BY <1>4 DEF NotEnabled, ComesUpOffline, ComesUp, Fails, SwitchUnderWay, Placed,
          SimTypeOK, SimsInv, SimFiles
<1>5. CASE CalledOff(p)
  BY <1>5 DEF CalledOff, Calm, SwitchUnderWay, Placed, SimTypeOK, SimsInv, SimFiles
<1>6. CASE GoesOn(p)
  BY <1>6 DEF GoesOn, SwitchUnderWay, Placed, SimTypeOK, SimsInv, SimFiles
<1>7. CASE Waited(p)
  BY <1>7 DEF Waited, SwitchUnderWay, Placed, SimTypeOK, SimsInv, SimFiles
<1>8. CASE Decide(p)
  BY <1>8 DEF Decide, Noted, OtherThan, Other, SwitchUnderWay, Placed, SimTypeOK,
          SimsInv, SimFiles
<1>9. CASE Finish(p)
  BY <1>9 DEF Finish, Calm, SwitchUnderWay, Placed, SimTypeOK, SimsInv, SimFiles
<1>10. CASE RemoveLock(p)
  BY <1>10 DEF RemoveLock, SwitchUnderWay, Placed, SimTypeOK, SimsInv, SimFiles
<1>11. CASE FindFree(p) \/ Create(p) \/ NothingToDo(p) \/ Switch(p)
  BY <1>11 DEF FindFree, Create, NothingToDo, Switch, OtherThan, Toured, Other,
          SwitchUnderWay, Placed, SimTypeOK, SimsInv, SimFiles
<1>12. CASE SwitchBlindly(p) \/ ReadSlot(p) \/ WriteSlot(p)
  BY <1>12 DEF SwitchBlindly, ReadSlot, WriteSlot, OtherThan, Toured, Other,
          SwitchUnderWay, Placed, SimTypeOK, SimsInv, SimFiles
<1> QED
  BY <1>1, <1>2, <1>3, <1>4, <1>5, <1>6, <1>7, <1>8, <1>9, <1>10, <1>11, <1>12 DEF SimStep

(* A handler that is not alone past its checks is noted.                   *)
LEMMA AloneStep ==
  ASSUME SimsInv, Main \in {1, 2}, NEW p \in Process, SimStep(p)
  PROVE  Alone'
<1>1. CASE Direct(p)
  BY <1>1 DEF Direct, Free, Alone, Placed, SimTypeOK, SimsInv
<1>2. CASE Detect(p) \/ Event(p)
  BY <1>2 DEF Detect, Event, Free, Alone, Placed, SimTypeOK, SimsInv
<1>3. CASE NotEnabled(p) \/ Asked(p) \/ ComesUpOffline(p) \/ Probe(p)
  BY <1>3 DEF NotEnabled, Asked, ComesUpOffline, Probe, Wanted, Alone, Placed,
          SimTypeOK, SimsInv
<1>4. CASE ComesUp(p) \/ Fails(p)
  BY <1>4 DEF ComesUp, Fails, Alone, Placed, SimTypeOK, SimsInv
<1>5. CASE GoesOn(p)
  BY ZenonT(60), <1>5 DEF GoesOn, Alone, Placed, SimTypeOK, SimsInv
<1>6. CASE CalledOff(p) \/ Waited(p) \/ Decide(p) \/ Finish(p)
  BY <1>6 DEF CalledOff, Waited, Decide, Finish, Calm, Noted, OtherThan, Other, Alone,
          Placed, SimTypeOK, SimsInv
<1>7. CASE FindFree(p) \/ Create(p) \/ NothingToDo(p) \/ Switch(p)
  BY <1>7 DEF FindFree, Create, NothingToDo, Switch, OtherThan, Toured, Other, Alone,
          Placed, SimTypeOK, SimsInv
<1>8. CASE SwitchBlindly(p) \/ ReadSlot(p) \/ WriteSlot(p) \/ RemoveLock(p)
  BY <1>8 DEF SwitchBlindly, ReadSlot, WriteSlot, RemoveLock, OtherThan, Toured, Other,
          Alone, Placed, SimTypeOK, SimsInv
<1> QED
  BY <1>1, <1>2, <1>3, <1>4, <1>5, <1>6, <1>7, <1>8 DEF SimStep

(* The flags are a step ahead of the tour.                                 *)
LEMMA TourStep ==
  ASSUME SimsInv, Main \in {1, 2}, NEW p \in Process, SimStep(p)
  PROVE  TourPlanned'
<1>1. CASE Detect(p) \/ Event(p) \/ Direct(p)
  BY <1>1 DEF Detect, Event, Direct, Free, TourPlanned, TourNoted, Planned, Alone,
          Placed, Other, SimTypeOK, SimsInv, SimFiles
<1>2. CASE NotEnabled(p) \/ Asked(p) \/ ComesUpOffline(p) \/ Probe(p)
  BY <1>2 DEF NotEnabled, Asked, ComesUpOffline, Probe, Wanted, TourPlanned, TourNoted,
          Planned, Alone, Placed, Other, SimTypeOK, SimsInv, SimFiles
<1>3. CASE ComesUp(p) \/ Fails(p)
  BY <1>3 DEF ComesUp, Fails, TourPlanned, TourNoted, Planned, Alone, Placed, Other,
          SimTypeOK, SimsInv, SimFiles
<1>4. CASE GoesOn(p)
  BY <1>4 DEF GoesOn, TourPlanned, TourNoted, Planned, Alone, Placed, Other, SimTypeOK,
          SimsInv, SimFiles
<1>5. CASE Waited(p)
  BY <1>5 DEF Waited, TourPlanned, TourNoted, Planned, Alone, Placed, Other, SimTypeOK,
          SimsInv, SimFiles
<1>6. CASE Decide(p)
  BY <1>6 DEF Decide, Noted, OtherThan, Other, TourPlanned, TourNoted, Planned, Alone,
          Placed, SimTypeOK, SimsInv, SimFiles
<1>7. CASE Finish(p)
  BY <1>7 DEF Finish, Calm, TourPlanned, TourNoted, Planned, Alone, Placed, Other,
          SimTypeOK, SimsInv, SimFiles
<1>8. CASE CalledOff(p)
  BY <1>8 DEF CalledOff, Calm, TourPlanned, TourNoted, Planned, Alone, Placed, Other,
          SimTypeOK, SimsInv, SimFiles
<1>9. CASE Switch(p)
  BY <1>9 DEF Switch, OtherThan, Toured, Other, TourPlanned, TourNoted, Planned, Alone,
          Placed, SimTypeOK, SimsInv, SimFiles
<1>10. CASE SwitchBlindly(p)
  BY <1>10 DEF SwitchBlindly, OtherThan, Toured, Other, TourPlanned, TourNoted, Planned,
          Alone, Placed, SimTypeOK, SimsInv, SimFiles
<1>11. CASE WriteSlot(p)
  BY <1>11 DEF WriteSlot, TourPlanned, TourNoted, Planned, Alone, Placed, Other,
          SimTypeOK, SimsInv, SimFiles
<1>12. CASE FindFree(p) \/ Create(p) \/ NothingToDo(p) \/ ReadSlot(p)
  BY SMTT(60), <1>12
     DEF FindFree, Create, NothingToDo, ReadSlot, TourPlanned, TourNoted, Planned,
          Alone, Placed, Other, SimTypeOK, SimsInv, SimFiles
<1>13. CASE RemoveLock(p)
  BY <1>13 DEF RemoveLock, TourPlanned, TourNoted, Planned, Alone, Placed, Other, SimTypeOK,
          SimsInv, SimFiles
<1> QED
  BY <1>1, <1>2, <1>3, <1>4, <1>5, <1>6, <1>7, <1>8, <1>9, <1>10, <1>11, <1>12, <1>13 DEF SimStep

-----------------------------------------------------------------------------
(* No process runs at first, and the files say where the modem is.         *)
LEMMA SimInitInv ==
  ASSUME Main \in {1, 2}
  PROVE  SimInit => SimsInv
<1> SUFFICES ASSUME SimInit
             PROVE  SimsInv
  OBVIOUS
<1>1. /\ call = [p \in Process |-> Idle]
      /\ simEnabled \in BOOLEAN /\ slot \in {1, 2} /\ tour = 0
      /\ dual_sim = [switch_now |-> 0, env_send |-> 0, switch_wait |-> 0, main_flag |-> 0,
                     secondary_flag |-> 0, ifup_fail |-> 0, current_sim |-> slot]
  BY DEF SimInit
<1>2. ~locked /\ ~stuck /\ ~mute /\ ~lockRaced /\ ~crossed
  BY DEF SimInit
<1>3. SimTypeOK
  <2>1. call \in [Process -> [pc : SimPc, action : SimAction, sim : {0, 1, 2}]]
    BY <1>1 DEF SimPc, SimAction
  <2>2. locked \in BOOLEAN /\ stuck \in BOOLEAN /\ mute \in BOOLEAN
    BY Zenon DEF SimInit
  <2>3. lockRaced \in BOOLEAN /\ crossed \in BOOLEAN
    BY Zenon DEF SimInit
  <2>4. dual_sim \in SimFiles
    BY <1>1 DEF SimFiles
  <2> QED
    BY <1>1, <2>1, <2>2, <2>3, <2>4 DEF SimTypeOK
<1>4. \A p \in Process : call[p].pc = "idle" /\ call[p].action = "none"
  BY <1>1
<1>5. Placed /\ LockHeld /\ SlotKnown
  BY <1>1, <1>2, <1>4 DEF Placed, LockHeld, Claiming, SlotKnown
<1>6. RequestAnswered /\ SwitchUnderWay
  BY <1>1 DEF RequestAnswered, SwitchUnderWay
<1>7. Alone /\ TourPlanned
  BY <1>1, <1>4 DEF Alone, TourPlanned, TourNoted, Planned
<1> QED
  BY <1>3, <1>5, <1>6, <1>7 DEF SimsInv

(* A step is the user's or a process's.                                    *)
LEMMA SimsInvStep ==
  ASSUME Main \in {1, 2}
  PROVE  SimsInv /\ [SimNext]_simVars => SimsInv'
<1> SUFFICES ASSUME SimsInv, [SimNext]_simVars
             PROVE  SimsInv'
  OBVIOUS
<1>1. CASE ConfigureSims
  <2>1. simEnabled' \in BOOLEAN
    BY <1>1, Zenon DEF ConfigureSims
  <2>2. UNCHANGED <<dual_sim, calls, call, Modem, SimHistory>>
    BY <1>1 DEF ConfigureSims
  <2>3. SimTypeOK'
    BY <2>1, <2>2 DEF SimsInv, SimTypeOK
  <2>4. Placed' /\ LockHeld' /\ SlotKnown'
    BY <2>2 DEF SimsInv, Placed, LockHeld, SlotKnown
  <2>5. RequestAnswered' /\ SwitchUnderWay'
    BY <2>2 DEF SimsInv, RequestAnswered, SwitchUnderWay
  <2>6. Alone' /\ TourPlanned'
    BY <2>2 DEF SimsInv, Alone, TourPlanned, TourNoted, Planned
  <2> QED
    BY <2>3, <2>4, <2>5, <2>6 DEF SimsInv
<1>2. ASSUME NEW p \in Process, SimStep(p)
      PROVE  SimsInv'
  BY <1>2, SimTypeStep, PlacedStep, LockStep, SlotStep, RequestStep, WantedStep, AloneStep,
     TourStep DEF SimsInv
<1>3. CASE UNCHANGED simVars
  <2>1. SimTypeOK'
    BY <1>3 DEF simVars, SimsInv, SimTypeOK
  <2>2. Placed' /\ LockHeld' /\ SlotKnown'
    BY <1>3 DEF simVars, SimsInv, Placed, LockHeld, SlotKnown
  <2>3. RequestAnswered' /\ SwitchUnderWay'
    BY <1>3 DEF simVars, SimsInv, RequestAnswered, SwitchUnderWay
  <2>4. Alone' /\ TourPlanned'
    BY <1>3 DEF simVars, SimsInv, Alone, TourPlanned, TourNoted, Planned
  <2> QED
    BY <2>1, <2>2, <2>3, <2>4 DEF SimsInv
<1> QED
  BY <1>1, <1>2, <1>3 DEF SimNext, SimStep

(* One process at a time drives the modem, current_sim is its slot, a      *)
(* request and a switch under way have somebody at work on them, and no    *)
(* third switch follows two without the wait between                       *)
(* (17-dual-sim and switch_sim_slot).                                      *)
THEOREM SimsCorrect ==
  ASSUME Main \in {1, 2}
  PROVE  SimSpec => []SimsAgree
<1>1. SimInit => SimsInv
  BY SimInitInv
<1>2. SimsInv /\ [SimNext]_simVars => SimsInv'
  BY SimsInvStep
<1>3. SimsInv => SimsAgree
  <2> SUFFICES ASSUME SimsInv
               PROVE  SimsAgree
    OBVIOUS
  <2>1. OneDrives
    BY DEF SimsInv, LockHeld, Claiming, OneDrives
  <2>2. ToursSpaced
    BY DEF SimsInv, SimTypeOK, TourPlanned, TourNoted, ToursSpaced
  <2> QED
    BY <2>1, <2>2 DEF SimsInv, SimsAgree
<1> QED
  BY <1>1, <1>2, <1>3, PTL DEF SimSpec

-----------------------------------------------------------------------------
(* The updaters of a DNS name                                              *)

DdnsPc == {"none", "load", "end", "claim", "look", "send", "sleep", "verify", "gone"}
Updater == [pc : DdnsPc, told : BOOLEAN, first : BOOLEAN, retry : Int]

DdnsTypeOK ==
  /\ ddnsEnabled \in BOOLEAN
  /\ pidfile \in Pid \cup {Nil}
  /\ updater \in [Pid -> Updater]
  /\ startsRaced \in BOOLEAN /\ missed \in BOOLEAN /\ stopped \in BOOLEAN

(* OneAtWork is inductive with what holds while an updater is between the  *)
(* end of the old one and the PID file: it is alone there, and whoever is  *)
(* at work has been told to end.                                           *)
ClaimsAlone ==
  startsRaced \/ \A p, q \in Pid :
    updater[p].pc = "claim" =>
      /\ updater[q].pc = "claim" => p = q
      /\ InLoop(q) => updater[q].told

(* StopIsFinal is inductive with this: after a stop that missed nobody,    *)
(* nobody is on the way to the PID file, and none sets out.                *)
NobodyComes ==
  /\ stopped => ~ddnsEnabled
  /\ stopped => missed \/ \A p \in Pid : updater[p].pc \notin {"end", "claim"}

DdnsInv ==
  /\ DdnsTypeOK
  /\ OneAtWork /\ ClaimsAlone
  /\ StopIsFinal /\ NobodyComes

DdnsStep(p) ==
  \/ Ends(p) \/ Load(p) \/ EndOld(p) \/ Claim(p) \/ Look(p) \/ Send(p)
  \/ Sleep(p) \/ Verified(p) \/ Differs(p) \/ LookupFails(p)

-----------------------------------------------------------------------------
USE DEF NewUpdater, Gone, Alive, InLoop, Become, DdnsHistory

(* What an updater becomes is an updater.                                  *)
LEMMA BecomeType ==
  ASSUME DdnsTypeOK, NEW p \in Pid, NEW u \in Updater, Become(p, u),
         UNCHANGED <<ddnsEnabled, pidfile, DdnsHistory>>
  PROVE  DdnsTypeOK'
BY DEF DdnsTypeOK

(* What a new updater, an unused and an ended one are                      *)
LEMMA NewTypes ==
  NewUpdater \in Updater /\ Gone \in Updater /\ [NewUpdater EXCEPT !.pc = "none"] \in Updater
<1>1. NewUpdater \in Updater
  BY DEF Updater, DdnsPc
<1>2. \A u \in Updater, pc \in DdnsPc : [u EXCEPT !.pc = pc] \in Updater
  BY DEF Updater
<1>3. "gone" \in DdnsPc /\ "none" \in DdnsPc
  BY DEF DdnsPc
<1> QED
  BY <1>1, <1>2, <1>3

(* Every step of an updater leaves the variables in their types.           *)
LEMMA DdnsTypeStep ==
  ASSUME DdnsInv, NEW p \in Pid, DdnsStep(p)
  PROVE  DdnsTypeOK'
<1> USE DEF DdnsInv
<1>1. updater[p] \in Updater
  BY DEF DdnsTypeOK
<1>2. Gone \in Updater
  BY NewTypes
<1>3. \A pc \in DdnsPc : [updater[p] EXCEPT !.pc = pc] \in Updater
  BY <1>1 DEF Updater
<1>3a. \A n \in Int : [updater[p] EXCEPT !.pc = "look", !.retry = n] \in Updater
  <2>1. \A u \in Updater, n \in Int : [u EXCEPT !.retry = n] \in Updater
    BY DEF Updater
  <2>2. [updater[p] EXCEPT !.pc = "look"] \in Updater
    BY <1>3 DEF DdnsPc
  <2> QED
    BY <2>1, <2>2
<1>4. CASE Ends(p)
  BY <1>2, <1>4, BecomeType DEF Ends
<1>5. CASE Load(p)
  <2>1. [updater[p] EXCEPT !.pc = "end"] \in Updater
    BY <1>3 DEF DdnsPc
  <2> QED
    BY <1>2, <1>5, <2>1, BecomeType DEF Load
<1>6. CASE EndOld(p)
  <2>1. Told(updater) \in [Pid -> Updater]
    BY DEF Told, DdnsTypeOK, Updater
  <2>2. updater' \in [Pid -> Updater]
    BY <1>6, <2>1 DEF EndOld, Updater, DdnsPc
  <2>3. startsRaced' \in BOOLEAN
    BY <1>6, Zenon DEF EndOld
  <2> QED
    BY <1>6, <2>2, <2>3 DEF EndOld, DdnsTypeOK
<1>7. CASE Claim(p)
  BY <1>7 DEF Claim, DdnsTypeOK, Updater, DdnsPc
<1>8. CASE Look(p)
  <2>1. \A pc \in {"send", "sleep"} : [updater[p] EXCEPT !.pc = pc, !.first = FALSE] \in Updater
    BY <1>1 DEF Updater, DdnsPc
  <2> QED
    BY <1>2, <1>8, <2>1, BecomeType DEF Look
<1>9. CASE Send(p)
  <2>1. [updater[p] EXCEPT !.pc = "sleep"] \in Updater
    BY <1>3 DEF DdnsPc
  <2> QED
    BY <1>2, <1>9, <2>1, BecomeType DEF Send
<1>10. CASE Sleep(p)
  BY <1>10 DEF Sleep, DdnsTypeOK, Updater, DdnsPc
<1>11. CASE Verified(p)
  <2>1. 0 \in Int
    OBVIOUS
  <2>2. [updater[p] EXCEPT !.pc = "look", !.retry = 0] \in Updater
    BY <1>3a, <2>1, Zenon
  <2> QED
    BY <1>2, <1>11, <2>2, BecomeType DEF Verified
<1>12. CASE Differs(p)
  <2>1. [updater[p] EXCEPT !.pc = "look"] \in Updater
    BY <1>3 DEF DdnsPc
  <2>2. [updater[p] EXCEPT !.pc = "look", !.retry = @ + 1] \in Updater
    <3>1. updater[p].retry + 1 \in Int
      BY <1>1 DEF Updater
    <3>2. [updater[p] EXCEPT !.pc = "look", !.retry = updater[p].retry + 1] \in Updater
      BY <1>3a, <3>1
    <3> QED
      BY <3>2
  <2> QED
    BY <1>2, <1>12, <2>1, <2>2, BecomeType DEF Differs
<1>13. CASE LookupFails(p)
  BY <1>2, <1>13, BecomeType DEF LookupFails
<1> QED
  BY <1>4, <1>5, <1>6, <1>7, <1>8, <1>9, <1>10, <1>11, <1>12, <1>13 DEF DdnsStep

(* So does every command.                                                  *)
LEMMA CommandTypes ==
  ASSUME DdnsInv, Start \/ Stop \/ Reload \/ ConfigureDdns
  PROVE  DdnsTypeOK'
<1> USE DEF DdnsInv
<1>1. CASE Start
  BY <1>1 DEF Start, Unused, DdnsTypeOK, Updater, DdnsPc
<1>2. CASE Stop
  BY <1>2 DEF Stop, Told, DdnsTypeOK, Updater, DdnsPc
<1>3. CASE Reload
  <2>1. NewUpdater \in Updater /\ Gone \in Updater
    BY NewTypes
  <2>2. updater' \in [Pid -> Updater]
    <3>1. PICK fresh \in SUBSET Unused :
            updater' = [p \in Pid |-> CASE p \in fresh -> NewUpdater
                                        [] Alive(p) -> Gone
                                        [] OTHER -> updater[p]]
      BY <1>3, Zenon DEF Reload
    <3>2. ASSUME NEW p \in Pid
          PROVE  (CASE p \in fresh -> NewUpdater [] Alive(p) -> Gone [] OTHER -> updater[p]) \in Updater
      BY <2>1 DEF DdnsTypeOK
    <3> QED
      BY <3>1, <3>2, Zenon
  <2> QED
    BY <1>3, <2>2 DEF Reload, DdnsTypeOK
<1>4. CASE ConfigureDdns
  BY <1>4 DEF ConfigureDdns, DdnsTypeOK
<1> QED
  BY <1>1, <1>2, <1>3, <1>4

(* Whoever joins the loop does so with the PID file in hand.               *)
LEMMA WorkStep ==
  ASSUME DdnsInv, Nil \notin Pid,
         Start \/ Stop \/ Reload \/ ConfigureDdns \/ \E p \in Pid : DdnsStep(p)
  PROVE  OneAtWork'
<1>1. CASE Start
  BY <1>1 DEF Start, Unused, OneAtWork, ClaimsAlone, DdnsTypeOK, DdnsInv, Updater, DdnsPc
<1>2. CASE Stop
  BY <1>2 DEF Stop, Told, OneAtWork, ClaimsAlone, DdnsTypeOK, DdnsInv, Updater, DdnsPc
<1>3. CASE Reload
  BY <1>3 DEF Reload, Unused, OneAtWork, ClaimsAlone, DdnsTypeOK, DdnsInv, Updater, DdnsPc
<1>4. CASE ConfigureDdns
  BY <1>4 DEF ConfigureDdns, OneAtWork, ClaimsAlone, DdnsTypeOK, DdnsInv, Updater, DdnsPc
<1>5. ASSUME NEW p \in Pid, Ends(p)
      PROVE  OneAtWork'
  BY <1>5 DEF Ends, OneAtWork, ClaimsAlone, DdnsTypeOK, DdnsInv, Updater, DdnsPc
<1>6. ASSUME NEW p \in Pid, Load(p)
      PROVE  OneAtWork'
  BY <1>6 DEF Load, OneAtWork, ClaimsAlone, DdnsTypeOK, DdnsInv, Updater, DdnsPc
<1>7. ASSUME NEW p \in Pid, EndOld(p)
      PROVE  OneAtWork'
  BY <1>7 DEF EndOld, Told, OneAtWork, ClaimsAlone, DdnsTypeOK, DdnsInv, Updater, DdnsPc
<1>8. ASSUME NEW p \in Pid, Claim(p)
      PROVE  OneAtWork'
  BY <1>8 DEF Claim, OneAtWork, ClaimsAlone, DdnsTypeOK, DdnsInv, Updater, DdnsPc
<1>9. ASSUME NEW p \in Pid, Look(p)
      PROVE  OneAtWork'
  BY <1>9 DEF Look, OneAtWork, ClaimsAlone, DdnsTypeOK, DdnsInv, Updater, DdnsPc
<1>10. ASSUME NEW p \in Pid, Send(p)
       PROVE  OneAtWork'
  BY <1>10 DEF Send, OneAtWork, ClaimsAlone, DdnsTypeOK, DdnsInv, Updater, DdnsPc
<1>11. ASSUME NEW p \in Pid, Sleep(p)
       PROVE  OneAtWork'
  BY <1>11 DEF Sleep, OneAtWork, ClaimsAlone, DdnsTypeOK, DdnsInv, Updater, DdnsPc
<1>12. ASSUME NEW p \in Pid, Verified(p)
       PROVE  OneAtWork'
  BY <1>12 DEF Verified, OneAtWork, ClaimsAlone, DdnsTypeOK, DdnsInv, Updater, DdnsPc
<1>13. ASSUME NEW p \in Pid, Differs(p)
       PROVE  OneAtWork'
  BY <1>13 DEF Differs, OneAtWork, ClaimsAlone, DdnsTypeOK, DdnsInv, Updater, DdnsPc
<1>14. ASSUME NEW p \in Pid, LookupFails(p)
       PROVE  OneAtWork'
  BY <1>14 DEF LookupFails, OneAtWork, ClaimsAlone, DdnsTypeOK, DdnsInv, Updater, DdnsPc
<1> QED
  BY <1>1, <1>2, <1>3, <1>4, <1>5, <1>6, <1>7, <1>8, <1>9, <1>10, <1>11, <1>12, <1>13,
     <1>14 DEF DdnsStep

(* Whoever ends the old one ends the only one not yet told.                *)
LEMMA ClaimStep ==
  ASSUME DdnsInv, Nil \notin Pid,
         Start \/ Stop \/ Reload \/ ConfigureDdns \/ \E p \in Pid : DdnsStep(p)
  PROVE  ClaimsAlone'
<1>1. CASE Start
  BY <1>1 DEF Start, Unused, OneAtWork, ClaimsAlone, DdnsTypeOK, DdnsInv, Updater, DdnsPc
<1>2. CASE Stop
  BY <1>2 DEF Stop, Told, OneAtWork, ClaimsAlone, DdnsTypeOK, DdnsInv, Updater, DdnsPc
<1>3. CASE Reload
  BY <1>3 DEF Reload, Unused, OneAtWork, ClaimsAlone, DdnsTypeOK, DdnsInv, Updater, DdnsPc
<1>4. CASE ConfigureDdns
  BY <1>4 DEF ConfigureDdns, OneAtWork, ClaimsAlone, DdnsTypeOK, DdnsInv, Updater, DdnsPc
<1>5. ASSUME NEW p \in Pid, Ends(p)
      PROVE  ClaimsAlone'
  BY <1>5 DEF Ends, OneAtWork, ClaimsAlone, DdnsTypeOK, DdnsInv, Updater, DdnsPc
<1>6. ASSUME NEW p \in Pid, Load(p)
      PROVE  ClaimsAlone'
  BY <1>6 DEF Load, OneAtWork, ClaimsAlone, DdnsTypeOK, DdnsInv, Updater, DdnsPc
<1>7. ASSUME NEW p \in Pid, EndOld(p)
      PROVE  ClaimsAlone'
  <2> SUFFICES ASSUME ~startsRaced'
               PROVE  ClaimsAlone'
    BY DEF ClaimsAlone
  <2>1. Told(updater) \in [Pid -> Updater] /\ p \in DOMAIN updater
    BY DEF Told, DdnsTypeOK, DdnsInv, Updater
  <2>2. /\ ~startsRaced
        /\ \A q \in Pid : updater[q].pc # "claim"
    BY <1>7 DEF EndOld
  <2>3. \A q \in Pid : Told(updater)[q].pc = updater[q].pc
    BY DEF Told, DdnsTypeOK, DdnsInv, Updater
  <2>4. \A q \in Pid : InLoop(q) => Told(updater)[q].told
    BY <2>2 DEF Told, OneAtWork, DdnsTypeOK, DdnsInv, Updater
  <2>5. /\ updater'[p].pc = "claim"
        /\ \A q \in Pid \ {p} : updater'[q] = Told(updater)[q]
    BY <1>7, <2>1 DEF EndOld, Updater
  <2> QED
    BY <2>2, <2>3, <2>4, <2>5 DEF ClaimsAlone
<1>8. ASSUME NEW p \in Pid, Claim(p)
      PROVE  ClaimsAlone'
  BY <1>8 DEF Claim, OneAtWork, ClaimsAlone, DdnsTypeOK, DdnsInv, Updater, DdnsPc
<1>9. ASSUME NEW p \in Pid, Look(p)
      PROVE  ClaimsAlone'
  <2>1. /\ updater[p].pc = "look" /\ ~updater[p].told /\ startsRaced' = startsRaced
        /\ updater'[p].pc # "claim"
        /\ \A q \in Pid \ {p} : updater'[q] = updater[q]
    BY ZenonT(60), <1>9 DEF Look, DdnsTypeOK, DdnsInv, Updater
  <2> QED
    BY <2>1 DEF ClaimsAlone, DdnsInv
<1>10. ASSUME NEW p \in Pid, Send(p)
       PROVE  ClaimsAlone'
  BY <1>10 DEF Send, OneAtWork, ClaimsAlone, DdnsTypeOK, DdnsInv, Updater, DdnsPc
<1>11. ASSUME NEW p \in Pid, Sleep(p)
       PROVE  ClaimsAlone'
  BY <1>11 DEF Sleep, OneAtWork, ClaimsAlone, DdnsTypeOK, DdnsInv, Updater, DdnsPc
<1>12. ASSUME NEW p \in Pid, Verified(p)
       PROVE  ClaimsAlone'
  BY <1>12 DEF Verified, OneAtWork, ClaimsAlone, DdnsTypeOK, DdnsInv, Updater, DdnsPc
<1>13. ASSUME NEW p \in Pid, Differs(p)
       PROVE  ClaimsAlone'
  BY <1>13 DEF Differs, OneAtWork, ClaimsAlone, DdnsTypeOK, DdnsInv, Updater, DdnsPc
<1>14. ASSUME NEW p \in Pid, LookupFails(p)
       PROVE  ClaimsAlone'
  BY <1>14 DEF LookupFails, OneAtWork, ClaimsAlone, DdnsTypeOK, DdnsInv, Updater, DdnsPc
<1> QED
  BY <1>1, <1>2, <1>3, <1>4, <1>5, <1>6, <1>7, <1>8, <1>9, <1>10, <1>11, <1>12, <1>13,
     <1>14 DEF DdnsStep

(* A stop tells the one in the PID file, and there is no other.            *)
LEMMA FinalStep ==
  ASSUME DdnsInv, Nil \notin Pid,
         Start \/ Stop \/ Reload \/ ConfigureDdns \/ \E p \in Pid : DdnsStep(p)
  PROVE  StopIsFinal'
<1>1. CASE Start
  BY <1>1 DEF Start, Unused, OneAtWork, StopIsFinal, NobodyComes, DdnsTypeOK, DdnsInv,
          Updater, DdnsPc
<1>2. CASE Stop
  BY <1>2 DEF Stop, Told, OneAtWork, StopIsFinal, NobodyComes, DdnsTypeOK, DdnsInv,
          Updater, DdnsPc
<1>3. CASE Reload
  BY <1>3 DEF Reload, Unused, OneAtWork, StopIsFinal, NobodyComes, DdnsTypeOK, DdnsInv,
          Updater, DdnsPc
<1>4. CASE ConfigureDdns
  BY <1>4 DEF ConfigureDdns, OneAtWork, StopIsFinal, NobodyComes, DdnsTypeOK, DdnsInv,
          Updater, DdnsPc
<1>5. ASSUME NEW p \in Pid, Ends(p)
      PROVE  StopIsFinal'
  BY <1>5 DEF Ends, OneAtWork, StopIsFinal, NobodyComes, DdnsTypeOK, DdnsInv, Updater,
          DdnsPc
<1>6. ASSUME NEW p \in Pid, Load(p)
      PROVE  StopIsFinal'
  BY <1>6 DEF Load, OneAtWork, StopIsFinal, NobodyComes, DdnsTypeOK, DdnsInv, Updater,
          DdnsPc
<1>7. ASSUME NEW p \in Pid, EndOld(p)
      PROVE  StopIsFinal'
  BY <1>7 DEF EndOld, Told, OneAtWork, StopIsFinal, NobodyComes, DdnsTypeOK, DdnsInv,
          Updater, DdnsPc
<1>8. ASSUME NEW p \in Pid, Claim(p)
      PROVE  StopIsFinal'
  BY <1>8 DEF Claim, OneAtWork, StopIsFinal, NobodyComes, DdnsTypeOK, DdnsInv, Updater,
          DdnsPc
<1>9. ASSUME NEW p \in Pid, Look(p)
      PROVE  StopIsFinal'
  BY <1>9 DEF Look, OneAtWork, StopIsFinal, NobodyComes, DdnsTypeOK, DdnsInv, Updater,
          DdnsPc
<1>10. ASSUME NEW p \in Pid, Send(p)
       PROVE  StopIsFinal'
  BY <1>10 DEF Send, OneAtWork, StopIsFinal, NobodyComes, DdnsTypeOK, DdnsInv, Updater,
          DdnsPc
<1>11. ASSUME NEW p \in Pid, Sleep(p)
       PROVE  StopIsFinal'
  BY <1>11 DEF Sleep, OneAtWork, StopIsFinal, NobodyComes, DdnsTypeOK, DdnsInv, Updater,
          DdnsPc
<1>12. ASSUME NEW p \in Pid, Verified(p)
       PROVE  StopIsFinal'
  BY <1>12 DEF Verified, OneAtWork, StopIsFinal, NobodyComes, DdnsTypeOK, DdnsInv,
          Updater, DdnsPc
<1>13. ASSUME NEW p \in Pid, Differs(p)
       PROVE  StopIsFinal'
  BY <1>13 DEF Differs, OneAtWork, StopIsFinal, NobodyComes, DdnsTypeOK, DdnsInv,
          Updater, DdnsPc
<1>14. ASSUME NEW p \in Pid, LookupFails(p)
       PROVE  StopIsFinal'
  BY <1>14 DEF LookupFails, OneAtWork, StopIsFinal, NobodyComes, DdnsTypeOK, DdnsInv,
          Updater, DdnsPc
<1> QED
  BY <1>1, <1>2, <1>3, <1>4, <1>5, <1>6, <1>7, <1>8, <1>9, <1>10, <1>11, <1>12, <1>13,
     <1>14 DEF DdnsStep

(* Nobody sets out while the service is off.                               *)
LEMMA ComesStep ==
  ASSUME DdnsInv, Nil \notin Pid,
         Start \/ Stop \/ Reload \/ ConfigureDdns \/ \E p \in Pid : DdnsStep(p)
  PROVE  NobodyComes'
<1>1. CASE Start
  BY <1>1 DEF Start, Unused, NobodyComes, DdnsTypeOK, DdnsInv, Updater, DdnsPc
<1>2. CASE Stop
  BY <1>2 DEF Stop, Told, NobodyComes, DdnsTypeOK, DdnsInv, Updater, DdnsPc
<1>3. CASE Reload
  BY <1>3 DEF Reload, Unused, NobodyComes, DdnsTypeOK, DdnsInv, Updater, DdnsPc
<1>4. CASE ConfigureDdns
  BY <1>4 DEF ConfigureDdns, NobodyComes, DdnsTypeOK, DdnsInv, Updater, DdnsPc
<1>5. ASSUME NEW p \in Pid, Ends(p)
      PROVE  NobodyComes'
  BY <1>5 DEF Ends, NobodyComes, DdnsTypeOK, DdnsInv, Updater, DdnsPc
<1>6. ASSUME NEW p \in Pid, Load(p)
      PROVE  NobodyComes'
  BY <1>6 DEF Load, NobodyComes, DdnsTypeOK, DdnsInv, Updater, DdnsPc
<1>7. ASSUME NEW p \in Pid, EndOld(p)
      PROVE  NobodyComes'
  BY <1>7 DEF EndOld, Told, NobodyComes, DdnsTypeOK, DdnsInv, Updater, DdnsPc
<1>8. ASSUME NEW p \in Pid, Claim(p)
      PROVE  NobodyComes'
  BY <1>8 DEF Claim, NobodyComes, DdnsTypeOK, DdnsInv, Updater, DdnsPc
<1>9. ASSUME NEW p \in Pid, Look(p)
      PROVE  NobodyComes'
  <2>1. PICK u \in Updater : Become(p, u) /\ u.pc \notin {"end", "claim"}
    <3>1. CASE Become(p, Gone)
      BY <3>1, NewTypes
    <3>2. ASSUME NEW pc \in {"send", "sleep"},
                 Become(p, [updater[p] EXCEPT !.pc = pc, !.first = FALSE])
          PROVE  \E u \in Updater : Become(p, u) /\ u.pc \notin {"end", "claim"}
      <4>. DEFINE u == [updater[p] EXCEPT !.pc = pc, !.first = FALSE]
      <4>1. updater[p] \in Updater
        BY DEF DdnsInv, DdnsTypeOK
      <4>2. u \in Updater /\ u.pc = pc
        BY <4>1 DEF Updater, DdnsPc
      <4> QED
        BY <3>2, <4>2
    <3> QED
      BY <1>9, <3>1, <3>2 DEF Look
  <2>2. UNCHANGED <<stopped, ddnsEnabled, missed>>
    BY <1>9 DEF Look, DdnsHistory
  <2> QED
    BY <2>1, <2>2 DEF NobodyComes, DdnsInv
<1>10. ASSUME NEW p \in Pid, Send(p)
       PROVE  NobodyComes'
  BY <1>10 DEF Send, NobodyComes, DdnsTypeOK, DdnsInv, Updater, DdnsPc
<1>11. ASSUME NEW p \in Pid, Sleep(p)
       PROVE  NobodyComes'
  BY <1>11 DEF Sleep, NobodyComes, DdnsTypeOK, DdnsInv, Updater, DdnsPc
<1>12. ASSUME NEW p \in Pid, Verified(p)
       PROVE  NobodyComes'
  BY <1>12 DEF Verified, NobodyComes, DdnsTypeOK, DdnsInv, Updater, DdnsPc
<1>13. ASSUME NEW p \in Pid, Differs(p)
       PROVE  NobodyComes'
  BY <1>13 DEF Differs, NobodyComes, DdnsTypeOK, DdnsInv, Updater, DdnsPc
<1>14. ASSUME NEW p \in Pid, LookupFails(p)
       PROVE  NobodyComes'
  BY <1>14 DEF LookupFails, NobodyComes, DdnsTypeOK, DdnsInv, Updater, DdnsPc
<1> QED
  BY <1>1, <1>2, <1>3, <1>4, <1>5, <1>6, <1>7, <1>8, <1>9, <1>10, <1>11, <1>12, <1>13,
     <1>14 DEF DdnsStep

-----------------------------------------------------------------------------
(* Nothing runs at first.                                                  *)
LEMMA DdnsInitInv == DdnsInit => DdnsInv
<1> SUFFICES ASSUME DdnsInit
             PROVE  DdnsInv
  OBVIOUS
<1>1. /\ ddnsEnabled \in BOOLEAN /\ pidfile = Nil
      /\ updater = [p \in Pid |-> [NewUpdater EXCEPT !.pc = "none"]]
  BY DEF DdnsInit
<1>2. \A p \in Pid : updater[p].pc = "none"
  BY <1>1
<1>3. ~stopped
  BY DEF DdnsInit
<1>4. DdnsTypeOK
  <2>1. [NewUpdater EXCEPT !.pc = "none"] \in Updater
    BY NewTypes
  <2>2. updater \in [Pid -> Updater]
    BY <1>1, <2>1
  <2>3. startsRaced \in BOOLEAN /\ missed \in BOOLEAN /\ stopped \in BOOLEAN
    BY Zenon DEF DdnsInit
  <2> QED
    BY <1>1, <2>2, <2>3 DEF DdnsTypeOK
<1>5. OneAtWork /\ ClaimsAlone
  BY <1>2 DEF OneAtWork, ClaimsAlone
<1>6. StopIsFinal /\ NobodyComes
  BY <1>3 DEF StopIsFinal, NobodyComes
<1> QED
  BY <1>4, <1>5, <1>6 DEF DdnsInv

(* Of the updaters of a section one works that has not been told to end,   *)
(* the one in the PID file, and a stop of a service turned off leaves none *)
(* (dynamic_dns_updater.sh), except where two started side by side or one  *)
(* was on the way to the PID file.                                         *)
THEOREM UpdatersCorrect ==
  ASSUME Nil \notin Pid
  PROVE  DdnsSpec => []UpdatersAgree
<1>1. DdnsInit => DdnsInv
  BY DdnsInitInv
<1>2. DdnsInv /\ [DdnsNext]_ddnsVars => DdnsInv'
  <2> SUFFICES ASSUME DdnsInv, [DdnsNext]_ddnsVars
               PROVE  DdnsInv'
    OBVIOUS
  <2>1. CASE Start \/ Stop \/ Reload \/ ConfigureDdns
    BY <2>1, CommandTypes, WorkStep, ClaimStep, FinalStep, ComesStep DEF DdnsInv
  <2>2. CASE \E p \in Pid : DdnsStep(p)
    <3>1. DdnsTypeOK'
      BY <2>2, DdnsTypeStep
    <3> QED
      BY <2>2, <3>1, WorkStep, ClaimStep, FinalStep, ComesStep DEF DdnsInv
  <2>3. CASE UNCHANGED ddnsVars
    BY <2>3 DEF ddnsVars, DdnsInv, DdnsTypeOK, OneAtWork, ClaimsAlone, StopIsFinal, NobodyComes
  <2> QED
    BY <2>1, <2>2, <2>3 DEF DdnsNext, DdnsStep
<1>3. DdnsInv => UpdatersAgree
  BY DEF DdnsInv, UpdatersAgree
<1> QED
  BY <1>1, <1>2, <1>3, PTL DEF DdnsSpec

-----------------------------------------------------------------------------
(* The coroutines                                                          *)

Watcher == [co : Co, live : BOOLEAN]

EcoTypeOK ==
  /\ watchers \in [WatcherLists -> Seq(Watcher)]
  /\ co \in [Co -> {"runs", "waits", "woken"}]
  /\ counter \in Int
  /\ spent \in Nat /\ timeouts \in Nat
  /\ misused \in BOOLEAN

(* The conjuncts of SignalsWake one by one                                 *)
WaitersWatched ==
  \A c \in Co : co[c] = "waits" <=>
    \E of \in WatcherLists : \E i \in LiveIn(watchers[of]) : watchers[of][i].co = c
WatchedOnce ==
  \A of, to \in WatcherLists : \A i \in LiveIn(watchers[of]), j \in LiveIn(watchers[to]) :
    watchers[of][i].co = watchers[to][j].co => of = to /\ i = j
SpentPaid == spent + Cardinality(Dead(watchers["cond"])) <= timeouts

(* GroupEnds alone is not inductive: what a counter below zero means is    *)
(* needed when add() brings it back to zero.                               *)
EcoInv ==
  /\ EcoTypeOK
  /\ WaitersWatched /\ WatchedOnce /\ SpentPaid
  /\ GroupEnds
  /\ counter < 0 => misused

-----------------------------------------------------------------------------
(* The dead watchers of a list are finitely many.                          *)
LEMMA DeadFinite ==
  ASSUME NEW q \in Seq(Watcher)
  PROVE  IsFiniteSet(Dead(q)) /\ Cardinality(Dead(q)) \in Nat
<1>1. IsFiniteSet(1..Len(q))
  BY FS_Interval
<1>2. Dead(q) \in SUBSET (1..Len(q))
  BY DEF Dead
<1> QED
  BY <1>1, <1>2, FS_Subset, FS_CardinalityType

(* Taking the first watcher off a list takes at most that one off the dead *)
(* ones.                                                                   *)
LEMMA DeadTail ==
  ASSUME NEW q \in Seq(Watcher), q # << >>
  PROVE  Cardinality(Dead(Tail(q))) =
           IF Head(q).live THEN Cardinality(Dead(q)) ELSE Cardinality(Dead(q)) - 1
<1> DEFINE S == Dead(q) \ {1}
           T == Dead(Tail(q))
           f == [i \in S |-> i - 1]
<1>1. /\ Tail(q) \in Seq(Watcher) /\ Len(q) \in Nat \ {0} /\ Len(Tail(q)) = Len(q) - 1
      /\ \A i \in 1..Len(Tail(q)) : Tail(q)[i] = q[i + 1]
      /\ Head(q) = q[1] /\ q[1] \in Watcher
  OBVIOUS
<1>2. IsFiniteSet(Dead(q)) /\ Cardinality(Dead(q)) \in Nat
  BY DeadFinite
<1>3. IsFiniteSet(S) /\ Cardinality(S) = IF 1 \in Dead(q) THEN Cardinality(Dead(q)) - 1
                                          ELSE Cardinality(Dead(q))
  BY <1>2, FS_RemoveElement
<1>4. f \in [S -> T]
  BY <1>1 DEF Dead
<1>5. \A i, j \in S : f[i] = f[j] => i = j
  BY <1>1 DEF Dead
<1>6. \A t \in T : \E i \in S : f[i] = t
  <2> TAKE t \in T
  <2>1. t + 1 \in S /\ f[t + 1] = t
    BY <1>1 DEF Dead
  <2> QED
    BY <2>1
<1>7. f \in Bijection(S, T)
  BY <1>4, <1>5, <1>6 DEF Bijection, Injection, Surjection, IsInjective
<1>8. Cardinality(T) = Cardinality(S)
  BY <1>3, <1>7, FS_Bijection DEF ExistsBijection
<1>9. 1 \in Dead(q) <=> ~Head(q).live
  BY <1>1 DEF Dead
<1> QED
  BY <1>3, <1>8, <1>9

-----------------------------------------------------------------------------
(* A new watcher goes to the end of its list, and its coroutine had none.  *)
LEMMA WatchKeeps ==
  ASSUME EcoInv, NEW c \in Co, NEW of \in WatcherLists, Runs(c), Watch(c, of),
         of = "group" => counter # 0
  PROVE  EcoInv'
<1> DEFINE q == watchers[of]
           w == [co |-> c, live |-> TRUE]
<1> USE DEF EcoInv
<1>1. /\ q \in Seq(Watcher) /\ w \in Watcher
      /\ watchers' = [watchers EXCEPT ![of] = Append(q, w)]
      /\ Len(q) \in Nat
      /\ Len(Append(q, w)) = Len(q) + 1
      /\ \A i \in 1..Len(q) : Append(q, w)[i] = q[i]
      /\ Append(q, w)[Len(q) + 1] = w
      /\ watchers'[of] = Append(q, w)
      /\ \A to \in WatcherLists \ {of} : watchers'[to] = watchers[to]
  BY DEF Watch, EcoTypeOK, Watcher
<1>1a. /\ \A i \in 1..Len(q) : watchers'[of][i] = q[i]
       /\ watchers'[of][Len(q) + 1].co = c
       /\ \A to \in WatcherLists \ {of} : watchers'[to] = watchers[to]
  BY <1>1
<1>2. EcoTypeOK'
  BY <1>1 DEF EcoTypeOK, Watch
<1>3. /\ LiveIn(watchers'[of]) = LiveIn(q) \cup {Len(q) + 1}
      /\ Dead(watchers'[of]) = Dead(q)
  BY <1>1 DEF LiveIn, Dead
<1>4. \A to \in WatcherLists : \A i \in LiveIn(watchers[to]) :
        watchers'[to][i] = watchers[to][i] /\ watchers[to][i].co # c
  <2> TAKE to \in WatcherLists
  <2> TAKE i \in LiveIn(watchers[to])
  <2>1. watchers[to][i].co # c
    BY DEF WaitersWatched, Runs
  <2>2. watchers'[to][i] = watchers[to][i]
    BY <1>1a DEF LiveIn, EcoTypeOK
  <2> QED
    BY <2>1, <2>2
<1>5. WaitersWatched'
  <2> SUFFICES ASSUME NEW d \in Co
               PROVE  co'[d] = "waits" <=>
                        \E to \in WatcherLists : \E i \in LiveIn(watchers'[to]) : watchers'[to][i].co = d
    BY DEF WaitersWatched
  <2>1. CASE d = c
    <3>1. co'[c] = "waits"
      BY DEF Watch, EcoTypeOK
    <3>2. Len(q) + 1 \in LiveIn(watchers'[of]) /\ watchers'[of][Len(q) + 1].co = c
      BY <1>1a, <1>3
    <3> QED
      BY <2>1, <3>1, <3>2
  <2>2. CASE d # c
    <3>1. co'[d] = co[d]
      BY <2>2 DEF Watch, EcoTypeOK
    <3>2. \A to \in WatcherLists : \A i \in LiveIn(watchers'[to]) :
            watchers'[to][i].co = d => i \in LiveIn(watchers[to])
      BY <1>1a, <1>3, <2>2
    <3>3. \A to \in WatcherLists : LiveIn(watchers[to]) \subseteq LiveIn(watchers'[to])
      BY <1>1a, <1>3
    <3> QED
      BY <1>4, <3>1, <3>2, <3>3 DEF WaitersWatched
  <2> QED
    BY <2>1, <2>2
<1>6. WatchedOnce'
  <2> SUFFICES ASSUME NEW t1 \in WatcherLists, NEW t2 \in WatcherLists,
                      NEW i \in LiveIn(watchers'[t1]), NEW j \in LiveIn(watchers'[t2]),
                      watchers'[t1][i].co = watchers'[t2][j].co
               PROVE  t1 = t2 /\ i = j
    BY DEF WatchedOnce
  <2>1. /\ i \in LiveIn(watchers[t1]) \/ (t1 = of /\ i = Len(q) + 1)
        /\ j \in LiveIn(watchers[t2]) \/ (t2 = of /\ j = Len(q) + 1)
    BY <1>1a, <1>3
  <2>2. watchers'[of][Len(q) + 1].co = c
    BY <1>1a
  <2> QED
    BY <1>4, <2>1, <2>2 DEF WatchedOnce
<1>7. SpentPaid'
  BY <1>1a, <1>3 DEF SpentPaid, Watch, WatcherLists
<1>8. GroupEnds' /\ (counter < 0 => misused)'
  BY <1>1a DEF GroupEnds, Watch, WatcherLists
<1> QED
  BY <1>2, <1>5, <1>6, <1>7, <1>8

(* A timeout takes one watcher from the live and puts it to the dead.      *)
LEMMA TimeoutKeeps ==
  ASSUME EcoInv, NEW of \in WatcherLists, Timeout(of)
  PROVE  EcoInv'
<1> DEFINE q == watchers[of]
<1> USE DEF EcoInv
<1>1. PICK k \in LiveIn(q) :
        /\ watchers' = [watchers EXCEPT ![of][k].live = FALSE]
        /\ co' = [co EXCEPT ![q[k].co] = "runs"]
        /\ timeouts' = IF of = "cond" THEN timeouts + 1 ELSE timeouts
        /\ UNCHANGED <<counter, waits, spent, misused>>
  BY DEF Timeout
<1>2. q \in Seq(Watcher) /\ k \in 1..Len(q) /\ q[k].live /\ q[k] \in Watcher
  BY <1>1 DEF EcoTypeOK, LiveIn
<1> DEFINE r == [q EXCEPT ![k].live = FALSE]
<1>3. /\ watchers' = [watchers EXCEPT ![of] = r]
      /\ r \in Seq(Watcher) /\ Len(r) = Len(q)
      /\ \A i \in 1..Len(q) : r[i] = IF i = k THEN [q[k] EXCEPT !.live = FALSE] ELSE q[i]
  <2>1. [q[k] EXCEPT !.live = FALSE] \in Watcher
    BY <1>2 DEF Watcher
  <2>2. \A v \in Watcher :
          /\ [q EXCEPT ![k] = v] \in Seq(Watcher) /\ Len([q EXCEPT ![k] = v]) = Len(q)
          /\ \A i \in 1..Len(q) : [q EXCEPT ![k] = v][i] = IF i = k THEN v ELSE q[i]
    BY <1>2
  <2> QED
    BY <1>1, <2>1, <2>2
<1>4. /\ watchers'[of] = r
      /\ \A to \in WatcherLists \ {of} : watchers'[to] = watchers[to]
  BY <1>3 DEF EcoTypeOK
<1>5. EcoTypeOK'
  BY <1>1, <1>2, <1>3 DEF EcoTypeOK, Watcher
<1>6. /\ LiveIn(watchers'[of]) = LiveIn(q) \ {k}
      /\ Dead(watchers'[of]) = Dead(q) \cup {k}
      /\ k \notin Dead(q)
  BY <1>2, <1>3, <1>4 DEF LiveIn, Dead, Watcher
<1>7. \A to \in WatcherLists : \A i \in LiveIn(watchers'[to]) :
        i \in LiveIn(watchers[to]) /\ watchers'[to][i] = watchers[to][i]
  BY <1>3, <1>4, <1>6 DEF LiveIn
<1>8. WatchedOnce'
  BY <1>7 DEF WatchedOnce
<1>9. WaitersWatched'
  <2> SUFFICES ASSUME NEW d \in Co
               PROVE  co'[d] = "waits" <=>
                        \E to \in WatcherLists : \E i \in LiveIn(watchers'[to]) : watchers'[to][i].co = d
    BY DEF WaitersWatched
  <2>1. CASE d = q[k].co
    <3>1. co'[d] = "runs"
      BY <1>1, <2>1 DEF EcoTypeOK
    <3>2. ASSUME NEW to \in WatcherLists, NEW i \in LiveIn(watchers'[to]), watchers'[to][i].co = d
          PROVE  FALSE
      <4>1. i \in LiveIn(watchers[to]) /\ watchers[to][i].co = q[k].co
        BY <1>7, <2>1, <3>2
      <4>2. to = of /\ i = k
        BY <1>1, <4>1 DEF WatchedOnce
      <4> QED
        BY <1>6, <4>2
    <3> QED
      BY <3>1, <3>2
  <2>2. CASE d # q[k].co
    <3>1. co'[d] = co[d]
      BY <1>1, <2>2 DEF EcoTypeOK
    <3>2. \A to \in WatcherLists : \A i \in LiveIn(watchers[to]) :
            watchers[to][i].co = d => i \in LiveIn(watchers'[to])
      BY <1>4, <1>6, <2>2
    <3> QED
      BY <1>7, <3>1, <3>2 DEF WaitersWatched
  <2> QED
    BY <2>1, <2>2
<1>10. SpentPaid'
  <2>1. IsFiniteSet(Dead(watchers["cond"])) /\ Cardinality(Dead(watchers["cond"])) \in Nat
    BY DeadFinite DEF EcoTypeOK, WatcherLists
  <2>2. of = "cond" => Cardinality(Dead(watchers'["cond"])) = Cardinality(Dead(watchers["cond"])) + 1
    BY <1>6, <2>1, FS_AddElement
  <2>3. of # "cond" => watchers'["cond"] = watchers["cond"]
    BY <1>4 DEF WatcherLists
  <2> QED
    BY <1>1, <2>1, <2>2, <2>3 DEF SpentPaid, EcoTypeOK
<1>11. GroupEnds' /\ (counter < 0 => misused)'
  BY <1>1, <1>4, <1>6 DEF GroupEnds, WatcherLists
<1> QED
  BY <1>5, <1>8, <1>9, <1>10, <1>11

(* A list whose every watcher is sent to                                   *)
LEMMA WakeAllKeeps ==
  ASSUME EcoInv, NEW of \in WatcherLists,
         co' = Woken(watchers[of]), watchers' = [watchers EXCEPT ![of] = << >>]
  PROVE  WaitersWatched' /\ WatchedOnce'
<1> USE DEF EcoInv
<1>1. /\ LiveIn(watchers'[of]) = {}
      /\ \A to \in WatcherLists \ {of} : watchers'[to] = watchers[to]
  BY DEF LiveIn, EcoTypeOK
<1>2. WatchedOnce'
  BY <1>1 DEF WatchedOnce
<1>3. ASSUME NEW d \in Co
      PROVE  co'[d] = "waits" <=>
               \E to \in WatcherLists : \E i \in LiveIn(watchers'[to]) : watchers'[to][i].co = d
  <2>1. co'[d] = IF \E i \in LiveIn(watchers[of]) : watchers[of][i].co = d THEN "woken" ELSE co[d]
    BY DEF Woken
  <2>2. CASE \E i \in LiveIn(watchers[of]) : watchers[of][i].co = d
    <3>1. \A to \in WatcherLists : \A i \in LiveIn(watchers'[to]) : watchers'[to][i].co # d
      BY <1>1, <2>2 DEF WatchedOnce
    <3> QED
      BY <2>1, <2>2, <3>1
  <2>3. CASE ~\E i \in LiveIn(watchers[of]) : watchers[of][i].co = d
    BY <1>1, <2>1, <2>3 DEF WaitersWatched
  <2> QED
    BY <2>2, <2>3
<1> QED
  BY <1>2, <1>3 DEF WaitersWatched

(* The first watcher is taken off the condition's list, and its coroutine  *)
(* is woken if it still waits.                                             *)
LEMMA SignalKeeps ==
  ASSUME EcoInv, NEW c \in Co, Signal(c)
  PROVE  EcoInv'
<1> DEFINE q == watchers["cond"]
<1> USE DEF EcoInv
<1>1. /\ q \in Seq(Watcher) /\ q # << >>
      /\ co' = Woken(<<Head(q)>>)
      /\ watchers' = [watchers EXCEPT !["cond"] = Tail(q)]
      /\ spent' = IF ~Head(q).live /\ LiveIn(q) # {} THEN spent + 1 ELSE spent
      /\ UNCHANGED <<counter, waits, timeouts, misused>>
  BY DEF Signal, EcoTypeOK, WatcherLists
<1>2. /\ Tail(q) \in Seq(Watcher) /\ Len(q) \in Nat \ {0} /\ Len(Tail(q)) = Len(q) - 1
      /\ \A i \in 1..Len(Tail(q)) : Tail(q)[i] = q[i + 1]
      /\ Head(q) = q[1] /\ q[1] \in Watcher
  BY <1>1
<1>3. /\ watchers'["cond"] = Tail(q)
      /\ watchers'["group"] = watchers["group"]
  BY <1>1 DEF EcoTypeOK, WatcherLists
<1>4. \A d \in Co : co'[d] = IF Head(q).live /\ Head(q).co = d THEN "woken" ELSE co[d]
  <2>1. LiveIn(<<Head(q)>>) = {i \in {1} : Head(q).live}
    BY DEF LiveIn
  <2> QED
    BY SMTT(60), <1>1, <2>1 DEF Woken
<1>5. EcoTypeOK'
  <2>1. co' \in [Co -> {"runs", "waits", "woken"}]
    BY <1>1 DEF Woken, EcoTypeOK
  <2>2. watchers' \in [WatcherLists -> Seq(Watcher)]
    BY <1>1, <1>2 DEF EcoTypeOK
  <2> QED
    BY <1>1, <2>1, <2>2 DEF EcoTypeOK
<1>6. \A i \in LiveIn(watchers'["cond"]) :
        i + 1 \in LiveIn(q) /\ i + 1 # 1 /\ watchers'["cond"][i] = q[i + 1]
  BY <1>2, <1>3 DEF LiveIn
<1>7. \A i \in LiveIn(q) \ {1} :
        i - 1 \in LiveIn(watchers'["cond"]) /\ watchers'["cond"][i - 1] = q[i]
  BY <1>2, <1>3 DEF LiveIn
<1>8. Head(q).live <=> 1 \in LiveIn(q)
  BY <1>2 DEF LiveIn
<1>9. WatchedOnce'
  <2> SUFFICES ASSUME NEW t1 \in WatcherLists, NEW t2 \in WatcherLists,
                      NEW i \in LiveIn(watchers'[t1]), NEW j \in LiveIn(watchers'[t2]),
                      watchers'[t1][i].co = watchers'[t2][j].co
               PROVE  t1 = t2 /\ i = j
    BY DEF WatchedOnce
  <2>1. i \in Int /\ j \in Int
    BY DEF LiveIn
  <2>2. CASE t1 = "cond" /\ t2 = "cond"
    BY <1>6, <2>1, <2>2 DEF WatchedOnce, WatcherLists
  <2>3. CASE t1 = "cond" /\ t2 = "group"
    <3>1. i + 1 \in LiveIn(q) /\ j \in LiveIn(watchers["group"])
      BY <1>3, <1>6, <2>3
    <3>2. q[i + 1].co = watchers["group"][j].co
      BY <1>3, <1>6, <2>3
    <3>3. "cond" = "group"
      BY <3>1, <3>2 DEF WatchedOnce, WatcherLists
    <3> QED
      BY <3>3
  <2>4. CASE t1 = "group" /\ t2 = "cond"
    <3>1. j + 1 \in LiveIn(q) /\ i \in LiveIn(watchers["group"])
      BY <1>3, <1>6, <2>4
    <3>2. q[j + 1].co = watchers["group"][i].co
      BY <1>3, <1>6, <2>4
    <3>3. "cond" = "group"
      BY <3>1, <3>2 DEF WatchedOnce, WatcherLists
    <3> QED
      BY <3>3
  <2>5. CASE t1 = "group" /\ t2 = "group"
    BY <1>3, <2>5 DEF WatchedOnce
  <2> QED
    BY <2>2, <2>3, <2>4, <2>5 DEF WatcherLists
<1>10. WaitersWatched'
  <2> SUFFICES ASSUME NEW d \in Co
               PROVE  co'[d] = "waits" <=>
                        \E to \in WatcherLists : \E i \in LiveIn(watchers'[to]) : watchers'[to][i].co = d
    BY DEF WaitersWatched
  <2>1. CASE Head(q).live /\ Head(q).co = d
    <3>1. \A i \in LiveIn(watchers'["cond"]) : watchers'["cond"][i].co # d
      BY <1>2, <1>6, <1>8, <2>1 DEF WatchedOnce, WatcherLists
    <3>2. \A i \in LiveIn(watchers'["group"]) : watchers'["group"][i].co # d
      BY <1>2, <1>3, <1>8, <2>1 DEF WatchedOnce, WatcherLists
    <3> QED
      BY <1>4, <2>1, <3>1, <3>2 DEF WatcherLists
  <2>2. CASE ~(Head(q).live /\ Head(q).co = d)
    <3>1. co'[d] = co[d]
      BY <1>4, <2>2
    <3>2. (\E i \in LiveIn(q) : q[i].co = d) <=>
            \E i \in LiveIn(watchers'["cond"]) : watchers'["cond"][i].co = d
      BY <1>2, <1>6, <1>7, <1>8, <2>2
    <3>3. co[d] = "waits" <=>
            \/ \E i \in LiveIn(q) : q[i].co = d
            \/ \E i \in LiveIn(watchers["group"]) : watchers["group"][i].co = d
      BY DEF WaitersWatched, WatcherLists
    <3> QED
      BY <1>3, <3>1, <3>2, <3>3 DEF WatcherLists
  <2> QED
    BY <2>1, <2>2
<1>11. SpentPaid'
  <2>1. Cardinality(Dead(Tail(q))) =
          IF Head(q).live THEN Cardinality(Dead(q)) ELSE Cardinality(Dead(q)) - 1
    BY <1>1, DeadTail
  <2>2. Cardinality(Dead(q)) \in Nat
    BY <1>1, DeadFinite
  <2> QED
    BY <1>1, <1>3, <2>1, <2>2 DEF SpentPaid, EcoTypeOK
<1>12. GroupEnds' /\ (counter < 0 => misused)'
  BY <1>1, <1>3 DEF GroupEnds
<1> QED
  BY <1>5, <1>9, <1>10, <1>11, <1>12

(* All of the condition's watchers are sent to.                            *)
LEMMA BroadcastKeeps ==
  ASSUME EcoInv, NEW c \in Co, Broadcast(c)
  PROVE  EcoInv'
<1> USE DEF EcoInv
<1>1. /\ watchers'["cond"] = << >> /\ watchers'["group"] = watchers["group"]
      /\ UNCHANGED <<counter, timeouts, spent, misused>>
  BY DEF Broadcast, EcoTypeOK, WatcherLists
<1>2. EcoTypeOK'
  <2>1. co' \in [Co -> {"runs", "waits", "woken"}]
    BY DEF Broadcast, Woken, EcoTypeOK
  <2>2. << >> \in Seq(Watcher)
    OBVIOUS
  <2>3. watchers' \in [WatcherLists -> Seq(Watcher)]
    BY <2>2 DEF Broadcast, EcoTypeOK
  <2> QED
    BY <1>1, <2>1, <2>3 DEF EcoTypeOK
<1>3. WaitersWatched' /\ WatchedOnce'
  BY WakeAllKeeps DEF Broadcast, WatcherLists
<1>4. SpentPaid'
  <2>1. Cardinality(Dead(watchers'["cond"])) = 0
    <3>1. Dead(watchers'["cond"]) = {}
      BY <1>1 DEF Dead
    <3> QED
      BY <3>1, FS_EmptySet
  <2>2. Cardinality(Dead(watchers["cond"])) \in Nat
    BY DeadFinite DEF EcoTypeOK, WatcherLists
  <2> QED
    BY <1>1, <2>1, <2>2 DEF SpentPaid, EcoTypeOK
<1>5. GroupEnds' /\ (counter < 0 => misused)'
  BY <1>1 DEF GroupEnds
<1> QED
  BY <1>2, <1>3, <1>4, <1>5

(* All of the group's are when the counter reaches zero.                   *)
LEMMA DoneKeeps ==
  ASSUME EcoInv, NEW c \in Co, Done(c)
  PROVE  EcoInv'
<1> USE DEF EcoInv
<1>1. /\ counter' = counter - 1
      /\ misused' = (misused \/ counter' < 0)
      /\ UNCHANGED <<waits, timeouts, spent>>
  BY DEF Done
<1>2. CASE counter' = 0
  <2>1. /\ co' = Woken(watchers["group"])
        /\ watchers' = [watchers EXCEPT !["group"] = << >>]
    BY <1>2 DEF Done
  <2>2. watchers'["group"] = << >> /\ watchers'["cond"] = watchers["cond"]
    BY <2>1 DEF EcoTypeOK, WatcherLists
  <2>3. EcoTypeOK'
    <3>1. co' \in [Co -> {"runs", "waits", "woken"}]
      BY <2>1 DEF Woken, EcoTypeOK
    <3>2. << >> \in Seq(Watcher)
      OBVIOUS
    <3>3. watchers' \in [WatcherLists -> Seq(Watcher)]
      BY <2>1, <3>2 DEF EcoTypeOK
    <3> QED
      BY <1>1, <3>1, <3>3 DEF EcoTypeOK
  <2>4. WaitersWatched' /\ WatchedOnce'
    BY <2>1, WakeAllKeeps DEF WatcherLists
  <2>5. SpentPaid' /\ GroupEnds' /\ (counter < 0 => misused)'
    BY <1>1, <1>2, <2>2 DEF SpentPaid, GroupEnds, LiveIn
  <2> QED
    BY <2>3, <2>4, <2>5
<1>3. CASE counter' # 0
  <2>1. UNCHANGED <<co, watchers>>
    BY <1>3 DEF Done
  <2>2. EcoTypeOK'
    BY <1>1, <2>1 DEF EcoTypeOK
  <2>3. WaitersWatched' /\ WatchedOnce' /\ SpentPaid'
    BY <1>1, <2>1 DEF WaitersWatched, WatchedOnce, SpentPaid
  <2>4. GroupEnds' /\ (counter < 0 => misused)'
    BY <1>1, <1>3 DEF GroupEnds
  <2> QED
    BY <2>2, <2>3, <2>4
<1> QED
  BY <1>2, <1>3

-----------------------------------------------------------------------------
(* Nobody waits at first.                                                  *)
LEMMA EcoInitInv == EcoInit => EcoInv
<1> SUFFICES ASSUME EcoInit
             PROVE  EcoInv
  OBVIOUS
<1>1. /\ watchers = [of \in WatcherLists |-> << >>]
      /\ co = [c \in Co |-> "runs"]
      /\ counter = 0 /\ timeouts = 0 /\ spent = 0 /\ misused = FALSE
  BY DEF EcoInit
<1>2. \A of \in WatcherLists : LiveIn(watchers[of]) = {} /\ Dead(watchers[of]) = {}
  BY <1>1 DEF LiveIn, Dead
<1>3. EcoTypeOK
  <2>1. << >> \in Seq(Watcher)
    OBVIOUS
  <2>2. watchers \in [WatcherLists -> Seq(Watcher)]
    BY <1>1, <2>1
  <2>3. co \in [Co -> {"runs", "waits", "woken"}]
    BY <1>1
  <2>4. misused \in BOOLEAN
    BY <1>1, Zenon
  <2>5. counter \in Int /\ spent \in Nat /\ timeouts \in Nat
    BY <1>1
  <2> QED
    BY <2>2, <2>3, <2>4, <2>5 DEF EcoTypeOK
<1>4. WaitersWatched /\ WatchedOnce
  BY <1>1, <1>2 DEF WaitersWatched, WatchedOnce
<1>5. SpentPaid
  <2>1. Cardinality(Dead(watchers["cond"])) = 0
    BY <1>2, FS_EmptySet DEF WatcherLists
  <2> QED
    BY <1>1, <2>1 DEF SpentPaid
<1>6. GroupEnds /\ (counter < 0 => misused)
  BY <1>1, <1>2 DEF GroupEnds, WatcherLists
<1> QED
  BY <1>3, <1>4, <1>5, <1>6 DEF EcoInv

(* A step is the loop's or a coroutine's.                                  *)
LEMMA EcoStep == EcoInv /\ [EcoNext]_ecoVars => EcoInv'
<1> SUFFICES ASSUME EcoInv, [EcoNext]_ecoVars
             PROVE  EcoInv'
  OBVIOUS
<1>1. CASE Timeout("cond") \/ Timeout("group")
  BY <1>1, TimeoutKeeps DEF WatcherLists
<1>2. ASSUME NEW c \in Co, Wait(c)
      PROVE  EcoInv'
  BY <1>2, WatchKeeps DEF Wait, WatcherLists
<1>3. ASSUME NEW c \in Co, WaitGroup(c)
      PROVE  EcoInv'
  BY <1>3, WatchKeeps DEF WaitGroup, WatcherLists
<1>4. ASSUME NEW c \in Co, Resume(c)
      PROVE  EcoInv'
  <2>1. /\ UNCHANGED <<watchers, counter, timeouts, spent, misused>>
        /\ co' \in [Co -> {"runs", "waits", "woken"}]
        /\ \A d \in Co : co'[d] = "waits" <=> co[d] = "waits"
    BY <1>4 DEF Resume, EcoInv, EcoTypeOK
  <2> QED
    BY <2>1 DEF EcoInv, EcoTypeOK, WaitersWatched, WatchedOnce, SpentPaid, GroupEnds
<1>5. ASSUME NEW c \in Co, Signal(c)
      PROVE  EcoInv'
  BY <1>5, SignalKeeps
<1>6. ASSUME NEW c \in Co, Broadcast(c)
      PROVE  EcoInv'
  BY <1>6, BroadcastKeeps
<1>7. ASSUME NEW c \in Co, Add(c)
      PROVE  EcoInv'
  <2>1. counter' = counter + 1 /\ UNCHANGED <<watchers, co, timeouts, spent, misused>>
    BY <1>7 DEF Add
  <2> QED
    BY <2>1 DEF EcoInv, EcoTypeOK, WaitersWatched, WatchedOnce, SpentPaid, GroupEnds
<1>8. ASSUME NEW c \in Co, Done(c)
      PROVE  EcoInv'
  BY <1>8, DoneKeeps
<1>9. CASE UNCHANGED ecoVars
  BY <1>9 DEF ecoVars, EcoInv, EcoTypeOK, WaitersWatched, WatchedOnce, SpentPaid, GroupEnds
<1> QED
  BY <1>1, <1>2, <1>3, <1>4, <1>5, <1>6, <1>7, <1>8, <1>9 DEF EcoNext

(* A coroutine that waits always has exactly one watcher that can wake it, *)
(* a signal is lost at most once for each timeout, and the wait group      *)
(* leaves nobody behind (sync.lua).                                        *)
THEOREM CoroutinesWakeCorrect == EcoSpec => []CoroutinesWake
<1>1. EcoInv => CoroutinesWake
  BY DEF EcoInv, CoroutinesWake, SignalsWake, WaitersWatched, WatchedOnce, SpentPaid
<1> QED
  BY EcoInitInv, EcoStep, <1>1, PTL DEF EcoSpec
=============================================================================
