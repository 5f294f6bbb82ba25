-------------------------------- MODULE DualSim --------------------------------
(***************************************************************************)
(* A modem with two SIMs (etc/hotplug.d/iface/17-dual-sim and              *)
(* usr/bin/switch_sim_slot).  The modem's tracker asks for a switch when   *)
(* its pings fail, netifd reports that the interface came up or could not; *)
(* each call runs 17-dual-sim as a process of its own.  The processes      *)
(* share the files of /var/run/dual_sim/<iface> and, around the modem, a   *)
(* lock file.  After both SIMs have been tried a switch waits.             *)
(*                                                                         *)
(* The files exist (init has run).  exit_script only delays the end of its *)
(* process, at most 36 seconds, and is the end here.  A modem may leave a  *)
(* command without an answer (AT_CMD runs under `timeout 3').              *)
(***************************************************************************)
EXTENDS Integers

CONSTANTS
  Process,   \* 17-dual-sim or switch_sim_slot
  Main,      \* main_sim, 1 or 2
  Protos,    \* protocols the interface may have
  FailLimit, \* failures to connect before a 3g modem is switched, 8
  MaxCalls   \* bound on calls

VARIABLES
  simEnabled, \* glmodem.<iface>_dual.enable
  dual_sim,   \* the files
  slot,       \* the modem's SIM slot
  locked,     \* /var/run/switch-sim.lock exists
  calls,      \* calls so far
  call,       \* [pc, action, sim]: sim is asked for, then read from the modem
  stuck,      \* a request was dropped and env_send left behind
  mute,       \* the modem left a command without an answer
  lockRaced,  \* two processes found the lock free at once
  crossed,    \* two handlers were past their checks at once
  tour        \* 1: a handler went to the other SIM since the last wait;
              \* 2: and one came back; 3: and one left again

simVars ==
  <<simEnabled, dual_sim, slot, locked, calls, call, stuck, mute, lockRaced, crossed, tour>>

Other == 3 - Main
OtherThan(sim) == IF sim = 1 THEN 2 ELSE 1
Idle == [pc |-> "idle", action |-> "none", sim |-> 0]
At(p, pcs) == call[p].pc \in pcs
Go(p, pc) == call' = [call EXCEPT ![p].pc = pc]
Exit(p) == call' = [call EXCEPT ![p] = Idle]

Deciding == {"wait", "decide", "lock", "create", "modem", "read", "write", "remove", "finish"}
Driving == {"modem", "read", "write", "remove"}
Handles(p) == call[p].action \in {"switch", "ifup", "ifup-failed"}

SimInit ==
  /\ simEnabled \in BOOLEAN
  /\ slot \in {1, 2}
  /\ dual_sim = [switch_now |-> 0, env_send |-> 0, switch_wait |-> 0, main_flag |-> 0,
                 secondary_flag |-> 0, ifup_fail |-> 0, current_sim |-> slot]
  /\ locked = FALSE
  /\ calls = 0
  /\ call = [p \in Process |-> Idle]
  /\ stuck = FALSE /\ mute = FALSE /\ lockRaced = FALSE /\ crossed = FALSE
  /\ tour = 0

Modem == <<slot, locked, mute, lockRaced>>
SimHistory == <<stuck, crossed, tour>>

-----------------------------------------------------------------------------
(* Who asks                                                                *)

Free(p) == At(p, {"idle"}) /\ calls < MaxCalls

(* mwan3track: pings fail, and no request is under way                     *)
Detect(p) ==
  /\ simEnabled /\ Free(p)
  /\ dual_sim.env_send # 1
  /\ dual_sim' = [dual_sim EXCEPT !.env_send = 1]
  /\ call' = [call EXCEPT ![p] = [pc |-> "begin", action |-> "switch", sim |-> 0]]
  /\ calls' = calls + 1
  /\ UNCHANGED <<simEnabled, Modem, SimHistory>>

(* netifd                                                                  *)
Event(p) ==
  /\ Free(p)
  /\ \E a \in {"ifup", "ifup-failed"} :
       call' = [call EXCEPT ![p] = [pc |-> "begin", action |-> a, sim |-> 0]]
  /\ calls' = calls + 1
  /\ UNCHANGED <<simEnabled, dual_sim, Modem, SimHistory>>

(* cron's `switch main' (timing start) and the boot script's `update       *)
(* current' go straight to switch_sim_slot                                 *)
Direct(p) ==
  /\ Free(p)
  /\ \E a \in {"main", "current"} :
       call' = [call EXCEPT ![p] = [pc |-> "lock", action |-> a,
                                    sim |-> IF a = "main" THEN Main ELSE 0]]
  /\ calls' = calls + 1
  /\ UNCHANGED <<simEnabled, dual_sim, Modem, SimHistory>>

(* The user turns dual-SIM on and off                                      *)
ConfigureSims ==
  /\ simEnabled' = ~simEnabled
  /\ UNCHANGED <<dual_sim, calls, call, Modem, SimHistory>>

-----------------------------------------------------------------------------
(* 17-dual-sim                                                             *)

Wanted(f) == IF f.switch_wait = 1 THEN f ELSE [f EXCEPT !.switch_now = 1]
Calm_Down(f) == [f EXCEPT !.switch_now = 0]
Calm(f) == [f EXCEPT !.switch_now = 0, !.env_send = 0]

NotEnabled(p) ==
  /\ At(p, {"begin"}) /\ ~simEnabled
  /\ stuck' = (stuck \/ (call[p].action = "switch" /\ dual_sim.env_send = 1))
  /\ Exit(p)
  /\ UNCHANGED <<simEnabled, calls, dual_sim, Modem, crossed, tour>>

Asked(p) ==
  /\ At(p, {"begin"}) /\ simEnabled /\ call[p].action = "switch"
  /\ dual_sim' = Wanted(dual_sim)
  /\ Go(p, "check")
  /\ UNCHANGED <<simEnabled, calls, Modem, SimHistory>>

(* The tracker's STATUS is offline: a modem that dials by itself is given  *)
(* time for its pings, another is switched at once.                        *)
ComesUpOffline(p) ==
  /\ At(p, {"begin"}) /\ simEnabled /\ call[p].action \in {"ifup", "ifup-failed"}
  /\ \E proto \in Protos : Go(p, IF proto = "qmi" THEN "probe" ELSE "check")
  /\ UNCHANGED <<simEnabled, calls, dual_sim, Modem, SimHistory>>

Probe(p) ==
  /\ At(p, {"probe"})
  /\ \/ Exit(p) /\ UNCHANGED dual_sim
     \/ Go(p, "check") /\ dual_sim' = Wanted(dual_sim)
  /\ UNCHANGED <<simEnabled, calls, Modem, SimHistory>>

(* It is not: only failures count, and for 3g the eighth                   *)
ComesUp(p) ==
  /\ At(p, {"begin"}) /\ simEnabled /\ call[p].action = "ifup"
  /\ Exit(p)
  /\ UNCHANGED <<simEnabled, calls, dual_sim, Modem, SimHistory>>
Fails(p) ==
  /\ At(p, {"begin"}) /\ simEnabled /\ call[p].action = "ifup-failed"
  /\ \E proto \in Protos :
       LET early == proto = "3g" /\ dual_sim.ifup_fail + 1 < FailLimit
       IN /\ dual_sim' = [dual_sim EXCEPT !.ifup_fail = IF early THEN @ + 1 ELSE 0]
          /\ IF early THEN Exit(p) ELSE Go(p, "check")
  /\ UNCHANGED <<simEnabled, calls, Modem, SimHistory>>

(* The link is down, or an address answers after all                       *)
CalledOff(p) ==
  /\ At(p, {"check"})
  /\ dual_sim' = Calm(dual_sim)
  /\ stuck' = FALSE
  /\ Exit(p)
  /\ UNCHANGED <<simEnabled, calls, Modem, crossed, tour>>

GoesOn(p) ==
  /\ At(p, {"check"})
  /\ Go(p, IF dual_sim.switch_wait = 1 THEN "wait" ELSE "decide")
  /\ crossed' = (crossed \/ \E q \in Process \ {p} : Handles(q) /\ At(q, Deciding))
  /\ UNCHANGED <<simEnabled, calls, dual_sim, Modem, stuck, tour>>

(* failover_interval is over                                               *)
Waited(p) ==
  /\ At(p, {"wait"})
  /\ dual_sim' = [dual_sim EXCEPT !.main_flag = 0, !.secondary_flag = 0,
                                  !.switch_wait = 0, !.switch_now = 1]
  /\ tour' = 0
  /\ Go(p, "decide")
  /\ UNCHANGED <<simEnabled, calls, Modem, stuck, crossed>>

(* The flags remember which SIMs were tried; when both were, the next      *)
(* switch will wait.                                                       *)
Noted(f, next) ==
  LET s == IF next = Other THEN 1 ELSE f.secondary_flag
      both == s = 1 /\ next = Main
  IN [f EXCEPT !.switch_now = 1, !.main_flag = 0,
               !.secondary_flag = IF both THEN 0 ELSE s,
               !.switch_wait = IF both THEN 1 ELSE @]

Decide(p) ==
  /\ At(p, {"decide"})
  /\ LET next == OtherThan(dual_sim.current_sim)
     IN /\ dual_sim' = Noted(dual_sim, next)
        /\ call' = [call EXCEPT ![p].pc = "lock", ![p].sim = next]
  /\ UNCHANGED <<simEnabled, calls, Modem, SimHistory>>

Finish(p) ==
  /\ At(p, {"finish"})
  /\ dual_sim' = Calm(dual_sim)
  /\ stuck' = FALSE
  /\ Exit(p)
  /\ UNCHANGED <<simEnabled, calls, Modem, crossed, tour>>

-----------------------------------------------------------------------------
(* switch_sim_slot                                                         *)

(* The lock file is looked for, and only then made.                        *)
FindFree(p) ==
  /\ At(p, {"lock"}) /\ ~locked
  /\ lockRaced' = (lockRaced \/ \E q \in Process \ {p} : At(q, {"create"}))
  /\ Go(p, "create")
  /\ UNCHANGED <<simEnabled, calls, dual_sim, slot, locked, mute, SimHistory>>

Create(p) ==
  /\ At(p, {"create"})
  /\ locked' = TRUE
  /\ Go(p, "modem")
  /\ UNCHANGED <<simEnabled, calls, dual_sim, slot, mute, lockRaced, SimHistory>>

(* `update current', and a SIM that is in use already                      *)
NothingToDo(p) ==
  /\ At(p, {"modem"})
  /\ call[p].action = "current" \/ call[p].sim = slot
  /\ Go(p, "read")
  /\ UNCHANGED <<simEnabled, calls, dual_sim, Modem, SimHistory>>

Toured(p, sim) ==
  IF ~Handles(p) THEN tour
  ELSE CASE tour \in {0, 1} /\ sim = Other -> 1
         [] tour = 1 /\ sim = Main -> 2
         [] tour = 2 -> 3
         [] OTHER -> tour

Switch(p) ==
  /\ At(p, {"modem"})
  /\ call[p].action # "current" /\ call[p].sim # slot
  /\ slot' = OtherThan(slot)
  /\ tour' = Toured(p, slot')
  /\ Go(p, "read")
  /\ UNCHANGED <<simEnabled, calls, dual_sim, locked, mute, lockRaced, stuck, crossed>>

(* Without an answer about the slot, it is taken for 2 and 1 is set.       *)
SwitchBlindly(p) ==
  /\ At(p, {"modem"}) /\ call[p].action # "current"
  /\ slot' \in {1, slot}
  /\ tour' = IF slot' = slot THEN tour ELSE Toured(p, slot')
  /\ mute' = TRUE
  /\ Go(p, "read")
  /\ UNCHANGED <<simEnabled, calls, dual_sim, locked, lockRaced, stuck, crossed>>

(* dual_unlock: three tries to read the slot, then the file, then the lock *)
ReadSlot(p) ==
  /\ At(p, {"read"})
  /\ \/ /\ call' = [call EXCEPT ![p].pc = "write", ![p].sim = slot]
        /\ UNCHANGED mute
     \/ Go(p, "remove") /\ mute' = TRUE
  /\ UNCHANGED <<simEnabled, calls, dual_sim, slot, locked, lockRaced, SimHistory>>

WriteSlot(p) ==
  /\ At(p, {"write"})
  /\ dual_sim' = [dual_sim EXCEPT !.current_sim = call[p].sim]
  /\ Go(p, "remove")
  /\ UNCHANGED <<simEnabled, calls, Modem, SimHistory>>

RemoveLock(p) ==
  /\ At(p, {"remove"})
  /\ locked' = FALSE
  /\ IF Handles(p) THEN Go(p, "finish") ELSE Exit(p)
  /\ UNCHANGED <<simEnabled, calls, dual_sim, slot, mute, lockRaced, SimHistory>>

-----------------------------------------------------------------------------
SimNext ==
  \/ ConfigureSims
  \/ \E p \in Process :
       \/ Detect(p) \/ Event(p) \/ Direct(p)
       \/ NotEnabled(p) \/ Asked(p) \/ ComesUpOffline(p) \/ Probe(p) \/ ComesUp(p) \/ Fails(p)
       \/ CalledOff(p) \/ GoesOn(p) \/ Waited(p) \/ Decide(p) \/ Finish(p)
       \/ FindFree(p) \/ Create(p) \/ NothingToDo(p) \/ Switch(p) \/ SwitchBlindly(p)
       \/ ReadSlot(p) \/ WriteSlot(p) \/ RemoveLock(p)

SimSpec == SimInit /\ [][SimNext]_simVars

-----------------------------------------------------------------------------
(* One process drives the modem, except after two have found the lock      *)
(* absent at once (switch_sim_slot:456): each then takes the other's lock  *)
(* away as well.                                                           *)
OneDrives == lockRaced \/ \A p, q \in Process : At(p, Driving) /\ At(q, Driving) => p = q

(* current_sim, from which the next switch is decided, is the modem's slot *)
(* when nobody is switching, if the modem answered (dual_unlock).          *)
SlotKnown ==
  lockRaced \/ mute \/ (\E p \in Process : At(p, {"read", "write"})) \/ dual_sim.current_sim = slot

(* env_send keeps the tracker from asking again: somebody must be at work  *)
(* on the request.  The exception is a request met with dual-SIM turned    *)
(* off (17-dual-sim:48): nothing takes it back until another call ends.    *)
RequestAnswered ==
  dual_sim.env_send = 1 => stuck \/ \E p \in Process : call[p].action = "switch"

(* switch_now keeps other calls waiting in exit_script: there is a handler *)
(* that will take it back.                                                 *)
SwitchUnderWay ==
  dual_sim.switch_now = 1 =>
    \E p \in Process : Handles(p) /\ At(p, {"check"} \cup Deciding)

(* When handlers have gone to the other SIM and back, none leaves again    *)
(* before the interval is over; not so if two decided side by side, or the *)
(* modem did not say where it was.                                         *)
ToursSpaced ==
  crossed \/ mute \/ tour < 2 \/ (tour = 2 /\ dual_sim.switch_wait = 1)

SimsAgree ==
  /\ OneDrives /\ SlotKnown
  /\ RequestAnswered /\ SwitchUnderWay
  /\ ToursSpaced
=============================================================================
