----------------------------- MODULE Mwan3Track -----------------------------
(***************************************************************************)
(* How mwan3 takes one WAN interface into service and out of it: the       *)
(* tracker process usr/sbin/mwan3track, the hotplug handler                *)
(* etc/hotplug.d/iface/15-mwan3 it shares the state files and the lock     *)
(* with, and the functions of lib/mwan3/mwan3.sh both use.                 *)
(*                                                                         *)
(* A hotplug call is a process of its own.  netifd makes one at a time;    *)
(* the tracker makes one and waits, but if the call's own handler or       *)
(* another one kills the tracker, the call goes on without it.  The        *)
(* handler's part under mwan3_lock is cut into the steps between which the *)
(* tracker, which takes no lock, may read or write.  Two others end the    *)
(* tracker and start none: the ifup of an interface whose name is a prefix *)
(* (mwan3.sh:715), and etc/mwan3.user when `disconnected' is announced.    *)
(*                                                                         *)
(* The interface is not one of a dual-SIM modem (dual_enable is not 1),    *)
(* mwan3 is enabled, nobody uses the command mwan3 (Mwan3Service does),    *)
(* and `timeout 10' in mwan3_lock does not expire.  The device of an IPv6  *)
(* interface is known (mwan3.sh:595).                                      *)
(* TERM stops the tracker before its next command, so it is as good as     *)
(* stopped at once; USR1 only sets a flag, whenever it is delivered.       *)
(*                                                                         *)
(* A definition named X_<Word> just above X is a faulty variant of X.  No  *)
(* specification uses it; substituted for X it makes a property fail.      *)
(***************************************************************************)
EXTENDS Integers, FiniteSets

CONSTANTS
  Up, Down,          \* options up and down: rounds to take in, to give up
  Hosts,             \* the track_ip list; without one there is no tracker
  Reliability,       \* option reliability: hosts that must answer
  Call,              \* hotplug call processes; bounds how many run at once
  NoCall,
  InitialState,      \* option initial_state
  Family,            \* option family
  SignalMayMiss,     \* may pgrep see two pids, or USR1 find no trap yet?
  KillOnDisconnect,  \* may /etc/mwan3.user end the tracker (the PPPoE rule)?
  HasPrefix,         \* is another's name a prefix (wan of wan6, as shipped)?
  MaxFlaps           \* bound: times netifd takes the interface up or down

ASSUME TrackConstants ==
  /\ Up \in Nat \ {0}
  /\ Down \in Nat \ {0}
  /\ IsFiniteSet(Hosts) /\ Hosts # {}
  /\ Reliability \in Nat \ {0}
  /\ NoCall \notin Call
  /\ InitialState \in {"online", "offline"}
  /\ Family \in {"ipv4", "ipv6"}
  /\ SignalMayMiss \in BOOLEAN
  /\ KillOnDisconnect \in BOOLEAN
  /\ HasPrefix \in BOOLEAN
  /\ MaxFlaps \in Nat

VARIABLES
  netup,        \* netifd has the interface up
  answering,    \* the hosts that would answer a probe now
  queue,        \* the interface event netifd has yet to announce
  flaps,        \* events so far
  call,         \* Call -> the process's state
  lock,         \* the call holding /var/run/mwan3.lock, or NoCall
  pc,           \* where the tracker is, "none" when there is no tracker
  result,       \* outcome of the last round of probes, "none" before any
  score,
  IFDOWN_EVENT,
  waitsFor,     \* the call the tracker waits for, or NoCall
  STATUS,       \* /var/run/mwan3track/<iface>/STATUS
  iface_state,  \* /var/run/mwan3/iface_state/<iface>
  policy,       \* the iptables policies count the interface as online
  route,        \* the interface's routing table has its default route
  overruled,    \* history: iface_state was set online over a handler's offline
  unwatched     \* history: one of those two ended the tracker, and the
                \* interface's own handler has not started another since

env == <<netup, answering, queue, flaps>>
tracker == <<pc, result, score, IFDOWN_EVENT, waitsFor, STATUS>>
firewall == <<policy, route>>
history == <<overruled, unwatched>>
vars == <<env, call, lock, tracker, iface_state, firewall, history>>

Verdict == {"online", "offline"}

Active ==
  [by : {"netifd", "tracker"}, action : {"ifup", "ifdown", "disconnected"},
   pc : {"lock", "state", "track", "signal", "policy", "script"}, status : Verdict]

CallState == [pc : {"idle"}] \cup Active

(* Where the tracker waits for a hotplug call or for the end of one. *)
TrackerPc == {"none", "start", "connected", "probe", "judge", "ifup", "ifdown",
              "rest", "disconnected"}

(* The type of every variable; a tracker waits for a call exactly when it  *)
(* has made one.                                                           *)
TypeOK ==
  /\ netup \in BOOLEAN
  /\ answering \subseteq Hosts
  /\ queue \in {"none", "ifup", "ifdown"}
  /\ flaps \in 0 .. MaxFlaps
  /\ call \in [Call -> CallState]
  /\ lock \in Call \cup {NoCall}
  /\ pc \in TrackerPc
  /\ result \in {"none", "good", "bad"}
  /\ score \in 0 .. Up + Down
  /\ IFDOWN_EVENT \in BOOLEAN
  /\ waitsFor \in Call \cup {NoCall}
  /\ STATUS \in Verdict
  /\ iface_state \in Verdict
  /\ policy \in BOOLEAN
  /\ route \in BOOLEAN
  /\ overruled \in BOOLEAN
  /\ unwatched \in BOOLEAN
  /\ (waitsFor # NoCall) <=> (pc \in {"ifup", "ifdown", "disconnected"})

Init ==
  /\ netup = FALSE
  /\ answering \in SUBSET Hosts
  /\ queue = "none"
  /\ flaps = 0
  /\ call = [c \in Call |-> [pc |-> "idle"]]
  /\ lock = NoCall
  /\ pc = "none"
  /\ result = "none"
  /\ score = 0
  /\ IFDOWN_EVENT = FALSE
  /\ waitsFor = NoCall
  /\ STATUS = "offline"
  /\ iface_state = "offline"
  /\ policy = FALSE
  /\ route = FALSE
  /\ overruled = FALSE
  /\ unwatched = FALSE

Idle(c) == call[c].pc = "idle" /\ c # waitsFor

NewCall(who, act) ==
  [by |-> who, action |-> act, pc |-> "lock", status |-> "online"]

At(c, act, p) == call[c].pc = p /\ call[c].action = act

Running == pc # "none"
-----------------------------------------------------------------------------
(* The network and netifd.  A newer event takes the place of one not yet   *)
(* announced; one hotplug call of netifd runs at a time.                   *)

Answer ==
  /\ answering' \in SUBSET Hosts
  /\ answering' # answering
  /\ UNCHANGED <<netup, queue, flaps, call, lock, tracker, iface_state, firewall, history>>

Flap ==
  /\ flaps < MaxFlaps
  /\ flaps' = flaps + 1
  /\ netup' = ~netup
  /\ queue' = IF netup THEN "ifdown" ELSE "ifup"
  /\ UNCHANGED <<answering, call, lock, tracker, iface_state, firewall, history>>

Announce(c) ==
  /\ queue # "none"
  /\ \A d \in Call : call[d].pc # "idle" => call[d].by # "netifd"
  /\ Idle(c)
  /\ call' = [call EXCEPT ![c] = NewCall("netifd", queue)]
  /\ queue' = "none"
  /\ UNCHANGED <<netup, answering, flaps, lock, tracker, iface_state, firewall, history>>

(* TERM or KILL from somebody who starts no tracker in place of this one.  *)
EndTracker ==
  /\ pc' = "none"
  /\ waitsFor' = NoCall
  /\ IFDOWN_EVENT' = FALSE
  /\ unwatched' = (unwatched \/ Running)
  /\ UNCHANGED <<result, score, STATUS>>

(* The handler of another interface, as much of it as concerns this one:   *)
(* mwan3_set_policies_iptables, and before it, in an ifup of a prefix of   *)
(* this name, the third pgrep of mwan3_track, which finds this tracker.    *)
OtherHandler ==
  /\ lock = NoCall
  /\ policy' = (iface_state = "online")
  /\ \/ UNCHANGED <<tracker, unwatched>>
     \/ HasPrefix /\ EndTracker
  /\ UNCHANGED <<env, call, lock, iface_state, route, overruled>>
-----------------------------------------------------------------------------
(* 15-mwan3.  Enter: take the lock, and with initial_state "offline" ask   *)
(* rpcd for the tracker's state.                                           *)

ReportedStatus == IF Running /\ STATUS = "online" THEN "online" ELSE "offline"

EntryStatus == IF InitialState = "offline" THEN ReportedStatus ELSE "online"

Enter(c) ==
  /\ call[c].pc = "lock" /\ call[c].action # "disconnected"
  /\ lock = NoCall
  /\ lock' = c
  /\ call' = [call EXCEPT ![c].pc = "state", ![c].status = EntryStatus]
  /\ UNCHANGED <<env, tracker, iface_state, firewall, history>>

(* mwan3_delete_iface_route_by_ifname: an IPv4 route stays.                *)
RouteDeleted == route /\ Family # "ipv6"

(* mwan3_create_iface_route and mwan3_set_iface_hotplug_state.             *)
IfupState(c) ==
  /\ At(c, "ifup", "state")
  /\ route' = TRUE
  /\ iface_state' = call[c].status
  /\ overruled' = FALSE
  /\ call' = [call EXCEPT ![c].pc = "track"]
  /\ UNCHANGED <<env, lock, tracker, policy, unwatched>>

(* mwan3_track ends the trackers of the interface and starts a new one,    *)
(* which does not know a signal the old one got.                           *)

IfupTrack(c) ==
  /\ At(c, "ifup", "track")
  /\ pc' = "start"
  /\ waitsFor' = NoCall
  /\ IFDOWN_EVENT' = FALSE
  /\ score' = IF call[c].status = "online" THEN Up + Down ELSE 0
  /\ unwatched' = FALSE
  /\ call' = [call EXCEPT ![c].pc = "policy"]
  /\ UNCHANGED <<env, lock, result, STATUS, iface_state, firewall, overruled>>

(* Unless signals may miss, a tracker has set its traps by the time the    *)
(* handler that started it has run its iptables commands.                  *)
IfupFinish_Early(c) ==
  /\ At(c, "ifup", "policy")
  /\ route' = IF call[c].status = "online" THEN route ELSE RouteDeleted
  /\ lock' = NoCall
  /\ call' = [call EXCEPT ![c] = [pc |-> "idle"]]
  /\ UNCHANGED <<env, tracker, iface_state, policy, history>>

IfupFinish(c) ==
  /\ At(c, "ifup", "policy")
  /\ SignalMayMiss \/ pc # "start"
  /\ route' = IF call[c].status = "online" THEN route ELSE RouteDeleted
  /\ policy' = (iface_state = "online")
  /\ lock' = NoCall
  /\ call' = [call EXCEPT ![c] = [pc |-> "idle"]]
  /\ UNCHANGED <<env, tracker, iface_state, history>>

IfdownState(c) ==
  /\ At(c, "ifdown", "state")
  /\ iface_state' = "offline"
  /\ overruled' = FALSE
  /\ call' = [call EXCEPT ![c].pc = "signal"]
  /\ UNCHANGED <<env, lock, tracker, firewall, unwatched>>

(* mwan3_track_signal.  Where the tracker runs a probe in a subshell,      *)
(* pgrep finds two pids and the kill fails; a tracker that has set no trap *)
(* yet is ended by the signal, or not found.                               *)
Signalled ==
  \/ /\ pc \notin {"none", "start"}
     /\ IFDOWN_EVENT' = TRUE
     /\ UNCHANGED pc
  \/ /\ pc = "none" \/ (SignalMayMiss /\ pc \in {"start", "probe"})
     /\ UNCHANGED <<pc, IFDOWN_EVENT>>
  \/ /\ pc = "start"
     /\ pc' = "none"
     /\ UNCHANGED IFDOWN_EVENT

IfdownSignal(c) ==
  /\ At(c, "ifdown", "signal")
  /\ Signalled
  /\ call' = [call EXCEPT ![c].pc = "policy"]
  /\ UNCHANGED <<env, lock, result, score, waitsFor, STATUS, iface_state, firewall, history>>

IfdownFinish(c) ==
  /\ At(c, "ifdown", "policy")
  /\ policy' = (iface_state = "online")
  /\ route' = RouteDeleted
  /\ lock' = NoCall
  /\ call' = [call EXCEPT ![c] = [pc |-> "idle"]]
  /\ UNCHANGED <<env, tracker, iface_state, history>>

(* "disconnected": 15-mwan3 leaves it alone; 16-mwan3 and 16-mwan3-user    *)
(* take the lock and give it back ...                                      *)
Flush(c) ==
  /\ At(c, "disconnected", "lock")
  /\ lock = NoCall
  /\ call' = [call EXCEPT ![c].pc = "script"]
  /\ UNCHANGED <<env, lock, tracker, iface_state, firewall, history>>

(* ... and mwan3.user runs without it: when the WAN is PPPoE and this its  *)
(* device, it ends the tracker it finds, be it the one that made the call  *)
(* or one started since.  Two pids are one word to kill, and none dies.    *)
UserScript(c) ==
  /\ At(c, "disconnected", "script")
  /\ call' = [call EXCEPT ![c] = [pc |-> "idle"]]
  /\ \/ UNCHANGED <<tracker, unwatched>>
     \/ KillOnDisconnect /\ EndTracker
  /\ UNCHANGED <<env, lock, iface_state, firewall, overruled>>

Handler(c) ==
  \/ Enter(c)
  \/ IfupState(c) \/ IfupTrack(c) \/ IfupFinish(c)
  \/ IfdownState(c) \/ IfdownSignal(c) \/ IfdownFinish(c)
  \/ Flush(c) \/ UserScript(c)
-----------------------------------------------------------------------------
(* The tracker. *)

(* main before its loop; "online" makes the hotplug call "connected".      *)
Begin ==
  /\ pc = "start"
  /\ IF score = 0
       THEN STATUS' = "offline" /\ pc' = "probe"
       ELSE STATUS' = "online" /\ pc' = "connected"
  /\ UNCHANGED <<env, call, lock, result, score, IFDOWN_EVENT, waitsFor,
                 iface_state, firewall, history>>

(* 16-mwan3 flushes conntrack under the lock; 15-mwan3 ignores the event.  *)
Connected ==
  /\ pc = "connected"
  /\ lock = NoCall
  /\ pc' = "probe"
  /\ UNCHANGED <<env, call, lock, result, score, IFDOWN_EVENT, waitsFor, STATUS,
                 iface_state, firewall, history>>

UpHosts == IF netup THEN answering ELSE {}

(* The round over the track_ips, up to Reliability of which must answer.   *)
Probe ==
  /\ pc = "probe"
  /\ result' = IF Cardinality(UpHosts) < Reliability THEN "bad" ELSE "good"
  /\ pc' = "judge"
  /\ UNCHANGED <<env, call, lock, score, IFDOWN_EVENT, waitsFor, STATUS,
                 iface_state, firewall, history>>

(* A hotplug call the tracker makes and waits for. *)
MakeCall(act) ==
  \E c \in Call :
    /\ Idle(c)
    /\ call' = [call EXCEPT ![c] = NewCall("tracker", act)]
    /\ waitsFor' = c
    /\ pc' = act

RestWith(s) == score' = s /\ pc' = "rest" /\ UNCHANGED <<call, waitsFor, STATUS>>

(* let score--: below up it is cut to 0, at up the interface is given up.  *)

Failed ==
  /\ pc = "judge" /\ result = "bad"
  /\ LET s == score - 1 IN
     \/ s < Up /\ RestWith(0)
     \/ s = Up /\ score' = 0 /\ STATUS' = "offline" /\ MakeCall("ifdown")
     \/ s > Up /\ RestWith(s)
  /\ UNCHANGED <<env, lock, result, IFDOWN_EVENT, iface_state, firewall, history>>

(* let score++ past up: the tracker says so itself, with no lock and no    *)
(* new policies, and refills the score.                                    *)
Succeeded_Reset ==
  /\ pc = "judge" /\ result = "good"
  /\ score + 1 > Up
  /\ score' = IF score < Up + Down THEN score + 1 ELSE score
  /\ STATUS' = "online" /\ iface_state' = "online"
  /\ overruled' = (overruled \/ iface_state = "offline")
  /\ pc' = "rest"
  /\ UNCHANGED <<env, call, lock, result, IFDOWN_EVENT, waitsFor, firewall,
                 unwatched>>

Succeeded ==
  /\ pc = "judge" /\ result = "good"
  /\ score + 1 > Up
  /\ score' = Up + Down
  /\ STATUS' = "online" /\ iface_state' = "online"
  /\ overruled' = (overruled \/ iface_state = "offline")
  /\ pc' = "rest"
  /\ UNCHANGED <<env, call, lock, result, IFDOWN_EVENT, waitsFor, firewall,
                 unwatched>>

(* let score++ up to up: at up the interface is taken in again.            *)
Recovering ==
  /\ pc = "judge" /\ result = "good"
  /\ LET s == score + 1 IN
     \/ s < Up /\ RestWith(s)
     \/ s = Up /\ score' = s /\ STATUS' = "online" /\ MakeCall("ifup")
  /\ UNCHANGED <<env, lock, result, IFDOWN_EVENT, iface_state, firewall, history>>

(* The ifdown call is over.  After ifup comes `exit 0', which no tracker   *)
(* reaches: the call's own handler has replaced it.                        *)
CallOver ==
  /\ pc \in {"ifup", "ifdown"}
  /\ call[waitsFor].pc = "idle"
  /\ pc' = IF pc = "ifup" THEN "none" ELSE "rest"
  /\ waitsFor' = NoCall
  /\ UNCHANGED <<env, call, lock, result, score, IFDOWN_EVENT, STATUS,
                 iface_state, firewall, history>>

(* sleep & wait is over, by time or by the signal. *)
Wake_Quiet ==
  /\ pc = "rest"
  /\ IF IFDOWN_EVENT
       THEN MakeCall("disconnected")
       ELSE pc' = "probe" /\ UNCHANGED <<call, waitsFor>>
  /\ UNCHANGED <<env, lock, result, score, IFDOWN_EVENT, STATUS,
                 iface_state, firewall, history>>

Wake ==
  /\ pc = "rest"
  /\ IF IFDOWN_EVENT
       THEN STATUS' = "offline" /\ MakeCall("disconnected")
       ELSE pc' = "probe" /\ UNCHANGED <<call, waitsFor, STATUS>>
  /\ UNCHANGED <<env, lock, result, score, IFDOWN_EVENT,
                 iface_state, firewall, history>>

(* The call "disconnected" is over.  The flag is cleared last. *)
Disconnected_Keep ==
  /\ pc = "disconnected"
  /\ call[waitsFor].pc = "idle"
  /\ IFDOWN_EVENT' = FALSE
  /\ pc' = "probe" /\ waitsFor' = NoCall
  /\ UNCHANGED <<env, call, lock, result, score, STATUS, iface_state, firewall, history>>

Disconnected ==
  /\ pc = "disconnected"
  /\ call[waitsFor].pc = "idle"
  /\ score' = 0 /\ IFDOWN_EVENT' = FALSE
  /\ pc' = "probe" /\ waitsFor' = NoCall
  /\ UNCHANGED <<env, call, lock, result, STATUS, iface_state, firewall, history>>

Tracker ==
  \/ Begin \/ Connected \/ Probe \/ Failed \/ Succeeded \/ Recovering
  \/ CallOver \/ Wake \/ Disconnected
-----------------------------------------------------------------------------
Next ==
  \/ Answer \/ Flap \/ OtherHandler \/ Tracker
  \/ \E c \in Call : Announce(c) \/ Handler(c)

Spec == Init /\ [][Next]_vars

(* Scheduling: every process runs on, netifd goes through its events, and  *)
(* a process that finds the lock free again and again gets it (`timeout'   *)
(* lets it pass after ten seconds at the latest).                          *)
Fairness ==
  /\ WF_vars(Tracker) /\ SF_vars(Connected)
  /\ \A c \in Call :
       /\ WF_vars(Announce(c)) /\ WF_vars(Handler(c))
       /\ SF_vars(Enter(c)) /\ SF_vars(Flush(c))

FairSpec == Spec /\ Fairness
-----------------------------------------------------------------------------
(* What the tracker says of the link in STATUS turns only on Down failed   *)
(* rounds in a row or on Up good ones in a row (or on netifd's word, or    *)
(* when a new tracker starts), although its one counter, score, is cut,    *)
(* refilled and reset in five places of mwan3track.                        *)
Detector ==
  INSTANCE LinkDetector WITH
    online <- STATUS = "online",
    run <- IF pc \in {"connected", "probe", "judge", "rest"}
             THEN IF STATUS = "online" THEN Up + Down - score ELSE score
             ELSE 0,
    round <- IF pc = "judge" THEN result ELSE "idle"

ImplementsDetector == Detector!Spec

(* Between handlers the policies count the interface as online exactly     *)
(* when iface_state says so; it then has its default route, and an IPv6    *)
(* interface has it only then, in every order of netifd's calls, the       *)
(* tracker's calls and those left behind by a killed tracker; the one      *)
(* exception is a tracker that wrote "online" over the "offline" of an     *)
(* ifdown handler (mwan3track:280).                                        *)
InServiceAgrees ==
  lock = NoCall /\ ~overruled =>
    /\ policy = (iface_state = "online")
    /\ iface_state = "online" => route
    /\ iface_state = "offline" /\ Family = "ipv6" => ~route

(* With the same exception, a tracker at work that has no ifdown to notice *)
(* agrees with iface_state: mwan3's two records of one verdict, STATUS     *)
(* (read by rpcd, dual-SIM and the UI) and iface_state (read by the        *)
(* policies), do not drift apart, unless a signal missed the tracker.      *)
StatusAgrees ==
  /\ lock = NoCall /\ ~overruled
  /\ pc \in {"probe", "judge", "rest"} /\ ~IFDOWN_EVENT
  => STATUS = iface_state

Healthy == netup /\ Cardinality(answering) >= Reliability

InService == iface_state = "online" /\ policy /\ route

(* An interface that stays up with enough hosts answering and has not lost *)
(* its tracker to others is in the end in service for good, whatever calls *)
(* and signals were under way before.                                      *)
Recovers == <>[](Healthy /\ ~unwatched) => <>[]InService

OutOfService == iface_state = "offline" /\ ~policy /\ (Family = "ipv6" => ~route)

(* One that stays dead is, with the same exception, in the end out of      *)
(* service for good, unless the tracker's own write put it back; only IPv6 *)
(* loses its route.                                                        *)
Withdraws == <>[](~Healthy /\ ~overruled /\ ~unwatched) => <>[]OutOfService

(* What the tracker is for: in the end the verdict is that of the link, as *)
(* long as there is a tracker.  The others that end it (an ifup of a name  *)
(* that is a prefix, and mwan3.user) leave the verdict as it is until the  *)
(* interface's own next ifup.                                              *)
VerdictFollowsLink == Recovers /\ Withdraws
=============================================================================
