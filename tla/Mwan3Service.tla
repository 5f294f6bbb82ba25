---------------------------- MODULE Mwan3Service ----------------------------
(***************************************************************************)
(* The mwan3 service around the trackers of Mwan3Track: hotplug handlers   *)
(* of several interfaces (hotplug.d/iface/15-mwan3, 16-mwan3 and           *)
(* 16-mwan3-user with etc/mwan3.user), the command usr/sbin/mwan3 (start,  *)
(* stop, ifdown), the route monitor usr/sbin/mwan3rtmon, and               *)
(* /var/run/mwan3.lock, on which they meet.                                *)
(*                                                                         *)
(* `lock' and `lock -u' are an external applet: `lock' leaves a process    *)
(* behind that holds the file, `lock -u' ends whichever process that is.   *)
(* So an unlock frees the lock for whoever holds it, and mwan3_lock, when  *)
(* ten seconds were not enough, frees it and goes on without holding it.   *)
(*                                                                         *)
(* A restart is a stop and then a start.  What the handlers do to a single *)
(* interface is in Mwan3Track.                                             *)
(*                                                                         *)
(* A definition named X_<Word> just above X is a faulty variant of X.  No  *)
(* specification uses it; substituted for X it makes a property fail.      *)
(***************************************************************************)
EXTENDS FiniteSets

CONSTANTS
  Iface,        \* configured interfaces, with track_ips
  Alike,        \* pairs <<i, j>>: the name i is a proper prefix of the name j
  PPPoE,        \* interfaces on the device of a WAN that is or becomes PPPoE
  Handler,      \* hotplug call processes; bounds how many run at once
  Monitor,      \* mwan3rtmon processes; as many as handlers are enough
  Command,      \* the process of usr/sbin/mwan3
  NoOne,
  WaitsExpire,  \* may a wait in mwan3_lock reach its ten seconds?  (There is
                \* no limit where the applet timeout is missing.)
  LateFlag      \* can TERM meet mwan3rtmon between (un)lock and lock_status?

Proc == Handler \cup Monitor \cup {Command}

ASSUME ServiceConstants ==
  /\ Alike \in SUBSET (Iface \X Iface)
  /\ PPPoE \in SUBSET Iface
  /\ Handler \cap Monitor = {}
  /\ Command \notin Handler \cup Monitor
  /\ NoOne \notin Proc
  /\ WaitsExpire \in BOOLEAN /\ LateFlag \in BOOLEAN

VARIABLES
  enabled,  \* mwan3.globals.enabled, as uci_toggle_state sets it
  lock,     \* the process the lock was taken by, or NoOne
  pc,       \* where each process is
  job,      \* the ACTION and INTERFACE of a hotplug call
  callee,   \* the call the command waits for, or NoOne
  todo,     \* interfaces the command has yet to bring up, or brings down
  termed,   \* monitors with a TERM to notice
  tracked,  \* interfaces with a mwan3track running
  loaded,   \* interfaces with rules, chains and a routing table
  unwatched \* history: interfaces whose tracker was ended by `mwan3 ifdown',
            \* by mwan3.user or together with that of a name alike

vars == <<enabled, lock, pc, job, callee, todo, termed, tracked, loaded, unwatched>>

HandlerPc == {"idle", "lock", "test", "load", "track", "policies",
              "global", "monitor", "launch", "conntrack", "flush",
              "userlock", "user", "script"}
MonitorPc == {"none", "rest", "lock", "routes", "left"}
CommandPc == {"idle", "stop", "disable", "unload", "start", "enable", "next",
              "ifup", "read", "call", "calling", "ifdown"}

Job == [action : {"ifup", "ifdown", "connected", "disconnected"}, iface : Iface]

NoJob == [action |-> "none", iface |-> NoOne]

Section == {"test", "load", "track", "policies", "flush", "user",
            "routes", "disable", "unload", "enable", "read"}

TypeOK ==
  /\ enabled \in BOOLEAN
  /\ lock \in Proc \cup {NoOne}
  /\ pc \in [Proc -> HandlerPc \cup MonitorPc \cup CommandPc]
  /\ \A h \in Handler : pc[h] \in HandlerPc
  /\ \A m \in Monitor : pc[m] \in MonitorPc
  /\ pc[Command] \in CommandPc
  /\ job \in [Handler -> Job \cup {NoJob}]
  /\ callee \in Handler \cup {NoOne}
  /\ todo \subseteq Iface
  /\ termed \subseteq Monitor
  /\ tracked \subseteq Iface
  /\ loaded \subseteq Iface
  /\ unwatched \subseteq Iface

\* After boot: the service is enabled and nothing has come up yet.
Init ==
  /\ enabled = TRUE
  /\ lock = NoOne
  /\ pc = [p \in Proc |-> IF p \in Monitor THEN "none" ELSE "idle"]
  /\ job = [h \in Handler |-> NoJob]
  /\ callee = NoOne /\ todo = {} /\ termed = {}
  /\ tracked = {} /\ loaded = {} /\ unwatched = {}

Goto(p, next) == pc' = [pc EXCEPT ![p] = next]

Acquire_Passes(p, next) ==
  /\ lock' = IF lock = NoOne THEN p ELSE lock
  /\ Goto(p, next)

\* mwan3_lock: the lock was free, or the wait expired.
Acquire(p, next) ==
  /\ \/ lock = NoOne /\ lock' = p
     \/ WaitsExpire /\ lock' = NoOne
  /\ Goto(p, next)

\* mwan3_unlock, whoever holds the lock.
Release(p, next) == lock' = NoOne /\ Goto(p, next)

service == <<tracked, loaded, unwatched>>
command == <<callee, todo>>
-----------------------------------------------------------------------------
(* A hotplug call: 15-mwan3, then 16-mwan3, then 16-mwan3-user.            *)

\* netifd, a tracker or a user makes a call; 15-mwan3 leaves "connected" and
\* "disconnected" to the others.  The call of a tracker goes on without it.
NewCall(h, j) ==
  /\ pc[h] = "idle" /\ h # callee
  /\ job' = [job EXCEPT ![h] = j]
  /\ Goto(h, IF j.action \in {"ifup", "ifdown"} THEN "lock" ELSE "global")
  /\ UNCHANGED <<enabled, lock, command, termed, service>>

Enter(h) ==
  /\ pc[h] = "lock"
  /\ Acquire(h, "test")
  /\ UNCHANGED <<enabled, job, command, termed, service>>

Serves_Always == TRUE
\* config_get_bool enabled globals
Serves == enabled

Test(h) ==
  /\ pc[h] = "test"
  /\ \/ Serves /\ job[h].action = "ifup" /\ Goto(h, "load") /\ UNCHANGED lock
     \/ Serves /\ job[h].action = "ifdown" /\ Goto(h, "policies") /\ UNCHANGED lock
     \/ ~Serves /\ Release(h, "global")
  /\ UNCHANGED <<enabled, job, command, termed, service>>

\* General rules and chains, and those of the interface; its routing table.
Load(h) ==
  /\ pc[h] = "load"
  /\ loaded' = loaded \cup {job[h].iface}
  /\ Goto(h, "track")
  /\ UNCHANGED <<enabled, lock, job, command, termed, tracked, unwatched>>

\* pgrep -f "mwan3track $1" also finds the trackers of longer names.
Killed(i) == {j \in tracked : <<i, j>> \in Alike}

\* mwan3_track
Track_Forgets(h) ==
  /\ pc[h] = "track"
  /\ LET i == job[h].iface IN
     /\ tracked' = tracked \ (Killed(i) \cup {i})
     /\ unwatched' = (unwatched \cup Killed(i)) \ {i}
  /\ Goto(h, "policies")
  /\ UNCHANGED <<enabled, lock, job, command, termed, loaded>>

Track(h) ==
  /\ pc[h] = "track"
  /\ LET i == job[h].iface IN
     /\ tracked' = (tracked \ Killed(i)) \cup {i}
     /\ unwatched' = (unwatched \cup Killed(i)) \ {i}
  /\ Goto(h, "policies")
  /\ UNCHANGED <<enabled, lock, job, command, termed, loaded>>

Policies(h) ==
  /\ pc[h] = "policies"
  /\ Release(h, "global")
  /\ UNCHANGED <<enabled, job, command, termed, service>>

\* 16-mwan3 reads `enabled' before it has the lock ...
Global(h) ==
  /\ pc[h] = "global"
  /\ \/ ~enabled /\ Goto(h, "userlock")
     \/ enabled /\ job[h].action = "ifup" /\ Goto(h, "monitor")
     \/ enabled /\ job[h].action # "ifup" /\ Goto(h, "conntrack")
  /\ UNCHANGED <<enabled, lock, job, command, termed, service>>

Alive(m) == pc[m] # "none"

FindMonitor_Waits(h) ==
  /\ pc[h] = "monitor"
  /\ Goto(h, IF \E m \in Monitor : Alive(m) THEN "conntrack" ELSE "monitor")
  /\ UNCHANGED <<enabled, lock, job, command, termed, service>>

\* ... and also looks for the monitor, and starts one if there is none.
FindMonitor(h) ==
  /\ pc[h] = "monitor"
  /\ Goto(h, IF \E m \in Monitor : Alive(m) THEN "conntrack" ELSE "launch")
  /\ UNCHANGED <<enabled, lock, job, command, termed, service>>

Launch(h, m) ==
  /\ pc[h] = "launch"
  /\ ~Alive(m)
  /\ pc' = [pc EXCEPT ![h] = "conntrack", ![m] = "rest"]
  /\ UNCHANGED <<enabled, lock, job, command, termed, service>>

EnterFlush(h) ==
  /\ pc[h] = "conntrack"
  /\ Acquire(h, "flush")
  /\ UNCHANGED <<enabled, job, command, termed, service>>

Flush(h) ==
  /\ pc[h] = "flush"
  /\ Release(h, "userlock")
  /\ UNCHANGED <<enabled, job, command, termed, service>>

\* 16-mwan3-user reads `enabled' under the lock ...
EnterUser(h) ==
  /\ pc[h] = "userlock"
  /\ Acquire(h, "user")
  /\ UNCHANGED <<enabled, job, command, termed, service>>

Ends(h) == job' = [job EXCEPT ![h] = NoJob]

User(h) ==
  /\ pc[h] = "user"
  /\ \/ enabled /\ job[h].action = "disconnected" /\ Release(h, "script") /\ UNCHANGED job
     \/ ~(enabled /\ job[h].action = "disconnected") /\ Release(h, "idle") /\ Ends(h)
  /\ UNCHANGED <<enabled, command, termed, service>>

\* ... and runs mwan3.user without it.  That ends the tracker it finds, of a
\* loaded interface too and also one started after the call was made; kill
\* fails on two pids.
Script(h) ==
  /\ pc[h] = "script"
  /\ Goto(h, "idle") /\ Ends(h)
  /\ \E ended \in SUBSET ({job[h].iface} \cap PPPoE \cap tracked) :
       /\ tracked' = tracked \ ended
       /\ unwatched' = unwatched \cup ended
  /\ UNCHANGED <<enabled, lock, command, termed, loaded>>

HandlerStep(h) ==
  \/ Enter(h) \/ Test(h) \/ Load(h) \/ Track(h) \/ Policies(h)
  \/ Global(h) \/ FindMonitor(h) \/ EnterFlush(h) \/ Flush(h)
  \/ \E m \in Monitor : Launch(h, m)
  \/ EnterUser(h) \/ User(h) \/ Script(h)
-----------------------------------------------------------------------------
(* mwan3rtmon.  Its trap acts on TERM when the command in the foreground   *)
(* is over: at once while it sleeps, with the lock while it waits for it.  *)

Awake(m) ==
  /\ pc[m] = "rest" /\ m \notin termed
  /\ Goto(m, "lock")
  /\ UNCHANGED <<enabled, lock, job, command, termed, service>>

EnterMonitor(m) ==
  /\ pc[m] = "lock"
  /\ Acquire(m, "routes")
  /\ UNCHANGED <<enabled, job, command, termed, service>>

\* It goes on, unless no interface is enabled or the interval is 0.
Routes(m) ==
  /\ pc[m] = "routes" /\ m \notin termed
  /\ \E next \in {IF LateFlag THEN "left" ELSE "rest", "none"} : Release(m, next)
  /\ UNCHANGED <<enabled, job, command, termed, service>>

\* lock_status=0
Left(m) ==
  /\ pc[m] = "left" /\ m \notin termed
  /\ Goto(m, "rest")
  /\ UNCHANGED <<enabled, lock, job, command, termed, service>>

\* clean_up unlocks when lock_status is 1.

CleanUp(m) ==
  /\ m \in termed
  /\ \/ pc[m] = "rest" /\ UNCHANGED lock
     \/ pc[m] = "routes" /\ lock' = NoOne
     \/ LateFlag /\ pc[m] \in {"lock", "left"} /\ lock' = NoOne
  /\ Goto(m, "none")
  /\ termed' = termed \ {m}
  /\ UNCHANGED <<enabled, job, command, service>>

MonitorStep(m) ==
  Awake(m) \/ EnterMonitor(m) \/ Routes(m) \/ Left(m) \/ CleanUp(m)
-----------------------------------------------------------------------------
(* usr/sbin/mwan3.                                                         *)

At(at) == pc[Command] = at

Order(at, ifaces) ==
  /\ At("idle")
  /\ Goto(Command, at)
  /\ todo' = ifaces
  /\ UNCHANGED <<enabled, lock, job, callee, termed, service>>

EnterCommand(at, next) ==
  /\ At(at)
  /\ Acquire(Command, next)
  /\ UNCHANGED <<enabled, job, command, termed, service>>

\* stop: the flag, the monitors, the trackers ...

Disable ==
  /\ At("disable")
  /\ enabled' = FALSE
  /\ termed' = {m \in Monitor : Alive(m)}
  /\ tracked' = {} /\ unwatched' = {}
  /\ Goto(Command, "unload")
  /\ UNCHANGED <<lock, job, command, loaded>>

\* ... then routes, rules, chains and sets, and the unlock.
Unload ==
  /\ At("unload")
  /\ loaded' = {}
  /\ Release(Command, "idle")
  /\ UNCHANGED <<enabled, job, command, termed, tracked, unwatched>>

\* start: the flag, and then ifup for each interface.
Enable ==
  /\ At("enable")
  /\ enabled' = TRUE
  /\ todo' = Iface
  /\ Release(Command, "next")
  /\ UNCHANGED <<job, callee, termed, service>>

NextIfup ==
  /\ At("next")
  /\ Goto(Command, IF todo = {} THEN "idle" ELSE "ifup")
  /\ UNCHANGED <<enabled, lock, job, command, termed, service>>

\* ifup: `exit 1' when the service is disabled ...
Refused ==
  /\ At("read")
  /\ ~enabled
  /\ Release(Command, "idle")
  /\ todo' = {}
  /\ UNCHANGED <<enabled, job, callee, termed, service>>

\* ... or the call is left to netifd's status of the interface.
Read ==
  /\ At("read")
  /\ enabled
  /\ Release(Command, "call")
  /\ UNCHANGED <<enabled, job, command, termed, service>>

Skip(i) ==
  /\ At("call")
  /\ i \in todo
  /\ todo' = todo \ {i}
  /\ Goto(Command, "next")
  /\ UNCHANGED <<enabled, lock, job, callee, termed, service>>

Call(h, next, j) ==
  /\ pc[h] = "idle"
  /\ job' = [job EXCEPT ![h] = j]
  /\ callee' = h
  /\ pc' = [pc EXCEPT ![h] = "lock", ![Command] = next]
  /\ UNCHANGED <<enabled, lock, termed, service>>

Ifup(h, i) ==
  /\ At("call")
  /\ i \in todo
  /\ todo' = todo \ {i}
  /\ Call(h, "calling", [action |-> "ifup", iface |-> i])

Ifdown(h, i) ==
  /\ At("idle")
  /\ todo' = {i}
  /\ Call(h, "ifdown", [action |-> "ifdown", iface |-> i])

Returned(at, next) ==
  /\ At(at)
  /\ pc[callee] = "idle"
  /\ callee' = NoOne
  /\ Goto(Command, next)
  /\ UNCHANGED <<enabled, lock, job, termed>>

IfupReturned == Returned("calling", "next") /\ UNCHANGED <<todo, service>>

\* `mwan3 ifdown' ends the tracker after the call.
IfdownReturned ==
  /\ Returned("ifdown", "idle")
  /\ tracked' = tracked \ todo
  /\ unwatched' = unwatched \cup (todo \cap tracked)
  /\ todo' = {}
  /\ UNCHANGED loaded

CommandStep ==
  \/ EnterCommand("stop", "disable") \/ Disable \/ Unload
  \/ EnterCommand("start", "enable") \/ Enable
  \/ NextIfup
  \/ EnterCommand("ifup", "read") \/ Refused \/ Read
  \/ \E i \in Iface : Skip(i) \/ \E h \in Handler : Ifup(h, i)
  \/ IfupReturned \/ IfdownReturned
-----------------------------------------------------------------------------
Next ==
  \/ \E h \in Handler : \/ \E j \in Job : NewCall(h, j)
                        \/ HandlerStep(h)
                        \/ \E i \in Iface : Ifdown(h, i)
  \/ \E m \in Monitor : MonitorStep(m)
  \/ Order("stop", {}) \/ Order("start", {}) \/ \E i \in Iface : Order("ifup", {i})
  \/ CommandStep

Spec == Init /\ [][Next]_vars

\* Every process runs on, and one that finds the lock free again and again
\* gets it.  Nothing is assumed of netifd and of users.
Fairness ==
  /\ \A h \in Handler : /\ WF_vars(HandlerStep(h))
                       /\ SF_vars(Enter(h)) /\ SF_vars(EnterFlush(h))
                       /\ SF_vars(EnterUser(h))
  /\ \A m \in Monitor : WF_vars(MonitorStep(m)) /\ SF_vars(EnterMonitor(m))
  /\ WF_vars(CommandStep)
  /\ SF_vars(EnterCommand("stop", "disable"))
  /\ SF_vars(EnterCommand("start", "enable"))
  /\ SF_vars(EnterCommand("ifup", "read"))
  /\ SF_vars(\E h \in Handler, i \in Iface : Ifup(h, i))

FairSpec == Spec /\ Fairness
-----------------------------------------------------------------------------
InSection(p) == pc[p] \in Section

NobodyInSection == \A p \in Proc : ~InSection(p)

\* One process at a time is between mwan3_lock and mwan3_unlock, although an
\* unlock does not look at who holds the lock and mwan3rtmon also unlocks in
\* its trap.
Exclusive == \A p, q \in Proc : InSection(p) /\ InSection(q) => p = q

\* Once a stop is through, no handler that was waiting, or that is called
\* later, starts a tracker or loads a rule, until the next start.
StopLasts == ~enabled /\ NobodyInSection => tracked = {} /\ loaded = {}

\* Between handlers an interface with rules has its tracker, unless an ifup of
\* a name alike, `mwan3 ifdown' or, at a `disconnected' of an interface on the
\* device of a PPPoE WAN, mwan3.user ended it; and no other interface has one.
LoadedAreTracked ==
  NobodyInSection => loaded \ unwatched \subseteq tracked /\ tracked \subseteq loaded

\* A monitor that was told to end does not look after routes again.
TermedEnds == \A m \in Monitor : m \in termed ~> pc[m] = "none"

\* Whatever the others do, each hotplug call ends, and netifd and the tracker
\* that wait for it go on.
CallsEnd == \A h \in Handler : []<>(pc[h] = "idle")

\* So does each command, although it waits for the calls it makes.
CommandsEnd == []<>At("idle")

\* Everything that was asked for comes to its end: calls, commands, and the
\* monitors that stop has told to end.
RequestsEnd == CallsEnd /\ CommandsEnd /\ TermedEnds
=============================================================================
