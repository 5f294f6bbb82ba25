# TLA+ specifications of the GL-MT300N-V2 system image

The repository (`src/`) is a snapshot of the root file system of a small
travel router: OpenWrt 23.05 with GL.iNet's additions.  There is no single
program in it.  What has logic of its own is of two kinds: shell and Lua
programs that run side by side and share files under `/var/run` and `/tmp`,
locks, signals, ubus methods and hotplug calls; and LuCI's pages, JavaScript that
keeps a copy of the router's configuration in the browser, edits it, and sends
it back over a network that the very change may cut off.  This directory holds
TLA+ models of both, TLC configurations that check them on small instances, and
proofs, checked by TLAPS, for every value of the constants.

Paths below are relative to `src/rootfs/`; `resources/` is
`www/luci-static/resources/`.

## 1. Inventory

### The router's own processes

**Session daemon and its workers.**  `usr/sbin/gl-ngx-session` is a single
uloop thread behind the ubus object `gl-session`; nginx workers call it
(`usr/lib/lua/oui/rpc.lua`, `usr/share/gl-ngx/oui-*.lua`).

* State: the tables `sessions` and `nonces`, a counter for each that handlers
  move by hand (`session_cnt`, `nonce_cnt`), the failure count and the lock-out
  deadline; outside, a file `/tmp/gl_token_<sid>` per session, which nginx tests
  before it asks the daemon.
* Operations: `challenge`, `login` (with eviction), `logout`, `touch`,
  `session`, `clear_session`, a sweep every second, respawn by procd.
* Hard: counters that must follow tables through six handlers, deadlines that
  only a timer looks at, token files written by another process after the reply,
  restart with empty tables.
* Correct when: the counters count, only the session unused longest is evicted, a
  nonce pays once, a live session has its token file, a lock-out holds and ends,
  idle sessions and full nonce tables clear up.

**mwan3: tracking of WAN interfaces.**  `usr/sbin/mwan3track` is one process
per interface; `etc/hotplug.d/iface/15-mwan3` is run by netifd and by the
tracker itself; both use `lib/mwan3/mwan3.sh`.  `16-mwan3-user` runs after it and
calls `etc/mwan3.user`.

* State: the tracker's `score` and `IFDOWN_EVENT`; `STATUS` under
  `/var/run/mwan3track`; `iface_state` under `/var/run/mwan3`; the iptables
  policies; the interface's route; `/var/run/mwan3.lock`.
* Operations: a round of probes, its verdict, the calls `ifup`, `ifdown`,
  `connected`, `disconnected`, the signals USR1 and TERM, starting and killing
  trackers.
* Hard: the tracker takes no lock; a hotplug call outlives the tracker that made
  it; signals get lost; one counter stands for two kinds of run; the ifup of
  another interface (`wan` for `wan6`) and `mwan3.user` end a tracker and start
  none.
* Correct when: the verdict turns only on enough rounds in a row, policies,
  route and `iface_state` agree between handlers, `STATUS` and `iface_state` do
  not drift apart, and, while it has a tracker, a healthy interface ends in service
  and a dead one out of it.

**mwan3: rules, route monitor, start and stop.**  `usr/sbin/mwan3`,
`usr/sbin/mwan3rtmon`, `etc/init.d/mwan3`, `etc/hotplug.d/iface/16-mwan3` and
`16-mwan3-user`, `etc/mwan3.user`, the rest of `lib/mwan3/mwan3.sh`.

* State: the lock, the flag `enabled`, which trackers and monitors run,
  iptables chains, routing tables, ipsets.
* Operations: `start`, `stop`, `restart`, `ifup`, `ifdown`; the handlers of all
  interfaces; the monitor's round and its traps.
* Hard: any process may free the lock, and one that has waited ten seconds does;
  a kill pattern matches another interface's tracker; `16-mwan3` works partly
  without the lock; handlers finish after a stop.
* Correct when: one process at a time is in a locked section, a stop lasts until
  the next start, every loaded interface has its tracker unless one of the three
  that end trackers and start none came by, and every call and command ends.

**Dual-SIM failover.**  `etc/hotplug.d/iface/17-dual-sim` and
`usr/bin/switch_sim_slot`.

* State: the flag files `env_send`, `switch_now`, `switch_wait`, `main_flag`,
  `secondary_flag`, `ifup_fail`, `current_sim` under `/var/run/dual_sim/<iface>`,
  the lock file `/var/run/switch-sim.lock`, the modem's slot.
* Operations: calls by the tracker (`ACTION=switch`), netifd, cron and the boot
  script; deciding, waiting, switching, reading back.
* Hard: several handlers at once on the same flags, test-then-create on the lock
  file, modems that do not answer.
* Correct when: one process drives the modem, `current_sim` is its slot, a request
  is answered, and a modem whose SIMs both fail is not switched without a pause.

**Dynamic DNS updater.**  `usr/lib/gl_ddns/*`, `etc/hotplug.d/iface/95-gl_ddns`:
one updater per section, a PID file handed over from old to new, retries with
limits, signals.  Correct when one updater works for a section and a stop ends it.

**eco.**  `usr/local/lib/lua/5.3/eco/sync.lua`: a condition variable and a wait
group for coroutines.  Correct when a signal wakes somebody who waits and a group
that is done lets everybody go.

**VPN client routing, policy and kill switch; modem manager.**  Not modelled, see
section 5.

### LuCI's pages

**The page's copy of the configuration** (`resources/uci.js`).  State: the loaded
sections and three layers of pending edits (created, changed, deleted), a flag for
reordering.  Operations: get, set, unset, add, remove, move, load, unload, save.
Hard: one option can be pending in several layers; a save is a batch of calls
whose replies name the new sections by position; calls are refused, answers lost.
Correct when reads see the edits, and a save leaves on the server what was shown.

**Apply, confirm, rollback** (`resources/ui.js` 320-349,
`usr/lib/lua/luci/controller/admin/uci.lua`, `model/uci.lua`).  State: the dialog
and its deadline, the token, rpcd's timer, what runs and what is staged.  Hard: the
change may cut the browser off; requests, replies and pages get lost.  Correct
when what nobody confirmed is rolled back, what was confirmed stays, the page says
which, and the poll loop rests meanwhile.

**Poll loop and batched calls** (`resources/luci.js`, `rpc.js`).  State: the list
of polled functions, the timer, the queue of calls, batches under way.  Hard:
answers belong to calls by position; functions throw, sessions end.  Correct when
each call is answered once with its own answer, and the loop lives, pauses and
stops as it should.

**Class loader, classes, instances** (`luci.js`): `require()` with circles and
lost files, `super()` and the slot it keeps its place in, the registry that binds
instances to elements.

**References between sections** (`firewall.js`, `network.js`,
`view/firewall/zones.js`, `view/network/interfaces.js`, `dhcp.js`,
`wireless.js`): zones, forwardings, rules, interfaces, routes, DHCP servers and
wifi-ifaces name one another across four packages.  Correct when no page leaves
a name that nothing has.

**Forms, dialogs, tables** (`form.js`); **networks and radio state**
(`network.js`); **wireless page** (`view/network/wireless.js`); **dropdowns,
lists, tabs, sorted tables, files** (`ui.js`, `cbi.js`, `tools/*.js`); **data types
and addresses** (`validation.js`, `protocol/static.js`); **software page**
(`view/opkg.js`).  Each keeps state in the page that must agree with what is shown
and with what is saved, through clicks in any order and answers that overlap.

### How components interact

netifd calls `etc/hotplug.d/iface/*` one event at a time.  `15-mwan3` starts and
kills trackers; a tracker writes the state files that `15-mwan3` reads, and makes
hotplug calls of its own, which run `15-mwan3`, `16-mwan3`, `16-mwan3-user`,
`17-dual-sim`, `21-vpnpolicy` and `95-gl_ddns` again.  rpcd reads the trackers'
`STATUS` for the web UI and for `15-mwan3` itself (`initial_state offline`).
nginx reaches everything through the session daemon.

A LuCI page calls rpcd through one queue of batched calls; pages, `network.js` and
`firewall.js` read and write the page's copy of `uci`; a form writes its fields
there and saves it, which stages the edits in rpcd; the change dialog has them
applied.  The poll loop's calls share the batches with everybody else's and are
paused while a dialog is up.

## 2. Modules

| module | what it is |
| --- | --- |
| `GlSession` | the session daemon, nginx workers, clients, the clock, and its properties |
| `SessionPool` | abstract: a pool of at most `Limit` sessions |
| `Mwan3Track` | one WAN interface: netifd, hotplug calls, tracker, and its properties |
| `LinkDetector` | abstract: a link monitor that judges runs of rounds |
| `Mwan3Service` | the lock, handlers of several interfaces, route monitors, the command `mwan3`, and its properties |
| `DualSim` | the handlers of a modem with two SIMs |
| `DdnsUpdater` | the updaters of a DNS name |
| `EcoSync` | condition variable and wait group |
| `LuciUci` | the page's copy of a package, its edits and its save |
| `LuciTable` | abstract: a table of sections |
| `LuciApply` | apply, confirm and rollback |
| `LuciPoll`, `LuciRequest` | the poll loop; the queue of calls and its batches |
| `LuciTraffic` | the two composed: every polled function makes a call |
| `Subsequence` | what a filter makes of a sequence, by the ranks of the positions it keeps |
| `LuciConfig` | sections that name one another, and the pages that edit them |
| `LuciForm`, `LuciNetwork`, `LuciWireless`, `LuciRadio`, `LuciLists`, `LuciTabs`, `LuciSorted`, `LuciFiles`, `LuciLoader`, `LuciClass`, `LuciValidate`, `LuciAddress`, `LuciOpkg` | the other parts of the pages, one each |
| `LuciPages` | `LuciForm`, `LuciFiles` and `LuciWireless` side by side, with what is assumed of their constants |
| `MCGlSession`, `MCMwan3Track`, `MCMwan3Service`, `MCLuciUci`, `MCLuciTraffic`, `MCParts` | instances for TLC |
| `GlSessionProofs`, `Mwan3TrackProofs`, `Mwan3ServiceProofs`, `LuciUciProofs`, `LuciConfigProofs`, `LuciApplyProofs`, `LuciPageProofs`, `DaemonProofs` | theorems |

A definition named `X_<Word>` just above `X` is a faulty variant: a dropped
guard, an off-by-one, a missing reset.  No specification uses it.  Each checked
property has one that makes it fail when it takes the place of `X`;
`PROJECT.json` pairs them.

`MCParts` checks the parts that share no state with each other in one run: a
behaviour takes one of them, chosen at the start (`part`).  The SIMs, the DNS
updaters and eco have their own variables, which stay as they began in the other
parts, so that their properties are those of the modules; the variables of a part
of the pages stand in the slots `v1`, `v2`, ..., and the properties of the pages
say which part they are about.  Three of these parts are composed in `LuciPages`
already, which is what the proofs speak of; its constants get their values in
`Parts.cfg`.

### GlSession

Each ubus method and the timer callback is one action, because the daemon is one
thread and none of them yields.  The worker's `session()` is two actions
(`RpcSession`, `RpcToken`): the ubus reply comes before the token file is
written, and everything may happen between.

| code | definition |
| --- | --- |
| `init()`, respawn | `Init`, `Respawn` |
| `challenge` | `ChallengeUnknown`, `ChallengeKnown` |
| `login` | `LoginRefused`, `LoginOpens`, `LoginEvicts`, `LoginRaises` |
| `logout`, `touch`, `clear_session` | `Logout`, `Touch`, `ClearSession` |
| `session` | `Touch` (from upload and download), `RpcSession` |
| timer | `Sweep`; the passing of time is `Tick` |
| `clean_gl_token` | `CleanTokens` |

Deadlines are kept as seconds left, so that the clock does not grow; `now >
deadline` becomes "less than 0 left".  Where `login` raises an error
(`sessions[nil] = nil`) it is not visible from the source whether the compiled
ubus binding contains it, so `LoginRaises` allows both outcomes.  The timer may
be late by up to `MaxLag` seconds.  A user name is folded into the nonce made for
it.  `held` is what clients remember; a client may log out any sid it once got.

### Mwan3Track

A hotplug call is a process with a program counter (`call`).  netifd makes one at
a time; a newer event of the interface replaces one not yet announced.  The
tracker makes a call and waits for it; if the tracker is killed the call goes on.
The handler under the lock is cut where the tracker, which takes no lock, can see
or change something:

| code | definition |
| --- | --- |
| `mwan3_lock` and the state read on entry (15-mwan3:8-65) | `Enter` |
| `ifup`: route and state file, restart of the tracker, policies and route again | `IfupState`, `IfupTrack`, `IfupFinish` |
| `ifdown`: state file, signal, policies and route | `IfdownState`, `IfdownSignal`, `IfdownFinish` |
| `disconnected`: `16-mwan3` and `16-mwan3-user` under the lock, then `mwan3.user` without it | `Flush`, `UserScript` |
| another interface's handler: the policies rebuilt, and before that, in an ifup of a prefix of this name, the tracker killed (mwan3.sh:715) | `OtherHandler` |
| `mwan3track` up to its loop | `Begin`, `Connected` |
| the loop | `Probe`, `Failed`, `Succeeded`, `Recovering`, `CallOver`, `Wake`, `Disconnected` |
| hosts and netifd | `Answer`, `Flap`, `Announce` |

Five constants name what differs between installations, so that each property
says what it depends on: `InitialState` (the option `initial_state`), `Family`
(routes are deleted for `ipv6` only, mwan3.sh:593),
`SignalMayMiss` (may `pgrep` see the tracker's probing subshell too, or may USR1
arrive before its trap is set), `HasPrefix` (another interface's name is a prefix
of this one's, as `wan` is of `wan6` in `etc/config/mwan3`), `KillOnDisconnect`
(may the PPPoE rule in `etc/mwan3.user` apply).  The runs have both of the last two
`TRUE`.

Assumed: `mwan3` is enabled, nobody uses the command `mwan3` meanwhile
(`Mwan3Service` has it) and the interface is not a dual-SIM modem; the lock's
ten-second wait does not expire; TERM stops the tracker at once (it runs no
command after it); the interface has at least one `track_ip`; netifd knows the
device of an IPv6 interface (mwan3.sh:595); routes that the kernel removes by
itself are not counted; the quality checks of a ping only decide whether a host counts
as answering.  The history variable `overruled` marks the one write that breaks
the agreement of the records, the tracker's unlocked `online` over a handler's
`offline`; `unwatched`, that one of the two others ended the tracker and the
interface's own ifup has not started another since.  Properties that exclude one of
them say so.

### Mwan3Service

`Mwan3Track` looks into one interface and has of the others only what they do to
it, rebuild the policies and end its tracker; `Mwan3Service` looks at all of them
from outside.  What a handler does
to its interface shrinks to "loaded" and "tracked", and in exchange the lock is
what it is in the code: `lock` leaves a process that holds the file, `lock -u`
ends that process whoever asked for it.  `lock` remembers who took the lock last;
the processes' program counters say who believes to be inside.

| code | definition |
| --- | --- |
| `mwan3_lock`, `mwan3_unlock` | `Acquire`, `Release` |
| `15-mwan3` | `NewCall`, `Enter`, `Test`, `Load`, `Track`, `Policies` |
| `16-mwan3` | `Global`, `FindMonitor`, `Launch`, `EnterFlush`, `Flush` |
| `16-mwan3-user` and `mwan3.user` | `EnterUser`, `User`, `Script` |
| `mwan3rtmon` and its trap | `Awake`, `EnterMonitor`, `Routes`, `Left`, `CleanUp` |
| `mwan3 stop` | `EnterCommand`, `Disable`, `Unload` |
| `mwan3 start`, `ifup` | `EnterCommand`, `Enable`, `NextIfup`, `Refused`, `Read`, `Skip`, `Ifup`, `IfupReturned` |
| `mwan3 ifdown` | `Ifdown`, `IfdownReturned` |

`WaitsExpire` says whether a wait may reach its ten seconds (it cannot where the
applet `timeout` is missing, mwan3.sh:45); `LateFlag`, whether TERM may reach the
monitor between taking or releasing the lock and the assignment of
`lock_status`.  `PPPoE` are the interfaces on the device of a WAN whose protocol is
or becomes `pppoe`.  An idle handler stands for a process not yet forked.
`unwatched` is history: the interfaces whose tracker was ended by `mwan3 ifdown`, by
the ifup of an interface whose name is a prefix (mwan3.sh:715), or by `mwan3.user`
at a `disconnected` (mwan3.user:24), and not started again since.

### DualSim

Every call of `17-dual-sim` or `switch_sim_slot` is a process with a program
counter; the flag files are one record, read and written file by file as the
scripts do, grouped where nothing is read in between.

| code | definition |
| --- | --- |
| mwan3track:251-254, netifd, cron and the boot script | `Detect`, `Event`, `Direct` |
| `17-dual-sim`:48-113 | `NotEnabled`, `Asked`, `ComesUpOffline`, `Probe`, `ComesUp`, `Fails`, `CalledOff` |
| 126-177 | `GoesOn`, `Waited`, `Decide`, `Finish` |
| `dual_lock`, the switch, `dual_unlock` | `FindFree`, `Create`; `NothingToDo`, `Switch`, `SwitchBlindly`; `ReadSlot`, `WriteSlot`, `RemoveLock` |

Four variables are history and name what the properties exclude: `lockRaced` (two
processes found the lock absent at once), `crossed` (two handlers were past their
checks at once), `mute` (the modem left a command without an answer), `stuck` (a
request met dual-SIM turned off).  `exit_script`'s delay, `update all`, the SIMs'
profiles and redialling are left out, and the files exist already.

### DdnsUpdater and EcoSync

| code | definition |
| --- | --- |
| `start_daemon_for_all_ddns_sections`, `stop_section_processes`, SIGHUP | `Start`, `Stop` (`Told`), `Reload` |
| `dynamic_dns_updater.sh`: configuration, ending the old, PID file | `Load`, `EndOld`, `Claim` |
| the loop | `Look`, `Send`, `Sleep`, `Verified`, `Differs`, `LookupFails` |
| `trap_handler` | `Ends` |
| `eco/sync.lua`: `cond` | `Wait`, `Signal`, `Broadcast` |
| `waitgroup` | `WaitGroup`, `Add`, `Done` |
| eco's event loop (external) | `Resume`, `Timeout` |

Which address the WAN has and which is registered is left open: an updater may find
them equal or not each time it looks.  A PID is used once.

### LuciUci

The four tables of `uci.js` (`values`, `creates`, `changes`, `deletes`) and the
server's package; `Table` is what the page shows, by the same priorities as
`get()`.

| code | definition |
| --- | --- |
| `set`, `unset`, `add`, `remove`, `move`, `get` of a whole section | `SetCreated`, `SetLoaded`; `UnsetLoaded`; `Add`; `RemoveCreated`, `RemoveLoaded`; `Move`; `GetSection` |
| `save`: the batch | `Save` (`Deletions`, `Additions`, `Changed`), `ServeTask`, `RefuseTask`, `Done`, `SaveFails` |
| `save`: names from replies, `reorderSections` | `NamesPatched`, `SaveOrders`, `ServeOrder` |
| `unload`, `load` | `Unload`, `Reload`, `Load`, `ServeLoad`, `PackageArrives` |
| the network | `LoseReplies`, `PackageLost` |

`LuciTable` is the abstract promise: one table of sections that edits change and
that a reload replaces.

### LuciApply

| code | definition |
| --- | --- |
| `ui.changes.apply`, `confirm`, `displayStatus` | `Apply`, `Checked`, `StartConfirm`, `ApplyRefused`, `ConfirmStarts`, `SendConfirm`, `ConfirmAnswered`, `GiveUp` |
| `rollback`, `revert`, leaving | `SendProbe`, `ProbeAnswered`; `Revert`, `RevertAnswered`; `PageReloads`, `Leave` |
| the connectivity dialog | `Choose`, `Cancel`, `Dismiss` |
| `action_apply_*`, `action_confirm`, `action_revert` and `model/uci.lua` | `ServeApply`, `ServeConfirm`, `ServeStray`, `ServeRevert` |
| rpcd's timer (external), time, the network | `RpcdRollsBack`, `Tick`, `Lose` |

A time is what is left of it, -1 for none.  `kept` is history: somebody confirmed.

### LuciTraffic

`LuciPoll` is the poll loop and `LuciRequest` the queue; neither knows the other.
`LuciTraffic` composes them: a polled function makes one call, and its promise
settles when the call's answer is handed out.

| code | definition |
| --- | --- |
| `Poll.add`, `remove`, `start`, `stop`, `step` | `PollAdd`, `PollRemove`, `PollStart`, `PollStop`, `PollStep`, `PollSettle` |
| `rpc.declare`, `enqueueRequest`, `flushRequestQueue` | `Issue`, `Flush` |
| rpcd (external) | `Serve`, `ServeBadly`, `Expire` |
| `handleRpcReply`, `parseCallReply`, the session check | `Deliver` (`Result`, `Refused`, `Checks`, `Expires`) |

### LuciConfig

One action for each thing a page saves: `SaveZone`, `RemoveZone`, `AddRule`,
`AddInterface`, `SaveInterfaceZone`, `AddRoute`, `AddDhcp`, `RemoveInterface`
(with the packages that arrive later, `PackagesThere`), `SaveWifi`, `JoinWifi`.
The helpers carry firewall.js' names: `lookupZone`, `addZone`, `addNetwork`, ...  A
new zone may take any free number: the generated names of sections have no order
to rely on.

### The other parts

Their actions carry the names of the functions they model (`handleSort`,
`cbi_row_swap`, `network_updown`, `require`, ...); the comment that opens each
module says what is left out.  What each keeps to itself:

| module | property | what it says |
| --- | --- | --- |
| `LuciOpkg` | `PlanCloses`, `ListsFollow`, `ButtonsAnswer`, `UploadEnds` | the plan has every dependency or says which is missing; lists, buttons and uploads follow the router |
| `LuciForm` | `SavesMeant`, `OrderShown`, `Undone` | a save writes what the dialog showed and removes what dependencies hid; a dismissed dialog leaves nothing |
| `LuciNetwork` | `StatusIsOwn`, `OthersUntouched`, `NetworksTaken` | a wifi-iface has its own runtime status, and attaching changes no other |
| `LuciLists` | `ListsAgree`, `InputTaken` | the hidden copy that a form reads is the selection |
| `LuciTabs` | `PageSettles` | dependent fields and tabs come to rest where the values say |
| `LuciLoader`, `LuciClass` | `ClassesCome`; `SuperIsNext`, `FindsOwner` | each class comes once or is refused; `super()` is the next definition; a node finds its own instance |
| `LuciFiles`, `LuciSorted` | `FilesShown`; `TablesSorted` | listings are of the directory shown; a refilled table stays sorted |
| `LuciWireless`, `LuciRadio` | `UserDecides`, `ScanShown`; `SelectsRemember`, `SavedIsShown` | only the user turns networks on and off; selects come back to where they were |
| `LuciValidate`, `LuciAddress` | `FieldsJudged`; `AddressesRead`, `MasksKept` | checks that overwrite one another's value against their reading as a tree; addresses against the words they stand for |

## 3. What the runs check

| run | question | states |
| --- | --- | --- |
| `gl_session` | counters, tokens, deadlines, eviction, lock-out and nonces, with logouts of absent sids and cleared sessions allowed | 310,000 |
| `gl_session_pool` | with neither: the refinement of `SessionPool`, and liveness | 119,000 |
| `mwan3track` | agreement of policies, route and state file, and the refinement of `LinkDetector`, with lost signals | 100,000 |
| `mwan3track_live` | agreement of `STATUS` and `iface_state`; a healthy interface that keeps its tracker ends in service, a dead one out of it | 43,000 |
| `mwan3service` | exclusion, lasting stops, loaded interfaces tracked; no wait expires | 4,140,000 |
| `mwan3service_live` | calls and commands end, and monitors that were told to; no wait expires | 30,000 |
| `luci_uci` | what a save and its retry leave on the server, with calls refused and answers lost; the refinement of `LuciTable` | 129,000 |
| `luci_apply` | rollback, confirmation, the poll loop's pause, and that a dialog ends, with lost requests and replies | 27,000 |
| `luci_apply_kept` | violation: "applied" is shown for a configuration that was rolled back | |
| `luci_traffic` | each call gets its own answer once; the loop goes on, pauses and stops as it should | 18,000 |
| `luci_config` | references resolve, and a saved zone is what its form said | 352,000 |
| `parts` | the other parts of the pages, the SIMs, the DNS updaters and eco | 1,690,000 |

The passing properties, with the code each is about, are commented where they are
defined.  The ones that say most:

* `CountsExact`: the session counter is off by the stale logouts and the cleared
  sessions and nothing else, the nonce counter by nothing.  A stale logout widens
  the limit by one (`LimitWidensByStaleLogouts` is the limit the code does keep),
  a cleared session narrows it.
* `EvictsLastInactive`, `NoncePaysOnce`, `LockoutHolds`: action properties over
  all handlers.
* `ImplementsDetector`: the tracker's `score`, which is decremented, cut to 0,
  refilled, reset and compared with `up` in five places, behaves as "`Down` bad
  rounds in a row, `Up` good ones in a row", in every interleaving.
* `InServiceAgrees`: whenever the lock is free, policies, route and state file
  tell the same story, although late calls of killed trackers are among those
  that changed them.
* `VerdictFollowsLink`: once the link stays healthy (or dead) the interface gets
  into (or out of) service and stays there, as long as it is not `unwatched`: the
  tracker of `wan6` does not survive an ifup of `wan`, and then nothing changes its
  verdict until its own next ifup.  In between, killed trackers, their calls and
  new trackers come in every order.
* `Exclusive`: unlocking asks nobody's leave and `mwan3rtmon` also unlocks in a
  trap, so mutual exclusion is a property of all the callers together.
* `LoadedAreTracked`: between handlers, an interface with rules has its tracker, over
  stops, starts and orphaned calls; the exceptions are the three that `unwatched`
  names.
* `StopLasts`: handlers that queued before a stop, and those called after it, all
  find out in time.
* `SimsAgree`: among them `ToursSpaced`, that two failing SIMs are not switched a third
  time before the pause, from flags that no single script keeps.
* `SavedIsShown`: after a save and, if it failed, its retry, the server has what
  the page showed, under the names the replies gave.
* `UnconfirmedRollsBack`, `ConfirmedIsKept`, `ApplyEnds`: what the device runs,
  what the page says, and that both come to an end whichever messages are lost.
* `CallsAnswered`: the answers of a batch go to their calls by position, also
  when a batch is short, refused or fails.
* `RefsResolve`: renaming a zone in one page, deleting an interface in another.
* `FormUndoes`: an action property; dismissing a dialog restores every section
  and option it touched.
* `ListingsShown`: the file picker with an upload or a removal under way while the
  user goes on to other directories.
* `WirelessKept`: what is on, on radios that several networks share, and what the
  scan shows of stations that come and go.

### Bounds, and why they are enough

* `MAX_SESSION = 2` (5 in the code): below, at and above the limit are all
  reached; four sids allow one more session than the limit and one that is
  remembered but gone.  `MAX_NONCE` 0 or 1 with two nonces reaches the full nonce
  table and one above it, as the code's `> 5` allows.
* `session_timeout`, `NONCE_LIFE`, `login_fail_wait_time` of 0, 1 and 2 seconds
  with a timer up to a second late give every order of expiry, sweep and use.
* `MaxStale = 1`, `MaxClears = 2` bound client mistakes per daemon life, which
  `CountsExact` counts.
* `Up = Down = 3`, three hosts and reliability 2: a run of rounds can be broken
  in its first, middle and last round; some and too few hosts can answer.  Three
  calls: netifd's, the tracker's, and one left by a killed tracker.  The liveness
  run has two rounds, two hosts and two calls.  `MaxFlaps` 5 and 4 let a flap
  overtake an event not yet announced.
* `Mwan3Service`: two interfaces, one name a prefix of the other, two handlers
  and two monitors: a queue on the lock behind the command, and the race of two
  handlers to start a monitor.  The liveness run has one of each beside the
  command, all competing for the lock, and lets TERM come late (`LateFlag`).
* `LuciUci`: two stored sections, one added, three edits (enough for two layers
  to meet on one option, and a move across an addition), one refused call or lost
  answer and a retry.
* `LuciApply`: three seconds for each timer, so the page, rpcd and the token end
  in every order; three applies and three losses reach a confirmation that meets
  the next apply.
* `LuciTraffic`: two functions with intervals 1 and 2, `Modulus = 2` wraps the
  tick (2^32 in the code), one registration, throw and fault each.
* `LuciConfig`: two interfaces, two zones, three names (a rename needs a free
  one), one rule or route and one wifi-iface, four saves.
* `parts`: dozens of configurations of forms, widgets, tables and packages that
  differ in what the code asks about, and three to five events on each: enough to
  do, undo and overtake.  `DualSim`: two processes and three calls (to the other
  SIM, back, and the pause), `FailLimit = 2`.  `DdnsUpdater`: three updaters (the
  old, the new and one beside it), one retry.  `EcoSync`: three coroutines, four
  waits, a counter up to 2.
* Symmetry is used over sids and nonces, calls, hosts, handlers and monitors, only
  in runs without liveness.  The safety run of `Mwan3Track` checks the refinement
  too; it is a safety property that does not name a call or a host.

`CHECK_DEADLOCK FALSE` stands where the system may stop: a bound on edits or events
is used up (`luci_uci`, `luci_config`, `parts`).

### Fairness

`GlSession`: the clock ticks, uloop serves a due timer, a worker finishes its
request (weak fairness of `Tick`, `Sweep`, `RpcToken`).  Nothing is assumed of
clients or of procd, so `WaitsEnd` (lock-outs end, full nonce tables and idle
sessions clear) holds even if nobody calls the daemon again.

`Mwan3Track`: the scheduler lets every process run on (weak fairness of the
tracker, of each call's handler steps and of netifd's announcements).  Taking the
lock needs strong fairness: handlers of other interfaces take and release it in
between; a process that waits is let in by `timeout 10` at the latest, so it
cannot be passed over for ever.  Nothing is assumed of the network:
`VerdictFollowsLink` is conditional on it staying good or bad.

`Mwan3Service`: every process runs on (weak fairness), one that finds the lock
free again and again gets it, and the command finds a process for its hotplug
call (strong fairness, since handlers are few in the model and not in the
system).  Nothing is assumed of netifd and of users, so `RequestsEnd` does not
rely on anybody asking for more.

`LuciUci`: calls are served or fail, and the page's next step follows (`WF` of
`Calls` and of `Load`): a lost answer is a failed promise after the browser's
timeout.  `LuciApply`: the same for the page and the server, and time passes, so
rpcd's timer ends.  Nothing makes a user act or a message be lost.
`LuciTraffic`: the interval fires while it is set, the animation frame comes, a
batch is answered or fails and its reply is handled.  `parts` is safety only.

### What fails under other assumptions

Checked while choosing the constants, and kept as constants for this reason: with
`SignalMayMiss = TRUE`, `StatusAgrees` and the first half of `VerdictFollowsLink`
do not hold (a tracker that misses its signal keeps `online` with a full score and
never makes the `ifup` call); with `LateFlag = TRUE`, `Exclusive` does not hold (the trap frees the lock of another
process).  With `WaitsExpire = TRUE` `RequestsEnd` still holds, the safety
properties of `Mwan3Service` do not: a stop whose wait expired leaves a loaded
interface.

Without their exception for `unwatched`, both halves of `VerdictFollowsLink` and
`LoadedAreTracked` fail at once in the runs: the shipped `wan` and `wan6` are enough
for it, and so is a WAN with PPPoE.

### Where code and texts part

`luci_apply_kept` is a finding: 204 is what `action_confirm` answers when rpcd has
already rolled back, and the page takes it for success.  Others have no run of
their own:

* `connected` is announced before anything was probed (`etc/mwan3.user`:13);
  netifd's `ifdown` makes a tracker announce `disconnected` whatever its rounds
  said (`etc/mwan3.user`:14, "Is only called by mwan3track if tracking has
  failed").
* `mwan3 ifdown`, which is to "Unload rules and routes" (`usr/sbin/mwan3`:18),
  leaves the default route of an IPv4 interface, because the function that would
  delete it acts on `ipv6` only (mwan3.sh:593); `InServiceAgrees` says so.
* One logout of an absent sid makes `gl-ngx-session` admit one session too many
  (line 249); after `clear_session` the table can be "full" and empty, and `login`
  raises.
* `eco/sync.lua`:20 has `signal` wake one waiting coroutine; it may pick the
  watcher of one that has timed out (`SignalsWake` bounds the loss).  `done()`
  below zero raises and leaves the counter there.
* A mute modem is taken to use SIM 2 and set to 1, whatever was asked for.
* A reload of DNS with several sections has every updater start all of them.
  `FIRST_UPDATE` makes each start send, against `dynamic_dns_updater.sh`:308-310.
* zones.js:13-17: a change of networks is lost when the zone is renamed in the
  same save; two zones can get one name.  `renameNetwork` has no caller.
* `uci.js`: names come out wrong when one save deletes, adds and reorders
  (96-97); what is edited during a save is lost; a retry adds sections again.
* `form.js`: a refused save keeps its partial writes; dependencies are evaluated
  at most twice per event (57-59); cancelling leaves the section of rules.js:9 and
  wireless.js:176, which set `addedSection` on the wrong object.
* `network.js`: `deleteWifiNetwork` calls `uci.delete`, which does not exist
  (324), `isEmpty` passes a network where a section is meant (262), 309 and 333
  have misspelt names; anonymous sections get another's status after a removal.
* `opkg.js`: reloads that overlap are parsed into one list; a package whose name
  another one provides earlier is not entered under its own (91).
* The wireless page turns on a radio's other networks when one is enabled or added
  while the radio was off, though not when one is joined.
* An address field accepts some masks that are not contiguous (`MasksKept` names
  them) and shows another prefix.  A field of blanks keeps its last verdict.
* `resources/cbi.js` stores a table's order under an id that is never set; IPv6
  cells with hexadecimal letters sort as text.
* Classes in a circle of parallel requests wait for ever; one whose file was lost
  is never fetched again.  `super()` after an exception starts in the wrong place.

Properties that would deny one of these exclude it by a named history variable or
condition, and say so.

## 4. What is proved

All proofs are checked by TLAPS, for every value of the constants that satisfies
the assumptions in the modules (`SessionConstants`, `NilIsNoSid`,
`TrackConstants`, `ServiceConstants`, `ZidAssumption`, `NilAssumption`,
`TimesAssumption`, `IntervalAssumption`, `ModulusAssumption`, `MaxGenAssumption`,
`CallsAreEntries`, `LuciUci`'s `ValuesAssumption`, `NilAssumption`,
`NamesAssumption`, `IndexAssumption`, `InitialAssumption`, and `LuciPages`'
`FormAssumption`, `FilesAssumption`, `WirelessAssumption`) or in the theorem.

`GlSessionProofs`: `TypeCorrect`, `CountsCorrect`, `LimitCorrect`,
`TokensCorrect`, `ExpiryCorrect`, `EvictionCorrect`, `NonceOnceCorrect`,
`LockoutCorrect`, and `PoolRefined` (with `MaxStale = 0` and `MaxClears = 0`).

* Counting needs finiteness: the tables hold finitely many entries although `Sid`
  and `Nonce` may be infinite.  `TInv` says so beside `TypeOK`, and the lemmas on
  one element added or removed carry the counters through each action.
* The limit is tested with `==`, so `LimitWidensByStaleLogouts` is not inductive:
  `CountInv` adds `SessionCntBounded`, that the counter never passes the limit;
  with the exact count the limit follows.
* Expiry is not inductive either, since nothing in a deadline tells when the
  timer last ran.  `DeadlinesFollowTimer` ties each deadline to the timer's
  lateness.
* Most actions leave most of the state alone; `QuietSteps` says it once for all.
* `PoolRefined` maps `live` to the sids with a session; every action is an
  `Open`, a `Replace`, a `Close` or a stutter.

`Mwan3TrackProofs`: `TypeCorrect`, `InServiceCorrect`, `DetectorRefined`, and
`StatusCorrect` (with `SignalMayMiss = FALSE`).

* `ScoreInv` relates the score to `STATUS` at each place of the tracker; it is
  what makes the refinement mapping (`run` is the distance of the score from
  where it starts) step correctly at the boundaries.
* `LockInv` says that the call holding the lock is the only one past `Enter`;
  `ServiceInv` says what the three records are at each step of the handler that
  holds it, which makes `InServiceAgrees` inductive.
* Two steps end the tracker from outside (`Ending`); `EndingTracker` says once what
  that leaves, and the steps that leave the tracker alone are `Aside`.
* `StatusInv` has three parts: what holds until a new tracker has begun
  (`StartInv`), what `STATUS` is against `iface_state` while a signal is under
  way (`VerdictInv`), and what a pending call will do to both (`CallInv`).

`Mwan3ServiceProofs`: `ServiceTypeCorrect`, and, under `Quiet` (no wait expires,
no late flag), `ServiceExclusive`, `ServiceStopLasts` and
`ServiceLoadedAreTracked`.

* `Held` is mutual exclusion made inductive: who is in a section took the lock
  last.  A process takes the lock only when it is free, so nobody else is inside;
  every unlock, the trap's included, comes from whoever is inside.
* `Serving` follows `enabled` into the handlers: past its test a handler holds
  the lock, so `stop` cannot change the flag under it.
* `Watching` adds to `LoadedAreTracked` the handler between `Load` and `Track`
  and the stop between `Disable` and `Unload`.  A like-named ifup, `mwan3 ifdown` and
  `mwan3.user` only ever move interfaces from `tracked` to `unwatched`, and only
  `Track` and a stop take them out again; the last two act without the lock, so the
  invariant has to allow them at every step of somebody else's section.

`DaemonProofs` has the three small daemons, for any number of processes, calls,
updaters and coroutines: `SimsCorrect` (if the main SIM is 1 or 2),
`UpdatersCorrect` (if `Nil` is no PID) and `CoroutinesWakeCorrect`.

* `LockHeld` extends `OneDrives` to the moment between test and creation of the
  lock file, where `lockRaced` would notice a second one; with it `SlotKnown` is
  inductive.
* `ToursSpaced` speaks of a tour of several handlers.  `TourPlanned` says what the
  flags already know of it (`TourNoted`) and what a handler that has decided will
  add (`Planned`); `Alone`, that there is one such handler until `crossed`, keeps
  others from changing the flags between decision and switch.
* `ClaimsAlone`: while an updater is between ending the old one and writing the PID
  file everybody at work has been told to end.  `NobodyComes`: after a stop that
  missed nobody, none is on the way there, and none sets out while the service is
  off.
* For the coroutines the invariant adds to the property only that a counter below
  zero means misuse; the work is in the lists, whose indices shift at each signal
  (`DeadTail` counts the timed-out watchers of a list's tail by a bijection).

`LuciPageProofs`: `CallsAnsweredCorrect` and `LoopKeptCorrect` of `LuciTraffic`.

* `Ranked` and `PickedElements` say of any filtered sequence which elements it
  keeps and that each stands at one place: the queue, the checks and the answers
  of a batch are all cut that way, and what a recursive filter returns could not
  be proved.
* `CallsInv` has each call where its status says and nowhere else (`CallsPlaced`:
  in the queue, in one batch, or waiting for the check of its session), and ties
  the answers of a batch to its calls by position (`RepliesFit`: short only after a
  fault).
* `LoopInv` is the list (no entry twice), the timer (no interval without a tick,
  no tick in a paused loop) and the promises (`ReadyInv`: an entry that is not
  ready has a call under way, unless it threw).

And `FormUndoesCorrect`, `ListingsCorrect` and `WirelessCorrect` of `LuciPages`, for
any forms, fields, dependencies, sections, directories, files, radios, networks and
stations.  The assumptions are the code's: fields are numbered as declared, a new
section has a name of its own, every directory but the first is in the one above,
and sections of the wireless configuration differ in their names.

* A form: `FInv` says of an open dialog under which nothing was loaded that it knows
  what it did: it edited a section, in which only a save that was refused has left
  anything (`Edits`), or added one at the end (`Adds`).  Taking that section out
  again gives the order there was (`OthersOfAppend`); it gives the options there
  were because a section outside the order has none (`Clean`), which every edit,
  drag, sort and load keeps.  Passes over fields and moves of rows are recursive
  functions; `Recursion` shows by a smallest counterexample that such a function
  exists and `StepByStep` that it stays where each step stays.
* The file picker: `OneAsk` (one request for a listing, and none while a change is
  under way) makes `AtRest` inductive; `ChangeKnown` carries what `handleDelete`
  tested to the moment the router removes the entry, so that it is never the
  value; `PickedKnown` needs that a directory that goes takes its files along.
* The wireless page: `FreeName` shows that `next_free_sid` finds a name (there are
  more numbers than sections), and `NamesGiven` that a migration gives no name
  twice, for each search starts above the last one; then who is on can be followed
  through sections that are renamed, appended, cut and filtered.  `WScan` ties the
  rows of the scan to the cache and to the last answer.

`LuciUciProofs`: `EditsCorrect`, `SaveCorrect` and `TableRefined`, for any sections,
options and values, any number of edits and saves, and calls that are refused, lost or
answered late in any number.  The assumptions are those of the code: `createSID` makes
names that no stored section has, rpcd makes none (`cfg` and six hexadecimal digits)
that a section of the file or of the user's choice has, and a package has fewer than
the 1000 sections (`FirstNewIndex`) below which the indexes of loaded sections lie.

* `IInv` is inductive.  Beside the types it has what each half of the page owes the
  other: `ServerInv` (a section has options exactly if it has one place in the
  order, and the answer under way is the server's state), `LoadedInv` and
  `CreatedInv` (sections are told apart by the place they were loaded from and by
  when they were made, and a new one stands for a stored one only if that was
  removed), `PageInv` and `WaitingInv` (what a page without its package can have
  under way), `IndexInv` and `MirrorInv`.
* An index is shared after a move that throws halfway, so `IndexInv` speaks only of
  a copy that is `Settled`: there every section is found by its own name, a move
  reaches all of them, and its positions are the new indexes (`MoveSeen`).  The
  indexes of new sections stay above all others because at most `newidx` of them
  and at most `FirstNewIndex` loaded ones can be listed (`ListedCounted`).
* `Ranked` says of any finite set with a total order that counting the smaller
  elements numbers it; the sorted sections and the calls that add sections are
  lists of that kind.  `OrderedKeeps` says that rpcd's reordering loses no section
  and doubles none, for orders of any length: the recursion is unfolded by a
  smallest counterexample.
* `SaveCorrect` compares the server at the end of a save with the page at its start.
  Its invariant `SInv` gives the account of the batch after any number of its calls,
  in whatever order its sets were listed.  `TasksTell`: the calls are those of the
  pending edits, each once, deletions before additions before changes, additions by
  age.  `NamesTell`: the page still shows what it showed, and the replies are the
  names of the added sections.  `DeliveredInv`: what rpcd has is the loaded sections
  not removed so far and the added ones, with the options of the calls so far.
  `RemovesInv` needs none of this to hold: what the page still lists is stored,
  which is why a retry loses nothing.
* The order of a save comes about in three stages, each with its part of `OrderInv`.
  In the batch, loaded sections keep their order and added ones follow by age
  (`AddedInOrder`); that is the page's order if nothing was moved (`PlainInv`,
  `StoredSorted`).  If something was, `OrderListed` shows that the names sent are the
  shown sections in order, which takes `PatchedNames`: the i-th new section has the
  i-th reply only if nothing was deleted.  `OrderedFollows` shows that rpcd's moves to
  the next place from the front leave the sections in the order of the names, those
  it does not know skipped.  `OneListing` ends it: a set has one listing in one order.
* `TableRefined` maps each edit to `Set`, `Add` or `Remove` of one row, reload and
  load to `Drop` and `Load`, and everything else to a stutter: reading a whole
  section, moving sections and patching their names change no option that is read.

`LuciConfigProofs`: `RefsCorrect` and `ZoneCorrect`.  `IInv` is the types and the
references.  A rename is injective on the names in use because the new one is
unused; the lemmas say what each helper of firewall.js does to the names, once.
`ZoneSaved` follows the dialog of a zone through one save: the forwardings written
out and then in are those that were chosen (`ForwardsChosen`), the rename that
comes after takes them along (`ChosenRenamed`), and the field that looks the zone
up by the name it had finds nothing then (`LookupUnique`).

`LuciApplyProofs`: `RollbackCorrect`, `ConfirmedCorrect`, `PollingCorrect`.
`DeviceInv` adds that nothing is staged while a rollback is pending;
`ConfirmedOnWire` follows a 200 from rpcd to the page; `StoppedOnce` says that only
a dialog that was closed starts the loop again.

Only model-checked: the liveness properties (the prover does not handle fairness
and `ENABLED`), `PackagesPlanned`, `ClassesFound`, `WidgetsAgree` and `FormSaves`.
The first three compare recursive operators (plans, classes, sort keys, addresses,
data types) with references over concrete packages, graphs, tables and texts, which
takes induction over data.  `FormSaves` is not true of all constants: two passes of
`checkDepends` settle the forms given here, and not one whose dependencies go
deeper than its order of fields allows.  The type invariants of `GlSession`, `Mwan3Track` and `Mwan3Service` are
proved and take no run; those of `LuciUci` and `LuciTraffic` are conjuncts of
`EditsAgree` and `CallsAnswered`.

## 5. Not modelled

* VPN client routing, policy and kill switch (`route_policy`, `21-vpnpolicy`,
  `apply_killswitch`, the wireguard and openvpn scripts): the order in which they
  run is decided by compiled RPC modules that are not in the repository.
* The modem manager and modem recovery: polling of AT commands and a cloud.
* System upgrade, preinit, boot, `lib/netifd`, procd helpers, the other start
  scripts, `fw4`: OpenWrt's own, sequential, with effects outside any state that a
  model could hold; they are modelled from their use where a modelled part needs
  them.
* OUI's RPC modules: compiled or obfuscated.
* LuCI's status and system pages, menus and the server side in Lua other than
  apply and confirm: read-only views, or thin wrappers around one call each.
* Third-party Lua and JavaScript, images, package lists.

Left out of modelled parts: in mwan3, masks and probabilities of policies and the
state directories that `stop` removes after its unlock; in nginx's workers,
everything but sessions; in the forms, defaults that depend on other fields,
stacked dialogs, two saves at once and text-only widgets; in the software page, the
editor of its configuration and translations that it suggests; in the file picker,
rows that are redrawn while their removal is on its way; in the tabs, circles of
dependencies, on which the code does not end; in the list widgets, the text of a
plain list that has not been added.

`PROJECT.json` lists the forty hazards that weigh most, each with its line and the
properties that watch it; others are named in the comments of the properties.

## 6. Running

    for run in GlSession Mwan3Track Mwan3TrackLive Mwan3Service Mwan3ServiceLive; do
      tlc -workers 2 -config $run.cfg MC${run%Live}; done
    tlc -workers 2 -config GlSessionPool.cfg MCGlSession
    tlc -workers 2 -config LuciUci.cfg MCLuciUci
    tlc -workers 2 -config LuciTraffic.cfg MCLuciTraffic
    tlc -workers 2 -config LuciApply.cfg LuciApply
    tlc -workers 2 -config LuciApplyKept.cfg LuciApply     # finds its violation
    tlc -workers 2 -config LuciConfig.cfg LuciConfig
    tlc -workers 2 -config Parts.cfg MCParts
    for proofs in *Proofs.tla; do tlapm $proofs; done

`PROJECT.json` lists the runs with their configurations, the definitions with the
source lines they model, the faulty variants, the hazards and the findings.
