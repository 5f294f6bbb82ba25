---------------------------- MODULE LuciNetwork ----------------------------
(***************************************************************************)
(* How the wireless page finds things (resources/network.js): its copy of  *)
(* the configuration names a wifi-iface by its section, the runtime state  *)
(* netifd reports names it by interface and by section, or, if the section *)
(* is anonymous, by its index among the sections, and a "netid" counts the *)
(* sections of a radio.  The runtime state is loaded in two stages and is  *)
(* older than the copy as soon as the page edits.                          *)
(***************************************************************************)
EXTENDS Integers, SequencesExt, FiniteSetsExt

CONSTANTS
  Radio, Net,
  Bridged,    \* networks that are bridges: their device is not a wifi
  Start,      \* configurations to start from
  Fresh,      \* names for sections the page adds
  MaxSteps, MaxLoads, Nil

VARIABLES
  ifs,        \* the page's wifi-iface sections in order: [sid, device, anon, nets]
  live,       \* external: what netifd reports, [radios, dev]
  state,      \* _state
  loads,      \* loads of the state under way, the first of them _init
  wrote,      \* history: the last write of a field `network'
  steps

vars == <<ifs, live, state, loads, wrote, steps>>

At(cfg, sid) == {i \in DOMAIN cfg : cfg[i].sid = sid}
OfRadio(cfg, r) == SelectSeq(cfg, LAMBDA s : s.device = r)

-----------------------------------------------------------------------------
(* netifd: interfaces of the radios that are up, in order.  `of' and       *)
(* `sids' are history.                                                     *)
Ref(cfg, sid) ==
  LET i == CHOOSE k \in At(cfg, sid) : TRUE
  IN IF cfg[i].anon THEN [at |-> i, name |-> Nil] ELSE [at |-> 0, name |-> sid]
Report(cfg, up) ==
  LET ifaces(r) == IF r \notin up THEN << >>
                   ELSE [i \in DOMAIN OfRadio(cfg, r) |->
                           [section |-> Ref(cfg, OfRadio(cfg, r)[i].sid),
                            ifname |-> <<"wlan", r, i>>, of |-> OfRadio(cfg, r)[i].sid]]
      of(n) == {<<r, i>> \in Radio \X (1..Len(cfg)) :
                  r \in up /\ i <= Len(OfRadio(cfg, r)) /\ n \in OfRadio(cfg, r)[i].nets}
  IN [radios |-> [r \in Radio |-> ifaces(r)],
      sids |-> {cfg[i].sid : i \in DOMAIN cfg},
      dev |-> [n \in Net |->
                 IF n \in Bridged THEN <<"br", n, 0>>
                 ELSE IF Cardinality(of(n)) # 1 THEN Nil
                 ELSE LET o == CHOOSE x \in of(n) : TRUE IN <<"wlan", o[1], o[2]>>]]

-----------------------------------------------------------------------------
(* Lookups                                                                 *)

(* uci.get of a section by name or by index.                               *)
Resolve(ref) ==
  IF ref.name # Nil THEN IF At(ifs, ref.name) # {} THEN ref.name ELSE Nil
  ELSE IF ref.at \in DOMAIN ifs THEN ifs[ref.at].sid ELSE Nil
Section(sid) == ifs[CHOOSE i \in At(ifs, sid) : TRUE]

Reported == {<<r, i>> \in Radio \X (1..5) : i \in DOMAIN state.radios[r]}
Iface(p) == state.radios[p[1]][p[2]]

(* The first interface reported for a section; none for a section that has *)
(* a name by now and is reported by index.                                 *)
getWifiStateBySid(sid) ==
  LET mine == {p \in Reported : Resolve(Iface(p).section) = sid}
  IN IF mine = {} THEN Nil
     ELSE LET p == CHOOSE x \in mine : \A y \in mine : x[1] = y[1] => x[2] <= y[2]
          IN IF ~Section(sid).anon /\ Iface(p).section.name = Nil THEN Nil ELSE Iface(p)
getWifiStateByIfname(ifname) ==
  LET mine == {p \in Reported : Iface(p).ifname = ifname}
  IN IF mine = {} THEN Nil ELSE Iface(CHOOSE p \in mine : TRUE)

getWifiNetidBySid(sid) ==
  LET r == Section(sid).device
  IN <<"netid", r, CHOOSE i \in DOMAIN OfRadio(ifs, r) : OfRadio(ifs, r)[i].sid = sid>>
getWifiSidByNetid(id) ==
  IF id[1] = "netid" /\ id[3] \in DOMAIN OfRadio(ifs, id[2])
  THEN OfRadio(ifs, id[2])[id[3]].sid ELSE Nil
getWifiNetidByNetname(n) ==
  LET with == {i \in DOMAIN ifs : n \in ifs[i].nets}
  IN IF with = {} THEN Nil ELSE getWifiNetidBySid(ifs[Min(with)].sid)

(* By netid, or as the runtime state has it: then by index perhaps.        *)
getWifiSidByIfname(name) ==
  IF getWifiSidByNetid(name) # Nil THEN [at |-> 0, name |-> getWifiSidByNetid(name)]
  ELSE IF getWifiStateByIfname(name) # Nil THEN getWifiStateByIfname(name).section
  ELSE Nil
WifiOf(name) ==
  LET ref == getWifiSidByIfname(name) IN IF ref = Nil THEN Nil ELSE Resolve(ref)

(* WifiNetwork.getIfname and Device.getName                                *)
getIfname(sid) ==
  IF getWifiStateBySid(sid) # Nil THEN getWifiStateBySid(sid).ifname
  ELSE getWifiNetidBySid(sid)

(* Protocol.getIfname, containsDevice, Device.getNetworks                  *)
NetIfname(n) == IF state.dev[n] # Nil THEN state.dev[n] ELSE getWifiNetidByNetname(n)
containsDevice(n, name) == WifiOf(name) # Nil /\ n \in Section(WifiOf(name)).nets
getNetworks(name) == {n \in Net : containsDevice(n, name) \/ NetIfname(n) = name}

-----------------------------------------------------------------------------
(* The page                                                                *)

Step == steps < MaxSteps /\ steps' = steps + 1

(* The field `network': the device of the section, its networks, then      *)
(* addDevice and deleteDevice for the difference.                          *)
Rewritten(sid, values) ==
  LET name == getIfname(sid)
      old == getNetworks(name)
      target == WifiOf(name)
  IN [i \in DOMAIN ifs |-> IF ifs[i].sid # target THEN ifs[i]
        ELSE [ifs[i] EXCEPT !.nets = (@ \cup (values \ old)) \ (old \ values)]]
WriteNetworks(sid, values) ==
  /\ state # Nil /\ At(ifs, sid) # {} /\ values # Section(sid).nets /\ Step
  /\ wrote' = [sid |-> sid, values |-> values, before |-> ifs,
               running |-> {n \in Net : state.dev[n] = getIfname(sid)}]
  /\ ifs' = Rewritten(sid, values)
  /\ UNCHANGED <<live, state, loads>>

AddSection(r, sid) ==
  /\ At(ifs, sid) = {} /\ Step
  /\ ifs' = Append(ifs, [sid |-> sid, device |-> r, anon |-> FALSE, nets |-> {}])
  /\ wrote' = Nil
  /\ UNCHANGED <<live, state, loads>>
RemoveSection(sid) ==
  /\ At(ifs, sid) # {} /\ Step
  /\ ifs' = SelectSeq(ifs, LAMBDA s : s.sid # sid)
  /\ wrote' = Nil
  /\ UNCHANGED <<live, state, loads>>

(* The page's configuration becomes the router's.                          *)
Apply(up) ==
  /\ Step
  /\ live' = Report(ifs, up)
  /\ wrote' = Nil
  /\ UNCHANGED <<ifs, state, loads>>

-----------------------------------------------------------------------------
(* initNetworkState: a refresh joins a load whose calls are still out; but *)
(* one that waits for the hostapd objects is no longer _init, and the last *)
(* to end is the state, be it the older one.  A failed call counts as one  *)
(* without an answer: no load fails.                                       *)
Unknown == [radios |-> [r \in Radio |-> << >>], sids |-> {}, dev |-> [n \in Net |-> Nil]]
Calling == {l \in DOMAIN loads : loads[l] = Nil}
Refresh ==
  /\ Calling = {} /\ Len(loads) < MaxLoads
  /\ loads' = Append(loads, Nil)
  /\ UNCHANGED <<ifs, live, state, wrote, steps>>
CallsAnswer(l) ==
  /\ l \in Calling
  /\ \E got \in {live, [live EXCEPT !.radios = Unknown.radios]} :
       loads' = [loads EXCEPT ![l] = got]
  /\ UNCHANGED <<ifs, live, state, wrote, steps>>
HostapdListed(l) ==
  /\ loads[l] # Nil
  /\ state' = loads[l]
  /\ loads' = RemoveAt(loads, l)
  /\ UNCHANGED <<ifs, live, wrote, steps>>

-----------------------------------------------------------------------------
Init ==
  /\ ifs = << >> /\ live = Unknown /\ state = Nil /\ loads = << >>
  /\ wrote = Nil /\ steps = 0
Open(cfg) ==
  /\ ifs = << >> /\ steps = 0
  /\ ifs' = cfg /\ live' = Report(cfg, Radio)
  /\ UNCHANGED <<state, loads, wrote, steps>>

Page ==
  \/ \E sid \in {ifs[i].sid : i \in DOMAIN ifs} :
       RemoveSection(sid) \/ \E values \in SUBSET Net : WriteNetworks(sid, values)
  \/ \E r \in Radio, sid \in Fresh : AddSection(r, sid)
  \/ \E up \in SUBSET Radio : Apply(up)
Next ==
  \/ \E cfg \in Start : Open(cfg)
  \/ ifs # << >> /\ (Page \/ Refresh \/ \E l \in DOMAIN loads : CallsAnswer(l) \/ HostapdListed(l))

Spec == Init /\ [][Next]_vars

-----------------------------------------------------------------------------
(* A section's row shows the status of its own interface, whatever the     *)
(* page added or removed since the state was loaded: a section with a name *)
(* always, an anonymous one unless a section was removed, when the indexes *)
(* the state has belong to others.                                         *)
StatusIsOwn ==
  state # Nil =>
    \A i \in DOMAIN ifs : LET shown == getWifiStateBySid(ifs[i].sid) IN
      shown # Nil /\ shown.of # ifs[i].sid =>
        ifs[i].anon /\ \E sid \in state.sids : At(ifs, sid) = {}

(* Writing the networks of a wifi-iface never touches those of another,    *)
(* although it goes by way of the interface's name and that may be another *)
(* section's.                                                              *)
OthersUntouched ==
  wrote # Nil =>
    \A i \in DOMAIN ifs : ifs[i].sid # wrote.sid => ifs[i] = wrote.before[i]

(* And the section is in the networks chosen.  A network that the state    *)
(* says runs on the very interface counts as chosen before, though the     *)
(* page took it out since: it is not added again.                          *)
NetworksTaken ==
  wrote # Nil =>
    LET taken == Section(wrote.sid).nets
        had == wrote.before[CHOOSE i \in At(wrote.before, wrote.sid) : TRUE].nets
    IN /\ taken \subseteq wrote.values
       /\ \A n \in wrote.values \ taken :
            n \in wrote.running \ had
=============================================================================
