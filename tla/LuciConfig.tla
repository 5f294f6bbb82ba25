----------------------------- MODULE LuciConfig -----------------------------
(***************************************************************************)
(* What the pages for interfaces, zones and wireless do to the sections    *)
(* that name one another in four packages: network, wireless, dhcp and     *)
(* firewall (resources/network.js, firewall.js and their callers).  A      *)
(* network is a section and its name; a zone is a section with an option   *)
(* `name', which forwardings and rules refer to.  Everything is read and   *)
(* written in the page's copy.  What a handler does after its packages are *)
(* there runs to its end in one turn of the browser's event loop, in the   *)
(* order its promises were made; only deleteNetwork may wait for a package *)
(* of another page.                                                        *)
(***************************************************************************)
EXTENDS Naturals, FiniteSets, FiniteSetsExt

CONSTANTS
  Net,        \* names of interfaces
  Zid,        \* zone sections, numbers in file order
  ZoneName,
  Rid, Wid,   \* routes (aliases, rules), and wifi-ifaces
  MaxSteps, Nil

ASSUME ZidAssumption == Zid \subseteq Nat
ASSUME NilAssumption == Nil \notin Zid \cup [name : ZoneName, nets : SUBSET Net]

VARIABLES
  ifaces,     \* network: the interface sections
  routes,     \* network: what alias, route and rule sections name
  dhcp,       \* dhcp: the interfaces that have a section
  wifi,       \* wireless: option network of each wifi-iface
  zones,      \* firewall: [name, nets] of each zone, Nil if there is none
  forwards,   \* firewall: the forwardings, pairs of names
  rules,      \* firewall: src and dest of the rules and redirects
  deleting,   \* deleteNetwork calls that wait for their packages
  steps,      \* bound
  last        \* history: what the last save of a zone was asked for

network == <<ifaces, routes, dhcp, wifi>>
firewall == <<zones, forwards, rules>>
vars == <<network, firewall, deleting, steps, last>>

-----------------------------------------------------------------------------
(* firewall.js                                                             *)

Named(zs, name) == {z \in Zid : zs[z] # Nil /\ zs[z].name = name}
lookupZone(zs, name) == IF Named(zs, name) = {} THEN Nil ELSE Min(Named(zs, name))
getZoneByNetwork(n) ==
  LET with == {z \in Zid : zones[z] # Nil /\ n \in zones[z].nets}
  IN IF with = {} THEN Nil ELSE Min(with)

(* A new section gets the number z, unless the zone is there.              *)
addZone(zs, name, z) ==
  IF lookupZone(zs, name) # Nil THEN zs
  ELSE [zs EXCEPT ![z] = [name |-> name, nets |-> {}]]
MayAdd(zs, name, z) == name # Nil => lookupZone(zs, name) # Nil \/ zs[z] = Nil

(* Zone.addNetwork and deleteNetwork; the option is unset when empty.      *)
addNetwork(zs, z, n, is) ==
  IF n \in is THEN [zs EXCEPT ![z].nets = @ \cup {n}] ELSE zs
deleteNetwork(zs, n) ==
  [z \in Zid |-> IF zs[z] = Nil THEN Nil ELSE [zs[z] EXCEPT !.nets = @ \ {n}]]

(* The chosen zone is made if it is new, and gets the interface.           *)
WithZone(zs, name, z) == IF name = Nil THEN zs ELSE addZone(zs, name, z)
PutInto(zs, name, n, is) ==
  LET target == lookupZone(zs, name)
  IN IF target = Nil THEN zs ELSE addNetwork(zs, target, n, is)

(* renameZone in zones, forwardings and rules; not to a name in use.       *)
Renames(zs, old, new) == old # new /\ lookupZone(zs, new) = Nil /\ Named(zs, old) # {}
Rename(x, old, new) == IF x = old THEN new ELSE x
RenamedZones(zs, old, new) ==
  [z \in Zid |-> IF zs[z] = Nil THEN Nil ELSE [zs[z] EXCEPT !.name = Rename(@, old, new)]]
RenamedEnds(f, old, new) == [src |-> Rename(f.src, old, new), dest |-> Rename(f.dest, old, new)]
RenamedRules_SrcOnly(rs, old, new) ==
  [r \in DOMAIN rs |-> IF rs[r] = Nil THEN Nil ELSE [rs[r] EXCEPT !.src = Rename(@, old, new)]]
RenamedRules(rs, old, new) ==
  [r \in DOMAIN rs |-> IF rs[r] = Nil THEN Nil ELSE RenamedEnds(rs[r], old, new)]

(* deleteZone: with it goes what has its name at either end.               *)
Mentions(f, name) == f.src = name \/ f.dest = name
deleteZone(z) ==
  LET name == zones[z].name
  IN /\ zones' = [zones EXCEPT ![z] = Nil]
     /\ forwards' = {f \in forwards : ~Mentions(f, name)}
     /\ rules' = [r \in Rid |-> IF rules[r] # Nil /\ Mentions(rules[r], name)
                                THEN Nil ELSE rules[r]]

(* addForwardingTo and addForwardingFrom: between two zones there are, one *)
(* each.  `end' is the end that is the zone being edited.                  *)
Forwarding(end, name, other) ==
  IF end = "src" THEN [src |-> name, dest |-> other] ELSE [src |-> other, dest |-> name]
Far(end, f) == IF end = "src" THEN f.dest ELSE f.src
Near(end, f) == IF end = "src" THEN f.src ELSE f.dest

(* The write of the fields `out' and `in': forwardings not chosen go, the  *)
(* chosen ones are added.                                                  *)
WriteForwards_AddsOnly(fs, zs, name, end, chosen) ==
  fs \cup {Forwarding(end, name, other) : other \in
              {o \in chosen : lookupZone(zs, o) # Nil /\ o # name}}
WriteForwards(fs, zs, name, end, chosen) ==
  {f \in fs : Near(end, f) = name => Far(end, f) \in chosen}
    \cup {Forwarding(end, name, other) : other \in
            {o \in chosen : lookupZone(zs, o) # Nil /\ o # name}}
Chosen(fs, name, end) == {Far(end, f) : f \in {g \in fs : Near(end, g) = name}}

-----------------------------------------------------------------------------
(* The zones page.  The fields of the dialog are written in their order    *)
(* and those that did not change are skipped.  A new zone gets its name at *)
(* once; renameZone runs after the last field was written, and before      *)
(* getZone of the field `network' looks for the old name.                  *)

Step == steps < MaxSteps /\ steps' = steps + 1

(* The zone that the field `network' finds when it comes to assigning.     *)
Target(zs, z, old) == lookupZone(zs, old)

Assigned(zs, target, nets) ==
  IF target = Nil THEN zs ELSE [zs EXCEPT ![target].nets = nets]

SaveZone(z, form) ==
  LET new == zones[z] = Nil
      opened == IF new THEN [zones EXCEPT ![z] = [name |-> form.name, nets |-> {}]]
                ELSE zones
      name == opened[z].name
      cleared == IF form.nets = {} THEN [opened EXCEPT ![z].nets = {}] ELSE opened
      out == WriteForwards(forwards, cleared, name, "src", form.out)
      both == WriteForwards(out, cleared, name, "dest", form.in)
      renames == Renames(cleared, name, form.name)
      named == IF renames THEN RenamedZones(cleared, name, form.name) ELSE cleared
      rewrite == form.nets # opened[z].nets /\ form.nets # {}
  IN /\ Step
     /\ ifaces' = IF rewrite THEN ifaces \cup form.nets ELSE ifaces
     /\ zones' = IF rewrite THEN Assigned(named, Target(named, z, name), form.nets)
                 ELSE named
     /\ forwards' = IF renames THEN {RenamedEnds(f, name, form.name) : f \in both} ELSE both
     /\ rules' = IF renames THEN RenamedRules(rules, name, form.name) ELSE rules
     /\ last' = [zone |-> z, form |-> form, unique |-> Named(opened, name) = {z},
                 wasNamed |-> name, had |-> opened[z].nets]
     /\ UNCHANGED <<routes, dhcp, wifi, deleting>>

RemoveZone(z) ==
  /\ zones[z] # Nil /\ Step
  /\ deleteZone(z)
  /\ last' = Nil
  /\ UNCHANGED <<network, deleting>>

(* A rule or redirect made in a form: any of the zones at its ends.        *)
AddRule(r, src, dest) ==
  /\ rules[r] = Nil /\ Step
  /\ lookupZone(zones, src) # Nil /\ lookupZone(zones, dest) # Nil
  /\ rules' = [rules EXCEPT ![r] = [src |-> src, dest |-> dest]]
  /\ last' = Nil
  /\ UNCHANGED <<network, zones, forwards, deleting>>

-----------------------------------------------------------------------------
(* The interfaces page                                                     *)

AddInterface(n) ==
  /\ n \notin ifaces /\ Step
  /\ ifaces' = ifaces \cup {n}
  /\ last' = Nil
  /\ UNCHANGED <<routes, dhcp, wifi, firewall, deleting>>

(* The field `_zone': out of the first zone that has the interface, into   *)
(* the chosen one, which is made if it is new.                             *)
SaveInterfaceZone(n, name, z) ==
  LET old == getZoneByNetwork(n)
      left == IF old = Nil THEN zones ELSE [zones EXCEPT ![old].nets = @ \ {n}]
  IN /\ n \in ifaces /\ MayAdd(zones, name, z) /\ Step
     /\ (old # Nil => zones[old].name # name)
     /\ zones' = PutInto(WithZone(left, name, z), name, n, ifaces)
     /\ last' = Nil
     /\ UNCHANGED <<network, forwards, rules, deleting>>

AddRoute(r, n) ==
  /\ routes[r] = Nil /\ n \in ifaces /\ Step
  /\ routes' = [routes EXCEPT ![r] = n]
  /\ last' = Nil
  /\ UNCHANGED <<ifaces, dhcp, wifi, firewall, deleting>>
AddDhcp(n) ==
  /\ n \in ifaces \ dhcp /\ Step
  /\ dhcp' = dhcp \cup {n}
  /\ last' = Nil
  /\ UNCHANGED <<ifaces, routes, wifi, firewall, deleting>>

(* deleteNetwork: everything that names the interface, then the zones.     *)
RemoveInterface(n) ==
  /\ n \in ifaces \ deleting /\ Step
  /\ deleting' = deleting \cup {n}
  /\ last' = Nil
  /\ UNCHANGED <<network, firewall>>
Unrouted(n) == [r \in Rid |-> IF routes[r] = n THEN Nil ELSE routes[r]]
Detached(n) == [w \in Wid |-> wifi[w] \ {n}]
PackagesThere(n) ==
  /\ n \in deleting
  /\ deleting' = deleting \ {n}
  /\ IF n \in ifaces
     THEN /\ ifaces' = ifaces \ {n}
          /\ routes' = Unrouted(n)
          /\ wifi' = Detached(n)
          /\ dhcp' = dhcp \ {n}
          /\ zones' = deleteNetwork(zones, n)
     ELSE UNCHANGED <<network, zones>>
  /\ last' = Nil
  /\ UNCHANGED <<forwards, rules, steps>>

-----------------------------------------------------------------------------
(* The wireless page.  Its field `network' makes networks it does not find *)
(* and hangs the device in; joining takes the new network out of its zones *)
(* and puts it into the chosen one.                                        *)

SaveWifi(w, nets) ==
  /\ nets # wifi[w] /\ Step
  /\ ifaces' = ifaces \cup nets
  /\ wifi' = [wifi EXCEPT ![w] = nets]
  /\ last' = Nil
  /\ UNCHANGED <<routes, dhcp, firewall, deleting>>

JoinWifi(w, n, name, z) ==
  /\ \A v \in Wid : n \notin wifi[v]
  /\ MayAdd(zones, name, z) /\ Step
  /\ ifaces' = ifaces \cup {n}
  /\ wifi' = [wifi EXCEPT ![w] = {n}]
  /\ zones' = PutInto(WithZone(deleteNetwork(zones, n), name, z), name, n, ifaces')
  /\ last' = Nil
  /\ UNCHANGED <<routes, dhcp, forwards, rules, deleting>>

-----------------------------------------------------------------------------
Init ==
  /\ ifaces = {} /\ routes = [r \in Rid |-> Nil] /\ dhcp = {}
  /\ wifi = [w \in Wid |-> {}] /\ zones = [z \in Zid |-> Nil]
  /\ forwards = {} /\ rules = [r \in Rid |-> Nil]
  /\ deleting = {} /\ steps = 0 /\ last = Nil

(* What the dialog offers: names of zones other than its own.              *)
Others(z) == {zones[y].name : y \in {x \in Zid : zones[x] # Nil}}
               \ (IF zones[z] = Nil THEN {} ELSE {zones[z].name})
Forms(z) == [name : ZoneName, nets : SUBSET Net, out : SUBSET Others(z), in : SUBSET Others(z)]

Next ==
  \/ \E z \in Zid : RemoveZone(z) \/ \E form \in Forms(z) : SaveZone(z, form)
  \/ \E r \in Rid, a, b \in ZoneName : AddRule(r, a, b)
  \/ \E n \in Net :
       \/ AddInterface(n) \/ RemoveInterface(n) \/ PackagesThere(n) \/ AddDhcp(n)
       \/ \E r \in Rid : AddRoute(r, n)
       \/ \E name \in ZoneName \cup {Nil}, z \in Zid :
            SaveInterfaceZone(n, name, z) \/ \E w \in Wid : JoinWifi(w, n, name, z)
  \/ \E w \in Wid, nets \in SUBSET Net : SaveWifi(w, nets)

Spec == Init /\ [][Next]_vars

-----------------------------------------------------------------------------
ZoneNames == {zones[z].name : z \in {x \in Zid : zones[x] # Nil}}
Ends(f) == {f.src, f.dest}

(* No section names what is not there: routes, DHCP servers, wifi-ifaces   *)
(* and zones name interfaces, forwardings and rules name zones, and no     *)
(* forwarding leads from a zone to itself, whatever pages delete, rename   *)
(* and move, in four packages at once.                                     *)
RefsResolve ==
  /\ \A r \in Rid : routes[r] \in ifaces \cup {Nil}
  /\ dhcp \subseteq ifaces
  /\ \A w \in Wid : wifi[w] \subseteq ifaces
  /\ \A z \in Zid : zones[z] # Nil => zones[z].nets \subseteq ifaces
  /\ \A f \in forwards : Ends(f) \subseteq ZoneNames /\ f.src # f.dest
  /\ \A r \in Rid : rules[r] # Nil => Ends(rules[r]) \subseteq ZoneNames

(* A saved dialog leaves the zone as it was filled in.  Two things get     *)
(* lost without a word: a name that another zone has, and, when a zone is  *)
(* renamed, a change of its networks, because its old name is looked up    *)
(* after the renaming.                                                     *)
ZoneSaved ==
  (last # Nil /\ last.unique) =>
    LET z == last.zone
        form == last.form
        name == zones[z].name
        renamed == name # last.wasNamed
    IN /\ name \in {form.name, last.wasNamed}
       /\ name # form.name => \E y \in Zid \ {z} : zones[y] # Nil /\ zones[y].name = form.name
       /\ zones[z].nets = IF renamed /\ form.nets # {} THEN last.had ELSE form.nets
       /\ Chosen(forwards, name, "src") = form.out
       /\ Chosen(forwards, name, "dest") = form.in
=============================================================================
