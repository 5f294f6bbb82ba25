------------------------- MODULE LuciConfigProofs -------------------------
(***************************************************************************)
(* Proofs that no page leaves a reference behind (LuciConfig's             *)
(* RefsResolve) and that the dialog of a zone saves what was filled in     *)
(* (ZoneSaved), for any number of interfaces, zones, routes and wifi-      *)
(* ifaces.  The first is inductive together with the types, and the second *)
(* follows from it one save at a time; the work is in what the operations  *)
(* of firewall.js do to the names of the zones.                            *)
(***************************************************************************)
EXTENDS LuciConfig, WellFoundedInduction, TLAPS

Zone == [name : ZoneName, nets : SUBSET Net]
Pair == [src : ZoneName, dest : ZoneName]

ZonesTyped(zs) == zs \in [Zid -> Zone \cup {Nil}]
NamesIn(zs) == {zs[z].name : z \in {x \in Zid : zs[x] # Nil}}
NetsIn(zs, is) == \A z \in Zid : zs[z] # Nil => zs[z].nets \subseteq is

(* The sections that refer to interfaces `is' and to zones of these names. *)
NetworkFits(is) ==
  /\ routes \in [Rid -> Net \cup {Nil}] /\ \A r \in Rid : routes[r] \in is \cup {Nil}
  /\ dhcp \subseteq is
  /\ wifi \in [Wid -> SUBSET Net] /\ \A w \in Wid : wifi[w] \subseteq is
ForwardsFit(fs, names) ==
  /\ fs \in SUBSET Pair
  /\ \A f \in fs : Ends(f) \subseteq names /\ f.src # f.dest
RulesFit(rs, names) ==
  /\ rs \in [Rid -> Pair \cup {Nil}]
  /\ \A r \in Rid : rs[r] # Nil => Ends(rs[r]) \subseteq names

IInv ==
  /\ ifaces \in SUBSET Net
  /\ NetworkFits(ifaces)
  /\ ZonesTyped(zones) /\ NetsIn(zones, ifaces)
  /\ ForwardsFit(forwards, NamesIn(zones))
  /\ RulesFit(rules, NamesIn(zones))

(* zt has the zones of zs, under the same names.                           *)
SameNames(zs, zt) ==
  \A z \in Zid : /\ zt[z] = Nil <=> zs[z] = Nil
                 /\ zs[z] # Nil => zt[z].name = zs[z].name

(* The zones with other networks in z, and with a zone at z.               *)
WithNets(zs, z, nets) == [zs EXCEPT ![z].nets = nets]
WithNew(zs, z, zone) == [zs EXCEPT ![z] = zone]

-----------------------------------------------------------------------------
(* Looking zones up                                                        *)

Less == {ss \in Nat \X Nat : ss[1] < ss[2]}

LEMMA LessWellFounded == IsWellFoundedOn(Less, Nat)
<1>1. Less = OpToRel(<, Nat)
  BY DEF OpToRel, Less
<1>. QED  BY <1>1, NatLessThanWellFounded

LEMMA MinIn ==
  ASSUME NEW S \in SUBSET Nat, S # {}
  PROVE  Min(S) \in S
<1>1. PICK m \in S : \A y \in S : ~ (<<y, m>> \in Less)
  BY LessWellFounded, WFMin
<1>2. ASSUME NEW y \in S PROVE m =< y
  <2>1. <<y, m>> \in Nat \X Nat /\ <<y, m>>[1] = y /\ <<y, m>>[2] = m
    OBVIOUS
  <2>2. ~ (y < m)
    BY <1>1, <2>1 DEF Less
  <2>. QED  BY <2>2
<1>. QED  BY <1>2 DEF Min

(* lookupZone finds a zone of that name if there is one.                   *)
LEMMA LookupFinds ==
  ASSUME NEW zs, NEW name
  PROVE  /\ lookupZone(zs, name) = Nil <=> Named(zs, name) = {}
         /\ lookupZone(zs, name) # Nil =>
              /\ lookupZone(zs, name) \in Zid
              /\ zs[lookupZone(zs, name)] # Nil
              /\ zs[lookupZone(zs, name)].name = name
<1>1. Named(zs, name) \in SUBSET Nat /\ Named(zs, name) \subseteq Zid
  BY ZidAssumption DEF Named
<1>2. Named(zs, name) # {} => Min(Named(zs, name)) \in Named(zs, name)
  BY <1>1, MinIn
<1>3. Nil \notin Zid
  BY NilAssumption
<1>. QED  BY <1>1, <1>2, <1>3 DEF lookupZone, Named

LEMMA NamedIsIn ==
  ASSUME NEW zs, NEW name
  PROVE  Named(zs, name) # {} <=> name \in NamesIn(zs)
BY DEF Named, NamesIn

LEMMA OldZone ==
  ASSUME NEW n, getZoneByNetwork(n) # Nil
  PROVE  getZoneByNetwork(n) \in Zid /\ zones[getZoneByNetwork(n)] # Nil
<1>. DEFINE with == {z \in Zid : zones[z] # Nil /\ n \in zones[z].nets}
<1>1. with # {} => Min(with) \in with
  BY ZidAssumption, MinIn
<1>. QED  BY <1>1 DEF getZoneByNetwork

-----------------------------------------------------------------------------
(* What operations do to names and networks                                *)

LEMMA SameNamesIn ==
  ASSUME NEW zs, NEW zt, SameNames(zs, zt)
  PROVE  NamesIn(zt) = NamesIn(zs)
BY DEF SameNames, NamesIn

LEMMA NetsChanged ==
  ASSUME NEW zs, ZonesTyped(zs), NEW z \in Zid, zs[z] # Nil, NEW nets \in SUBSET Net
  PROVE  /\ ZonesTyped(WithNets(zs, z, nets)) /\ SameNames(zs, WithNets(zs, z, nets))
         /\ \A y \in Zid : zs[y] # Nil =>
              WithNets(zs, z, nets)[y].nets = IF y = z THEN nets ELSE zs[y].nets
<1>. DEFINE zt == WithNets(zs, z, nets)
<1>1. zs[z] \in Zone
  BY DEF ZonesTyped
<1>2. zt[z] = [zs[z] EXCEPT !.nets = nets] /\ \A y \in Zid \ {z} : zt[y] = zs[y]
  BY DEF ZonesTyped, WithNets
<1>3. zt[z] \in Zone /\ zt[z].name = zs[z].name /\ zt[z].nets = nets
  BY <1>1, <1>2 DEF Zone
<1>4. zt[z] # Nil
  BY <1>3, NilAssumption DEF Zone
<1>5. ZonesTyped(zt)
  BY <1>2, <1>3 DEF ZonesTyped, WithNets
<1>6. SameNames(zs, zt)
  BY <1>2, <1>3, <1>4 DEF SameNames
<1>. QED  BY <1>2, <1>3, <1>5, <1>6

LEMMA NetworkTakenOut ==
  ASSUME NEW zs, ZonesTyped(zs), NEW n, NEW is, NetsIn(zs, is)
  PROVE  LET zt == deleteNetwork(zs, n)
         IN ZonesTyped(zt) /\ SameNames(zs, zt) /\ NetsIn(zt, is \ {n})
<1>. DEFINE zt == deleteNetwork(zs, n)
<1>1. ASSUME NEW z \in Zid, zs[z] # Nil
      PROVE  /\ zt[z] \in Zone /\ zt[z] # Nil /\ zt[z].name = zs[z].name
             /\ zt[z].nets = zs[z].nets \ {n}
  <2>1. zs[z] \in Zone
    BY <1>1 DEF ZonesTyped
  <2>2. zt[z] = [zs[z] EXCEPT !.nets = zs[z].nets \ {n}]
    BY <1>1 DEF deleteNetwork
  <2>3. zt[z] \in Zone /\ zt[z].name = zs[z].name /\ zt[z].nets = zs[z].nets \ {n}
    BY <2>1, <2>2 DEF Zone
  <2>. QED  BY <2>3, NilAssumption DEF Zone
<1>2. \A z \in Zid : zs[z] = Nil => zt[z] = Nil
  BY DEF deleteNetwork
<1>3. zt \in [Zid -> Zone \cup {Nil}]
  <2>1. \A z \in Zid : zt[z] \in Zone \cup {Nil}
    BY <1>1, <1>2
  <2>2. zt = [z \in Zid |-> zt[z]]
    BY DEF deleteNetwork
  <2>. QED  BY <2>1, <2>2
<1>. QED  BY <1>1, <1>2, <1>3 DEF ZonesTyped, SameNames, NetsIn

LEMMA ZoneAdded ==
  ASSUME NEW zs, ZonesTyped(zs), NEW z \in Zid, NEW zone \in Zone, zs[z] = Nil
  PROVE  /\ ZonesTyped(WithNew(zs, z, zone)) /\ WithNew(zs, z, zone)[z] = zone /\ zone # Nil
         /\ \A y \in Zid \ {z} : WithNew(zs, z, zone)[y] = zs[y]
         /\ NamesIn(zs) \subseteq NamesIn(WithNew(zs, z, zone))
<1>1. zone # Nil
  BY NilAssumption DEF Zone
<1>. QED  BY <1>1 DEF ZonesTyped, NamesIn, WithNew

(* A chosen zone that is not there is made.                                *)
LEMMA ZoneThere ==
  ASSUME NEW zs, ZonesTyped(zs), NEW is, NetsIn(zs, is),
         NEW name \in ZoneName \cup {Nil}, NEW z \in Zid, MayAdd(zs, name, z)
  PROVE  /\ ZonesTyped(WithZone(zs, name, z))
         /\ NetsIn(WithZone(zs, name, z), is)
         /\ NamesIn(zs) \subseteq NamesIn(WithZone(zs, name, z))
<1>. DEFINE made == WithZone(zs, name, z)
<1>1. CASE name = Nil \/ lookupZone(zs, name) # Nil
  BY <1>1 DEF WithZone, addZone
<1>2. CASE name # Nil /\ lookupZone(zs, name) = Nil
  <2>1. zs[z] = Nil
    BY <1>2 DEF MayAdd
  <2>2. PICK zone \in Zone : zone.nets = {} /\ made = WithNew(zs, z, zone)
    <3>1. [name |-> name, nets |-> {}] \in Zone
      BY <1>2 DEF Zone
    <3>. QED  BY <1>2, <3>1 DEF WithZone, addZone, WithNew, Zone
  <2>3. /\ ZonesTyped(made) /\ made[z] = zone /\ NamesIn(zs) \subseteq NamesIn(made)
        /\ \A y \in Zid \ {z} : made[y] = zs[y]
    <3>. HIDE DEF made
    <3>. QED  BY <2>1, <2>2, ZoneAdded
  <2>4. NetsIn(made, is)
    <3>. HIDE DEF made
    <3>. QED  BY <2>2, <2>3 DEF NetsIn
  <2>. QED  BY <2>3, <2>4
<1>. QED  BY <1>1, <1>2

(* The zone of the chosen name gets an interface that is there.            *)
LEMMA NetworkPut ==
  ASSUME NEW zs, ZonesTyped(zs), NEW is \in SUBSET Net, NetsIn(zs, is), NEW n \in Net, NEW name
  PROVE  /\ ZonesTyped(PutInto(zs, name, n, is))
         /\ NetsIn(PutInto(zs, name, n, is), is)
         /\ NamesIn(PutInto(zs, name, n, is)) = NamesIn(zs)
<1>1. CASE lookupZone(zs, name) = Nil \/ n \notin is
  BY <1>1 DEF PutInto, addNetwork
<1>2. CASE lookupZone(zs, name) # Nil /\ n \in is
  <2>1. PICK target \in Zid : target = lookupZone(zs, name) /\ zs[target] # Nil
    BY <1>2, LookupFinds
  <2>2. PICK nets \in SUBSET Net : nets = zs[target].nets \cup {n}
    BY <2>1 DEF ZonesTyped, Zone
  <2>3. nets \subseteq is
    BY <1>2, <2>1, <2>2 DEF NetsIn
  <2>4. PICK zt : zt = PutInto(zs, name, n, is)
    OBVIOUS
  <2>5. zt = WithNets(zs, target, nets)
    BY <1>2, <2>1, <2>2, <2>4 DEF PutInto, addNetwork, WithNets
  <2>6. /\ ZonesTyped(zt) /\ SameNames(zs, zt)
        /\ \A y \in Zid : zs[y] # Nil =>
             zt[y].nets = IF y = target THEN nets ELSE zs[y].nets
    BY <2>1, <2>5, NetsChanged
  <2>7. NamesIn(zt) = NamesIn(zs)
    BY <2>6, SameNamesIn
  <2>8. NetsIn(zt, is)
    BY <2>3, <2>6 DEF NetsIn, SameNames
  <2>. QED  BY <2>4, <2>6, <2>7, <2>8
<1>. QED  BY <1>1, <1>2

-----------------------------------------------------------------------------
(* Forwardings and rules                                                   *)

LEMMA MoreNames ==
  ASSUME NEW names, NEW more, names \subseteq more, NEW fs, NEW rs,
         ForwardsFit(fs, names), RulesFit(rs, names)
  PROVE  ForwardsFit(fs, more) /\ RulesFit(rs, more)
BY DEF ForwardsFit, RulesFit

LEMMA NamesTyped ==
  ASSUME NEW zs, ZonesTyped(zs)
  PROVE  NamesIn(zs) \subseteq ZoneName
BY DEF ZonesTyped, NamesIn, Zone

LEMMA ForwardsWritten ==
  ASSUME NEW fs, NEW zs, ZonesTyped(zs), ForwardsFit(fs, NamesIn(zs)),
         NEW name \in NamesIn(zs), NEW end \in {"src", "dest"}, NEW chosen
  PROVE  ForwardsFit(WriteForwards(fs, zs, name, end, chosen), NamesIn(zs))
<1>1. ASSUME NEW other, lookupZone(zs, other) # Nil, other # name
      PROVE  /\ Forwarding(end, name, other) \in Pair
             /\ Ends(Forwarding(end, name, other)) \subseteq NamesIn(zs)
             /\ Forwarding(end, name, other).src # Forwarding(end, name, other).dest
  <2>1. other \in NamesIn(zs)
    BY <1>1, LookupFinds, NamedIsIn
  <2>2. name \in ZoneName /\ other \in ZoneName
    BY <2>1, NamesTyped
  <2>. QED  BY <1>1, <2>1, <2>2 DEF Forwarding, Pair, Ends
<1>. QED  BY <1>1 DEF ForwardsFit, WriteForwards

-----------------------------------------------------------------------------
(* Renaming                                                                *)

RenamedIn(names, old, new) == {Rename(x, old, new) : x \in names}

LEMMA ZonesRenamed ==
  ASSUME NEW zs, ZonesTyped(zs), NEW old, NEW new \in ZoneName, NEW is, NetsIn(zs, is)
  PROVE  /\ ZonesTyped(RenamedZones(zs, old, new))
         /\ NetsIn(RenamedZones(zs, old, new), is)
         /\ NamesIn(RenamedZones(zs, old, new)) = RenamedIn(NamesIn(zs), old, new)
<1>. DEFINE zt == RenamedZones(zs, old, new)
<1>1. ASSUME NEW z \in Zid, zs[z] # Nil
      PROVE  /\ zt[z] \in Zone /\ zt[z] # Nil /\ zt[z].nets = zs[z].nets
             /\ zt[z].name = Rename(zs[z].name, old, new)
  <2>1. zs[z] \in Zone
    BY <1>1 DEF ZonesTyped
  <2>2. zt[z] = [zs[z] EXCEPT !.name = Rename(zs[z].name, old, new)]
    BY <1>1 DEF RenamedZones
  <2>3. Rename(zs[z].name, old, new) \in ZoneName
    BY <2>1 DEF Rename, Zone
  <2>4. /\ zt[z] \in Zone /\ zt[z].nets = zs[z].nets
        /\ zt[z].name = Rename(zs[z].name, old, new)
    BY <2>1, <2>2, <2>3 DEF Zone
  <2>. QED  BY <2>4, NilAssumption DEF Zone
<1>2. \A z \in Zid : zs[z] = Nil => zt[z] = Nil
  BY DEF RenamedZones
<1>3. ZonesTyped(zt)
  <2>1. \A z \in Zid : zt[z] \in Zone \cup {Nil}
    BY <1>1, <1>2
  <2>2. zt = [z \in Zid |-> zt[z]]
    BY DEF RenamedZones
  <2>. QED  BY <2>1, <2>2 DEF ZonesTyped
<1>4. NetsIn(zt, is)
  BY <1>1, <1>2 DEF NetsIn
<1>. HIDE DEF zt
<1>5. NamesIn(zt) = RenamedIn(NamesIn(zs), old, new)
  BY <1>1, <1>2 DEF NamesIn, RenamedIn
<1>. QED  BY <1>3, <1>4, <1>5 DEF zt

(* A name that no zone has keeps different names different.                *)
LEMMA EndsRenamed ==
  ASSUME NEW names, NEW old, NEW new \in ZoneName, new \notin names,
         NEW f \in Pair, Ends(f) \subseteq names
  PROVE  /\ RenamedEnds(f, old, new) \in Pair
         /\ Ends(RenamedEnds(f, old, new)) \subseteq RenamedIn(names, old, new)
         /\ f.src # f.dest =>
              RenamedEnds(f, old, new).src # RenamedEnds(f, old, new).dest
<1>1. f.src \in ZoneName /\ f.dest \in ZoneName /\ f.src \in names /\ f.dest \in names
  BY DEF Pair, Ends
<1>2. \A x \in ZoneName : Rename(x, old, new) \in ZoneName
  BY DEF Rename
<1>3. \A x, y \in names : x # y => Rename(x, old, new) # Rename(y, old, new)
  BY DEF Rename
<1>4. /\ RenamedEnds(f, old, new).src = Rename(f.src, old, new)
      /\ RenamedEnds(f, old, new).dest = Rename(f.dest, old, new)
  BY DEF RenamedEnds
<1>5. RenamedEnds(f, old, new) \in Pair
  BY <1>1, <1>2 DEF RenamedEnds, Pair
<1>6. Ends(RenamedEnds(f, old, new)) \subseteq RenamedIn(names, old, new)
  BY <1>1, <1>4 DEF Ends, RenamedIn
<1>. QED  BY <1>1, <1>3, <1>4, <1>5, <1>6

LEMMA ForwardsRenamed ==
  ASSUME NEW names, NEW old, NEW new \in ZoneName, new \notin names,
         NEW fs, ForwardsFit(fs, names)
  PROVE  ForwardsFit({RenamedEnds(f, old, new) : f \in fs}, RenamedIn(names, old, new))
<1>1. ASSUME NEW f \in fs
      PROVE  /\ RenamedEnds(f, old, new) \in Pair
             /\ Ends(RenamedEnds(f, old, new)) \subseteq RenamedIn(names, old, new)
             /\ RenamedEnds(f, old, new).src # RenamedEnds(f, old, new).dest
  <2>1. f \in Pair /\ Ends(f) \subseteq names /\ f.src # f.dest
    BY DEF ForwardsFit
  <2>. QED  BY <2>1, EndsRenamed
<1>. QED  BY <1>1 DEF ForwardsFit

LEMMA RulesRenamed ==
  ASSUME NEW names, NEW old, NEW new \in ZoneName, new \notin names,
         NEW rs, RulesFit(rs, names)
  PROVE  RulesFit(RenamedRules(rs, old, new), RenamedIn(names, old, new))
<1>1. DOMAIN rs = Rid
  BY DEF RulesFit
<1>2. ASSUME NEW r \in Rid, rs[r] # Nil
      PROVE  /\ RenamedRules(rs, old, new)[r] \in Pair
             /\ Ends(RenamedRules(rs, old, new)[r]) \subseteq RenamedIn(names, old, new)
  <2>1. rs[r] \in Pair /\ Ends(rs[r]) \subseteq names
    BY <1>2 DEF RulesFit
  <2>2. RenamedRules(rs, old, new)[r] = RenamedEnds(rs[r], old, new)
    BY <1>1, <1>2 DEF RenamedRules
  <2>. QED  BY <2>1, <2>2, EndsRenamed
<1>3. \A r \in Rid : rs[r] = Nil => RenamedRules(rs, old, new)[r] = Nil
  BY <1>1 DEF RenamedRules
<1>4. RenamedRules(rs, old, new) = [r \in Rid |-> RenamedRules(rs, old, new)[r]]
  BY <1>1 DEF RenamedRules
<1>. QED  BY <1>2, <1>3, <1>4 DEF RulesFit

-----------------------------------------------------------------------------
(* The actions                                                             *)

LEMMA InitFits == Init => IInv
<1>. SUFFICES ASSUME Init PROVE IInv
  OBVIOUS
<1>1. zones = [z \in Zid |-> Nil] /\ NamesIn(zones) = {}
  BY DEF Init, NamesIn
<1>2. NetworkFits(ifaces) /\ ifaces \in SUBSET Net
  BY DEF Init, NetworkFits
<1>3. ZonesTyped(zones) /\ NetsIn(zones, ifaces)
  BY <1>1 DEF ZonesTyped, NetsIn
<1>4. ForwardsFit(forwards, NamesIn(zones)) /\ RulesFit(rules, NamesIn(zones))
  BY DEF Init, ForwardsFit, RulesFit
<1>. QED  BY <1>2, <1>3, <1>4 DEF IInv

(* More interfaces hurt nobody.                                            *)
LEMMA MoreIfaces ==
  ASSUME IInv, NEW is \in SUBSET Net, ifaces \subseteq is
  PROVE  NetworkFits(is) /\ NetsIn(zones, is)
BY DEF IInv, NetworkFits, NetsIn

(* The dialog of a zone: a new zone is opened under its name, networks are *)
(* cleared, forwardings written, then it is renamed, then networks are set.*)
LEMMA SaveZoneFits ==
  ASSUME IInv, NEW z \in Zid, NEW form \in Forms(z), SaveZone(z, form)
  PROVE  IInv'
<1>1. form.name \in ZoneName /\ form.nets \in SUBSET Net
  BY DEF Forms
<1>2. PICK opened : opened = IF zones[z] = Nil
                             THEN [zones EXCEPT ![z] = [name |-> form.name, nets |-> {}]]
                             ELSE zones
  OBVIOUS
<1>3. PICK name : name = opened[z].name
  OBVIOUS
<1>4. PICK cleared : cleared = IF form.nets = {} THEN [opened EXCEPT ![z].nets = {}] ELSE opened
  OBVIOUS
<1>5. PICK both : both = WriteForwards(WriteForwards(forwards, cleared, name, "src", form.out),
                                       cleared, name, "dest", form.in)
  OBVIOUS
<1>6. PICK named : named = IF Renames(cleared, name, form.name)
                           THEN RenamedZones(cleared, name, form.name) ELSE cleared
  OBVIOUS
<1>7. PICK rewrite \in BOOLEAN : rewrite <=> form.nets # opened[z].nets /\ form.nets # {}
  OBVIOUS
<1>8. /\ ifaces' = IF rewrite THEN ifaces \cup form.nets ELSE ifaces
      /\ zones' = IF rewrite THEN Assigned(named, Target(named, z, name), form.nets) ELSE named
      /\ forwards' = IF Renames(cleared, name, form.name)
                     THEN {RenamedEnds(f, name, form.name) : f \in both} ELSE both
      /\ rules' = IF Renames(cleared, name, form.name)
                  THEN RenamedRules(rules, name, form.name) ELSE rules
      /\ UNCHANGED <<routes, dhcp, wifi>>
  BY <1>2, <1>3, <1>4, <1>5, <1>6, <1>7 DEF SaveZone
<1>a. /\ ZonesTyped(opened) /\ opened[z] # Nil /\ NetsIn(opened, ifaces)
      /\ NamesIn(zones) \subseteq NamesIn(opened)
  <2>1. CASE zones[z] # Nil
    BY <2>1, <1>2 DEF IInv
  <2>2. CASE zones[z] = Nil
    <3>1. PICK zone \in Zone : zone.nets = {} /\ opened = WithNew(zones, z, zone)
      <4>1. [name |-> form.name, nets |-> {}] \in Zone
        BY <1>1 DEF Zone
      <4>. QED  BY <1>2, <2>2, <4>1 DEF WithNew, Zone
    <3>2. ZonesTyped(zones) /\ NetsIn(zones, ifaces)
      BY DEF IInv
    <3>3. /\ ZonesTyped(opened) /\ opened[z] = zone /\ zone # Nil
          /\ \A y \in Zid \ {z} : opened[y] = zones[y]
          /\ NamesIn(zones) \subseteq NamesIn(opened)
      BY <2>2, <3>1, <3>2, ZoneAdded
    <3>. QED  BY <3>1, <3>2, <3>3 DEF NetsIn
  <2>. QED  BY <2>1, <2>2
<1>b. /\ ZonesTyped(cleared) /\ NetsIn(cleared, ifaces)
      /\ NamesIn(cleared) = NamesIn(opened) /\ name \in NamesIn(cleared)
  <2>1. name \in NamesIn(opened)
    BY <1>3, <1>a DEF NamesIn
  <2>2. CASE form.nets # {}
    BY <2>1, <2>2, <1>4, <1>a
  <2>3. CASE form.nets = {}
    <3>1. cleared = WithNets(opened, z, {})
      BY <2>3, <1>4 DEF WithNets
    <3>2. /\ ZonesTyped(cleared) /\ SameNames(opened, cleared)
          /\ \A y \in Zid : opened[y] # Nil =>
               cleared[y].nets = IF y = z THEN {} ELSE opened[y].nets
      BY <1>a, <3>1, NetsChanged
    <3>3. NamesIn(cleared) = NamesIn(opened)
      BY <3>2, SameNamesIn
    <3>4. NetsIn(cleared, ifaces)
      BY <1>a, <3>2 DEF NetsIn, SameNames
    <3>. QED  BY <2>1, <3>2, <3>3, <3>4
  <2>. QED  BY <2>2, <2>3
<1>c. ForwardsFit(both, NamesIn(cleared)) /\ RulesFit(rules, NamesIn(cleared))
  <2>1. ForwardsFit(forwards, NamesIn(cleared)) /\ RulesFit(rules, NamesIn(cleared))
    BY <1>a, <1>b, MoreNames DEF IInv
  <2>2. ForwardsFit(WriteForwards(forwards, cleared, name, "src", form.out), NamesIn(cleared))
    BY <2>1, <1>b, ForwardsWritten
  <2>3. ForwardsFit(both, NamesIn(cleared))
    BY <2>2, <1>5, <1>b, ForwardsWritten
  <2>. QED  BY <2>1, <2>3
<1>d. /\ ZonesTyped(named) /\ NetsIn(named, ifaces)
      /\ ForwardsFit(forwards', NamesIn(named)) /\ RulesFit(rules', NamesIn(named))
  <2>1. CASE ~ Renames(cleared, name, form.name)
    BY <2>1, <1>6, <1>8, <1>b, <1>c
  <2>2. CASE Renames(cleared, name, form.name)
    <3>1. form.name \notin NamesIn(cleared)
      BY <2>2, LookupFinds, NamedIsIn DEF Renames
    <3>2. /\ named = RenamedZones(cleared, name, form.name)
          /\ forwards' = {RenamedEnds(f, name, form.name) : f \in both}
          /\ rules' = RenamedRules(rules, name, form.name)
      BY <2>2, <1>6, <1>8
    <3>3. /\ ZonesTyped(named) /\ NetsIn(named, ifaces)
          /\ NamesIn(named) = RenamedIn(NamesIn(cleared), name, form.name)
      BY <3>2, <1>1, <1>b, ZonesRenamed
    <3>4. ForwardsFit(forwards', NamesIn(named))
      BY <3>1, <3>2, <3>3, <1>1, <1>c, ForwardsRenamed
    <3>5. RulesFit(rules', NamesIn(named))
      BY <3>1, <3>2, <3>3, <1>1, <1>c, RulesRenamed
    <3>. QED  BY <3>3, <3>4, <3>5
  <2>. QED  BY <2>1, <2>2
<1>e. ifaces' \in SUBSET Net /\ ifaces \subseteq ifaces' /\ NetworkFits(ifaces')
  <2>1. ifaces' \in SUBSET Net /\ ifaces \subseteq ifaces'
    BY <1>1, <1>8 DEF IInv
  <2>. QED  BY <2>1, MoreIfaces
<1>f. ZonesTyped(zones') /\ NetsIn(zones', ifaces') /\ NamesIn(zones') = NamesIn(named)
  <2>1. NetsIn(named, ifaces')
    BY <1>d, <1>e DEF NetsIn
  <2>2. CASE ~ rewrite \/ lookupZone(named, name) = Nil
    BY <2>1, <2>2, <1>8, <1>d DEF Assigned, Target
  <2>3. CASE rewrite /\ lookupZone(named, name) # Nil
    <3>1. PICK target \in Zid : target = lookupZone(named, name) /\ named[target] # Nil
      BY <2>3, LookupFinds
    <3>2. zones' = WithNets(named, target, form.nets) /\ form.nets \subseteq ifaces'
      BY <2>3, <3>1, <1>8 DEF Assigned, Target, WithNets
    <3>3. /\ ZonesTyped(zones') /\ SameNames(named, zones')
          /\ \A y \in Zid : named[y] # Nil =>
               zones'[y].nets = IF y = target THEN form.nets ELSE named[y].nets
      BY <3>1, <3>2, <1>1, <1>d, NetsChanged
    <3>4. NamesIn(zones') = NamesIn(named)
      BY <3>3, SameNamesIn
    <3>5. NetsIn(zones', ifaces')
      BY <2>1, <3>2, <3>3 DEF NetsIn, SameNames
    <3>. QED  BY <3>3, <3>4, <3>5
  <2>. QED  BY <2>2, <2>3
<1>g. NetworkFits(ifaces)'
  BY <1>8, <1>e DEF NetworkFits
<1>. QED  BY <1>d, <1>e, <1>f, <1>g DEF IInv

(* A zone goes with everything that has its name at an end.  Another zone  *)
(* of that name may stay, so its name may; the other names do.             *)
LEMMA RemoveZoneFits ==
  ASSUME IInv, NEW z \in Zid, RemoveZone(z)
  PROVE  IInv'
<1>1. PICK name : name = zones[z].name
  OBVIOUS
<1>2. /\ zones' = [zones EXCEPT ![z] = Nil]
      /\ forwards' = {f \in forwards : ~ Mentions(f, name)}
      /\ rules' = [r \in Rid |-> IF rules[r] # Nil /\ Mentions(rules[r], name)
                                 THEN Nil ELSE rules[r]]
      /\ UNCHANGED network
  BY <1>1 DEF RemoveZone, deleteZone
<1>3. ZonesTyped(zones') /\ NetsIn(zones', ifaces)
  BY <1>2 DEF IInv, ZonesTyped, NetsIn
<1>4. NamesIn(zones) \ {name} \subseteq NamesIn(zones')
  BY <1>1, <1>2 DEF IInv, ZonesTyped, NamesIn
<1>5. ForwardsFit(forwards', NamesIn(zones'))
  BY <1>2, <1>4 DEF IInv, ForwardsFit, Mentions, Ends
<1>6. RulesFit(rules', NamesIn(zones'))
  <2>1. ASSUME NEW r \in Rid
        PROVE  /\ rules'[r] \in Pair \cup {Nil}
               /\ rules'[r] # Nil => Ends(rules'[r]) \subseteq NamesIn(zones')
    <3>1. CASE rules[r] # Nil /\ Mentions(rules[r], name)
      BY <3>1, <1>2
    <3>2. CASE ~ (rules[r] # Nil /\ Mentions(rules[r], name))
      <4>1. rules'[r] = rules[r] /\ rules[r] \in Pair \cup {Nil}
        BY <3>2, <1>2 DEF IInv, RulesFit
      <4>2. rules[r] # Nil => Ends(rules[r]) \subseteq NamesIn(zones) \ {name}
        BY <3>2 DEF IInv, RulesFit, Mentions, Ends
      <4>. QED  BY <4>1, <4>2, <1>4
    <3>. QED  BY <3>1, <3>2
  <2>. QED  BY <2>1, <1>2 DEF RulesFit
<1>7. NetworkFits(ifaces)'
  BY <1>2 DEF IInv, NetworkFits, network
<1>. QED  BY <1>2, <1>3, <1>5, <1>6, <1>7 DEF IInv, network

LEMMA AddRuleFits ==
  ASSUME IInv, NEW r \in Rid, NEW a \in ZoneName, NEW b \in ZoneName, AddRule(r, a, b)
  PROVE  IInv'
<1>1. a \in NamesIn(zones) /\ b \in NamesIn(zones)
  BY LookupFinds, NamedIsIn DEF AddRule
<1>2. PICK rule : rule = [src |-> a, dest |-> b]
  OBVIOUS
<1>3. rule \in Pair /\ Ends(rule) \subseteq NamesIn(zones)
  BY <1>1, <1>2 DEF Pair, Ends
<1>4. rules' = [rules EXCEPT ![r] = rule] /\ UNCHANGED <<network, zones, forwards>>
  BY <1>2 DEF AddRule
<1>5. RulesFit(rules', NamesIn(zones))
  BY <1>3, <1>4 DEF IInv, RulesFit
<1>6. NetworkFits(ifaces)'
  BY <1>4 DEF IInv, NetworkFits, network
<1>. QED  BY <1>4, <1>5, <1>6 DEF IInv, network

(* The steps that touch the network's sections only.                       *)
LEMMA NetworkStep ==
  ASSUME IInv, UNCHANGED firewall, ifaces' \in SUBSET Net, ifaces \subseteq ifaces',
         NetworkFits(ifaces') => NetworkFits(ifaces)'
  PROVE  IInv'
<1>1. NetworkFits(ifaces)' /\ NetsIn(zones, ifaces')
  BY MoreIfaces
<1>. QED  BY <1>1 DEF IInv, firewall

LEMMA InterfaceSteps ==
  ASSUME IInv, NEW n \in Net, AddInterface(n) \/ RemoveInterface(n) \/ AddDhcp(n)
  PROVE  IInv'
<1>1. UNCHANGED firewall /\ ifaces' \in SUBSET Net /\ ifaces \subseteq ifaces'
  BY DEF IInv, AddInterface, RemoveInterface, AddDhcp, network
<1>2. NetworkFits(ifaces') => NetworkFits(ifaces)'
  BY <1>1 DEF AddInterface, RemoveInterface, AddDhcp, network, NetworkFits
<1>. QED  BY <1>1, <1>2, NetworkStep

LEMMA AddRouteFits ==
  ASSUME IInv, NEW n \in Net, NEW r \in Rid, AddRoute(r, n)
  PROVE  IInv'
<1>1. UNCHANGED <<firewall, ifaces, dhcp, wifi>>
  BY DEF AddRoute
<1>2. NetworkFits(ifaces') => NetworkFits(ifaces)'
  BY DEF IInv, AddRoute, NetworkFits
<1>. QED  BY <1>1, <1>2, NetworkStep DEF IInv

LEMMA SaveWifiFits ==
  ASSUME IInv, NEW w \in Wid, NEW nets \in SUBSET Net, SaveWifi(w, nets)
  PROVE  IInv'
<1>1. UNCHANGED firewall /\ ifaces' \in SUBSET Net /\ ifaces \subseteq ifaces'
  BY DEF IInv, SaveWifi
<1>2. NetworkFits(ifaces') => NetworkFits(ifaces)'
  BY <1>1 DEF SaveWifi, NetworkFits
<1>. QED  BY <1>1, <1>2, NetworkStep

LEMMA SaveInterfaceZoneFits ==
  ASSUME IInv, NEW n \in Net, NEW name \in ZoneName \cup {Nil}, NEW z \in Zid,
         SaveInterfaceZone(n, name, z)
  PROVE  IInv'
<1>1. PICK old : old = getZoneByNetwork(n)
  OBVIOUS
<1>2. PICK left : left = IF old = Nil THEN zones ELSE [zones EXCEPT ![old].nets = @ \ {n}]
  OBVIOUS
<1>3. /\ MayAdd(zones, name, z)
      /\ zones' = PutInto(WithZone(left, name, z), name, n, ifaces)
      /\ UNCHANGED <<network, forwards, rules>>
  BY <1>1, <1>2 DEF SaveInterfaceZone
<1>4. ZonesTyped(left) /\ NetsIn(left, ifaces) /\ SameNames(zones, left)
  <2>1. CASE old = Nil
    BY <2>1, <1>2 DEF IInv, SameNames
  <2>2. CASE old # Nil
    <3>1. old \in Zid /\ zones[old] # Nil
      BY <2>2, <1>1, OldZone
    <3>2. PICK nets \in SUBSET Net : nets = zones[old].nets \ {n}
      BY <3>1 DEF IInv, ZonesTyped, Zone
    <3>3. left = WithNets(zones, old, nets)
      BY <2>2, <3>1, <3>2, <1>2 DEF WithNets
    <3>4. /\ ZonesTyped(left) /\ SameNames(zones, left)
          /\ \A y \in Zid : zones[y] # Nil =>
               left[y].nets = IF y = old THEN nets ELSE zones[y].nets
      BY <3>1, <3>3, NetsChanged DEF IInv
    <3>5. NetsIn(left, ifaces)
      BY <3>1, <3>2, <3>4 DEF IInv, NetsIn, SameNames
    <3>. QED  BY <3>4, <3>5
  <2>. QED  BY <2>1, <2>2
<1>5. MayAdd(left, name, z) /\ NamesIn(left) = NamesIn(zones)
  <2>1. NamesIn(left) = NamesIn(zones)
    BY <1>4, SameNamesIn
  <2>. QED  BY <2>1, <1>3, <1>4, LookupFinds, NamedIsIn DEF MayAdd, SameNames
<1>6. /\ ZonesTyped(zones') /\ NetsIn(zones', ifaces)
      /\ NamesIn(zones) \subseteq NamesIn(zones')
  <2>1. PICK made : made = WithZone(left, name, z)
    OBVIOUS
  <2>2. ZonesTyped(made) /\ NetsIn(made, ifaces) /\ NamesIn(left) \subseteq NamesIn(made)
    BY <2>1, <1>4, <1>5, ZoneThere
  <2>3. /\ ZonesTyped(zones') /\ NetsIn(zones', ifaces)
        /\ NamesIn(zones') = NamesIn(made)
    BY <2>1, <2>2, <1>3, NetworkPut DEF IInv
  <2>. QED  BY <2>2, <2>3, <1>5
<1>7. ForwardsFit(forwards, NamesIn(zones')) /\ RulesFit(rules, NamesIn(zones'))
  BY <1>6, MoreNames DEF IInv
<1>8. NetworkFits(ifaces)'
  BY <1>3 DEF IInv, NetworkFits, network
<1>. QED  BY <1>3, <1>6, <1>7, <1>8 DEF IInv, network

LEMMA JoinWifiFits ==
  ASSUME IInv, NEW w \in Wid, NEW n \in Net, NEW name \in ZoneName \cup {Nil}, NEW z \in Zid,
         JoinWifi(w, n, name, z)
  PROVE  IInv'
<1>1. PICK left : left = deleteNetwork(zones, n)
  OBVIOUS
<1>2. /\ MayAdd(zones, name, z)
      /\ ifaces' = ifaces \cup {n} /\ wifi' = [wifi EXCEPT ![w] = {n}]
      /\ zones' = PutInto(WithZone(left, name, z), name, n, ifaces')
      /\ UNCHANGED <<routes, dhcp, forwards, rules>>
  BY <1>1 DEF JoinWifi
<1>3. ifaces' \in SUBSET Net /\ ifaces \subseteq ifaces'
  BY <1>2 DEF IInv
<1>4. NetworkFits(ifaces') /\ NetsIn(zones, ifaces')
  BY <1>3, MoreIfaces
<1>5. ZonesTyped(left) /\ NetsIn(left, ifaces') /\ SameNames(zones, left)
  <2>1. ZonesTyped(left) /\ SameNames(zones, left) /\ NetsIn(left, ifaces' \ {n})
    BY <1>1, <1>4, NetworkTakenOut DEF IInv
  <2>. QED  BY <2>1 DEF NetsIn
<1>6. MayAdd(left, name, z) /\ NamesIn(left) = NamesIn(zones)
  <2>1. NamesIn(left) = NamesIn(zones)
    BY <1>5, SameNamesIn
  <2>. QED  BY <2>1, <1>2, <1>5, LookupFinds, NamedIsIn DEF MayAdd, SameNames
<1>7. /\ ZonesTyped(zones') /\ NetsIn(zones', ifaces')
      /\ NamesIn(zones) \subseteq NamesIn(zones')
  <2>1. PICK made : made = WithZone(left, name, z)
    OBVIOUS
  <2>2. ZonesTyped(made) /\ NetsIn(made, ifaces') /\ NamesIn(left) \subseteq NamesIn(made)
    BY <2>1, <1>5, <1>6, ZoneThere
  <2>3. /\ ZonesTyped(zones') /\ NetsIn(zones', ifaces')
        /\ NamesIn(zones') = NamesIn(made)
    BY <2>1, <2>2, <1>2, <1>3, NetworkPut
  <2>. QED  BY <2>2, <2>3, <1>6
<1>8. ForwardsFit(forwards, NamesIn(zones')) /\ RulesFit(rules, NamesIn(zones'))
  BY <1>7, MoreNames DEF IInv
<1>9. NetworkFits(ifaces)'
  <2>1. \A v \in Wid : wifi'[v] \in SUBSET Net /\ wifi'[v] \subseteq ifaces'
    BY <1>2, <1>3, <1>4 DEF NetworkFits
  <2>2. wifi' \in [Wid -> SUBSET Net]
    BY <2>1, <1>2, <1>4 DEF NetworkFits
  <2>. QED  BY <2>1, <2>2, <1>2, <1>4 DEF NetworkFits
<1>. QED  BY <1>2, <1>3, <1>7, <1>8, <1>9 DEF IInv

(* An interface goes: everything that names it goes or lets go of it.      *)
LEMMA PackagesThereFits ==
  ASSUME IInv, NEW n \in Net, PackagesThere(n)
  PROVE  IInv'
<1>1. UNCHANGED <<forwards, rules>>
  BY DEF PackagesThere
<1>2. CASE n \notin ifaces
  <2>1. UNCHANGED <<network, zones>>
    BY <1>2 DEF PackagesThere
  <2>2. NetworkFits(ifaces)'
    BY <2>1 DEF IInv, NetworkFits, network
  <2>. QED  BY <1>1, <2>1, <2>2 DEF IInv, network
<1>3. CASE n \in ifaces
  <2>1. /\ ifaces' = ifaces \ {n} /\ routes' = Unrouted(n) /\ wifi' = Detached(n)
        /\ dhcp' = dhcp \ {n} /\ zones' = deleteNetwork(zones, n)
    BY <1>3 DEF PackagesThere
  <2>2. NetworkFits(ifaces)'
    <3>1. /\ routes' \in [Rid -> Net \cup {Nil}]
          /\ \A r \in Rid : routes'[r] \in ifaces' \cup {Nil}
      BY <2>1 DEF IInv, NetworkFits, Unrouted
    <3>2. wifi' \in [Wid -> SUBSET Net] /\ \A w \in Wid : wifi'[w] \subseteq ifaces'
      BY <2>1 DEF IInv, NetworkFits, Detached
    <3>3. dhcp' \subseteq ifaces'
      BY <2>1 DEF IInv, NetworkFits
    <3>. QED  BY <3>1, <3>2, <3>3 DEF NetworkFits
  <2>3. ZonesTyped(zones') /\ SameNames(zones, zones') /\ NetsIn(zones', ifaces')
    BY <2>1, NetworkTakenOut DEF IInv
  <2>4. NamesIn(zones') = NamesIn(zones)
    BY <2>3, SameNamesIn
  <2>. QED  BY <1>1, <2>1, <2>2, <2>3, <2>4 DEF IInv
<1>. QED  BY <1>2, <1>3

LEMMA StepFits == IInv /\ [Next]_vars => IInv'
<1>. SUFFICES ASSUME IInv, [Next]_vars PROVE IInv'
  OBVIOUS
<1>1. CASE UNCHANGED vars
  BY <1>1 DEF vars, network, firewall, IInv, NetworkFits
<1>2. ASSUME NEW z \in Zid, RemoveZone(z) PROVE IInv'
  BY <1>2, RemoveZoneFits
<1>3. ASSUME NEW z \in Zid, NEW form \in Forms(z), SaveZone(z, form) PROVE IInv'
  BY <1>3, SaveZoneFits
<1>4. ASSUME NEW r \in Rid, NEW a \in ZoneName, NEW b \in ZoneName, AddRule(r, a, b)
      PROVE  IInv'
  BY <1>4, AddRuleFits
<1>5. ASSUME NEW n \in Net, PackagesThere(n) PROVE IInv'
  BY <1>5, PackagesThereFits
<1>6. ASSUME NEW n \in Net, AddInterface(n) \/ RemoveInterface(n) \/ AddDhcp(n) PROVE IInv'
  BY <1>6, InterfaceSteps
<1>7. ASSUME NEW n \in Net, NEW r \in Rid, AddRoute(r, n) PROVE IInv'
  BY <1>7, AddRouteFits
<1>8. ASSUME NEW n \in Net, NEW name \in ZoneName \cup {Nil}, NEW z \in Zid,
             SaveInterfaceZone(n, name, z)
      PROVE  IInv'
  BY <1>8, SaveInterfaceZoneFits
<1>9. ASSUME NEW n \in Net, NEW name \in ZoneName \cup {Nil}, NEW z \in Zid, NEW w \in Wid,
             JoinWifi(w, n, name, z)
      PROVE  IInv'
  BY <1>9, JoinWifiFits
<1>10. ASSUME NEW w \in Wid, NEW nets \in SUBSET Net, SaveWifi(w, nets) PROVE IInv'
  BY <1>10, SaveWifiFits
<1>. QED
  BY <1>1, <1>2, <1>3, <1>4, <1>5, <1>6, <1>7, <1>8, <1>9, <1>10 DEF Next

(* In every state the pages can leave behind, no section names what is not *)
(* there: LuciConfig's RefsResolve, for any sets of interfaces, zones,     *)
(* names, routes and wifi-ifaces.                                          *)
THEOREM RefsCorrect == Spec => []RefsResolve
<1>1. IInv => RefsResolve
  BY DEF IInv, RefsResolve, NetworkFits, NetsIn, ForwardsFit, RulesFit, NamesIn, ZoneNames
<1>. QED  BY <1>1, InitFits, StepFits, PTL DEF Spec
-----------------------------------------------------------------------------
(* The saved dialog                                                        *)

(* Writing the forwardings out of a zone and then those into it leaves     *)
(* what was chosen, both ways, since no forwarding has one zone at both    *)
(* ends.                                                                   *)
LEMMA ForwardsChosen ==
  ASSUME NEW fs, NEW zs, NEW names, ForwardsFit(fs, names), NEW name, NEW out, NEW in,
         \A o \in out \cup in : lookupZone(zs, o) # Nil /\ o # name
  PROVE  LET both == WriteForwards(WriteForwards(fs, zs, name, "src", out),
                                   zs, name, "dest", in)
         IN Chosen(both, name, "src") = out /\ Chosen(both, name, "dest") = in
<1>1. PICK first : first = WriteForwards(fs, zs, name, "src", out)
  OBVIOUS
<1>2. PICK both : both = WriteForwards(first, zs, name, "dest", in)
  OBVIOUS
<1>3. first = {f \in fs : f.src = name => f.dest \in out}
                \cup {[src |-> name, dest |-> o] : o \in out}
  BY <1>1 DEF WriteForwards, Near, Far, Forwarding
<1>4. both = {f \in first : f.dest = name => f.src \in in}
               \cup {[src |-> o, dest |-> name] : o \in in}
  BY <1>2 DEF WriteForwards, Near, Far, Forwarding
<1>5. \A f \in first : f.src # f.dest /\ (f.src = name => f.dest \in out)
  BY <1>3 DEF ForwardsFit
<1>6. \A f \in both : /\ f.src = name => f.dest \in out
                      /\ f.dest = name => f.src \in in
  BY <1>4, <1>5
<1>7. \A o \in out : [src |-> name, dest |-> o] \in both
  BY <1>3, <1>4
<1>8. \A o \in in : [src |-> o, dest |-> name] \in both
  BY <1>4
<1>9. Chosen(both, name, "src") = {f.dest : f \in {g \in both : g.src = name}}
  BY DEF Chosen, Near, Far
<1>10. Chosen(both, name, "dest") = {f.src : f \in {g \in both : g.dest = name}}
  BY DEF Chosen, Near, Far
<1>11. Chosen(both, name, "src") = out
  <2>1. \A o \in out : o \in Chosen(both, name, "src")
    <3>1. ASSUME NEW o \in out PROVE o \in Chosen(both, name, "src")
      <4>1. PICK f \in both : f.src = name /\ f.dest = o
        BY <1>7
      <4>. QED  BY <4>1, <1>9
    <3>. QED  BY <3>1
  <2>. QED  BY <2>1, <1>6, <1>9
<1>12. Chosen(both, name, "dest") = in
  <2>1. \A o \in in : o \in Chosen(both, name, "dest")
    <3>1. ASSUME NEW o \in in PROVE o \in Chosen(both, name, "dest")
      <4>1. PICK f \in both : f.src = o /\ f.dest = name
        BY <1>8
      <4>. QED  BY <4>1, <1>10
    <3>. QED  BY <3>1
  <2>. QED  BY <2>1, <1>6, <1>10
<1>. QED  BY <1>1, <1>2, <1>11, <1>12

(* A zone that gets a new name keeps its forwardings.                      *)
LEMMA ChosenRenamed ==
  ASSUME NEW names, NEW old, NEW new, new \notin names, NEW fs, ForwardsFit(fs, names),
         NEW end \in {"src", "dest"}
  PROVE  Chosen({RenamedEnds(f, old, new) : f \in fs}, new, end) = Chosen(fs, old, end)
<1>1. ASSUME NEW f \in fs
      PROVE  /\ Near(end, RenamedEnds(f, old, new)) = new <=> Near(end, f) = old
             /\ Near(end, f) = old => Far(end, RenamedEnds(f, old, new)) = Far(end, f)
  BY DEF ForwardsFit, Ends, RenamedEnds, Rename, Near, Far
<1>. QED  BY <1>1 DEF Chosen

(* The zones that are looked up by the name that one zone alone has.       *)
LEMMA LookupUnique ==
  ASSUME NEW zs, NEW name, NEW z \in Zid, Named(zs, name) = {z}
  PROVE  lookupZone(zs, name) = z
BY LookupFinds DEF Named

LEMMA SaveZoneSaves ==
  ASSUME IInv, NEW z \in Zid, NEW form \in Forms(z), SaveZone(z, form)
  PROVE  ZoneSaved'
<1>1. /\ form.name \in ZoneName /\ form.nets \in SUBSET Net
      /\ form.out \subseteq Others(z) /\ form.in \subseteq Others(z)
  BY DEF Forms
<1>2. PICK opened : opened = IF zones[z] = Nil
                             THEN [zones EXCEPT ![z] = [name |-> form.name, nets |-> {}]]
                             ELSE zones
  OBVIOUS
<1>3. PICK name : name = opened[z].name
  OBVIOUS
<1>4. PICK cleared : cleared = IF form.nets = {} THEN [opened EXCEPT ![z].nets = {}] ELSE opened
  OBVIOUS
<1>5. PICK both : both = WriteForwards(WriteForwards(forwards, cleared, name, "src", form.out),
                                       cleared, name, "dest", form.in)
  OBVIOUS
<1>6. PICK named : named = IF Renames(cleared, name, form.name)
                           THEN RenamedZones(cleared, name, form.name) ELSE cleared
  OBVIOUS
<1>7. PICK rewrite \in BOOLEAN : rewrite <=> form.nets # opened[z].nets /\ form.nets # {}
  OBVIOUS
<1>8. /\ zones' = IF rewrite THEN Assigned(named, Target(named, z, name), form.nets) ELSE named
      /\ forwards' = IF Renames(cleared, name, form.name)
                     THEN {RenamedEnds(f, name, form.name) : f \in both} ELSE both
  BY <1>2, <1>3, <1>4, <1>5, <1>6, <1>7 DEF SaveZone
<1>9. last' = [zone |-> z, form |-> form, unique |-> Named(opened, name) = {z},
               wasNamed |-> name, had |-> opened[z].nets]
  BY <1>2, <1>3 DEF SaveZone
<1>. SUFFICES ASSUME Named(opened, name) = {z}
     PROVE  /\ zones'[z].name \in {form.name, name}
            /\ zones'[z].name # form.name =>
                 \E y \in Zid \ {z} : zones'[y] # Nil /\ zones'[y].name = form.name
            /\ zones'[z].nets = IF zones'[z].name # name /\ form.nets # {}
                                THEN opened[z].nets ELSE form.nets
            /\ Chosen(forwards', zones'[z].name, "src") = form.out
            /\ Chosen(forwards', zones'[z].name, "dest") = form.in
  BY <1>9 DEF ZoneSaved
<1>a. /\ ZonesTyped(opened) /\ opened[z] # Nil
      /\ \A y \in Zid \ {z} : opened[y] = zones[y]
      /\ NamesIn(zones) \subseteq NamesIn(opened)
  <2>1. CASE zones[z] # Nil
    BY <2>1, <1>2 DEF IInv
  <2>2. CASE zones[z] = Nil
    <3>1. PICK zone \in Zone : opened = WithNew(zones, z, zone)
      <4>1. [name |-> form.name, nets |-> {}] \in Zone
        BY <1>1 DEF Zone
      <4>. QED  BY <1>2, <2>2, <4>1 DEF WithNew
    <3>. QED  BY <2>2, <3>1, ZoneAdded DEF IInv
  <2>. QED  BY <2>1, <2>2
<1>b. /\ ZonesTyped(cleared) /\ SameNames(opened, cleared)
      /\ cleared[z].nets = IF form.nets = {} THEN {} ELSE opened[z].nets
  <2>1. CASE form.nets # {}
    BY <2>1, <1>4, <1>a DEF SameNames
  <2>2. CASE form.nets = {}
    <3>1. cleared = WithNets(opened, z, {})
      BY <2>2, <1>4 DEF WithNets
    <3>. QED  BY <2>2, <3>1, <1>a, NetsChanged
  <2>. QED  BY <2>1, <2>2
<1>c. /\ cleared[z] # Nil /\ cleared[z].name = name
      /\ Named(cleared, name) = {z} /\ NamesIn(cleared) = NamesIn(opened)
  <2>1. NamesIn(cleared) = NamesIn(opened)
    BY <1>b, SameNamesIn
  <2>. QED  BY <2>1, <1>3, <1>a, <1>b DEF SameNames, Named
<1>d. \A o \in form.out \cup form.in : lookupZone(cleared, o) # Nil /\ o # name
  <2>1. ASSUME NEW o \in form.out \cup form.in
        PROVE  lookupZone(cleared, o) # Nil /\ o # name
    <3>1. PICK y \in Zid : zones[y] # Nil /\ zones[y].name = o
      BY <1>1 DEF Others
    <3>2. zones[z] = Nil \/ zones[z].name # o
      BY <1>1 DEF Others
    <3>3. y # z
      BY <3>1, <3>2
    <3>4. cleared[y] # Nil /\ cleared[y].name = o
      BY <3>1, <3>3, <1>a, <1>b DEF SameNames
    <3>5. o # name
      BY <3>3, <3>4, <1>c DEF Named
    <3>. QED  BY <3>4, <3>5, LookupFinds DEF Named
  <2>. QED  BY <2>1
<1>e. /\ Chosen(both, name, "src") = form.out /\ Chosen(both, name, "dest") = form.in
      /\ ForwardsFit(both, NamesIn(cleared))
  <2>1. ForwardsFit(forwards, NamesIn(cleared)) /\ name \in NamesIn(cleared)
    BY <1>a, <1>c, MoreNames DEF IInv, NamesIn
  <2>2. Chosen(both, name, "src") = form.out /\ Chosen(both, name, "dest") = form.in
    BY <2>1, <1>5, <1>d, ForwardsChosen
  <2>3. ForwardsFit(WriteForwards(forwards, cleared, name, "src", form.out), NamesIn(cleared))
    BY <2>1, <1>b, ForwardsWritten
  <2>. QED  BY <2>1, <2>2, <2>3, <1>5, <1>b, ForwardsWritten
<1>10. CASE ~ Renames(cleared, name, form.name)
  <2>1. named = cleared /\ forwards' = both
    BY <1>10, <1>6, <1>8
  <2>2. /\ SameNames(cleared, zones')
        /\ zones'[z].nets = IF rewrite THEN form.nets ELSE cleared[z].nets
    <3>1. CASE ~ rewrite
      BY <3>1, <2>1, <1>8 DEF SameNames
    <3>2. CASE rewrite
      <4>1. lookupZone(cleared, name) = z /\ z # Nil
        BY <1>c, LookupUnique, NilAssumption
      <4>2. zones' = WithNets(cleared, z, form.nets)
        BY <3>2, <4>1, <2>1, <1>8 DEF Assigned, Target, WithNets
      <4>. QED  BY <3>2, <4>2, <1>1, <1>b, <1>c, NetsChanged
    <3>. QED  BY <3>1, <3>2
  <2>3. zones'[z].name = name /\ zones'[z].nets = form.nets
    BY <2>2, <1>7, <1>b, <1>c DEF SameNames
  <2>4. name # form.name =>
          \E y \in Zid \ {z} : zones'[y] # Nil /\ zones'[y].name = form.name
    <3>1. SUFFICES ASSUME name # form.name
                   PROVE  \E y \in Zid \ {z} : zones'[y] # Nil /\ zones'[y].name = form.name
      OBVIOUS
    <3>2. lookupZone(cleared, form.name) # Nil
      BY <3>1, <1>10, <1>c DEF Renames
    <3>3. PICK y \in Zid : cleared[y] # Nil /\ cleared[y].name = form.name
      BY <3>2, LookupFinds
    <3>. QED  BY <3>1, <3>3, <2>2, <1>c DEF SameNames
  <2>. QED  BY <2>1, <2>3, <2>4, <1>e
<1>11. CASE Renames(cleared, name, form.name)
  <2>1. form.name # name /\ form.name \notin NamesIn(cleared)
    BY <1>11, LookupFinds, NamedIsIn DEF Renames
  <2>2. /\ named = RenamedZones(cleared, name, form.name)
        /\ forwards' = {RenamedEnds(f, name, form.name) : f \in both}
    BY <1>11, <1>6, <1>8
  <2>3. named[z].name = form.name /\ named[z].nets = cleared[z].nets
    <3>1. cleared[z] \in Zone
      BY <1>b, <1>c DEF ZonesTyped
    <3>2. named[z] = [cleared[z] EXCEPT !.name = form.name]
      BY <2>2, <1>c DEF RenamedZones, Rename
    <3>. QED  BY <3>1, <3>2 DEF Zone
  <2>4. lookupZone(named, name) = Nil
    <3>1. ASSUME NEW y \in Zid, named[y] # Nil PROVE named[y].name # name
      <4>1. cleared[y] # Nil
        BY <3>1, <2>2 DEF RenamedZones
      <4>2. cleared[y] \in Zone
        BY <4>1, <1>b DEF ZonesTyped
      <4>3. named[y].name = Rename(cleared[y].name, name, form.name)
        BY <4>1, <4>2, <2>2 DEF RenamedZones, Zone
      <4>. QED  BY <4>3, <2>1 DEF Rename
    <3>2. Named(named, name) = {}
      BY <3>1 DEF Named
    <3>. QED  BY <3>2, LookupFinds
  <2>5. zones' = named
    BY <2>4, <1>8 DEF Assigned, Target
  <2>6. /\ Chosen(forwards', form.name, "src") = form.out
        /\ Chosen(forwards', form.name, "dest") = form.in
    BY <2>1, <2>2, <1>e, ChosenRenamed
  <2>. QED  BY <2>1, <2>3, <2>5, <2>6, <1>b
<1>. QED  BY <1>10, <1>11

(* Only the dialog's own save speaks of a saved zone: every other step     *)
(* forgets it.                                                             *)
LEMMA StepSaves == IInv /\ ZoneSaved /\ [Next]_vars => ZoneSaved'
<1>. SUFFICES ASSUME IInv, ZoneSaved, [Next]_vars PROVE ZoneSaved'
  OBVIOUS
<1>1. CASE UNCHANGED vars
  BY <1>1 DEF vars, firewall, ZoneSaved
<1>2. ASSUME NEW z \in Zid, NEW form \in Forms(z), SaveZone(z, form) PROVE ZoneSaved'
  BY <1>2, SaveZoneSaves
<1>3. last' = Nil => ZoneSaved'
  BY DEF ZoneSaved
<1>4. ASSUME NEW z \in Zid, RemoveZone(z) PROVE last' = Nil
  BY <1>4 DEF RemoveZone
<1>5. ASSUME NEW r \in Rid, NEW a, NEW b, AddRule(r, a, b) PROVE last' = Nil
  BY <1>5 DEF AddRule
<1>6. ASSUME NEW n \in Net,
             AddInterface(n) \/ RemoveInterface(n) \/ PackagesThere(n) \/ AddDhcp(n)
      PROVE  last' = Nil
  BY <1>6 DEF AddInterface, RemoveInterface, PackagesThere, AddDhcp
<1>7. ASSUME NEW n \in Net, NEW r \in Rid, AddRoute(r, n) PROVE last' = Nil
  BY <1>7 DEF AddRoute
<1>8. ASSUME NEW n \in Net, NEW name, NEW z \in Zid, SaveInterfaceZone(n, name, z)
      PROVE  last' = Nil
  BY <1>8 DEF SaveInterfaceZone
<1>9. ASSUME NEW n \in Net, NEW name, NEW z \in Zid, NEW w \in Wid, JoinWifi(w, n, name, z)
      PROVE  last' = Nil
  BY <1>9 DEF JoinWifi
<1>10. ASSUME NEW w \in Wid, NEW nets, SaveWifi(w, nets) PROVE last' = Nil
  BY <1>10 DEF SaveWifi
<1>. QED
  BY <1>1, <1>2, <1>3, <1>4, <1>5, <1>6, <1>7, <1>8, <1>9, <1>10 DEF Next

(* The dialog of a zone (zones.js:13-17) leaves the zone as it was filled  *)
(* in: its name unless another zone has it, its networks unless it was     *)
(* renamed, its forwardings both ways (LuciConfig's ZoneSaved), for any    *)
(* sets of interfaces, zones and names.                                    *)
THEOREM ZoneCorrect == Spec => []ZoneSaved
<1>1. Init => ZoneSaved
  BY DEF Init, ZoneSaved
<1>. QED  BY <1>1, InitFits, StepFits, StepSaves, PTL DEF Spec
=============================================================================
