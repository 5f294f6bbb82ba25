---------------------------- MODULE LuciWireless ----------------------------
(***************************************************************************)
(* The wireless page (resources/view/network/wireless.js): networks are    *)
(* turned on and off by two options, their own and the radio's, sections   *)
(* are named by the first free number, anonymous ones are renamed when the *)
(* page opens, and the scan dialog keeps what earlier scans saw.           *)
(***************************************************************************)
EXTENDS Integers, SequencesExt, FiniteSetsExt, Subsequence

CONSTANTS
  Radio, Bss,
  Start,      \* configurations to start from, [off, nets]
  MaxNets, MaxSteps, Nil

VARIABLES
  radioOff,   \* option `disabled' of each radio
  nets,       \* the wifi-iface sections: [sid, device, off, anon]; wifinet7 is 7
  dialog,     \* Nil, or [at, radio]: "scan", "join", "edit"
  scan,       \* of the scan dialog: [cache, rows, polled, calls]
  on,         \* history: networks the user turned on and not off since
  may,        \* history: networks that are on by the user's or the old will
  seen,       \* history: what this dialog's scans saw, and what the last saw
  steps

wireless == <<radioOff, nets, on, may>>
vars == <<radioOff, nets, dialog, scan, on, may, seen, steps>>

(* A network, and an open dialog.                                          *)
Net == [sid : Nat, device : Radio, off : BOOLEAN, anon : BOOLEAN]
Dialog == [at : {"scan", "join", "edit"}, radio : Radio]

On(n) == ~n.off /\ ~radioOff[n.device]
OnNow == {nets[i].sid : i \in {k \in DOMAIN nets : On(nets[k])}}
OfRadio(r) == {nets[i] : i \in {k \in DOMAIN nets : nets[k].device = r}}
Quiet == [cache |-> {}, rows |-> {}, polled |-> FALSE, calls |-> 0]

Init ==
  /\ \E s \in Start : radioOff = s.off /\ nets = s.nets
  /\ dialog = Nil
  /\ scan = Quiet
  /\ on = {}
  /\ may = OnNow
  /\ seen = [all |-> {}, last |-> {}]
  /\ steps = 0

Step == steps < MaxSteps /\ steps' = steps + 1
NoDialog == dialog = Nil /\ \A i \in DOMAIN nets : ~nets[i].anon

next_free_sid(cfg, offset) ==
  Min({k \in offset..(offset + Len(cfg)) : \A i \in DOMAIN cfg : cfg[i].sid # k})

-----------------------------------------------------------------------------
(* Names for the anonymous sections.  The router renames, the copy the     *)
(* names are looked up in does not change: each search starts behind the   *)
(* name given before.                                                      *)
NewName(i) ==
  LET given[k \in 0..Len(nets)] ==
        IF k = 0 THEN -1
        ELSE IF nets[k].anon THEN next_free_sid(nets, given[k - 1] + 1) ELSE given[k - 1]
  IN given[i]
handleMigration ==
  /\ \E i \in DOMAIN nets : nets[i].anon
  /\ nets' = [i \in DOMAIN nets |->
                IF nets[i].anon THEN [nets[i] EXCEPT !.sid = NewName(i), !.anon = FALSE]
                ELSE nets[i]]
  /\ may' = {nets'[i].sid : i \in {k \in DOMAIN nets : On(nets[k])}}
  /\ UNCHANGED <<radioOff, dialog, scan, on, seen, steps>>

-----------------------------------------------------------------------------
(* The button of a network: off by its own option, the radio with its last *)
(* network; on by both, which also turns on the radio's other networks     *)
(* that are not off themselves.                                            *)
SetOff(i, off) == [nets EXCEPT ![i].off = off]
AllOff(cfg, r) == \A k \in DOMAIN cfg : cfg[k].device = r => cfg[k].off
network_updown(i) ==
  LET n == nets[i] IN
  /\ NoDialog /\ Step
  /\ IF On(n)
     THEN /\ nets' = SetOff(i, TRUE)
          /\ radioOff' = [radioOff EXCEPT ![n.device] = @ \/ AllOff(nets', n.device)]
          /\ on' = on \ {n.sid} /\ may' = may \ {n.sid}
     ELSE /\ nets' = SetOff(i, FALSE)
          /\ radioOff' = [radioOff EXCEPT ![n.device] = FALSE]
          /\ on' = on \cup {n.sid}
          /\ may' = may \cup {n.sid} \cup {m.sid : m \in {m \in OfRadio(n.device) : ~m.off}}
  /\ UNCHANGED <<dialog, scan, seen>>

Section(sid, r) == [sid |-> sid, device |-> r, off |-> FALSE, anon |-> FALSE]

(* The new access point is made before its dialog opens; dismissing that   *)
(* dialog leaves it and the radio as they are now.                         *)
handleAdd(r) ==
  /\ NoDialog /\ Step /\ Len(nets) < MaxNets
  /\ \E sid \in {next_free_sid(nets, Len(nets))} :
       /\ nets' = Append(nets, Section(sid, r))
       /\ on' = on \cup {sid}
       /\ may' = may \cup {sid} \cup {m.sid : m \in {m \in OfRadio(r) : ~m.off}}
  /\ radioOff' = [radioOff EXCEPT ![r] = FALSE]
  /\ dialog' = [at |-> "edit", radio |-> r]
  /\ UNCHANGED <<scan, seen>>

handleRemove(i) ==
  /\ NoDialog /\ Step
  /\ nets' = Picked(nets, DOMAIN nets \ {i})
  /\ on' = on \ {nets[i].sid} /\ may' = may \ {nets[i].sid}
  /\ UNCHANGED <<radioOff, dialog, scan, seen>>

Close ==
  /\ dialog # Nil /\ dialog.at # "scan"
  /\ dialog' = Nil
  /\ UNCHANGED <<wireless, scan, seen, steps>>

(* The name is searched from the number of sections before any was         *)
(* replaced; networks of a radio that was off are turned off themselves.   *)
Others_Kept(cfg, r) == cfg
Others(cfg, r) ==
  IF radioOff[r] THEN [i \in DOMAIN cfg |-> [cfg[i] EXCEPT !.off = @ \/ cfg[i].device = r]]
  ELSE cfg
handleJoinConfirm(replace) ==
  LET r == dialog.radio
      kept == IF replace THEN Picked(nets, {i \in DOMAIN nets : nets[i].device # r}) ELSE nets
      dropped == IF replace THEN {n.sid : n \in OfRadio(r)} ELSE {}
  IN
  /\ dialog # Nil /\ dialog.at = "join" /\ Step /\ Len(nets) < MaxNets
  /\ \E sid \in {next_free_sid(kept, Len(nets))} :
       /\ nets' = Append(Others(kept, r), Section(sid, r))
       /\ on' = (on \ dropped) \cup {sid}
       /\ may' = (may \ dropped) \cup {sid}
  /\ radioOff' = [radioOff EXCEPT ![r] = FALSE]
  /\ dialog' = [at |-> "edit", radio |-> r]
  /\ UNCHANGED <<scan, seen>>

-----------------------------------------------------------------------------
handleScan(r) ==
  /\ NoDialog /\ Step
  /\ dialog' = [at |-> "scan", radio |-> r]
  /\ scan' = [Quiet EXCEPT !.polled = TRUE]
  /\ seen' = [all |-> {}, last |-> {}]
  /\ UNCHANGED wireless

Scanning == dialog # Nil /\ dialog.at = "scan"

(* A poll calls once at a time, a poll started anew calls anew.            *)
ScanTick ==
  /\ Scanning /\ scan.polled /\ scan.calls < 2
  /\ scan' = [scan EXCEPT !.calls = @ + 1]
  /\ UNCHANGED <<wireless, dialog, seen, steps>>

(* What was seen earlier and not this time is shown stale.                 *)
Fresh(bs) == {[bss |-> b, stale |-> FALSE] : b \in bs}
Stale(bs) == {[bss |-> b, stale |-> TRUE] : b \in bs}
Cached(bs) == {c \in scan.cache : c.bss \notin bs} \cup Fresh(bs)
handleScanRefresh == \E bs \in SUBSET Bss :
  /\ Scanning /\ scan.calls > 0
  /\ LET rows == Fresh(bs) \cup {c \in Cached(bs) : c.stale}
     IN scan' = [scan EXCEPT !.rows = rows, !.calls = @ - 1,
                             !.cache = Stale({c.bss : c \in Cached(bs)})]
  /\ seen' = [all |-> seen.all \cup bs, last |-> bs]
  /\ UNCHANGED <<wireless, dialog, steps>>

handleScanStartStop ==
  /\ Scanning /\ Step
  /\ scan' = [scan EXCEPT !.polled = ~@]
  /\ UNCHANGED <<wireless, dialog, seen>>

handleScanAbort ==
  /\ Scanning
  /\ dialog' = Nil /\ scan' = Quiet
  /\ UNCHANGED <<wireless, seen, steps>>

handleJoin ==
  /\ Scanning /\ scan.rows # {}
  /\ dialog' = [dialog EXCEPT !.at = "join"] /\ scan' = Quiet
  /\ UNCHANGED <<wireless, seen, steps>>

Next ==
  \/ handleMigration \/ Close
  \/ \E i \in DOMAIN nets : network_updown(i) \/ handleRemove(i)
  \/ \E r \in Radio : handleAdd(r) \/ handleScan(r)
  \/ \E replace \in BOOLEAN : handleJoinConfirm(replace)
  \/ ScanTick \/ handleScanRefresh \/ handleScanStartStop \/ handleScanAbort \/ handleJoin

Spec == Init /\ [][Next]_vars

-----------------------------------------------------------------------------
(* Whatever is added, joined, replaced or removed, no two sections have    *)
(* one name, a network the user turned on is on until he turns it off, and *)
(* nothing else is on but what was or what enabling or adding on a radio   *)
(* that was off turned on with it: joining turns on no other network.      *)
UserDecides ==
  /\ \A i, k \in DOMAIN nets : nets[i].sid = nets[k].sid => i = k
  /\ on \subseteq OnNow
  /\ OnNow \subseteq may

(* The scan dialog shows every station its scans saw, once, and those of   *)
(* the last scan as fresh.                                                 *)
ScanShown ==
  Scanning =>
    /\ {r.bss : r \in scan.rows} = seen.all
    /\ {r.bss : r \in {r \in scan.rows : ~r.stale}} = seen.last
    /\ \A r, s \in scan.rows : r.bss = s.bss => r = s
=============================================================================
