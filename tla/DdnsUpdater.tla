------------------------------ MODULE DdnsUpdater ------------------------------
(***************************************************************************)
(* The updaters of one section (usr/lib/gl_ddns/dynamic_dns_updater.sh).   *)
(* Every ifup and ifdown of a WAN runs `gl_ddns restart': the process in   *)
(* the PID file is told to end and a new one started, which again ends the *)
(* process in the PID file before it puts itself there.  A process that is *)
(* told to end does so when its command in the foreground returns.         *)
(*                                                                         *)
(* A PID is used once.  What the WAN's address and the registered one are  *)
(* is left open: an updater may find them to agree or not.                 *)
(***************************************************************************)
EXTENDS Integers, FiniteSets

CONSTANTS
  Pid, Nil,
  OtherUpdaters, \* updaters of other sections, for a reload
  MaxRetry,  \* retry_max_count, 0: for ever
  Once       \* force_interval is 0

VARIABLES
  ddnsEnabled, \* the option of section glddns, that init.d asks for as well
  pidfile,
  updater,     \* [pc, told, first, retry]
  startsRaced, \* two were between the end of the old one and the PID file
  missed,      \* a stop did not find one that had yet to write the file
  stopped      \* stopped while not enabled

ddnsVars == <<ddnsEnabled, pidfile, updater, startsRaced, missed, stopped>>

NewUpdater == [pc |-> "load", told |-> FALSE, first |-> TRUE, retry |-> 0]
Gone == [NewUpdater EXCEPT !.pc = "gone"]
Unused == {p \in Pid : updater[p].pc = "none"}
Alive(p) == updater[p].pc \notin {"none", "gone"}
InLoop(p) == updater[p].pc \in {"look", "send", "sleep", "verify"}

(* stop_section_processes: the process in the file, if there is one        *)
Told(us) ==
  IF pidfile # Nil /\ us[pidfile].pc # "gone" THEN [us EXCEPT ![pidfile].told = TRUE] ELSE us

DdnsInit ==
  /\ ddnsEnabled \in BOOLEAN
  /\ pidfile = Nil
  /\ updater = [p \in Pid |-> [NewUpdater EXCEPT !.pc = "none"]]
  /\ startsRaced = FALSE /\ missed = FALSE /\ stopped = FALSE

DdnsHistory == <<startsRaced, missed, stopped>>

-----------------------------------------------------------------------------
(* Commands and hotplug                                                    *)

Start ==
  /\ ddnsEnabled
  /\ \E p \in Unused : updater' = [updater EXCEPT ![p] = NewUpdater]
  /\ UNCHANGED <<ddnsEnabled, pidfile, DdnsHistory>>

Stop ==
  /\ updater' = Told(updater)
  /\ missed' = (missed \/ \E p \in Pid : updater[p].pc \in {"end", "claim"})
  /\ stopped' = ~ddnsEnabled
  /\ UNCHANGED <<ddnsEnabled, pidfile, startsRaced>>

(* SIGHUP: each updater, of whatever section, starts all sections and ends *)
Reload ==
  \E fresh \in SUBSET Unused :
    /\ Cardinality(fresh) = OtherUpdaters + Cardinality({p \in Pid : Alive(p)})
    /\ updater' = [p \in Pid |-> CASE p \in fresh -> NewUpdater
                                   [] Alive(p) -> Gone
                                   [] OTHER -> updater[p]]
    /\ UNCHANGED <<ddnsEnabled, pidfile, DdnsHistory>>

ConfigureDdns ==
  /\ ddnsEnabled' = ~ddnsEnabled
  /\ stopped' = FALSE
  /\ UNCHANGED <<pidfile, updater, startsRaced, missed>>

-----------------------------------------------------------------------------
(* An updater                                                              *)

Become(p, u) == updater' = [updater EXCEPT ![p] = u]

(* The signal's handler runs between two commands.                         *)
Ends(p) ==
  /\ Alive(p) /\ updater[p].told
  /\ Become(p, Gone)
  /\ UNCHANGED <<ddnsEnabled, pidfile, DdnsHistory>>

Load(p) ==
  /\ updater[p].pc = "load" /\ ~updater[p].told
  /\ Become(p, IF ddnsEnabled THEN [updater[p] EXCEPT !.pc = "end"] ELSE Gone)
  /\ UNCHANGED <<ddnsEnabled, pidfile, DdnsHistory>>

EndOld(p) ==
  /\ updater[p].pc = "end" /\ ~updater[p].told
  /\ updater' = [Told(updater) EXCEPT ![p].pc = "claim"]
  /\ startsRaced' = (startsRaced \/ \E q \in Pid : updater[q].pc = "claim")
  /\ UNCHANGED <<ddnsEnabled, pidfile, missed, stopped>>

(* The PID file, and the time of the last update                           *)
Claim_Late(p) ==
  /\ updater[p].pc = "claim"
  /\ Become(p, [updater[p] EXCEPT !.pc = "look"])
  /\ UNCHANGED <<ddnsEnabled, pidfile, DdnsHistory>>
Claim(p) ==
  /\ updater[p].pc = "claim"
  /\ pidfile' = p
  /\ Become(p, [updater[p] EXCEPT !.pc = "look"])
  /\ UNCHANGED <<ddnsEnabled, DdnsHistory>>

(* The first time it sends; later when the address is another or it is due.*)
(* An address that cannot be found MaxRetry times ends it.                 *)
Look(p) ==
  /\ updater[p].pc = "look" /\ ~updater[p].told
  /\ \/ \E pc \in IF updater[p].first THEN {"send"} ELSE {"send", "sleep"} :
          Become(p, [updater[p] EXCEPT !.pc = pc, !.first = FALSE])
     \/ MaxRetry > 0 /\ Become(p, Gone)
  /\ UNCHANGED <<ddnsEnabled, pidfile, DdnsHistory>>

(* Accepted or refused; a transfer that fails is tried again, MaxRetry     *)
(* times at most.  One that is told to end still sends.                    *)
Send(p) ==
  /\ updater[p].pc = "send"
  /\ \/ Become(p, [updater[p] EXCEPT !.pc = "sleep"])
     \/ MaxRetry > 0 /\ Become(p, Gone)
  /\ UNCHANGED <<ddnsEnabled, pidfile, DdnsHistory>>

Sleep(p) ==
  /\ updater[p].pc = "sleep" /\ ~updater[p].told
  /\ Become(p, [updater[p] EXCEPT !.pc = "verify"])
  /\ UNCHANGED <<ddnsEnabled, pidfile, DdnsHistory>>

(* The registered address is the one sent, or not yet: a counted retry     *)
Verified(p) ==
  /\ updater[p].pc = "verify" /\ ~updater[p].told
  /\ Become(p, IF Once THEN Gone ELSE [updater[p] EXCEPT !.pc = "look", !.retry = 0])
  /\ UNCHANGED <<ddnsEnabled, pidfile, DdnsHistory>>
Differs(p) ==
  /\ updater[p].pc = "verify" /\ ~updater[p].told
  /\ Become(p, CASE MaxRetry = 0 -> [updater[p] EXCEPT !.pc = "look"]
                 [] updater[p].retry \in 0..(MaxRetry - 1) ->
                      [updater[p] EXCEPT !.pc = "look", !.retry = @ + 1]
                 [] OTHER -> Gone)
  /\ UNCHANGED <<ddnsEnabled, pidfile, DdnsHistory>>

(* The name cannot be looked up MaxRetry times                             *)
LookupFails(p) ==
  /\ updater[p].pc = "verify" /\ ~updater[p].told /\ MaxRetry > 0
  /\ Become(p, Gone)
  /\ UNCHANGED <<ddnsEnabled, pidfile, DdnsHistory>>

-----------------------------------------------------------------------------
DdnsNext ==
  \/ Start \/ Stop \/ Reload \/ ConfigureDdns
  \/ \E p \in Pid :
       \/ Ends(p) \/ Load(p) \/ EndOld(p) \/ Claim(p) \/ Look(p) \/ Send(p)
       \/ Sleep(p) \/ Verified(p) \/ Differs(p) \/ LookupFails(p)

DdnsSpec == DdnsInit /\ [][DdnsNext]_ddnsVars

-----------------------------------------------------------------------------
(* Of the updaters at work, all but one have been told to end, and that    *)
(* one stands in the PID file, where the next stop finds it; unless two    *)
(* started side by side (dynamic_dns_updater.sh:306), as a reload with     *)
(* several sections makes them.                                            *)
OneAtWork == startsRaced \/ \A p \in Pid : InLoop(p) /\ ~updater[p].told => pidfile = p

(* After a stop of a service that is turned off nobody works on but who    *)
(* was told to end, or had not yet put itself into the PID file.           *)
StopIsFinal ==
  stopped => startsRaced \/ missed \/ \A p \in Pid : InLoop(p) => updater[p].told

UpdatersAgree == OneAtWork /\ StopIsFinal
=============================================================================
