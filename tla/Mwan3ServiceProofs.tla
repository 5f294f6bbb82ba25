------------------------- MODULE Mwan3ServiceProofs -------------------------
(***************************************************************************)
(* Proofs about Mwan3Service, for every set of interfaces, every relation  *)
(* of their names and every number of handlers and monitors at once.       *)
(***************************************************************************)
EXTENDS Mwan3Service, TLAPS

(* Nobody waits ten seconds for the lock, and TERM does not meet           *)
(* mwan3rtmon between an (un)lock and lock_status.                         *)
Quiet == ~WaitsExpire /\ ~LateFlag

(* A hotplug call under way knows its ACTION and INTERFACE.                *)
HasJob == \A h \in Handler : pc[h] # "idle" => job[h] \in Job

Typed == TypeOK /\ HasJob

(* Who is between mwan3_lock and mwan3_unlock took the lock last.          *)
Held == \A p \in Proc : InSection(p) => lock = p

(* What a disabled service has left.                                       *)
Serving ==
  /\ \A h \in Handler : pc[h] \in {"load", "track"} => enabled
  /\ At("unload") => ~enabled
  /\ ~enabled => tracked = {} /\ (At("unload") \/ loaded = {})

(* Interfaces and their trackers, with those a handler or `stop' is about  *)
(* to start or to unload.                                                  *)
Watching ==
  /\ tracked \subseteq loaded
  /\ \A h \in Handler : pc[h] = "track" => job[h].iface \in loaded
  /\ ~At("unload") =>
       \A i \in loaded : \/ i \in unwatched \cup tracked
                         \/ \E h \in Handler : pc[h] = "track" /\ job[h].iface = i

IInv == Typed /\ Held /\ Serving /\ Watching

-----------------------------------------------------------------------------
LEMMA TypedStep == Typed /\ [Next]_vars => Typed'
<1> SUFFICES ASSUME Typed, [Next]_vars PROVE Typed'
  OBVIOUS
<1> USE ServiceConstants DEF Typed
<1>1. ASSUME NEW h \in Handler, NEW j \in Job, NewCall(h, j)
      PROVE  Typed'
  BY <1>1 DEF NewCall, Job, Typed, TypeOK, HasJob, Goto, At, Proc, HandlerPc, MonitorPc, CommandPc, Job, NoJob, service, command
<1>2. ASSUME NEW h \in Handler, Enter(h)
      PROVE  Typed'
  BY <1>2 DEF Enter, Acquire, Typed, TypeOK, HasJob, Goto, At, Proc, HandlerPc, MonitorPc, CommandPc, Job, NoJob, service, command
<1>3. ASSUME NEW h \in Handler, Test(h)
      PROVE  Typed'
  BY <1>3 DEF Test, Serves, Release, Typed, TypeOK, HasJob, Goto, At, Proc, HandlerPc, MonitorPc, CommandPc, Job, NoJob, service, command
<1>4. ASSUME NEW h \in Handler, Load(h)
      PROVE  Typed'
  BY <1>4 DEF Load, Typed, TypeOK, HasJob, Goto, At, Proc, HandlerPc, MonitorPc, CommandPc, Job, NoJob, service, command
<1>5. ASSUME NEW h \in Handler, Track(h)
      PROVE  Typed'
  BY <1>5 DEF Track, Killed, Typed, TypeOK, HasJob, Goto, At, Proc, HandlerPc, MonitorPc, CommandPc, Job, NoJob, service, command
<1>6. ASSUME NEW h \in Handler, Policies(h)
      PROVE  Typed'
  BY <1>6 DEF Policies, Release, Typed, TypeOK, HasJob, Goto, At, Proc, HandlerPc, MonitorPc, CommandPc, Job, NoJob, service, command
<1>7. ASSUME NEW h \in Handler, Global(h)
      PROVE  Typed'
  BY <1>7 DEF Global, Typed, TypeOK, HasJob, Goto, At, Proc, HandlerPc, MonitorPc, CommandPc, Job, NoJob, service, command
<1>8. ASSUME NEW h \in Handler, FindMonitor(h)
      PROVE  Typed'
  BY <1>8 DEF FindMonitor, Typed, TypeOK, HasJob, Goto, At, Proc, HandlerPc, MonitorPc, CommandPc, Job, NoJob, service, command
<1>9. ASSUME NEW h \in Handler, EnterFlush(h)
      PROVE  Typed'
  BY <1>9 DEF EnterFlush, Acquire, Typed, TypeOK, HasJob, Goto, At, Proc, HandlerPc, MonitorPc, CommandPc, Job, NoJob, service, command
<1>10. ASSUME NEW h \in Handler, Flush(h)
      PROVE  Typed'
  BY <1>10 DEF Flush, Release, Typed, TypeOK, HasJob, Goto, At, Proc, HandlerPc, MonitorPc, CommandPc, Job, NoJob, service, command
<1>11. ASSUME NEW h \in Handler, NEW m \in Monitor, Launch(h, m)
      PROVE  Typed'
  BY <1>11 DEF Launch, Typed, TypeOK, HasJob, Goto, At, Proc, HandlerPc, MonitorPc, CommandPc, Job, NoJob, service, command
<1>12. ASSUME NEW m \in Monitor, Awake(m)
      PROVE  Typed'
  BY <1>12 DEF Awake, Typed, TypeOK, HasJob, Goto, At, Proc, HandlerPc, MonitorPc, CommandPc, Job, NoJob, service, command
<1>13. ASSUME NEW m \in Monitor, EnterMonitor(m)
      PROVE  Typed'
  BY <1>13 DEF EnterMonitor, Acquire, Typed, TypeOK, HasJob, Goto, At, Proc, HandlerPc, MonitorPc, CommandPc, Job, NoJob, service, command
<1>14. ASSUME NEW m \in Monitor, Routes(m)
      PROVE  Typed'
  BY <1>14 DEF Routes, Release, Typed, TypeOK, HasJob, Goto, At, Proc, HandlerPc, MonitorPc, CommandPc, Job, NoJob, service, command
<1>15. ASSUME NEW m \in Monitor, Left(m)
      PROVE  Typed'
  BY <1>15 DEF Left, Typed, TypeOK, HasJob, Goto, At, Proc, HandlerPc, MonitorPc, CommandPc, Job, NoJob, service, command
<1>16. ASSUME NEW m \in Monitor, CleanUp(m)
      PROVE  Typed'
  BY <1>16 DEF CleanUp, Typed, TypeOK, HasJob, Goto, At, Proc, HandlerPc, MonitorPc, CommandPc, Job, NoJob, service, command
<1>17. ASSUME NEW at \in {"stop", "start", "ifup"}, NEW is \in SUBSET Iface, Order(at, is)
      PROVE  Typed'
  BY <1>17 DEF Order, Typed, TypeOK, HasJob, Goto, At, Proc, HandlerPc, MonitorPc, CommandPc, Job, NoJob, service, command
<1>18. ASSUME NEW at \in {"stop", "start", "ifup"}, NEW next \in {"disable", "enable", "read"}, EnterCommand(at, next)
      PROVE  Typed'
  BY <1>18 DEF EnterCommand, Acquire, Typed, TypeOK, HasJob, Goto, At, Proc, HandlerPc, MonitorPc, CommandPc, Job, NoJob, service, command
<1>19. ASSUME Disable
      PROVE  Typed'
  BY <1>19 DEF Disable, Typed, TypeOK, HasJob, Goto, At, Proc, HandlerPc, MonitorPc, CommandPc, Job, NoJob, service, command
<1>20. ASSUME Unload
      PROVE  Typed'
  BY <1>20 DEF Unload, Release, Typed, TypeOK, HasJob, Goto, At, Proc, HandlerPc, MonitorPc, CommandPc, Job, NoJob, service, command
<1>21. ASSUME Enable
      PROVE  Typed'
  BY <1>21 DEF Enable, Release, Typed, TypeOK, HasJob, Goto, At, Proc, HandlerPc, MonitorPc, CommandPc, Job, NoJob, service, command
<1>22. ASSUME NextIfup
      PROVE  Typed'
  BY <1>22 DEF NextIfup, Typed, TypeOK, HasJob, Goto, At, Proc, HandlerPc, MonitorPc, CommandPc, Job, NoJob, service, command
<1>23. ASSUME Refused
      PROVE  Typed'
  BY <1>23 DEF Refused, Release, Typed, TypeOK, HasJob, Goto, At, Proc, HandlerPc, MonitorPc, CommandPc, Job, NoJob, service, command
<1>24. ASSUME Read
      PROVE  Typed'
  BY <1>24 DEF Read, Release, Typed, TypeOK, HasJob, Goto, At, Proc, HandlerPc, MonitorPc, CommandPc, Job, NoJob, service, command
<1>25. ASSUME NEW i \in Iface, Skip(i)
      PROVE  Typed'
  BY <1>25 DEF Skip, Typed, TypeOK, HasJob, Goto, At, Proc, HandlerPc, MonitorPc, CommandPc, Job, NoJob, service, command
<1>26. ASSUME NEW h \in Handler, NEW i \in Iface, Ifup(h, i)
      PROVE  Typed'
  BY <1>26 DEF Ifup, Call, Typed, TypeOK, HasJob, Goto, At, Proc, HandlerPc, MonitorPc, CommandPc, Job, NoJob, service, command
<1>27. ASSUME NEW h \in Handler, NEW i \in Iface, Ifdown(h, i)
      PROVE  Typed'
  BY <1>27 DEF Ifdown, Call, Typed, TypeOK, HasJob, Goto, At, Proc, HandlerPc, MonitorPc, CommandPc, Job, NoJob, service, command
<1>28. ASSUME IfupReturned
      PROVE  Typed'
  BY <1>28 DEF IfupReturned, Returned, Typed, TypeOK, HasJob, Goto, At, Proc, HandlerPc, MonitorPc, CommandPc, Job, NoJob, service, command
<1>29. ASSUME IfdownReturned
      PROVE  Typed'
  BY <1>29 DEF IfdownReturned, Returned, Typed, TypeOK, HasJob, Goto, At, Proc, HandlerPc, MonitorPc, CommandPc, Job, NoJob, service, command
<1>30. ASSUME NEW h \in Handler, EnterUser(h)
      PROVE  Typed'
  BY <1>30 DEF EnterUser, Acquire, Typed, TypeOK, HasJob, Goto, At, Proc, HandlerPc, MonitorPc, CommandPc, Job, NoJob, service, command
<1>31. ASSUME NEW h \in Handler, User(h)
      PROVE  Typed'
  BY <1>31 DEF User, Ends, Release, Typed, TypeOK, HasJob, Goto, At, Proc, HandlerPc, MonitorPc, CommandPc, Job, NoJob, service, command
<1>32. ASSUME NEW h \in Handler, Script(h)
      PROVE  Typed'
  BY <1>32 DEF Script, Ends, Typed, TypeOK, HasJob, Goto, At, Proc, HandlerPc, MonitorPc, CommandPc, Job, NoJob, service, command
<1>33. CASE UNCHANGED vars
  BY <1>33 DEF vars, Typed, TypeOK, HasJob, Goto, At, Proc, HandlerPc, MonitorPc, CommandPc, Job, NoJob, service, command, service, command
<1> QED
  BY <1>1, <1>2, <1>3, <1>4, <1>5, <1>6, <1>7, <1>8, <1>9, <1>10, <1>11, <1>12, <1>13, <1>14, <1>15, <1>16, <1>17, <1>18, <1>19, <1>20, <1>21, <1>22, <1>23, <1>24, <1>25, <1>26, <1>27, <1>28, <1>29, <1>30, <1>31, <1>32, <1>33 DEF Next, HandlerStep, MonitorStep, CommandStep

(* A process takes the lock when nobody has it, so nobody is in a section; *)
(* who unlocks, mwan3rtmon's trap included, is in one, and alone.          *)
LEMMA HeldStep ==
  ASSUME Quiet, Typed, Held, [Next]_vars
  PROVE  Held'
<1> USE ServiceConstants DEF Typed
<1>1. ASSUME NEW h \in Handler, NEW j \in Job, NewCall(h, j)
      PROVE  Held'
  BY <1>1 DEF NewCall, Job, Held, InSection, Section, TypeOK, Goto, At, Proc, Quiet
<1>2. ASSUME NEW h \in Handler, Enter(h)
      PROVE  Held'
  BY <1>2 DEF Enter, Acquire, Held, InSection, Section, TypeOK, Goto, At, Proc, Quiet
<1>3. ASSUME NEW h \in Handler, Test(h)
      PROVE  Held'
  BY <1>3 DEF Test, Serves, Release, Held, InSection, Section, TypeOK, Goto, At, Proc, Quiet
<1>4. ASSUME NEW h \in Handler, Load(h)
      PROVE  Held'
  BY <1>4 DEF Load, Held, InSection, Section, TypeOK, Goto, At, Proc, Quiet
<1>5. ASSUME NEW h \in Handler, Track(h)
      PROVE  Held'
  BY <1>5 DEF Track, Killed, Held, InSection, Section, TypeOK, Goto, At, Proc, Quiet
<1>6. ASSUME NEW h \in Handler, Policies(h)
      PROVE  Held'
  BY <1>6 DEF Policies, Release, Held, InSection, Section, TypeOK, Goto, At, Proc, Quiet
<1>7. ASSUME NEW h \in Handler, Global(h)
      PROVE  Held'
  BY <1>7 DEF Global, Held, InSection, Section, TypeOK, Goto, At, Proc, Quiet
<1>8. ASSUME NEW h \in Handler, FindMonitor(h)
      PROVE  Held'
  BY <1>8 DEF FindMonitor, Held, InSection, Section, TypeOK, Goto, At, Proc, Quiet
<1>9. ASSUME NEW h \in Handler, EnterFlush(h)
      PROVE  Held'
  BY <1>9 DEF EnterFlush, Acquire, Held, InSection, Section, TypeOK, Goto, At, Proc, Quiet
<1>10. ASSUME NEW h \in Handler, Flush(h)
      PROVE  Held'
  BY <1>10 DEF Flush, Release, Held, InSection, Section, TypeOK, Goto, At, Proc, Quiet
<1>11. ASSUME NEW h \in Handler, NEW m \in Monitor, Launch(h, m)
      PROVE  Held'
  BY <1>11 DEF Launch, Held, InSection, Section, TypeOK, Goto, At, Proc, Quiet
<1>12. ASSUME NEW m \in Monitor, Awake(m)
      PROVE  Held'
  BY <1>12 DEF Awake, Held, InSection, Section, TypeOK, Goto, At, Proc, Quiet
<1>13. ASSUME NEW m \in Monitor, EnterMonitor(m)
      PROVE  Held'
  BY <1>13 DEF EnterMonitor, Acquire, Held, InSection, Section, TypeOK, Goto, At, Proc, Quiet
<1>14. ASSUME NEW m \in Monitor, Routes(m)
      PROVE  Held'
  BY <1>14 DEF Routes, Release, Held, InSection, Section, TypeOK, Goto, At, Proc, Quiet
<1>15. ASSUME NEW m \in Monitor, Left(m)
      PROVE  Held'
  BY <1>15 DEF Left, Held, InSection, Section, TypeOK, Goto, At, Proc, Quiet
<1>16. ASSUME NEW m \in Monitor, CleanUp(m)
      PROVE  Held'
  BY <1>16 DEF CleanUp, Held, InSection, Section, TypeOK, Goto, At, Proc, Quiet
<1>17. ASSUME NEW at \in {"stop", "start", "ifup"}, NEW is \in SUBSET Iface, Order(at, is)
      PROVE  Held'
  BY <1>17 DEF Order, Held, InSection, Section, TypeOK, Goto, At, Proc, Quiet
<1>18. ASSUME NEW at \in {"stop", "start", "ifup"}, NEW next \in {"disable", "enable", "read"}, EnterCommand(at, next)
      PROVE  Held'
  BY <1>18 DEF EnterCommand, Acquire, Held, InSection, Section, TypeOK, Goto, At, Proc, Quiet
<1>19. ASSUME Disable
      PROVE  Held'
  BY <1>19 DEF Disable, Held, InSection, Section, TypeOK, Goto, At, Proc, Quiet
<1>20. ASSUME Unload
      PROVE  Held'
  BY <1>20 DEF Unload, Release, Held, InSection, Section, TypeOK, Goto, At, Proc, Quiet
<1>21. ASSUME Enable
      PROVE  Held'
  BY <1>21 DEF Enable, Release, Held, InSection, Section, TypeOK, Goto, At, Proc, Quiet
<1>22. ASSUME NextIfup
      PROVE  Held'
  BY <1>22 DEF NextIfup, Held, InSection, Section, TypeOK, Goto, At, Proc, Quiet
<1>23. ASSUME Refused
      PROVE  Held'
  BY <1>23 DEF Refused, Release, Held, InSection, Section, TypeOK, Goto, At, Proc, Quiet
<1>24. ASSUME Read
      PROVE  Held'
  BY <1>24 DEF Read, Release, Held, InSection, Section, TypeOK, Goto, At, Proc, Quiet
<1>25. ASSUME NEW i \in Iface, Skip(i)
      PROVE  Held'
  BY <1>25 DEF Skip, Held, InSection, Section, TypeOK, Goto, At, Proc, Quiet
<1>26. ASSUME NEW h \in Handler, NEW i \in Iface, Ifup(h, i)
      PROVE  Held'
  BY <1>26 DEF Ifup, Call, Held, InSection, Section, TypeOK, Goto, At, Proc, Quiet
<1>27. ASSUME NEW h \in Handler, NEW i \in Iface, Ifdown(h, i)
      PROVE  Held'
  BY <1>27 DEF Ifdown, Call, Held, InSection, Section, TypeOK, Goto, At, Proc, Quiet
<1>28. ASSUME IfupReturned
      PROVE  Held'
  BY <1>28 DEF IfupReturned, Returned, Held, InSection, Section, TypeOK, Goto, At, Proc, Quiet
<1>29. ASSUME IfdownReturned
      PROVE  Held'
  BY <1>29 DEF IfdownReturned, Returned, Held, InSection, Section, TypeOK, Goto, At, Proc, Quiet
<1>30. ASSUME NEW h \in Handler, EnterUser(h)
      PROVE  Held'
  BY <1>30 DEF EnterUser, Acquire, Held, InSection, Section, TypeOK, Goto, At, Proc, Quiet
<1>31. ASSUME NEW h \in Handler, User(h)
      PROVE  Held'
  BY <1>31 DEF User, Ends, Release, Held, InSection, Section, TypeOK, Goto, At, Proc, Quiet
<1>32. ASSUME NEW h \in Handler, Script(h)
      PROVE  Held'
  BY <1>32 DEF Script, Ends, Held, InSection, Section, TypeOK, Goto, At, Proc, Quiet
<1>33. CASE UNCHANGED vars
  BY <1>33 DEF vars, Held, InSection, Section, TypeOK, Goto, At, Proc, Quiet, service, command
<1> QED
  BY <1>1, <1>2, <1>3, <1>4, <1>5, <1>6, <1>7, <1>8, <1>9, <1>10, <1>11, <1>12, <1>13, <1>14, <1>15, <1>16, <1>17, <1>18, <1>19, <1>20, <1>21, <1>22, <1>23, <1>24, <1>25, <1>26, <1>27, <1>28, <1>29, <1>30, <1>31, <1>32, <1>33 DEF Next, HandlerStep, MonitorStep, CommandStep

(* With the lock at `stop' no handler is past its test of `enabled'.       *)
LEMMA ServingStep ==
  ASSUME Typed, Held, Serving, [Next]_vars
  PROVE  Serving'
<1> USE ServiceConstants DEF Typed
<1>1. ASSUME NEW h \in Handler, NEW j \in Job, NewCall(h, j)
      PROVE  Serving'
  BY <1>1 DEF NewCall, Job, Serving, Held, InSection, Section, TypeOK, Goto, At, Proc, service
<1>2. ASSUME NEW h \in Handler, Enter(h)
      PROVE  Serving'
  BY <1>2 DEF Enter, Acquire, Serving, Held, InSection, Section, TypeOK, Goto, At, Proc, service
<1>3. ASSUME NEW h \in Handler, Test(h)
      PROVE  Serving'
  BY <1>3 DEF Test, Serves, Release, Serving, Held, InSection, Section, TypeOK, Goto, At, Proc, service
<1>4. ASSUME NEW h \in Handler, Load(h)
      PROVE  Serving'
  BY <1>4 DEF Load, Serving, Held, InSection, Section, TypeOK, Goto, At, Proc, service
<1>5. ASSUME NEW h \in Handler, Track(h)
      PROVE  Serving'
  BY <1>5 DEF Track, Killed, Serving, Held, InSection, Section, TypeOK, Goto, At, Proc, service
<1>6. ASSUME NEW h \in Handler, Policies(h)
      PROVE  Serving'
  BY <1>6 DEF Policies, Release, Serving, Held, InSection, Section, TypeOK, Goto, At, Proc, service
<1>7. ASSUME NEW h \in Handler, Global(h)
      PROVE  Serving'
  BY <1>7 DEF Global, Serving, Held, InSection, Section, TypeOK, Goto, At, Proc, service
<1>8. ASSUME NEW h \in Handler, FindMonitor(h)
      PROVE  Serving'
  BY <1>8 DEF FindMonitor, Serving, Held, InSection, Section, TypeOK, Goto, At, Proc, service
<1>9. ASSUME NEW h \in Handler, EnterFlush(h)
      PROVE  Serving'
  BY <1>9 DEF EnterFlush, Acquire, Serving, Held, InSection, Section, TypeOK, Goto, At, Proc, service
<1>10. ASSUME NEW h \in Handler, Flush(h)
      PROVE  Serving'
  BY <1>10 DEF Flush, Release, Serving, Held, InSection, Section, TypeOK, Goto, At, Proc, service
<1>11. ASSUME NEW h \in Handler, NEW m \in Monitor, Launch(h, m)
      PROVE  Serving'
  BY <1>11 DEF Launch, Serving, Held, InSection, Section, TypeOK, Goto, At, Proc, service
<1>12. ASSUME NEW m \in Monitor, Awake(m)
      PROVE  Serving'
  BY <1>12 DEF Awake, Serving, Held, InSection, Section, TypeOK, Goto, At, Proc, service
<1>13. ASSUME NEW m \in Monitor, EnterMonitor(m)
      PROVE  Serving'
  BY <1>13 DEF EnterMonitor, Acquire, Serving, Held, InSection, Section, TypeOK, Goto, At, Proc, service
<1>14. ASSUME NEW m \in Monitor, Routes(m)
      PROVE  Serving'
  BY <1>14 DEF Routes, Release, Serving, Held, InSection, Section, TypeOK, Goto, At, Proc, service
<1>15. ASSUME NEW m \in Monitor, Left(m)
      PROVE  Serving'
  BY <1>15 DEF Left, Serving, Held, InSection, Section, TypeOK, Goto, At, Proc, service
<1>16. ASSUME NEW m \in Monitor, CleanUp(m)
      PROVE  Serving'
  BY <1>16 DEF CleanUp, Serving, Held, InSection, Section, TypeOK, Goto, At, Proc, service
<1>17. ASSUME NEW at \in {"stop", "start", "ifup"}, NEW is \in SUBSET Iface, Order(at, is)
      PROVE  Serving'
  BY <1>17 DEF Order, Serving, Held, InSection, Section, TypeOK, Goto, At, Proc, service
<1>18. ASSUME NEW at \in {"stop", "start", "ifup"}, NEW next \in {"disable", "enable", "read"}, EnterCommand(at, next)
      PROVE  Serving'
  BY <1>18 DEF EnterCommand, Acquire, Serving, Held, InSection, Section, TypeOK, Goto, At, Proc, service
<1>19. ASSUME Disable
      PROVE  Serving'
  BY <1>19 DEF Disable, Serving, Held, InSection, Section, TypeOK, Goto, At, Proc, service
<1>20. ASSUME Unload
      PROVE  Serving'
  BY <1>20 DEF Unload, Release, Serving, Held, InSection, Section, TypeOK, Goto, At, Proc, service
<1>21. ASSUME Enable
      PROVE  Serving'
  BY <1>21 DEF Enable, Release, Serving, Held, InSection, Section, TypeOK, Goto, At, Proc, service
<1>22. ASSUME NextIfup
      PROVE  Serving'
  BY <1>22 DEF NextIfup, Serving, Held, InSection, Section, TypeOK, Goto, At, Proc, service
<1>23. ASSUME Refused
      PROVE  Serving'
  BY <1>23 DEF Refused, Release, Serving, Held, InSection, Section, TypeOK, Goto, At, Proc, service
<1>24. ASSUME Read
      PROVE  Serving'
  BY <1>24 DEF Read, Release, Serving, Held, InSection, Section, TypeOK, Goto, At, Proc, service
<1>25. ASSUME NEW i \in Iface, Skip(i)
      PROVE  Serving'
  BY <1>25 DEF Skip, Serving, Held, InSection, Section, TypeOK, Goto, At, Proc, service
<1>26. ASSUME NEW h \in Handler, NEW i \in Iface, Ifup(h, i)
      PROVE  Serving'
  BY <1>26 DEF Ifup, Call, Serving, Held, InSection, Section, TypeOK, Goto, At, Proc, service
<1>27. ASSUME NEW h \in Handler, NEW i \in Iface, Ifdown(h, i)
      PROVE  Serving'
  BY <1>27 DEF Ifdown, Call, Serving, Held, InSection, Section, TypeOK, Goto, At, Proc, service
<1>28. ASSUME IfupReturned
      PROVE  Serving'
  BY <1>28 DEF IfupReturned, Returned, Serving, Held, InSection, Section, TypeOK, Goto, At, Proc, service
<1>29. ASSUME IfdownReturned
      PROVE  Serving'
  BY <1>29 DEF IfdownReturned, Returned, Serving, Held, InSection, Section, TypeOK, Goto, At, Proc, service
<1>30. ASSUME NEW h \in Handler, EnterUser(h)
      PROVE  Serving'
  BY <1>30 DEF EnterUser, Acquire, Serving, Held, InSection, Section, TypeOK, Goto, At, Proc, service
<1>31. ASSUME NEW h \in Handler, User(h)
      PROVE  Serving'
  BY <1>31 DEF User, Ends, Release, Serving, Held, InSection, Section, TypeOK, Goto, At, Proc, service
<1>32. ASSUME NEW h \in Handler, Script(h)
      PROVE  Serving'
  BY <1>32 DEF Script, Ends, Serving, Held, InSection, Section, TypeOK, Goto, At, Proc, service
<1>33. CASE UNCHANGED vars
  BY <1>33 DEF vars, Serving, Held, InSection, Section, TypeOK, Goto, At, Proc, service, service, command
<1> QED
  BY <1>1, <1>2, <1>3, <1>4, <1>5, <1>6, <1>7, <1>8, <1>9, <1>10, <1>11, <1>12, <1>13, <1>14, <1>15, <1>16, <1>17, <1>18, <1>19, <1>20, <1>21, <1>22, <1>23, <1>24, <1>25, <1>26, <1>27, <1>28, <1>29, <1>30, <1>31, <1>32, <1>33 DEF Next, HandlerStep, MonitorStep, CommandStep

LEMMA WatchingStep ==
  ASSUME Typed, Held, Serving, Watching, [Next]_vars
  PROVE  Watching'
<1> USE ServiceConstants DEF Typed
<1>1. ASSUME NEW h \in Handler, NEW j \in Job, NewCall(h, j)
      PROVE  Watching'
  BY <1>1 DEF NewCall, Job, Watching, Serving, Held, InSection, Section, TypeOK, Goto, At, Proc, service, HasJob
<1>2. ASSUME NEW h \in Handler, Enter(h)
      PROVE  Watching'
  BY <1>2 DEF Enter, Acquire, Watching, Serving, Held, InSection, Section, TypeOK, Goto, At, Proc, service, HasJob
<1>3. ASSUME NEW h \in Handler, Test(h)
      PROVE  Watching'
  BY <1>3 DEF Test, Serves, Release, Watching, Serving, Held, InSection, Section, TypeOK, Goto, At, Proc, service, HasJob
<1>4. ASSUME NEW h \in Handler, Load(h)
      PROVE  Watching'
  BY <1>4 DEF Load, Watching, Serving, Held, InSection, Section, TypeOK, Goto, At, Proc, service, HasJob
<1>5. ASSUME NEW h \in Handler, Track(h)
      PROVE  Watching'
  BY <1>5 DEF Track, Killed, Watching, Serving, Held, InSection, Section, TypeOK, Goto, At, Proc, service, HasJob
<1>6. ASSUME NEW h \in Handler, Policies(h)
      PROVE  Watching'
  BY <1>6 DEF Policies, Release, Watching, Serving, Held, InSection, Section, TypeOK, Goto, At, Proc, service, HasJob
<1>7. ASSUME NEW h \in Handler, Global(h)
      PROVE  Watching'
  BY <1>7 DEF Global, Watching, Serving, Held, InSection, Section, TypeOK, Goto, At, Proc, service, HasJob
<1>8. ASSUME NEW h \in Handler, FindMonitor(h)
      PROVE  Watching'
  BY <1>8 DEF FindMonitor, Watching, Serving, Held, InSection, Section, TypeOK, Goto, At, Proc, service, HasJob
<1>9. ASSUME NEW h \in Handler, EnterFlush(h)
      PROVE  Watching'
  BY <1>9 DEF EnterFlush, Acquire, Watching, Serving, Held, InSection, Section, TypeOK, Goto, At, Proc, service, HasJob
<1>10. ASSUME NEW h \in Handler, Flush(h)
      PROVE  Watching'
  BY <1>10 DEF Flush, Release, Watching, Serving, Held, InSection, Section, TypeOK, Goto, At, Proc, service, HasJob
<1>11. ASSUME NEW h \in Handler, NEW m \in Monitor, Launch(h, m)
      PROVE  Watching'
  BY <1>11 DEF Launch, Watching, Serving, Held, InSection, Section, TypeOK, Goto, At, Proc, service, HasJob
<1>12. ASSUME NEW m \in Monitor, Awake(m)
      PROVE  Watching'
  BY <1>12 DEF Awake, Watching, Serving, Held, InSection, Section, TypeOK, Goto, At, Proc, service, HasJob
<1>13. ASSUME NEW m \in Monitor, EnterMonitor(m)
      PROVE  Watching'
  BY <1>13 DEF EnterMonitor, Acquire, Watching, Serving, Held, InSection, Section, TypeOK, Goto, At, Proc, service, HasJob
<1>14. ASSUME NEW m \in Monitor, Routes(m)
      PROVE  Watching'
  BY <1>14 DEF Routes, Release, Watching, Serving, Held, InSection, Section, TypeOK, Goto, At, Proc, service, HasJob
<1>15. ASSUME NEW m \in Monitor, Left(m)
      PROVE  Watching'
  BY <1>15 DEF Left, Watching, Serving, Held, InSection, Section, TypeOK, Goto, At, Proc, service, HasJob
<1>16. ASSUME NEW m \in Monitor, CleanUp(m)
      PROVE  Watching'
  BY <1>16 DEF CleanUp, Watching, Serving, Held, InSection, Section, TypeOK, Goto, At, Proc, service, HasJob
<1>17. ASSUME NEW at \in {"stop", "start", "ifup"}, NEW is \in SUBSET Iface, Order(at, is)
      PROVE  Watching'
  BY <1>17 DEF Order, Watching, Serving, Held, InSection, Section, TypeOK, Goto, At, Proc, service, HasJob
<1>18. ASSUME NEW at \in {"stop", "start", "ifup"}, NEW next \in {"disable", "enable", "read"}, EnterCommand(at, next)
      PROVE  Watching'
  BY <1>18 DEF EnterCommand, Acquire, Watching, Serving, Held, InSection, Section, TypeOK, Goto, At, Proc, service, HasJob
<1>19. ASSUME Disable
      PROVE  Watching'
  BY <1>19 DEF Disable, Watching, Serving, Held, InSection, Section, TypeOK, Goto, At, Proc, service, HasJob
<1>20. ASSUME Unload
      PROVE  Watching'
  BY <1>20 DEF Unload, Release, Watching, Serving, Held, InSection, Section, TypeOK, Goto, At, Proc, service, HasJob
<1>21. ASSUME Enable
      PROVE  Watching'
  BY <1>21 DEF Enable, Release, Watching, Serving, Held, InSection, Section, TypeOK, Goto, At, Proc, service, HasJob
<1>22. ASSUME NextIfup
      PROVE  Watching'
  BY <1>22 DEF NextIfup, Watching, Serving, Held, InSection, Section, TypeOK, Goto, At, Proc, service, HasJob
<1>23. ASSUME Refused
      PROVE  Watching'
  BY <1>23 DEF Refused, Release, Watching, Serving, Held, InSection, Section, TypeOK, Goto, At, Proc, service, HasJob
<1>24. ASSUME Read
      PROVE  Watching'
  BY <1>24 DEF Read, Release, Watching, Serving, Held, InSection, Section, TypeOK, Goto, At, Proc, service, HasJob
<1>25. ASSUME NEW i \in Iface, Skip(i)
      PROVE  Watching'
  BY <1>25 DEF Skip, Watching, Serving, Held, InSection, Section, TypeOK, Goto, At, Proc, service, HasJob
<1>26. ASSUME NEW h \in Handler, NEW i \in Iface, Ifup(h, i)
      PROVE  Watching'
  BY <1>26 DEF Ifup, Call, Watching, Serving, Held, InSection, Section, TypeOK, Goto, At, Proc, service, HasJob
<1>27. ASSUME NEW h \in Handler, NEW i \in Iface, Ifdown(h, i)
      PROVE  Watching'
  BY <1>27 DEF Ifdown, Call, Watching, Serving, Held, InSection, Section, TypeOK, Goto, At, Proc, service, HasJob
<1>28. ASSUME IfupReturned
      PROVE  Watching'
  BY <1>28 DEF IfupReturned, Returned, Watching, Serving, Held, InSection, Section, TypeOK, Goto, At, Proc, service, HasJob
<1>29. ASSUME IfdownReturned
      PROVE  Watching'
  BY <1>29 DEF IfdownReturned, Returned, Watching, Serving, Held, InSection, Section, TypeOK, Goto, At, Proc, service, HasJob
<1>30. ASSUME NEW h \in Handler, EnterUser(h)
      PROVE  Watching'
  BY <1>30 DEF EnterUser, Acquire, Watching, Serving, Held, InSection, Section, TypeOK, Goto, At, Proc, service, HasJob
<1>31. ASSUME NEW h \in Handler, User(h)
      PROVE  Watching'
  BY <1>31 DEF User, Ends, Release, Watching, Serving, Held, InSection, Section, TypeOK, Goto, At, Proc, service, HasJob
<1>32. ASSUME NEW h \in Handler, Script(h)
      PROVE  Watching'
  BY <1>32 DEF Script, Ends, Watching, Serving, Held, InSection, Section, TypeOK, Goto, At, Proc, service, HasJob
<1>33. CASE UNCHANGED vars
  BY <1>33 DEF vars, Watching, Serving, Held, InSection, Section, TypeOK, Goto, At, Proc, service, HasJob, service, command
<1> QED
  BY <1>1, <1>2, <1>3, <1>4, <1>5, <1>6, <1>7, <1>8, <1>9, <1>10, <1>11, <1>12, <1>13, <1>14, <1>15, <1>16, <1>17, <1>18, <1>19, <1>20, <1>21, <1>22, <1>23, <1>24, <1>25, <1>26, <1>27, <1>28, <1>29, <1>30, <1>31, <1>32, <1>33 DEF Next, HandlerStep, MonitorStep, CommandStep

-----------------------------------------------------------------------------
LEMMA InitIInv == Init => IInv
<1> SUFFICES ASSUME Init PROVE IInv
  OBVIOUS
<1>1. Typed
  BY ServiceConstants DEF Init, Typed, TypeOK, HasJob, Proc, HandlerPc, MonitorPc,
     CommandPc, NoJob
<1>2. Held /\ Serving /\ Watching
  BY ServiceConstants DEF Init, Held, InSection, Section, Serving, Watching, At, Proc
<1> QED
  BY <1>1, <1>2 DEF IInv

LEMMA StepIInv ==
  ASSUME Quiet
  PROVE  IInv /\ [Next]_vars => IInv'
<1> SUFFICES ASSUME IInv, [Next]_vars PROVE IInv'
  OBVIOUS
<1>1. Typed'
  BY TypedStep DEF IInv
<1>2. Held'
  BY HeldStep DEF IInv
<1>3. Serving'
  BY ServingStep DEF IInv
<1>4. Watching'
  BY WatchingStep DEF IInv
<1> QED
  BY <1>1, <1>2, <1>3, <1>4 DEF IInv

LEMMA Consequences ==
  IInv => Exclusive /\ StopLasts /\ LoadedAreTracked
<1> SUFFICES ASSUME IInv PROVE Exclusive /\ StopLasts /\ LoadedAreTracked
  OBVIOUS
<1>1. Exclusive
  BY DEF IInv, Held, Exclusive
<1>2. NobodyInSection => ~At("unload") /\ \A h \in Handler : pc[h] # "track"
  BY DEF NobodyInSection, InSection, Section, At, Proc
<1>3. StopLasts
  BY <1>2 DEF IInv, Serving, StopLasts
<1>4. LoadedAreTracked
  BY <1>2 DEF IInv, Watching, LoadedAreTracked
<1> QED
  BY <1>1, <1>3, <1>4

(* The values of the variables, whatever waits expire and whenever TERM    *)
(* comes.                                                                  *)
THEOREM ServiceTypeCorrect == Spec => []TypeOK
<1>1. Init => Typed
  BY InitIInv DEF IInv
<1>2. Typed => TypeOK
  BY DEF Typed
<1> QED
  BY <1>1, <1>2, TypedStep, PTL DEF Spec

(* As long as no wait for the lock lasts ten seconds: one process at a     *)
(* time is between mwan3_lock and mwan3_unlock.                            *)
THEOREM ServiceExclusive ==
  ASSUME Quiet
  PROVE  Spec => []Exclusive
<1>1. IInv => Exclusive
  BY Consequences
<1> QED
  BY <1>1, InitIInv, StepIInv, PTL DEF Spec

(* ... no handler brings a stopped service's trackers or rules back.       *)
THEOREM ServiceStopLasts ==
  ASSUME Quiet
  PROVE  Spec => []StopLasts
<1>1. IInv => StopLasts
  BY Consequences
<1> QED
  BY <1>1, InitIInv, StepIInv, PTL DEF Spec

(* ... an interface with rules has its tracker, unless an ifup of a name   *)
(* alike, `mwan3 ifdown' or, at a `disconnected' on a PPPoE WAN's device,  *)
(* mwan3.user ended it; and no other interface has one.                    *)
THEOREM ServiceLoadedAreTracked ==
  ASSUME Quiet
  PROVE  Spec => []LoadedAreTracked
<1>1. IInv => LoadedAreTracked
  BY Consequences
<1> QED
  BY <1>1, InitIInv, StepIInv, PTL DEF Spec
=============================================================================
