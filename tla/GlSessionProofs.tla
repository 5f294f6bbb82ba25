--------------------------- MODULE GlSessionProofs ---------------------------
(***************************************************************************)
(* Proofs about GlSession, for every value of its constants.               *)
(*                                                                         *)
(* The counters are what has to be proved: they are moved by hand beside   *)
(* the tables they count.  TInv types the state and makes both tables      *)
(* finite, so that Cardinality means something; every other invariant is   *)
(* inductive on top of it.                                                 *)
(***************************************************************************)
EXTENDS GlSession, FiniteSetTheorems, TLAPS

\* The keys of a table that are present.
Entries(K, t) == {k \in K : t[k] # Nil}

\* Typed, and finitely many sessions and nonces.
TInv ==
  /\ TypeOK
  /\ IsFiniteSet(Live)
  /\ IsFiniteSet(Outstanding)

-----------------------------------------------------------------------------
(* Tables: what storing, deleting, sweeping and ageing do to the keys.     *)

\* Storing a deadline adds its key and nothing else (create_nonce, create_session).
LEMMA PutEntry ==
  ASSUME NEW K, NEW t \in [K -> Int \cup {Nil}], NEW k \in K, NEW d \in Int
  PROVE  /\ [t EXCEPT ![k] = d] \in [K -> Int \cup {Nil}]
         /\ Entries(K, [t EXCEPT ![k] = d]) = Entries(K, t) \cup {k}
  BY SessionConstants DEF Entries

\* Storing nil removes the key and nothing else.
LEMMA DropEntry ==
  ASSUME NEW K, NEW t \in [K -> Int \cup {Nil}], NEW k \in K
  PROVE  /\ [t EXCEPT ![k] = Nil] \in [K -> Int \cup {Nil}]
         /\ Entries(K, [t EXCEPT ![k] = Nil]) = Entries(K, t) \ {k}
  BY DEF Entries

\* The timer removes exactly the expired keys, which were present.
LEMMA SweepEntries ==
  ASSUME NEW K, NEW t \in [K -> Int \cup {Nil}]
  PROVE  /\ Swept(t) \in [K -> Int \cup {Nil}]
         /\ Expired(t) \subseteq Entries(K, t)
         /\ Entries(K, Swept(t)) = Entries(K, t) \ Expired(t)
         /\ \A k \in Entries(K, Swept(t)) : Swept(t)[k] = t[k] /\ t[k] >= 0
  BY SessionConstants DEF Entries, Swept, Expired

\* A second passing removes no key.
LEMMA OlderEntries ==
  ASSUME NEW K, NEW t \in [K -> Int \cup {Nil}]
  PROVE  /\ Older(t) \in [K -> Int \cup {Nil}]
         /\ Entries(K, Older(t)) = Entries(K, t)
         /\ \A k \in Entries(K, t) : Older(t)[k] = t[k] - 1
  BY SessionConstants DEF Entries, Older

\* The empty table has no keys.
LEMMA NoEntries ==
  ASSUME NEW K
  PROVE  /\ [k \in K |-> Nil] \in [K -> Int \cup {Nil}]
         /\ Entries(K, [k \in K |-> Nil]) = {}
  BY DEF Entries

\* Removing a part of a finite set subtracts its size.
LEMMA CardinalityMinus ==
  ASSUME NEW S, IsFiniteSet(S), NEW T \in SUBSET S
  PROVE  /\ IsFiniteSet(S \ T)
         /\ IsFiniteSet(T)
         /\ Cardinality(T) \in Nat
         /\ Cardinality(S \ T) = Cardinality(S) - Cardinality(T)
<1>1. IsFiniteSet(T)
  BY FS_Subset
<1>2. /\ IsFiniteSet(S \ T)
      /\ Cardinality(S \ T) = Cardinality(S) - Cardinality(S \cap T)
  BY <1>1, FS_Difference
<1>3. S \cap T = T
  OBVIOUS
<1>4. QED
  BY <1>1, <1>2, <1>3, FS_CardinalityType

-----------------------------------------------------------------------------
(* Type correctness.                                                       *)

LEMMA TInvInit == Init => TInv
<1> SUFFICES ASSUME Init PROVE TInv
  OBVIOUS
<1>1. TypeOK
  BY SessionConstants, NoEntries DEF Init, TypeOK
<1>2. Live = {} /\ Outstanding = {}
  BY DEF Init, Live, Outstanding
<1>3. QED
  BY <1>1, <1>2, FS_EmptySet DEF TInv

\* A restart of the daemon re-types everything from scratch.
LEMMA TInvRespawn == TInv /\ Respawn => TInv'
<1> SUFFICES ASSUME TInv, Respawn PROVE TInv'
  OBVIOUS
<1>1. TypeOK'
  BY SessionConstants, NoEntries DEF Respawn, TInv, TypeOK
<1>2. Live' = {} /\ Outstanding' = {}
  BY DEF Respawn, Live, Outstanding
<1>3. QED
  BY <1>1, <1>2, FS_EmptySet DEF TInv

LEMMA CountFailureType ==
  ASSUME TypeOK, CountFailure
  PROVE  login_wait' \in Nat /\ login_fail' \in 0..(login_fail_max_cnt - 1)
  BY SessionConstants DEF TypeOK, CountFailure, FailureLimit

-----------------------------------------------------------------------------
(* What each operation does to the two tables.                             *)

Typed == /\ sessions \in [Sid -> Int \cup {Nil}]
         /\ nonces \in [Nonce -> Int \cup {Nil}]

SameSessions == UNCHANGED <<sessions, session_cnt>>
SameNonces == UNCHANGED <<nonces, nonce_cnt>>

LEMMA LiveEntries ==
  /\ Live = Entries(Sid, sessions) /\ Live' = Entries(Sid, sessions')
  /\ Outstanding = Entries(Nonce, nonces) /\ Outstanding' = Entries(Nonce, nonces')
  BY DEF Live, Outstanding, Entries

LEMMA TInvTyped == TInv => Typed
  BY DEF TInv, TypeOK, Typed

\* A nonce is used up.
LEMMA ConsumeNonceEffect ==
  ASSUME Typed, NEW n \in Nonce, ConsumeNonce(n)
  PROVE  /\ nonces' \in [Nonce -> Int \cup {Nil}]
         /\ n \in Outstanding
         /\ Outstanding' = Outstanding \ {n}
         /\ \A k \in Outstanding' : nonces'[k] = nonces[k]
  BY LiveEntries DEF ConsumeNonce, Typed, Entries

LEMMA ChallengeKnownEffect ==
  ASSUME Typed, NEW n \in Nonce, ChallengeKnown(n)
  PROVE  /\ Typed' /\ SameSessions
         /\ n \notin Outstanding
         /\ Outstanding' = Outstanding \cup {n}
         /\ \A k \in Outstanding : nonces'[k] = nonces[k]
         /\ nonces'[n] = NONCE_LIFE
<1>1. n \notin Outstanding /\ SameSessions
  BY DEF ChallengeKnown, Outstanding, SameSessions
<1>2. Typed' /\ nonces' = [nonces EXCEPT ![n] = NONCE_LIFE]
  BY SessionConstants DEF ChallengeKnown, Typed
<1>3. QED
  BY <1>1, <1>2, LiveEntries, SessionConstants DEF Typed, Entries

LEMMA LoginOpensEffect ==
  ASSUME Typed, NEW n \in Nonce, NEW s \in Sid, LoginOpens(n, s)
  PROVE  /\ Typed' /\ ConsumeNonce(n)
         /\ s \notin Live
         /\ Live' = Live \cup {s}
         /\ \A k \in Live : sessions'[k] = sessions[k]
         /\ sessions'[s] = session_timeout
<1>1. s \notin Live /\ ConsumeNonce(n) /\ sessions' = [sessions EXCEPT ![s] = session_timeout]
  BY DEF LoginOpens, FreshSid, Opened
<1>2. Typed'
  BY <1>1, SessionConstants, ConsumeNonceEffect DEF Typed
<1>3. QED
  BY <1>1, <1>2, LiveEntries, SessionConstants DEF Typed, Entries

LEMMA LoginEvictsEffect ==
  ASSUME Typed, NEW n \in Nonce, NEW s \in Sid, NEW v \in Sid, LoginEvicts(n, s, v)
  PROVE  /\ Typed' /\ ConsumeNonce(n)
         /\ s \notin Live /\ v \in Live
         /\ Live' = (Live \ {v}) \cup {s}
         /\ \A k \in Live \ {v} : sessions'[k] = sessions[k]
         /\ sessions'[s] = session_timeout
<1>1. s \notin Live /\ v \in Live /\ ConsumeNonce(n)
  BY DEF LoginEvicts, FreshSid, LastInactive
<1> DEFINE left == [sessions EXCEPT ![v] = Nil]
<1>2. /\ left \in [Sid -> Int \cup {Nil}]
      /\ Entries(Sid, left) = Live \ {v}
      /\ \A k \in Sid \ {v} : left[k] = sessions[k]
      /\ left[v] = Nil
  BY LiveEntries DEF Typed, Entries
<1>3. sessions' = [left EXCEPT ![s] = session_timeout]
  BY DEF LoginEvicts, Opened
<1> HIDE DEF left
<1>4. sessions' \in [Sid -> Int \cup {Nil}]
  BY <1>2, <1>3, SessionConstants
<1>5. Entries(Sid, sessions') = Entries(Sid, left) \cup {s}
  BY <1>2, <1>3, SessionConstants DEF Entries
<1>6. /\ \A k \in Live \ {v} : sessions'[k] = sessions[k]
      /\ sessions'[s] = session_timeout
  BY <1>1, <1>2, <1>3 DEF Live
<1>7. Typed'
  BY <1>1, <1>4, ConsumeNonceEffect DEF Typed
<1>8. QED
  BY <1>1, <1>2, <1>5, <1>6, <1>7, LiveEntries

LEMMA LogoutEffect ==
  ASSUME Typed, NEW s \in Sid, Logout(s)
  PROVE  /\ Typed' /\ SameNonces
         /\ Live' = Live \ {s}
         /\ \A k \in Live' : sessions'[k] = sessions[k]
<1>1. Typed' /\ SameNonces /\ sessions' = [sessions EXCEPT ![s] = Nil]
  BY DEF Logout, Typed, SameNonces
<1>2. QED
  BY <1>1, LiveEntries DEF Typed, Entries

\* touch, and the session call of a worker: a new deadline for a live session.
LEMMA TouchEffect ==
  ASSUME Typed, NEW s \in Sid, Touch(s) \/ \E w \in Worker : RpcSession(w, s)
  PROVE  /\ Typed' /\ SameNonces /\ session_cnt' = session_cnt
         /\ Live' = Live
         /\ \A k \in Live \ {s} : sessions'[k] = sessions[k]
         /\ sessions'[s] = session_timeout
<1>1. /\ s \in Live /\ SameNonces /\ session_cnt' = session_cnt
      /\ sessions' = [sessions EXCEPT ![s] = session_timeout]
  BY DEF Touch, RpcSession, Live, SameNonces
<1>2. Typed'
  BY <1>1, SessionConstants DEF Typed, SameNonces
<1>3. QED
  BY <1>1, <1>2, LiveEntries, SessionConstants DEF Typed, Entries

LEMMA ClearSessionEffect ==
  ASSUME Typed, ClearSession
  PROVE  Typed' /\ SameNonces /\ session_cnt' = session_cnt /\ Live' = {}
<1>1. SameNonces /\ session_cnt' = session_cnt /\ sessions' = [s \in Sid |-> Nil]
  BY DEF ClearSession, SameNonces
<1>2. QED
  BY <1>1, LiveEntries, NoEntries DEF Typed, SameNonces

LEMMA SweepEffect ==
  ASSUME Typed, Sweep
  PROVE  /\ Typed'
         /\ Expired(sessions) \subseteq Live /\ Live' = Live \ Expired(sessions)
         /\ Expired(nonces) \subseteq Outstanding
         /\ Outstanding' = Outstanding \ Expired(nonces)
         /\ \A s \in Live' : sessions'[s] >= 0
         /\ \A n \in Outstanding' : nonces'[n] >= 0
<1>1. sessions' = Swept(sessions) /\ nonces' = Swept(nonces)
  BY DEF Sweep
<1>2. QED
  BY <1>1, LiveEntries, SweepEntries DEF Typed

LEMMA TickEffect ==
  ASSUME Typed, Tick
  PROVE  /\ Typed' /\ Live' = Live /\ Outstanding' = Outstanding
         /\ \A s \in Live : sessions'[s] = sessions[s] - 1
         /\ \A n \in Outstanding : nonces'[n] = nonces[n] - 1
<1>1. sessions' = Older(sessions) /\ nonces' = Older(nonces)
  BY DEF Tick
<1>2. QED
  BY <1>1, LiveEntries, OlderEntries DEF Typed

-----------------------------------------------------------------------------
LEMMA TInvNext == TInv /\ [Next]_vars => TInv'
<1> SUFFICES ASSUME TInv, [Next]_vars PROVE TInv'
  OBVIOUS
<1> USE SessionConstants
<1>t. Typed /\ IsFiniteSet(Live) /\ IsFiniteSet(Outstanding)
  BY TInvTyped DEF TInv
<1>f. \A x : /\ IsFiniteSet(Live \cup {x}) /\ IsFiniteSet(Live \ {x})
             /\ IsFiniteSet(Outstanding \cup {x}) /\ IsFiniteSet(Outstanding \ {x})
  BY <1>t, FS_AddElement, FS_RemoveElement
<1>1. CASE Respawn
  BY <1>1, TInvRespawn
<1>2. CASE ChallengeUnknown
  BY <1>2, CountFailureType DEF ChallengeUnknown, TInv, TypeOK, Live, Outstanding, history
<1>3. ASSUME NEW n \in Nonce, ChallengeKnown(n) PROVE TInv'
  <2>1. Typed' /\ Live' = Live /\ Outstanding' = Outstanding \cup {n}
    BY <1>t, <1>3, ChallengeKnownEffect DEF SameSessions, Live
  <2>2. TypeOK'
    BY <1>3, <2>1 DEF ChallengeKnown, TInv, TypeOK, Typed, history
  <2>3. QED
    BY <1>t, <1>f, <2>1, <2>2 DEF TInv
<1>4. CASE LoginRefused
  BY <1>4, CountFailureType DEF LoginRefused, CleanTokens, TInv, TypeOK, Live, Outstanding, history
<1>5. ASSUME NEW n \in Nonce, LoginRaises(n) PROVE TInv'
  <2>1. CASE Respawn
    BY <2>1, TInvRespawn
  <2>2. CASE ~Respawn
    <3>1. Typed' /\ Live' = Live /\ Outstanding' = Outstanding \ {n}
      BY <1>t, <1>5, <2>2, ConsumeNonceEffect DEF LoginRaises, Typed, Live
    <3>2. TypeOK'
      BY <1>5, <2>2, <3>1 DEF LoginRaises, ConsumeNonce, CleanTokens, TInv, TypeOK, Typed, history
    <3>3. QED
      BY <1>t, <1>f, <3>1, <3>2 DEF TInv
  <2>3. QED
    BY <2>1, <2>2
<1>6. ASSUME NEW n \in Nonce, NEW s \in Sid, LoginOpens(n, s) PROVE TInv'
  <2>1. Typed' /\ Live' = Live \cup {s} /\ Outstanding' = Outstanding \ {n}
    BY <1>t, <1>6, LoginOpensEffect, ConsumeNonceEffect
  <2>2. TypeOK'
    BY <1>6, <2>1 DEF LoginOpens, ConsumeNonce, CleanTokens, TInv, TypeOK, Typed, history
  <2>3. QED
    BY <1>f, <2>1, <2>2 DEF TInv
<1>7. ASSUME NEW n \in Nonce, NEW s \in Sid, NEW v \in Sid, LoginEvicts(n, s, v) PROVE TInv'
  <2>1. Typed' /\ Live' = (Live \ {v}) \cup {s} /\ Outstanding' = Outstanding \ {n}
    BY <1>t, <1>7, LoginEvictsEffect, ConsumeNonceEffect
  <2>2. tokens' \subseteq Sid
    BY <1>7 DEF LoginEvicts, CleanTokens, TInv, TypeOK
  <2>3. /\ login_fail' = 0 /\ nonce_cnt' = nonce_cnt - 1
        /\ session_cnt' = session_cnt - 1 + 1 /\ held' = held \cup {s}
        /\ UNCHANGED <<login_wait, tmr, rpc, stale, cleared>>
    BY <1>7 DEF LoginEvicts, ConsumeNonce, history
  <2>4. TypeOK'
    BY <2>1, <2>2, <2>3 DEF TInv, TypeOK, Typed
  <2>5. IsFiniteSet((Live \ {v}) \cup {s})
    BY <1>f, FS_AddElement
  <2>6. QED
    BY <1>f, <2>1, <2>4, <2>5 DEF TInv
<1>8. ASSUME NEW s \in Sid, Logout(s) PROVE TInv'
  <2>1. Typed' /\ Live' = Live \ {s} /\ Outstanding' = Outstanding
    BY <1>t, <1>8, LogoutEffect DEF SameNonces, Outstanding
  <2>2. stale' \in 0..MaxStale
    BY <1>8 DEF Logout, TInv, TypeOK
  <2>3. TypeOK'
    BY <1>8, <2>1, <2>2 DEF Logout, CleanTokens, TInv, TypeOK, Typed
  <2>4. QED
    BY <1>t, <1>f, <2>1, <2>3 DEF TInv
<1>9. ASSUME NEW s \in Sid, Touch(s) \/ \E w \in Worker : RpcSession(w, s) PROVE TInv'
  <2>1. Typed' /\ Live' = Live /\ Outstanding' = Outstanding
    BY <1>t, <1>9, TouchEffect DEF SameNonces, Outstanding
  <2>2. TypeOK'
    BY <1>9, <2>1 DEF Touch, RpcSession, TInv, TypeOK, Typed, history
  <2>3. QED
    BY <1>t, <2>1, <2>2 DEF TInv
<1>10. CASE ClearSession
  <2>1. Typed' /\ Live' = {} /\ Outstanding' = Outstanding
    BY <1>t, <1>10, ClearSessionEffect DEF SameNonces, Outstanding
  <2>2. Cardinality(Live) \in Nat
    BY <1>t, FS_CardinalityType
  <2>3. TypeOK'
    BY <1>10, <2>1, <2>2 DEF ClearSession, TInv, TypeOK, Typed
  <2>4. QED
    BY <1>t, <2>1, <2>3, FS_EmptySet DEF TInv
<1>11. CASE Sweep
  <2>1. /\ Typed'
        /\ Expired(sessions) \subseteq Live /\ Live' = Live \ Expired(sessions)
        /\ Expired(nonces) \subseteq Outstanding /\ Outstanding' = Outstanding \ Expired(nonces)
    BY <1>t, <1>11, SweepEffect
  <2>2. /\ IsFiniteSet(Live') /\ Cardinality(Expired(sessions)) \in Nat
        /\ IsFiniteSet(Outstanding') /\ Cardinality(Expired(nonces)) \in Nat
    BY <1>t, <2>1, CardinalityMinus
  <2>3. TypeOK'
    BY <1>11, <2>1, <2>2 DEF Sweep, Recount, Rearmed, TInv, TypeOK, Typed, history
  <2>4. QED
    BY <2>2, <2>3 DEF TInv
<1>12. CASE Tick
  <2>1. Typed' /\ Live' = Live /\ Outstanding' = Outstanding
    BY <1>t, <1>12, TickEffect
  <2>2. TypeOK'
    BY <1>12, <2>1 DEF Tick, TInv, TypeOK, Typed, history
  <2>3. QED
    BY <1>t, <2>1, <2>2 DEF TInv
<1>13. ASSUME NEW w \in Worker, RpcToken(w) PROVE TInv'
  BY <1>13, NilIsNoSid DEF RpcToken, TInv, TypeOK, Live, Outstanding, daemon, history
<1>14. ASSUME NEW s \in Sid, Forget(s) PROVE TInv'
  BY <1>14 DEF Forget, TInv, TypeOK, Live, Outstanding, daemon, history
<1>15. CASE UNCHANGED vars
  BY <1>15 DEF vars, daemon, history, TInv, TypeOK, Live, Outstanding
<1>16. QED
  BY <1>1, <1>2, <1>3, <1>4, <1>5, <1>6, <1>7, <1>8, <1>9, <1>10, <1>11, <1>12, <1>13,
     <1>14, <1>15 DEF Next, Login

\* The state is always of its type, and both tables are finite.
THEOREM TypeCorrect == Spec => [](TypeOK /\ TInv)
<1>1. Spec => []TInv
  BY TInvInit, TInvNext, PTL DEF Spec
<1>2. TInv => TypeOK /\ TInv
  BY DEF TInv
<1>3. QED
  BY <1>1, <1>2, PTL

\* The steps that touch neither table, neither counter and no history.
Quiet == UNCHANGED <<sessions, session_cnt, nonces, nonce_cnt, tmr, stale, cleared>>

LEMMA QuietSteps ==
  ASSUME \/ ChallengeUnknown
         \/ LoginRefused
         \/ \E w \in Worker : RpcToken(w)
         \/ \E s \in Sid : Forget(s)
         \/ UNCHANGED vars
  PROVE  Quiet /\ Live' = Live /\ Outstanding' = Outstanding
  BY DEF Quiet, ChallengeUnknown, LoginRefused, RpcToken, Forget, vars, daemon, history,
         Live, Outstanding

\* Respawn leaves empty tables.
LEMMA RespawnEmpty ==
  ASSUME Respawn
  PROVE  Live' = {} /\ Outstanding' = {}
  BY DEF Respawn, Live, Outstanding

-----------------------------------------------------------------------------
(* The nonce counter.                                                      *)

LEMMA NonceCountNext == TInv /\ NonceCountExact /\ [Next]_vars => NonceCountExact'
<1> SUFFICES ASSUME TInv, NonceCountExact, [Next]_vars PROVE NonceCountExact'
  OBVIOUS
<1> USE SessionConstants
<1>t. Typed /\ IsFiniteSet(Outstanding) /\ nonce_cnt \in Int
      /\ nonce_cnt = Cardinality(Outstanding) /\ nonce_cnt <= MAX_NONCE + 1
  BY TInvTyped DEF TInv, TypeOK, NonceCountExact
<1>c. \A n \in Nonce : ConsumeNonce(n) => NonceCountExact'
  <2> SUFFICES ASSUME NEW n \in Nonce, ConsumeNonce(n) PROVE NonceCountExact'
    OBVIOUS
  <2>1. n \in Outstanding /\ Outstanding' = Outstanding \ {n}
    BY <1>t, ConsumeNonceEffect
  <2>2. Cardinality(Outstanding \ {n}) = Cardinality(Outstanding) - 1
    BY <1>t, <2>1, FS_RemoveElement
  <2>3. nonce_cnt' = nonce_cnt - 1
    BY DEF ConsumeNonce
  <2>4. QED
    BY <1>t, <2>1, <2>2, <2>3 DEF NonceCountExact
<1>s. UNCHANGED <<nonce_cnt, nonces>> => NonceCountExact'
  BY DEF NonceCountExact, Outstanding
<1>r. CASE Respawn
  BY <1>r, RespawnEmpty, FS_EmptySet DEF Respawn, NonceCountExact
<1>1. ASSUME NEW n \in Nonce, ChallengeKnown(n) PROVE NonceCountExact'
  <2>1. n \notin Outstanding /\ Outstanding' = Outstanding \cup {n}
    BY <1>t, <1>1, ChallengeKnownEffect
  <2>2. Cardinality(Outstanding \cup {n}) = Cardinality(Outstanding) + 1
    BY <1>t, <2>1, FS_AddElement
  <2>3. nonce_cnt' = nonce_cnt + 1 /\ nonce_cnt <= MAX_NONCE
    BY <1>1 DEF ChallengeKnown
  <2>4. QED
    BY <1>t, <2>1, <2>2, <2>3 DEF NonceCountExact
<1>2. ASSUME NEW n \in Nonce,
             \/ LoginRaises(n)
             \/ \E s \in Sid : LoginOpens(n, s) \/ \E v \in Sid : LoginEvicts(n, s, v)
      PROVE NonceCountExact'
  BY <1>2, <1>c, <1>r DEF LoginRaises, LoginOpens, LoginEvicts
<1>3. ASSUME \/ \E s \in Sid : Logout(s) \/ Touch(s) \/ \E w \in Worker : RpcSession(w, s)
             \/ ClearSession
      PROVE NonceCountExact'
  BY <1>3, <1>s DEF Logout, Touch, RpcSession, ClearSession
<1>4. CASE Sweep
  <2>1. /\ Expired(nonces) \subseteq Outstanding
        /\ Outstanding' = Outstanding \ Expired(nonces)
    BY <1>t, <1>4, SweepEffect
  <2>2. /\ Cardinality(Expired(nonces)) \in Nat
        /\ Cardinality(Outstanding \ Expired(nonces))
             = Cardinality(Outstanding) - Cardinality(Expired(nonces))
    BY <1>t, <2>1, CardinalityMinus
  <2>3. nonce_cnt' = nonce_cnt - Cardinality(Expired(nonces))
    BY <1>4 DEF Sweep, Recount
  <2>4. QED
    BY <1>t, <2>1, <2>2, <2>3 DEF NonceCountExact
<1>5. CASE Tick
  <2>1. Outstanding' = Outstanding /\ nonce_cnt' = nonce_cnt
    BY <1>t, <1>5, TickEffect DEF Tick
  <2>2. QED
    BY <1>t, <2>1 DEF NonceCountExact
<1>6. ASSUME \/ ChallengeUnknown \/ LoginRefused
             \/ \E w \in Worker : RpcToken(w)
             \/ \E s \in Sid : Forget(s)
             \/ UNCHANGED vars
      PROVE NonceCountExact'
  BY <1>6, <1>s, QuietSteps DEF Quiet
<1>7. QED
  BY <1>r, <1>1, <1>2, <1>3, <1>4, <1>5, <1>6 DEF Next, Login

\* The nonce counter counts the nonces, through challenges, logins, the timer
\* and restarts, and never passes MAX_NONCE + 1.
THEOREM NonceCountCorrect == Spec => []NonceCountExact
<1>1. Init => NonceCountExact
  <2> SUFFICES ASSUME Init PROVE NonceCountExact
    OBVIOUS
  <2>1. Outstanding = {} /\ nonce_cnt = 0
    BY DEF Init, Outstanding
  <2>2. Cardinality({}) = 0
    BY FS_EmptySet
  <2>3. QED
    BY <2>1, <2>2, SessionConstants DEF NonceCountExact
<1>2. QED
  BY <1>1, NonceCountNext, TypeCorrect, PTL DEF Spec

-----------------------------------------------------------------------------
(* The session counter.                                                    *)

CountInv == SessionCountExact /\ SessionCntBounded

LEMMA SessionCountNext == TInv /\ CountInv /\ [Next]_vars => CountInv'
<1> SUFFICES ASSUME TInv, CountInv, [Next]_vars PROVE CountInv'
  OBVIOUS
<1> USE SessionConstants DEF CountInv
<1>t. /\ Typed /\ IsFiniteSet(Live) /\ Cardinality(Live) \in Nat
      /\ session_cnt \in Int /\ stale \in Nat /\ cleared \in Nat
      /\ session_cnt = Cardinality(Live) + cleared - stale /\ session_cnt <= MAX_SESSION
  BY TInvTyped, FS_CardinalityType
     DEF TInv, TypeOK, SessionCountExact, SessionCntBounded
<1>s. UNCHANGED <<Live, session_cnt, stale, cleared>> => CountInv'
  BY DEF SessionCountExact, SessionCntBounded
<1>r. CASE Respawn
  <2>1. Live' = {} /\ session_cnt' = 0 /\ stale' = 0 /\ cleared' = 0
    BY <1>r, RespawnEmpty DEF Respawn
  <2>2. Cardinality({}) = 0
    BY FS_EmptySet
  <2>3. QED
    BY <2>1, <2>2 DEF SessionCountExact, SessionCntBounded
<1>1. ASSUME NEW n \in Nonce, ChallengeKnown(n) PROVE CountInv'
  BY <1>1, <1>s DEF ChallengeKnown, Live, history
<1>2. ASSUME NEW n \in Nonce, LoginRaises(n) PROVE CountInv'
  BY <1>2, <1>r, <1>s DEF LoginRaises, Live, history
<1>3. ASSUME NEW n \in Nonce, NEW s \in Sid, LoginOpens(n, s) PROVE CountInv'
  <2>1. s \notin Live /\ Live' = Live \cup {s}
    BY <1>t, <1>3, LoginOpensEffect
  <2>2. Cardinality(Live \cup {s}) = Cardinality(Live) + 1
    BY <1>t, <2>1, FS_AddElement
  <2>3. session_cnt # MAX_SESSION /\ session_cnt' = session_cnt + 1 /\ UNCHANGED <<stale, cleared>>
    BY <1>3 DEF LoginOpens, TableFull, history
  <2>4. QED
    BY <1>t, <2>1, <2>2, <2>3 DEF SessionCountExact, SessionCntBounded
<1>4. ASSUME NEW n \in Nonce, NEW s \in Sid, NEW v \in Sid, LoginEvicts(n, s, v) PROVE CountInv'
  <2>1. s \notin Live /\ v \in Live /\ Live' = (Live \ {v}) \cup {s}
    BY <1>t, <1>4, LoginEvictsEffect
  <2>2. IsFiniteSet(Live \ {v}) /\ Cardinality(Live \ {v}) = Cardinality(Live) - 1
    BY <1>t, <2>1, FS_RemoveElement
  <2>3. Cardinality((Live \ {v}) \cup {s}) = Cardinality(Live \ {v}) + 1
    BY <2>1, <2>2, FS_AddElement
  <2>4. session_cnt' = session_cnt - 1 + 1 /\ UNCHANGED <<stale, cleared>>
    BY <1>4 DEF LoginEvicts, history
  <2>5. QED
    BY <1>t, <2>1, <2>2, <2>3, <2>4 DEF SessionCountExact, SessionCntBounded
<1>5. ASSUME NEW s \in Sid, Logout(s) PROVE CountInv'
  <2>1. Live' = Live \ {s}
    BY <1>t, <1>5, LogoutEffect
  <2>2. Cardinality(Live \ {s}) = IF s \in Live THEN Cardinality(Live) - 1 ELSE Cardinality(Live)
    BY <1>t, FS_RemoveElement
  <2>3. /\ session_cnt' = session_cnt - 1 /\ cleared' = cleared
        /\ stale' = IF s \in Live THEN stale ELSE stale + 1
    BY <1>5 DEF Logout, Live
  <2>4. QED
    BY <1>t, <2>1, <2>2, <2>3 DEF SessionCountExact, SessionCntBounded
<1>6. ASSUME NEW s \in Sid, Touch(s) \/ \E w \in Worker : RpcSession(w, s) PROVE CountInv'
  <2>1. Live' = Live /\ session_cnt' = session_cnt
    BY <1>t, <1>6, TouchEffect
  <2>2. UNCHANGED <<stale, cleared>>
    BY <1>6 DEF Touch, RpcSession, history
  <2>3. QED
    BY <1>s, <2>1, <2>2
<1>7. CASE ClearSession
  <2>1. Live' = {} /\ session_cnt' = session_cnt
    BY <1>t, <1>7, ClearSessionEffect
  <2>2. cleared' = cleared + Cardinality(Live) /\ stale' = stale
    BY <1>7 DEF ClearSession
  <2>3. QED
    BY <1>t, <2>1, <2>2, FS_EmptySet DEF SessionCountExact, SessionCntBounded
<1>8. CASE Sweep
  <2>1. Expired(sessions) \subseteq Live /\ Live' = Live \ Expired(sessions)
    BY <1>t, <1>8, SweepEffect
  <2>2. /\ Cardinality(Expired(sessions)) \in Nat
        /\ Cardinality(Live \ Expired(sessions)) = Cardinality(Live) - Cardinality(Expired(sessions))
    BY <1>t, <2>1, CardinalityMinus
  <2>3. session_cnt' = session_cnt - Cardinality(Expired(sessions)) /\ UNCHANGED <<stale, cleared>>
    BY <1>8 DEF Sweep, Recount, history
  <2>4. QED
    BY <1>t, <2>1, <2>2, <2>3 DEF SessionCountExact, SessionCntBounded
<1>9. CASE Tick
  <2>1. Live' = Live
    BY <1>t, <1>9, TickEffect
  <2>2. QED
    BY <1>9, <1>s, <2>1 DEF Tick, history
<1>10. ASSUME \/ ChallengeUnknown \/ LoginRefused
              \/ \E w \in Worker : RpcToken(w)
              \/ \E s \in Sid : Forget(s)
              \/ UNCHANGED vars
       PROVE CountInv'
  BY <1>10, <1>s, QuietSteps DEF Quiet
<1>11. QED
  BY <1>r, <1>1, <1>2, <1>3, <1>4, <1>5, <1>6, <1>7, <1>8, <1>9, <1>10 DEF Next, Login

LEMMA CountInvCorrect == Spec => [](CountInv /\ TInv)
<1>1. Init => CountInv
  <2> SUFFICES ASSUME Init PROVE CountInv
    OBVIOUS
  <2>1. Live = {} /\ session_cnt = 0 /\ stale = 0 /\ cleared = 0
    BY DEF Init, Live
  <2>2. Cardinality({}) = 0
    BY FS_EmptySet
  <2>3. QED
    BY <2>1, <2>2, SessionConstants DEF CountInv, SessionCountExact, SessionCntBounded
<1>2. QED
  BY <1>1, SessionCountNext, TypeCorrect, PTL DEF Spec

\* The session counter is wrong by the stale logouts and the cleared sessions,
\* and by nothing else.
THEOREM SessionCountCorrect == Spec => []SessionCountExact
<1>1. CountInv /\ TInv => SessionCountExact
  BY DEF CountInv
<1>2. QED
  BY <1>1, CountInvCorrect, PTL

\* Both counters, which every handler moves by hand, are right after every
\* step.
THEOREM CountsCorrect == Spec => []CountsExact
<1>1. SessionCountExact /\ NonceCountExact => CountsExact
  BY DEF CountsExact
<1> QED  BY <1>1, SessionCountCorrect, NonceCountCorrect, PTL

\* The limit on sessions is exceeded by at most one for each stale logout.
THEOREM LimitCorrect == Spec => []LimitWidensByStaleLogouts
<1>1. CountInv /\ TInv => LimitWidensByStaleLogouts
  <2> SUFFICES ASSUME CountInv, TInv PROVE LimitWidensByStaleLogouts
    OBVIOUS
  <2>1. Cardinality(Live) \in Nat
    BY FS_CardinalityType DEF TInv
  <2>2. QED
    BY <2>1, SessionConstants DEF CountInv, SessionCountExact, SessionCntBounded, TInv,
       TypeOK, LimitWidensByStaleLogouts
<1>2. QED
  BY <1>1, CountInvCorrect, PTL

-----------------------------------------------------------------------------
(* Token files.                                                            *)

LEMMA TokenNext == TInv /\ LiveSessionHasToken /\ [Next]_vars => LiveSessionHasToken'
<1> SUFFICES ASSUME TInv, LiveSessionHasToken, [Next]_vars PROVE LiveSessionHasToken'
  OBVIOUS
<1> USE DEF LiveSessionHasToken
<1>t. Typed /\ tokens \subseteq Sid
  BY TInvTyped DEF TInv, TypeOK
<1>r. CASE Respawn
  BY <1>r, RespawnEmpty
<1>1. ASSUME NEW n \in Nonce, ChallengeKnown(n) PROVE LiveSessionHasToken'
  BY <1>1 DEF ChallengeKnown, Live
<1>2. CASE LoginRefused
  BY <1>2 DEF LoginRefused, CleanTokens, Live
<1>3. ASSUME NEW n \in Nonce, LoginRaises(n) PROVE LiveSessionHasToken'
  BY <1>3, <1>r DEF LoginRaises, CleanTokens, Live
<1>4. ASSUME NEW n \in Nonce, NEW s \in Sid, LoginOpens(n, s) PROVE LiveSessionHasToken'
  <2>1. Live' = Live \cup {s}
    BY <1>t, <1>4, LoginOpensEffect
  <2>2. Live \cup {s} \subseteq CleanTokens(sessions) \cup {s}
    BY DEF CleanTokens, Live
  <2>3. QED
    BY <1>4, <2>1, <2>2 DEF LoginOpens
<1>5. ASSUME NEW n \in Nonce, NEW s \in Sid, NEW v \in Sid, LoginEvicts(n, s, v)
      PROVE  LiveSessionHasToken'
  <2> DEFINE left == [sessions EXCEPT ![v] = Nil]
  <2>1. Live' = (Live \ {v}) \cup {s}
    BY <1>t, <1>5, LoginEvictsEffect
  <2>2. Live \ {v} \subseteq CleanTokens(left)
    BY <1>t DEF CleanTokens, Live, Typed
  <2>3. tokens' = CleanTokens(left) \cup {s}
    BY <1>5 DEF LoginEvicts
  <2>4. QED
    BY <2>1, <2>2, <2>3
<1>6. ASSUME NEW s \in Sid, Logout(s) PROVE LiveSessionHasToken'
  <2>1. Live' = Live \ {s} /\ tokens' = {k \in tokens : sessions'[k] # Nil}
    BY <1>t, <1>6, LogoutEffect DEF Logout, CleanTokens
  <2>2. QED
    BY <2>1 DEF Live
<1>7. ASSUME NEW s \in Sid, Touch(s) \/ \E w \in Worker : RpcSession(w, s)
      PROVE  LiveSessionHasToken'
  BY <1>t, <1>7, TouchEffect DEF Touch, RpcSession
<1>8. CASE ClearSession
  BY <1>t, <1>8, ClearSessionEffect
<1>9. CASE Sweep
  BY <1>t, <1>9, SweepEffect DEF Sweep
<1>10. CASE Tick
  BY <1>t, <1>10, TickEffect DEF Tick
<1>11. ASSUME \/ ChallengeUnknown
              \/ \E w \in Worker : RpcToken(w)
              \/ \E s \in Sid : Forget(s)
              \/ UNCHANGED vars
       PROVE LiveSessionHasToken'
  BY <1>11 DEF ChallengeUnknown, RpcToken, Forget, vars, daemon, Live
<1>12. QED
  BY <1>r, <1>1, <1>2, <1>3, <1>4, <1>5, <1>6, <1>7, <1>8, <1>9, <1>10, <1>11 DEF Next, Login

\* No clean-up ever deletes the token file of a live session.
THEOREM TokensCorrect == Spec => []LiveSessionHasToken
<1>1. Init => LiveSessionHasToken
  BY DEF Init, Live, LiveSessionHasToken
<1>2. QED
  BY <1>1, TokenNext, TypeCorrect, PTL DEF Spec

-----------------------------------------------------------------------------
(* Deadlines.                                                              *)

LEMMA DeadlinesNext == TInv /\ DeadlinesFollowTimer /\ [Next]_vars => DeadlinesFollowTimer'
<1> SUFFICES ASSUME TInv, DeadlinesFollowTimer, [Next]_vars PROVE DeadlinesFollowTimer'
  OBVIOUS
<1> USE SessionConstants
<1>t. /\ Typed /\ tmr \in Int /\ tmr <= 1
      /\ \A s \in Live : sessions[s] \in Int /\ sessions[s] >= tmr - 1
      /\ \A n \in Outstanding : nonces[n] \in Int /\ nonces[n] >= tmr - 1
  BY TInvTyped DEF TInv, TypeOK, Typed, Live, Outstanding, DeadlinesFollowTimer
<1>n. \A n \in Nonce : ConsumeNonce(n) /\ tmr' = tmr =>
        \A k \in Outstanding' : nonces'[k] >= tmr' - 1
  BY <1>t, ConsumeNonceEffect
<1>r. CASE Respawn
  BY <1>r, RespawnEmpty DEF DeadlinesFollowTimer
<1>1. ASSUME NEW n \in Nonce, ChallengeKnown(n) PROVE DeadlinesFollowTimer'
  <2>1. /\ Live' = Live /\ sessions' = sessions /\ tmr' = tmr
        /\ Outstanding' = Outstanding \cup {n} /\ nonces'[n] = NONCE_LIFE
        /\ \A k \in Outstanding : nonces'[k] = nonces[k]
    BY <1>t, <1>1, ChallengeKnownEffect DEF ChallengeKnown, Live
  <2>2. QED
    BY <1>t, <2>1 DEF DeadlinesFollowTimer
<1>2. ASSUME NEW n \in Nonce, LoginRaises(n) PROVE DeadlinesFollowTimer'
  <2>1. CASE ~Respawn
    <3>1. ConsumeNonce(n) /\ Live' = Live /\ sessions' = sessions /\ tmr' = tmr
      BY <1>2, <2>1 DEF LoginRaises, Live
    <3>2. QED
      BY <1>t, <1>n, <3>1 DEF DeadlinesFollowTimer
  <2>2. QED
    BY <1>r, <2>1
<1>3. ASSUME NEW n \in Nonce, NEW s \in Sid, LoginOpens(n, s) PROVE DeadlinesFollowTimer'
  <2>1. /\ ConsumeNonce(n) /\ Live' = Live \cup {s} /\ tmr' = tmr
        /\ \A k \in Live : sessions'[k] = sessions[k]
        /\ sessions'[s] = session_timeout
    BY <1>t, <1>3, LoginOpensEffect DEF LoginOpens
  <2>2. QED
    BY <1>t, <1>n, <2>1 DEF DeadlinesFollowTimer
<1>4. ASSUME NEW n \in Nonce, NEW s \in Sid, NEW v \in Sid, LoginEvicts(n, s, v)
      PROVE  DeadlinesFollowTimer'
  <2>1. /\ ConsumeNonce(n) /\ Live' = (Live \ {v}) \cup {s} /\ tmr' = tmr
        /\ \A k \in Live \ {v} : sessions'[k] = sessions[k]
        /\ sessions'[s] = session_timeout
    BY <1>t, <1>4, LoginEvictsEffect DEF LoginEvicts
  <2>2. QED
    BY <1>t, <1>n, <2>1 DEF DeadlinesFollowTimer
<1>5. ASSUME NEW s \in Sid, Logout(s) PROVE DeadlinesFollowTimer'
  <2>1. /\ Live' = Live \ {s} /\ nonces' = nonces /\ tmr' = tmr /\ Outstanding' = Outstanding
        /\ \A k \in Live' : sessions'[k] = sessions[k]
    BY <1>t, <1>5, LogoutEffect DEF Logout, Outstanding
  <2>2. QED
    BY <1>t, <2>1 DEF DeadlinesFollowTimer
<1>6. ASSUME NEW s \in Sid, Touch(s) \/ \E w \in Worker : RpcSession(w, s)
      PROVE  DeadlinesFollowTimer'
  <2>1. /\ Live' = Live /\ nonces' = nonces /\ tmr' = tmr /\ Outstanding' = Outstanding
        /\ \A k \in Live \ {s} : sessions'[k] = sessions[k]
        /\ sessions'[s] = session_timeout
    BY <1>t, <1>6, TouchEffect DEF Touch, RpcSession, Outstanding
  <2>2. QED
    BY <1>t, <2>1 DEF DeadlinesFollowTimer
<1>7. CASE ClearSession
  <2>1. Live' = {} /\ nonces' = nonces /\ tmr' = tmr /\ Outstanding' = Outstanding
    BY <1>t, <1>7, ClearSessionEffect DEF ClearSession, Outstanding
  <2>2. QED
    BY <1>t, <2>1 DEF DeadlinesFollowTimer
<1>8. CASE Sweep
  <2>1. /\ tmr' = 1
        /\ \A s \in Live' : sessions'[s] >= 0
        /\ \A n \in Outstanding' : nonces'[n] >= 0
    BY <1>t, <1>8, SweepEffect DEF Sweep, Rearmed
  <2>2. QED
    BY <2>1 DEF DeadlinesFollowTimer
<1>9. CASE Tick
  <2>1. /\ Live' = Live /\ Outstanding' = Outstanding /\ tmr' = tmr - 1
        /\ \A s \in Live : sessions'[s] = sessions[s] - 1
        /\ \A n \in Outstanding : nonces'[n] = nonces[n] - 1
    BY <1>t, <1>9, TickEffect DEF Tick
  <2>2. QED
    BY <1>t, <2>1 DEF DeadlinesFollowTimer
<1>10. ASSUME \/ ChallengeUnknown \/ LoginRefused
              \/ \E w \in Worker : RpcToken(w)
              \/ \E s \in Sid : Forget(s)
              \/ UNCHANGED vars
       PROVE DeadlinesFollowTimer'
  BY <1>10, <1>t, QuietSteps DEF Quiet, DeadlinesFollowTimer
<1>11. QED
  BY <1>r, <1>1, <1>2, <1>3, <1>4, <1>5, <1>6, <1>7, <1>8, <1>9, <1>10 DEF Next, Login

\* An expired session or nonce is accepted for at most MaxLag + 1 seconds.
THEOREM ExpiryCorrect == Spec => []ExpiredAcceptedBriefly
<1>1. Init => DeadlinesFollowTimer
  BY DEF Init, Live, Outstanding, DeadlinesFollowTimer
<1>2. TInv /\ DeadlinesFollowTimer => ExpiredAcceptedBriefly
  BY SessionConstants
     DEF TInv, TypeOK, Live, Outstanding, DeadlinesFollowTimer, ExpiredAcceptedBriefly
<1>3. QED
  BY <1>1, <1>2, DeadlinesNext, TypeCorrect, PTL DEF Spec

-----------------------------------------------------------------------------
(* What a step may do.                                                     *)

\* The steps that open no session.
LEMMA OnlyLoginOpens ==
  ASSUME TInv, [Next]_vars, LoginStep
  PROVE  \E n \in Nonce, s \in Sid :
           \/ LoginOpens(n, s)
           \/ \E v \in Sid : LoginEvicts(n, s, v)
<1>t. Typed
  BY TInvTyped
<1>1. ~Respawn
  BY RespawnEmpty DEF LoginStep
<1>2. ~Sweep /\ ~Tick /\ ~ClearSession
  BY <1>t, SweepEffect, TickEffect, ClearSessionEffect DEF LoginStep
<1>3. \A s \in Sid : ~Logout(s)
  BY <1>t, LogoutEffect DEF LoginStep
<1>4. \A s \in Sid : ~Touch(s) /\ \A w \in Worker : ~RpcSession(w, s)
  BY <1>t, TouchEffect DEF LoginStep
<1>5. \A n \in Nonce : ~ChallengeKnown(n) /\ ~LoginRaises(n)
  BY <1>1 DEF ChallengeKnown, LoginRaises, LoginStep, Live
<1>6. /\ ~ChallengeUnknown /\ ~LoginRefused /\ ~UNCHANGED vars
      /\ \A w \in Worker : ~RpcToken(w)
      /\ \A s \in Sid : ~Forget(s)
  BY QuietSteps DEF LoginStep
<1>7. QED
  BY <1>1, <1>2, <1>3, <1>4, <1>5, <1>6 DEF Next, Login

LEMMA SingletonSize ==
  ASSUME NEW S, NEW x, S = {x}
  PROVE  Cardinality(S) = 1
  BY FS_Singleton

LEMMA EvictionStep ==
  ASSUME TInv, [Next]_vars, LoginStep
  PROVE  /\ Cardinality(Live' \ Live) = 1
         /\ Cardinality(Live \ Live') <= 1
         /\ \A v \in Live \ Live', s \in Live \cap Live' : sessions[v] <= sessions[s]
<1>t. Typed
  BY TInvTyped
<1>1. PICK n \in Nonce, s \in Sid : LoginOpens(n, s) \/ \E v \in Sid : LoginEvicts(n, s, v)
  BY OnlyLoginOpens
<1>2. CASE LoginOpens(n, s)
  <2>1. Live' \ Live = {s} /\ Live \ Live' = {}
    BY <1>t, <1>2, LoginOpensEffect
  <2>2. Cardinality({}) = 0
    BY FS_EmptySet
  <2>3. QED
    BY SMTT(60), <2>1, <2>2, SingletonSize
<1>3. ASSUME NEW v \in Sid, LoginEvicts(n, s, v)
      PROVE  /\ Cardinality(Live' \ Live) = 1
             /\ Cardinality(Live \ Live') <= 1
             /\ \A u \in Live \ Live', k \in Live \cap Live' : sessions[u] <= sessions[k]
  <2>1. Live' \ Live = {s} /\ Live \ Live' = {v}
    BY <1>t, <1>3, LoginEvictsEffect
  <2>2. v \in LastInactive
    BY <1>3 DEF LoginEvicts
  <2>3. \A u \in Live \ Live', k \in Live \cap Live' : sessions[u] <= sessions[k]
    BY <2>1, <2>2 DEF LastInactive
  <2>4. Cardinality({s}) = 1 /\ Cardinality({v}) = 1
    BY SingletonSize
  <2>5. QED
    BY <2>1, <2>3, <2>4
<1>4. QED
  BY <1>1, <1>2, <1>3

\* A login opens one session and at most replaces a last inactive one.
THEOREM EvictionCorrect == Spec => EvictsLastInactive
<1>1. TInv /\ [Next]_vars =>
        [LoginStep => /\ Cardinality(Live' \ Live) = 1
                      /\ Cardinality(Live \ Live') <= 1
                      /\ \A v \in Live \ Live', s \in Live \cap Live' :
                           sessions[v] <= sessions[s]]_vars
  BY EvictionStep
<1>2. QED
  BY <1>1, TypeCorrect, PTL DEF Spec, EvictsLastInactive

LEMMA NonceStep ==
  ASSUME TInv, [Next]_vars, LoginStep
  PROVE  /\ Cardinality(Outstanding \ Outstanding') = 1
         /\ Outstanding' \subseteq Outstanding
<1>t. Typed
  BY TInvTyped
<1>1. PICK n \in Nonce : ConsumeNonce(n)
  BY OnlyLoginOpens DEF LoginOpens, LoginEvicts
<1>2. n \in Outstanding /\ Outstanding' = Outstanding \ {n}
  BY <1>t, <1>1, ConsumeNonceEffect
<1>3. Outstanding \ Outstanding' = {n}
  BY <1>2
<1>4. QED
  BY <1>2, <1>3, SingletonSize

\* No nonce pays for two logins.
THEOREM NonceOnceCorrect == Spec => NoncePaysOnce
<1>1. TInv /\ [Next]_vars =>
        [LoginStep => /\ Cardinality(Outstanding \ Outstanding') = 1
                      /\ Outstanding' \subseteq Outstanding]_vars
  BY NonceStep
<1>2. QED
  BY <1>1, TypeCorrect, PTL DEF Spec, NoncePaysOnce

LEMMA LockoutStep ==
  ASSUME TInv, [Next]_vars, login_wait > 0
  PROVE  \/ Respawn
         \/ /\ Live' \subseteq Live
            /\ Outstanding' \subseteq Outstanding
            /\ login_wait' >= login_wait - 1
            /\ tmr' = tmr => login_wait' = login_wait
<1>t. Typed /\ login_wait \in Nat /\ tmr \in Int
  BY SessionConstants, TInvTyped DEF TInv, TypeOK
<1> DEFINE Held == /\ Live' \subseteq Live
                   /\ Outstanding' \subseteq Outstanding
                   /\ login_wait' >= login_wait - 1
                   /\ tmr' = tmr => login_wait' = login_wait
<1>1. ~ChallengeUnknown /\ \A n \in Nonce : ~ChallengeKnown(n) /\ ~LoginRaises(n)
  BY DEF ChallengeUnknown, ChallengeKnown, LoginRaises, LockedOut
<1>2. \A n \in Nonce, s \in Sid : ~LoginOpens(n, s) /\ \A v \in Sid : ~LoginEvicts(n, s, v)
  BY DEF LoginOpens, LoginEvicts, LockedOut
<1>3. ASSUME \/ LoginRefused
             \/ \E w \in Worker : RpcToken(w)
             \/ \E s \in Sid : Forget(s)
             \/ UNCHANGED vars
      PROVE Held
  <2>1. login_wait' = login_wait
    BY <1>3 DEF LoginRefused, LockedOut, RpcToken, Forget, vars, daemon
  <2>2. Live' = Live /\ Outstanding' = Outstanding
    BY <1>3, QuietSteps
  <2>3. QED
    BY <1>t, <2>1, <2>2
<1>4. ASSUME NEW s \in Sid, Logout(s) PROVE Held
  <2>1. Live' \subseteq Live
    BY <1>t, <1>4, LogoutEffect
  <2>2. Outstanding' = Outstanding /\ login_wait' = login_wait
    BY <1>4 DEF Logout, Outstanding
  <2>3. QED
    BY <1>t, <2>1, <2>2
<1>5. ASSUME NEW s \in Sid, Touch(s) \/ \E w \in Worker : RpcSession(w, s) PROVE Held
  BY <1>t, <1>5, TouchEffect DEF Touch, RpcSession, Outstanding
<1>6. CASE ClearSession
  BY <1>t, <1>6, ClearSessionEffect DEF ClearSession, Outstanding
<1>7. CASE Sweep
  BY <1>t, <1>7, SweepEffect DEF Sweep
<1>8. CASE Tick
  <2>1. Live' = Live /\ Outstanding' = Outstanding
    BY <1>t, <1>8, TickEffect
  <2>2. tmr' = tmr - 1 /\ login_wait' = login_wait - 1
    BY <1>t, <1>8 DEF Tick
  <2>3. QED
    BY <1>t, <2>1, <2>2
<1>9. QED
  BY <1>1, <1>2, <1>3, <1>4, <1>5, <1>6, <1>7, <1>8 DEF Next, Login

\* A lock-out is only ever shortened by the clock or by a restart.
THEOREM LockoutCorrect == Spec => LockoutHolds
<1>1. TInv /\ [Next]_vars =>
        [login_wait > 0 => \/ Respawn
                           \/ /\ Live' \subseteq Live
                              /\ Outstanding' \subseteq Outstanding
                              /\ login_wait' >= login_wait - 1
                              /\ tmr' = tmr => login_wait' = login_wait]_vars
  BY LockoutStep
<1>2. QED
  BY <1>1, TypeCorrect, PTL DEF Spec, LockoutHolds

-----------------------------------------------------------------------------
(* Implementation of the session pool.                                     *)

\* While no client logs out an absent session and nobody calls clear_session,
\* a step of the daemon is a step of the pool or leaves it alone.
LEMMA PoolStep ==
  ASSUME MaxStale = 0, MaxClears = 0, TInv, CountInv, [Next]_vars
  PROVE  [Pool!Next]_Live
<1> USE SessionConstants
<1>t. Typed /\ IsFiniteSet(Live) /\ Cardinality(Live) \in Nat /\ Live \subseteq Sid
  BY TInvTyped, FS_CardinalityType DEF TInv, Live
<1>c. session_cnt = Cardinality(Live) /\ Cardinality(Live) <= MAX_SESSION
  BY <1>t DEF TInv, TypeOK, CountInv, SessionCountExact, SessionCntBounded
<1>g. ASSUME NEW gone \in SUBSET Live, Live' = Live \ gone PROVE [Pool!Next]_Live
  BY <1>g DEF Pool!Next, Pool!Close
<1>r. CASE Respawn
  BY <1>r, <1>g, RespawnEmpty
<1>1. ASSUME NEW n \in Nonce, ChallengeKnown(n) PROVE [Pool!Next]_Live
  BY <1>1 DEF ChallengeKnown, Live
<1>2. ASSUME NEW n \in Nonce, LoginRaises(n) PROVE [Pool!Next]_Live
  BY <1>2, <1>r DEF LoginRaises, Live
<1>3. ASSUME NEW n \in Nonce, NEW s \in Sid, LoginOpens(n, s) PROVE [Pool!Next]_Live
  <2>1. s \notin Live /\ Live' = Live \cup {s}
    BY <1>t, <1>3, LoginOpensEffect
  <2>2. Cardinality(Live) < MAX_SESSION
    BY <1>t, <1>c, <1>3 DEF LoginOpens, TableFull
  <2>3. Pool!Open(s)
    BY <2>1, <2>2 DEF Pool!Open, Pool!Cardinality, Cardinality
  <2>4. QED
    BY <2>3 DEF Pool!Next
<1>4. ASSUME NEW n \in Nonce, NEW s \in Sid, NEW v \in Sid, LoginEvicts(n, s, v)
      PROVE  [Pool!Next]_Live
  <2>1. s \notin Live /\ v \in Live /\ Live' = (Live \ {v}) \cup {s}
    BY <1>t, <1>4, LoginEvictsEffect
  <2>2. Cardinality(Live) = MAX_SESSION
    BY <1>c, <1>4 DEF LoginEvicts, TableFull
  <2>3. Pool!Replace(s, v)
    BY <2>1, <2>2 DEF Pool!Replace, Pool!Cardinality, Cardinality
  <2>4. QED
    BY <2>3 DEF Pool!Next
<1>5. ASSUME NEW s \in Sid, Logout(s) PROVE [Pool!Next]_Live
  <2>1. s \in Live /\ Live' = Live \ {s}
    BY <1>t, <1>5, LogoutEffect DEF Logout, Live, TInv, TypeOK
  <2>2. QED
    BY <1>g, <2>1
<1>6. ASSUME NEW s \in Sid, Touch(s) \/ \E w \in Worker : RpcSession(w, s) PROVE [Pool!Next]_Live
  BY <1>t, <1>6, TouchEffect
<1>7. CASE ClearSession
  <2>1. Live' = {}
    BY <1>t, <1>7, ClearSessionEffect
  <2>2. QED
    BY <1>g, <2>1
<1>8. CASE Sweep
  BY <1>t, <1>8, <1>g, SweepEffect
<1>9. CASE Tick
  BY <1>t, <1>9, TickEffect
<1>10. ASSUME \/ ChallengeUnknown \/ LoginRefused
              \/ \E w \in Worker : RpcToken(w)
              \/ \E s \in Sid : Forget(s)
              \/ UNCHANGED vars
       PROVE [Pool!Next]_Live
  BY <1>10, QuietSteps
<1>11. QED
  BY <1>r, <1>1, <1>2, <1>3, <1>4, <1>5, <1>6, <1>7, <1>8, <1>9, <1>10 DEF Next, Login

\* The daemon implements the pool of at most MAX_SESSION sessions, provided no
\* absent session is logged out and clear_session drops none.
THEOREM PoolRefined ==
  ASSUME MaxStale = 0, MaxClears = 0
  PROVE  Spec => ImplementsPool
<1>1. Init => Pool!Init
  BY DEF Init, Live, Pool!Init
<1>2. TInv /\ CountInv /\ [Next]_vars => [Pool!Next]_Live
  BY PoolStep
<1>3. QED
  BY <1>1, <1>2, CountInvCorrect, PTL DEF Spec, ImplementsPool, Pool!Spec
=============================================================================
