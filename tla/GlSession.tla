------------------------------ MODULE GlSession ------------------------------
(***************************************************************************)
(* The login/session daemon src/rootfs/usr/sbin/gl-ngx-session and the     *)
(* nginx Lua workers that call it over ubus (usr/lib/lua/oui/rpc.lua,      *)
(* usr/share/gl-ngx/oui-rpc.lua, oui-download.lua, oui-upload.lua).        *)
(*                                                                         *)
(* The daemon is one uloop thread, so each ubus method and each timer      *)
(* callback is one atomic action.  The workers are separate processes:     *)
(* what they do after the ubus reply is a step of its own.                 *)
(*                                                                         *)
(* Time is kept relative: a deadline `time_now() + d' of the code is       *)
(* stored as the seconds left until it, and Tick takes one second from     *)
(* every deadline.  `now > deadline' is then "less than 0 left".           *)
(* The user half of nonces[username][nonce] is folded into the nonce: only *)
(* whether a login matches an outstanding nonce matters here.              *)
(*                                                                         *)
(* A definition named X_<Word> just above X is a faulty variant of X.  No  *)
(* specification uses it; substituted for X it makes a property fail.      *)
(***************************************************************************)
EXTENDS Integers, FiniteSets

CONSTANTS
  Sid,                  \* session ids (32 random characters in the code)
  Nonce,                \* login nonces, with the user they were made for
  Worker,               \* nginx workers running rpc.lua
  Nil,                  \* Lua's nil: an absent table entry
  MAX_SESSION,          \* 5 in the code
  MAX_NONCE,            \* create_nonce refuses above this count, 5 in the code
  NONCE_LIFE,           \* seconds a nonce is good for, 2 in the code
  session_timeout,      \* oui-httpd.main.session_timeout, default 300
  login_fail_max_cnt,   \* oui-httpd.main.max_login_fail, default 10
  login_fail_wait_time, \* oui-httpd.main.login_fail_wait, default 600
  MaxLag,               \* bound: seconds the uloop timer may be late
  MaxStale,             \* bound: logouts of sids with no session per daemon life
  MaxClears             \* bound: sessions dropped by clear_session per daemon life

ASSUME SessionConstants ==
  /\ Nil \notin Int
  /\ MAX_SESSION \in Nat \ {0}
  /\ MAX_NONCE \in Nat
  /\ NONCE_LIFE \in Nat
  /\ session_timeout \in Nat
  /\ login_fail_max_cnt \in Nat \ {0}
  /\ login_fail_wait_time \in Nat
  /\ MaxLag \in Nat
  /\ MaxStale \in Nat
  /\ MaxClears \in Nat

ASSUME NilIsNoSid == Nil \notin Sid

VARIABLES
  login_wait,   \* seconds for which logins are still refused
  login_fail,   \* failures since the last success or lock-out
  nonce_cnt,    \* the counter that limits nonces
  nonces,       \* Nonce -> seconds left, or Nil
  session_cnt,  \* the counter that limits sessions
  sessions,     \* Sid -> seconds left, or Nil
  tokens,       \* sids with a file /tmp/gl_token_<sid>
  tmr,          \* seconds until the sweep timer fires
  held,         \* sids some client still remembers (its Admin-Token cookie)
  rpc,          \* Worker -> sid whose token the worker is about to refresh, or Nil
  stale,        \* history: logouts that met no session
  cleared       \* history: sessions dropped by clear_session

daemon == <<login_wait, login_fail, nonce_cnt, nonces, session_cnt, sessions, tmr>>
history == <<stale, cleared>>
vars == <<daemon, tokens, held, rpc, history>>

Live == {s \in Sid : sessions[s] # Nil}
Outstanding == {n \in Nonce : nonces[n] # Nil}

TypeOK ==
  /\ login_wait \in Nat
  /\ login_fail \in 0..(login_fail_max_cnt - 1)
  /\ nonce_cnt \in Int
  /\ nonces \in [Nonce -> Int \cup {Nil}]
  /\ session_cnt \in Int
  /\ sessions \in [Sid -> Int \cup {Nil}]
  /\ tokens \subseteq Sid
  /\ tmr \in -MaxLag..1
  /\ held \subseteq Sid
  /\ rpc \in [Worker -> Sid \cup {Nil}]
  /\ stale \in 0..MaxStale
  /\ cleared \in 0..MaxClears

-----------------------------------------------------------------------------
(* Start and restart.                                                      *)

\* A fresh process: empty tables, zero counters, and init() has removed every
\* token file, since no sid has a session.
Init ==
  /\ login_wait = 0 /\ login_fail = 0
  /\ nonce_cnt = 0 /\ nonces = [n \in Nonce |-> Nil]
  /\ session_cnt = 0 /\ sessions = [s \in Sid |-> Nil]
  /\ tokens = {}
  /\ tmr = 0
  /\ held = {}
  /\ rpc = [w \in Worker |-> Nil]
  /\ stale = 0 /\ cleared = 0

\* The process dies and procd starts it again (procd_set_param respawn).
\* Clients and workers keep what they had.
Respawn ==
  /\ login_wait' = 0 /\ login_fail' = 0
  /\ nonce_cnt' = 0 /\ nonces' = [n \in Nonce |-> Nil]
  /\ session_cnt' = 0 /\ sessions' = [s \in Sid |-> Nil]
  /\ tokens' = {}
  /\ tmr' = 0
  /\ stale' = 0 /\ cleared' = 0
  /\ UNCHANGED <<held, rpc>>

-----------------------------------------------------------------------------
(* ubus methods.                                                           *)

LockedOut_Early == login_wait > 1
LockedOut == login_wait > 0

FailureLimit == login_fail + 1 = login_fail_max_cnt

\* The failure count and the lock-out it leads to, shared by challenge and login.
CountFailure ==
  IF FailureLimit
  THEN login_fail' = 0 /\ login_wait' = login_fail_wait_time
  ELSE login_fail' = login_fail + 1 /\ UNCHANGED login_wait

\* challenge for a user /etc/shadow does not know.
ChallengeUnknown ==
  /\ ~LockedOut
  /\ CountFailure
  /\ UNCHANGED <<nonce_cnt, nonces, session_cnt, sessions, tmr, tokens, held, rpc, history>>

\* challenge for a known user: create_nonce, which draws a fresh id.
ChallengeKnown(n) ==
  /\ ~LockedOut
  /\ nonce_cnt <= MAX_NONCE
  /\ nonces[n] = Nil
  /\ nonces' = [nonces EXCEPT ![n] = NONCE_LIFE]
  /\ nonce_cnt' = nonce_cnt + 1
  /\ UNCHANGED <<login_wait, login_fail, session_cnt, sessions, tmr, tokens, held, rpc, history>>

\* clean_gl_token() against a session table t: only tokens of t's sids stay.
CleanTokens_Inverted(t) == {s \in tokens : t[s] = Nil}
CleanTokens(t) == {s \in tokens : t[s] # Nil}

\* login with a parameter missing or during a lock-out, neither of which is
\* counted, or with a hash that matches no outstanding nonce.
\* clean_gl_token() comes before every check.
LoginRefused ==
  /\ tokens' = CleanTokens(sessions)
  /\ \/ UNCHANGED <<login_wait, login_fail>>
     \/ ~LockedOut /\ CountFailure
  /\ UNCHANGED <<nonce_cnt, nonces, session_cnt, sessions, tmr, held, rpc, history>>

ConsumeNonce_Kept(n) ==
  /\ nonces[n] # Nil
  /\ nonce_cnt' = nonce_cnt - 1
  /\ UNCHANGED nonces

\* login_test: the matching nonce is used up.
ConsumeNonce(n) ==
  /\ nonces[n] # Nil
  /\ nonces' = [nonces EXCEPT ![n] = Nil]
  /\ nonce_cnt' = nonce_cnt - 1

\* The sessions the eviction loop may end on: the least time left, ties in
\* the order pairs() happens to visit.
LastInactive_First == {v \in Live : \A s \in Live : sessions[v] >= sessions[s]}
LastInactive == {v \in Live : \A s \in Live : sessions[v] <= sessions[s]}

\* generate_id never repeats an id that is still known somewhere.
FreshSid(s) ==
  /\ s \notin Live \cup tokens \cup held
  /\ \A w \in Worker : rpc[w] # s

\* create_session(s) in table t.
Opened(t, s) == [t EXCEPT ![s] = session_timeout]

TableFull_Late == session_cnt > MAX_SESSION
TableFull == session_cnt = MAX_SESSION

\* login, below the limit.
LoginOpens(n, s) ==
  /\ ~LockedOut
  /\ ~TableFull
  /\ FreshSid(s)
  /\ ConsumeNonce(n)
  /\ login_fail' = 0
  /\ sessions' = Opened(sessions, s)
  /\ session_cnt' = session_cnt + 1
  /\ tokens' = CleanTokens(sessions) \cup {s}
  /\ held' = held \cup {s}
  /\ UNCHANGED <<login_wait, tmr, rpc, history>>

\* login at the limit: one last inactive session v makes room.
LoginEvicts(n, s, v) ==
  /\ ~LockedOut
  /\ TableFull
  /\ FreshSid(s)
  /\ ConsumeNonce(n)
  /\ login_fail' = 0
  /\ v \in LastInactive
  /\ LET left == [sessions EXCEPT ![v] = Nil]
     IN  /\ sessions' = Opened(left, s)
         /\ tokens' = CleanTokens(left) \cup {s}
  /\ session_cnt' = session_cnt - 1 + 1
  /\ held' = held \cup {s}
  /\ UNCHANGED <<login_wait, tmr, rpc, history>>

\* login at the limit with an empty table: li_sid is nil and sessions[nil] = nil
\* raises an error after the nonce is gone and login_fail is reset.  The ubus
\* binding either contains the error or the process dies and is respawned.
LoginRaises(n) ==
  /\ ~LockedOut
  /\ TableFull
  /\ Live = {}
  /\ nonces[n] # Nil
  /\ \/ /\ ConsumeNonce(n)
        /\ login_fail' = 0
        /\ tokens' = CleanTokens(sessions)
        /\ UNCHANGED <<login_wait, session_cnt, sessions, tmr, held, rpc, history>>
     \/ Respawn

\* logout of any sid a client remembers; the counter goes down whether or not
\* the sid still has a session.
Logout(s) ==
  /\ s \in held
  /\ stale' = IF sessions[s] = Nil THEN stale + 1 ELSE stale
  /\ stale' <= MaxStale
  /\ sessions' = [sessions EXCEPT ![s] = Nil]
  /\ session_cnt' = session_cnt - 1
  /\ tokens' = CleanTokens(sessions')
  /\ UNCHANGED <<login_wait, login_fail, nonce_cnt, nonces, tmr, held, rpc, cleared>>

\* touch (rpc method `alive'), and session as oui-download and oui-upload call it.
Touch(s) ==
  /\ s \in held
  /\ sessions[s] # Nil
  /\ sessions' = [sessions EXCEPT ![s] = session_timeout]
  /\ UNCHANGED <<login_wait, login_fail, nonce_cnt, nonces, session_cnt, tmr, tokens, held, rpc, history>>

\* clear_session: a new table, the old counter.
ClearSession ==
  /\ cleared + Cardinality(Live) <= MaxClears
  /\ cleared' = cleared + Cardinality(Live)
  /\ sessions' = [s \in Sid |-> Nil]
  /\ UNCHANGED <<login_wait, login_fail, nonce_cnt, nonces, session_cnt, tmr, tokens, held, rpc, stale>>

-----------------------------------------------------------------------------
(* The timer callback and the clock.                                       *)

Expired_Late(t) == {k \in DOMAIN t : t[k] # Nil /\ t[k] < -1}
Expired(t) == {k \in DOMAIN t : t[k] # Nil /\ t[k] < 0}
Swept(t) == [k \in DOMAIN t |-> IF k \in Expired(t) THEN Nil ELSE t[k]]

\* A counter after its table was swept: one off for each entry.
Recount_Once(cnt, t) == IF Expired(t) = {} THEN cnt ELSE cnt - 1
Recount(cnt, t) == cnt - Cardinality(Expired(t))

\* tmr:set(1000)
Rearmed_Never == tmr
Rearmed == 1

Sweep ==
  /\ tmr <= 0
  /\ nonces' = Swept(nonces)
  /\ nonce_cnt' = Recount(nonce_cnt, nonces)
  /\ sessions' = Swept(sessions)
  /\ session_cnt' = Recount(session_cnt, sessions)
  /\ tokens' = tokens \ Expired(sessions)
  /\ tmr' = Rearmed
  /\ UNCHANGED <<login_wait, login_fail, held, rpc, history>>

Older(t) == [k \in DOMAIN t |-> IF t[k] = Nil THEN Nil ELSE t[k] - 1]

\* One second passes.  The loop serves a due timer at most MaxLag seconds late.
Tick ==
  /\ tmr > -MaxLag
  /\ tmr' = tmr - 1
  /\ login_wait' = IF login_wait = 0 THEN 0 ELSE login_wait - 1
  /\ nonces' = Older(nonces)
  /\ sessions' = Older(sessions)
  /\ UNCHANGED <<login_fail, nonce_cnt, session_cnt, tokens, held, rpc, history>>

-----------------------------------------------------------------------------
(* Workers and clients.                                                    *)

\* rpc.lua session(): the ubus call answers and refreshes the session ...
RpcSession(w, s) ==
  /\ rpc[w] = Nil
  /\ s \in held
  /\ sessions[s] # Nil
  /\ sessions' = [sessions EXCEPT ![s] = session_timeout]
  /\ rpc' = [rpc EXCEPT ![w] = s]
  /\ UNCHANGED <<login_wait, login_fail, nonce_cnt, nonces, session_cnt, tmr, tokens, held, history>>

\* ... and only then does the worker write the token file.
RpcToken(w) ==
  /\ rpc[w] # Nil
  /\ tokens' = tokens \cup {rpc[w]}
  /\ rpc' = [rpc EXCEPT ![w] = Nil]
  /\ UNCHANGED <<daemon, held, history>>

\* The client drops its cookie.
Forget(s) ==
  /\ s \in held
  /\ held' = held \ {s}
  /\ UNCHANGED <<daemon, tokens, rpc, history>>

-----------------------------------------------------------------------------
Login ==
  \/ LoginRefused
  \/ \E n \in Nonce : \/ LoginRaises(n)
                      \/ \E s \in Sid : \/ LoginOpens(n, s)
                                        \/ \E v \in Sid : LoginEvicts(n, s, v)

Next ==
  \/ Respawn
  \/ ChallengeUnknown
  \/ \E n \in Nonce : ChallengeKnown(n)
  \/ Login
  \/ \E s \in Sid : Logout(s)
  \/ \E s \in Sid : Touch(s)
  \/ ClearSession
  \/ Sweep
  \/ Tick
  \/ \E w \in Worker : \/ \E s \in Sid : RpcSession(w, s)
                       \/ RpcToken(w)
  \/ \E s \in Sid : Forget(s)

Spec == Init /\ [][Next]_vars

\* The clock runs, uloop serves its timer, and a worker finishes its request.
\* Nothing is assumed of clients.
Fairness ==
  /\ WF_vars(Tick)
  /\ WF_vars(Sweep)
  /\ \A w \in Worker : WF_vars(RpcToken(w))

FairSpec == Spec /\ Fairness

-----------------------------------------------------------------------------
(* Properties.                                                             *)

\* The session counter is off by exactly the sessions clear_session dropped
\* without counting them and the logouts counted without a session (logout,
\* clear_session, create_session, the eviction and the timer all move it).
SessionCountExact == session_cnt = Cardinality(Live) + cleared - stale

\* Every nonce in the table is counted once, whether login uses it up, the
\* timer removes it, or it waits; so create_nonce never refuses for nonces
\* that are gone, and at most MAX_NONCE + 1 are outstanding.
NonceCountExact ==
  /\ nonce_cnt = Cardinality(Outstanding)
  /\ nonce_cnt <= MAX_NONCE + 1

\* Both counters, which every handler moves by hand.
CountsExact == SessionCountExact /\ NonceCountExact

\* A live session always has its token file, although login, logout, the
\* eviction and the timer all delete token files.
LiveSessionHasToken == Live \subseteq tokens

\* The ubus methods never look at the deadline themselves, so an expired
\* session or nonce is still accepted until the timer removes it: for at most
\* MaxLag + 1 seconds.
ExpiredAcceptedBriefly ==
  /\ \A s \in Live : sessions[s] >= -(MaxLag + 1)
  /\ \A n \in Outstanding : nonces[n] >= -(MaxLag + 1)

\* The limit on concurrent sessions, as the code keeps it: each logout of a
\* sid that has no session makes room for one session too many.
LimitWidensByStaleLogouts == Cardinality(Live) <= MAX_SESSION + stale

\* What the proofs need besides: the session counter never passes the limit
\* that the eviction tests with `==', and no deadline is further in the past
\* than the timer is late.
SessionCntBounded == session_cnt <= MAX_SESSION

DeadlinesFollowTimer ==
  /\ \A s \in Live : sessions[s] >= tmr - 1
  /\ \A n \in Outstanding : nonces[n] >= tmr - 1

LoginStep == Live' \ Live # {}

\* A login adds one session and drops at most one, and the one it drops was
\* not used more recently than any that stays.
EvictsLastInactive ==
  [][LoginStep =>
       /\ Cardinality(Live' \ Live) = 1
       /\ Cardinality(Live \ Live') <= 1
       /\ \A v \in Live \ Live', s \in Live \cap Live' : sessions[v] <= sessions[s]]_vars

\* During a lock-out nobody gets a nonce or a session, and only the clock (or
\* a restart of the daemon, which forgets it) shortens it.
LockoutHolds ==
  [][login_wait > 0 =>
       \/ Respawn
       \/ /\ Live' \subseteq Live
          /\ Outstanding' \subseteq Outstanding
          /\ login_wait' >= login_wait - 1
          /\ tmr' = tmr => login_wait' = login_wait]_vars

\* A session is created only from a nonce that was outstanding, and that nonce
\* is gone afterwards: no nonce pays for two logins.
NoncePaysOnce ==
  [][LoginStep => /\ Cardinality(Outstanding \ Outstanding') = 1
                  /\ Outstanding' \subseteq Outstanding]_vars

\* A lock-out ends.
LockoutEnds == login_wait > 0 ~> login_wait = 0

\* A full nonce table, which refuses every user's challenge, always gets a
\* free place again.
NonceSlotReturns == nonce_cnt > MAX_NONCE ~> nonce_cnt <= MAX_NONCE

\* A session nobody uses any more ends.
IdleSessionEnds ==
  \A s \in Sid :
    \/ []<>(sessions[s] = Nil)
    \/ []<><<Touch(s) \/ \E w \in Worker : RpcSession(w, s)>>_vars

\* Whatever makes a user wait ends: a lock-out, a full nonce table, and a
\* session that nobody uses and that takes a place.
WaitsEnd == LockoutEnds /\ NonceSlotReturns /\ IdleSessionEnds

-----------------------------------------------------------------------------
\* The pool of sessions this daemon is meant to be.
Pool == INSTANCE SessionPool WITH live <- Live, Limit <- MAX_SESSION

ImplementsPool == Pool!Spec
=============================================================================
