\* Clients log out only sessions that exist and nobody calls clear_session:
\* the daemon is a session pool, and it is live.  No symmetry: liveness.
SPECIFICATION FairSpec
CONSTANTS
  Sid = {s1, s2, s3}
  Nonce = {n1, n2}
  Worker = {w1}
  Nil = Nil
  MAX_SESSION = 2
  MAX_NONCE = 0
  NONCE_LIFE = 0
  session_timeout = 1
  login_fail_max_cnt = 1
  login_fail_wait_time = 2
  MaxLag = 1
  MaxStale = 0
  MaxClears = 0
PROPERTIES
  ImplementsPool
  WaitsEnd
