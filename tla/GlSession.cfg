\* One stale logout allowed: the counters and the limit they give.
SPECIFICATION Spec
SYMMETRY Symmetry
CONSTANTS
  Sid = {s1, s2, s3, s4}
  Nonce = {n1, n2}
  Worker = {w1}
  Nil = Nil
  MAX_SESSION = 2
  MAX_NONCE = 1
  NONCE_LIFE = 0
  session_timeout = 1
  login_fail_max_cnt = 2
  login_fail_wait_time = 1
  MaxLag = 1
  MaxStale = 1
  MaxClears = 2
INVARIANTS
  CountsExact
  LiveSessionHasToken
  ExpiredAcceptedBriefly
  LimitWidensByStaleLogouts
PROPERTIES
  EvictsLastInactive
  LockoutHolds
  NoncePaysOnce
