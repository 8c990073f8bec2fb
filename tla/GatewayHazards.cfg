SPECIFICATION Spec
CONSTANTS
  None = None
  sVod = sVod
  sAir = sAir
  sTig = sTig
  sHal = sHal
  Session = {sHal}
  OpOf <- MCOpOf
  Code = {c1, c2}
  Leg = {l1, l2}
  Worker = {w1, w2}
  IdleLimit <- MCIdleLimit
  MaxAge = 2
  SweepAge = 2
  ProviderCutoff = 1
  Batch = 1
  NotifyConcurrency = 1
  Environments = {
    {"overlap", "spread", "late", "reuse", "slow_sweep"},
    {"overlap", "slow_handler", "reuse"},
    {"late", "crash", "db_failure", "status_change"},
    {"overlap", "handler_failure", "collected"}}
SYMMETRY Symmetry
INVARIANTS
  TypeOK
  ClaimedRowIsGone
  NoticeReachesOpener
\* The system stops once every leg has been used: requests are bounded.
CHECK_DEADLOCK FALSE
