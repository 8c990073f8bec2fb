SPECIFICATION FairSpec
CONSTANTS
  None = None
  sVod = sVod
  sAir = sAir
  sTig = sTig
  sHal = sHal
  Session = {sAir, sHal}
  OpOf <- MCOpOf
  Code = {c1}
  Leg = {l1, l2}
  Worker = {w1}
  IdleLimit <- MCIdleLimit
  MaxAge = 2
  SweepAge = 2
  ProviderCutoff = 1
  Batch = 1
  NotifyConcurrency = 1
  Environments = {
    {},
    {"late", "slow_sweep", "handler_failure"},
    {"overlap", "slow_handler", "db_failure"},
    {"handler_failure", "crash"}}
PROPERTIES
  LegsComplete
  RowsDrain
  HandlersReleased
  ClaimsSettled
\* The system stops once every leg has been used: requests are bounded.
CHECK_DEADLOCK FALSE
