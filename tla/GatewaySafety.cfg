SPECIFICATION Spec
CONSTANTS
  None = None
  sVod = sVod
  sAir = sAir
  sTig = sTig
  sHal = sHal
  Session = {sVod, sAir, sTig, sHal}
  OpOf <- MCOpOf
  Code = {c1}
  Leg = {l1, l2, l3}
  Worker = {w1, w2}
  IdleLimit <- MCIdleLimit
  MaxAge = 2
  SweepAge = 2
  ProviderCutoff = 1
  Batch = 1
  NotifyConcurrency = 1
  Environments = {
    {},
    {"late"},
    {"overlap"}}
SYMMETRY Symmetry
INVARIANTS
  HoldersCovered
  TrailComplete
  OrderlyEndNotice
PROPERTIES
  NoNoticeAfterEnd
  StrayLegOpensNoRow
\* The system stops once every leg has been used: requests are bounded.
CHECK_DEADLOCK FALSE
