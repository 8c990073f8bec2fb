SPECIFICATION Spec
CONSTANTS
  Worker = {w1}
  JobLimit = 1
  Chunks = 2
  ReapAfter = 1
  Retention = 1
  RestartLimit = 1
  Environments = {{"shutdown"}}
INVARIANTS
  ShutdownNeverReady
\* The system stops once every export requested has expired or failed.
CHECK_DEADLOCK FALSE
