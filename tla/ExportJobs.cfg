SPECIFICATION FairSpec
CONSTANTS
  Worker = {w1, w2}
  JobLimit = 2
  Chunks = 2
  ReapAfter = 1
  Retention = 1
  RestartLimit = 2
  Environments = {{}, {"slow"}, {"restart", "shutdown"}, {"db_failure"}, {"fs_failure"}}
INVARIANTS
  TypeOK
  OneWriter
  FileMatchesRow
PROPERTIES
  FollowsLifecycle
  JobsSettle
  FilesReclaimed
\* The system stops once every export requested has expired or failed.
CHECK_DEADLOCK FALSE
