SPECIFICATION FairSpec
CONSTANTS
  QueueSize = 3
  BatchMax = 2
  RowLimit = 6
INVARIANTS
  TypeOK
  Accounted
  DrainedWhenStopped
PROPERTIES
  Implements
  RowsSettle
  ShutdownEnds
