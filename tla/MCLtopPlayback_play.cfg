SPECIFICATION FairSpec
CONSTANTS
  x = x
  y = y
  z = z
  f1 = f1
  f2 = f2
  Target = {x, y, z}
  Fs = {f1, f2}
  FsOf <- MCFsOf
  Mdt = {y}
  Order <- MCOrder
  Interval = 2
  MaxTime = 4
  MaxRecords = 4
  Minute = 2
  None = None
INVARIANTS
  TypeOK
  SeriesSound
  NoFuture
  BetweenBatches
  BatchShown
PROPERTY
  ComesToEnd
CHECK_DEADLOCK FALSE
