CONSTANTS
  Executions = {e1}
  EventTypes = {"fork"}
  Items <- OneFork
  Null = Null
  FreshDays = 1
  ChunkDays = 1
  TargetDays = 3
  BatchSize = 2
  DBBatchSize = 2
  FirstDay = 10
  MaxDay = 10
  MaxTries = 1
  Adversity = {"crash"}
  MaxFaults = 1
  MaxTouches = 0
SPECIFICATION FairSpec
PROPERTY BackfillReachesTarget
