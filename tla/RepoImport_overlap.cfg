CONSTANTS
  Executions = {e1, e2}
  EventTypes = {"pr", "issue"}
  Items <- OverlapItems
  Null = Null
  FreshDays = 1
  ChunkDays = 1
  TargetDays = 2
  BatchSize = 1
  DBBatchSize = 2
  FirstDay = 10
  MaxDay = 10
  MaxTries = 0
  Adversity = {"crash", "reset"}
  MaxFaults = 1
  MaxTouches = 1
SYMMETRY Executions2
SPECIFICATION Spec
INVARIANTS WindowedHistoryComplete FrontierSound
