CONSTANTS
  Executions = {e1}
  EventTypes = {"pr", "fork"}
  Items <- PullReviewFork
  Null = Null
  FreshDays = 1
  ChunkDays = 1
  TargetDays = 3
  BatchSize = 2
  DBBatchSize = 2
  FirstDay = 10
  MaxDay = 12
  MaxTries = 1
  Adversity = {"api", "db", "limit"}
  MaxFaults = 2
  MaxTouches = 0
SPECIFICATION FairSpec
INVARIANT FrontierSound
PROPERTIES BackfillCompletes FrontierNeverRises
