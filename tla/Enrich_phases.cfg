SPECIFICATION Spec
CONSTANTS
  scheduled = scheduled
  byHand = byHand
  Run = {scheduled, byHand}
  Paying = {scheduled, byHand}
  PageSize = 3
  OldTies = {{4}}
  transientRetryAttempts = 1
  insightsMaxRetries = 2
  reputationChunkSize = 2
  reputationStale = 0
  insightsMinAge = 1
  backfillDays = 1
  MaxDay = 1
  MaxChanges = 1
SYMMETRY Symmetry
CHECK_DEADLOCK FALSE
INVARIANTS ReleasesComplete NotInflated ScoresComplete
PROPERTIES VersionsCopied 
