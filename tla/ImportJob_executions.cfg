SPECIFICATION FairSpec
CONSTANTS
  a = a
  b = b
  c = c
  TaskCount = 2
  OnDemand = {d1}
  Startable = {{0, 1}, {0, d1}}
  Workers = {w1, w2}
  Repos = {a, b, c}
  Rank <- MCRank
  Tenants = {u1}
  ErrorLimit = 1
  NoRepo = NoRepo
  OldCounts <- MCCounts
  OldErrors = {0}
  MaxChanges = 1
INVARIANTS WorkersDisjoint SuccessMeansHandled SenderIsHeard BalancedShards
PROPERTIES TaskEnds
CHECK_DEADLOCK FALSE
