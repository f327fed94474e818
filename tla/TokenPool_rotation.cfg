SPECIFICATION FairPoolSpec
CONSTANTS
  N = 2
  exhaustionWindow = 2
  Importers = {m1, m2}
  Listers = {g1, g2}
  NoToken = NoToken
INVARIANTS RoundRobinFair
PROPERTIES PoolRecovers DroughtOnlyDrains
