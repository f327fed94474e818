SPECIFICATION Spec
SYMMETRY Symmetric
CONSTANTS
  pro = pro
  team = team
  Tenants = {t1}
  Repos = {a, b}
  Samples = {}
  Plans = {pro}
  Pro = pro
  MaxRepos <- OneOrTwo
  Adds = {p1, p2}
  Admins = {}
  Instances = {s1}
  Installations = {i1}
  Deliveries = {d1}
  Window = 1
  MaxTime = 0
  MaxCalls = 3
  MaxFaults = 0
  None = None
INVARIANTS PlanLimit
CHECK_DEADLOCK FALSE
