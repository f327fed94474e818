SPECIFICATION Spec
SYMMETRY Symmetric
CONSTANTS
  pro = pro
  team = team
  Tenants = {t1}
  Repos = {a, b}
  Samples = {b}
  Plans = {pro, team}
  Pro = pro
  MaxRepos <- OneOrTwo
  Adds = {p1, p2}
  Admins = {adm1}
  Instances = {s1}
  Installations = {i1}
  Deliveries = {d1, d2}
  Window = 2
  MaxTime = 2
  MaxCalls = 4
  MaxFaults = 1
  None = None
INVARIANTS LimitKeptBySerialAdds AckedIsApplied InstallationInStep
PROPERTIES OncePerWindow
CHECK_DEADLOCK FALSE
