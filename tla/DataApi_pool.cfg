SPECIFICATION Spec
CONSTANTS
  t1 = t1
  t2 = t2
  r1 = r1
  r2 = r2
  c1 = c1
  c2 = c2
  q1 = q1
  q2 = q2
  Tenant = {t1, t2}
  Exporter = {t1}
  Cleared = Cleared
  Req = {r1, r2}
  Conn = {c1, c2}
  NoReq = NoReq
  NoConn = NoConn
  Query = {q1, q2}
  Served = {"health", "overview", "export", "settings", "admin", "stats", "add", "delete"}
  ServerTTL = 0
  MaxTTL = 1
  MaxEntries = 2
  MaxNow = 1
  MaxRequests = 3
  MaxFaults = 1
SYMMETRY Symmetry
CHECK_DEADLOCK FALSE
INVARIANTS OwnRowsOnly PoolStatementsTakeEffect StaleOnlyIfOvertaken
PROPERTY FreshStaysCached
