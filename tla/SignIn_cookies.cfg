SPECIFICATION Spec
CONSTANTS
  b1 = b1
  b2 = b2
  u1 = u1
  ip = ip
  s1 = s1
  s2 = s2
  Nil = Nil
  Browser = {b1, b2}
  User = {u1}
  Slot = {s1, s2}
  Ip = {ip}
  Addr <- MCAddr
  Rate = 2
  Window = 1
  MaxFlows = 2
  MaxFaults = 1
SYMMETRY Symmetry
CHECK_DEADLOCK FALSE
INVARIANTS OwnSession AtMostRate
