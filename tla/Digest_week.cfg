SPECIFICATION Spec
CONSTANTS
  admin = admin
  user = user
  r1 = r1
  r2 = r2
  Run = {r1, r2}
  Tenant = {admin, user}
  Nobody = Nobody
  Admin = admin
  FirstAdmin = admin
  digestDay <- MCDay
  AdminOnly = FALSE
  Week = 3
  Cooldown = 2
  MaxChanges = 2
SYMMETRY Symmetry
CHECK_DEADLOCK FALSE
PROPERTIES OncePerCooldown UnsubscribedIsLeftAlone NobodyIsSkipped
