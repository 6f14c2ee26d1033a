CONSTANTS
  r1 = r1
  r2 = r2
  t1 = t1
  t2 = t2
  k1 = k1
  k2 = k2
  w1 = w1
  w2 = w2
  None = None
  Tabs = {t1, t2}
  Tokens = {k1, k2}
  WorkspaceOf <- TheWorkspaces
  Tenants = {acme}
  Own = {mine}
  ResetLimit = 1
  MaxLinks = 2
  MaxResets = 1
  MaxSessions = 1
  MaxEdits = 1
  Slots = {r1, r2}
CHECK_DEADLOCK FALSE
SPECIFICATION PartSpec
SYMMETRY Symmetry
INVARIANTS AllTypeOK ResetEndsAccess LinksDieWithReset CacheScoped
