CONSTANTS
  k1 = k1
  k2 = k2
  c1 = c1
  s1 = s1
  w1 = w1
  w2 = w2
  WARNING = WARNING
  ALERT = ALERT
  NotAsked = NotAsked
  Asked = Asked
  None = None
  MaxRows = 2
  Keys = {k1, k2}
  Creators = {w1, w2}
  Instances = {s1}
  Conns = {c1}
  SeenLimit = 1
  PollLimit = 2
  InOrder = FALSE
  SEVERITIES <- TheSeverities
  PAGE_SIZE = 1
  MaxMarks = 1
  CachedQueries = {"features", "feature", "bugs", "bug", "projects", "project", "releases", "release",
                   "users", "user", "me", "invitations", "pullRequests", "pullRequest",
                   "workspace", "stats", "installation"}
  MaxChanges = 2
  MaxFailures = 0
  Roles = {"ADMIN"}
  MaxUndone = 1
  MaxPanelFailures = 0
  MaxClicks = 0
  Zones <- Changes
  Nows = {671, 680}
  Timestamps <- TheTimestamps
  Weeks = 3
  MaxEvents = 1
  MaxDrops = 0
  MaxFaults = 1
CHECK_DEADLOCK FALSE
SPECIFICATION PartSpec
INVARIANTS AllTypeOK BroadcastOnce Agrees OwnChangesShown Placed
