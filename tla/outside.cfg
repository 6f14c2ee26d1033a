CONSTANTS
  T1 = T1
  T2 = T2
  i1 = i1
  x1 = x1
  n1 = n1
  n2 = n2
  a1 = a1
  a2 = a2
  r1 = r1
  r2 = r2
  r3 = r3
  r4 = r4
  p1 = p1
  None = None
  Slots = {a1, a2}
  Tenants = {T1, T2}
  Installations = {i1}
  Repos = {x1}
  Nonces = {n1, n2}
  Requests = {r1, r2, r3, r4}
  Calls = {"url", "callback", "disconnect", "connect"}
  MaxCrashes = 1
  PRs = {p1}
  MaxDiffs = 3
  MaxRestarts = 1
  Features <- TheFeatures
  Bugs <- TheBugs
  KeyOf <- TheKeys
  Parent <- TheParents
  Titles <- TheTitles
  MaxInvites = 2
  MaxResends = 1
  MaxFaults = 1
CHECK_DEADLOCK FALSE
SPECIFICATION PartSpec
SYMMETRY Symmetry
INVARIANTS AllTypeOK JoinsOnce InviterTold RemovedUnlinked LinksBack FinalUnlessOvertaken
