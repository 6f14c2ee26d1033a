CONSTANTS
  x1 = x1
  x2 = x2
  v1 = v1
  v2 = v2
  r1 = r1
  r2 = r2
  r3 = r3
  F1 = F1
  F2 = F2
  p1 = p1
  p2 = p2
  p3 = p3
  p4 = p4
  p5 = p5
  q1 = q1
  q2 = q2
  b1 = b1
  pr1 = pr1
  eve = eve
  dan = dan
  ann = ann
  bob = bob
  WEB = WEB
  API = API
  None = None
  Undefined = Undefined
  Releases = {x1, x2}
  Versions = {v1, v2}
  Features = {F1}
  PRs = {pr1}
  Requests = {r1, r2, r3}
  Repeats = {FALSE}
  MaxLinks = 3
  Calls = {"create", "update", "remove", "addFeature", "removeFeature", "notes"}
  People = {eve, dan}
  Updaters = {q1, q2}
  FeatureTargets = {"PLANNED", "DONE"}
  BugTargets = {"OPEN", "RESOLVED", "CLOSED"}
  Webhooks = {"IN_PROGRESS"}
  MaxUpdates = 2
  RecordFeatures = {F1, F2}
  RecordProjects = {p1, p2}
  ProjectOf <- TheProjects
  Assignee <- TheAssignees
  Bugs = {b1}
  Authors = {ann, bob}
  Privileged = {ann}
  RecordCalls = {"createBug", "updateBug", "removeBug", "removeFeature", "comment", "uncomment"}
CHECK_DEADLOCK FALSE
SPECIFICATION PartSpec
SYMMETRY Symmetry
INVARIANTS AllTypeOK StatusRecorded ToldAsDue BugInProject NothingTwice NotesMerged
