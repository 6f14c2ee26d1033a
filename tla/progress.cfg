CONSTANTS
  r1 = r1
  r2 = r2
  r3 = r3
  p1 = p1
  p2 = p2
  p3 = p3
  p4 = p4
  p5 = p5
  WEB = WEB
  ann = ann
  T1 = T1
  i1 = i1
  x1 = x1
  n1 = n1
  None = None
  NotAsked = NotAsked
  Asked = Asked
  Projects = {p1, p2, p3, p4, p5}
  Legacy = {p1, p2}
  Bases = {WEB}
  Requests = {r1, r2, r3}
  Members = {ann}
  Calls = {"create", "feature", "update", "remove", "addMember", "removeMember"}
  Attempts = 2
CHECK_DEADLOCK FALSE
SPECIFICATION PartSpec
INVARIANTS GoesByProject LoserRetries RepliesAddUp
PROPERTIES Answered Follows DismissalLasts CatchesUp
