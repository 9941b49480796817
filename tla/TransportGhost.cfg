CONSTANTS
  Locals = {p1}
  Remotes = {r1}
  Attachers = {}
  Detachers = {}
  Listers = {l1}
  Crashes = TRUE
  StaleAge = 2
  None = None
  Torn = Torn
  p1 = p1
  p2 = p2
  p3 = p3
  r1 = r1
  c1 = c1
  c2 = c2
  d1 = d1
  l1 = l1
SPECIFICATION FairSpec
PROPERTY GhostGoes
CHECK_DEADLOCK FALSE
