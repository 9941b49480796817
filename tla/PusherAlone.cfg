CONSTANTS
  Calls = {c1}
  Traffic = {"peer"}
  Commands = {"clear"}
  Targets = {"inbox"}
  IncludeRoom = TRUE
  MaxLog = 1
  MaxFailures = 1
  MaxStops = 0
  Grace = 2
  NoCall = NoCall
  c1 = c1
  c2 = c2
SPECIFICATION Spec
INVARIANT ControlAlone
CHECK_DEADLOCK FALSE
