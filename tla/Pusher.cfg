CONSTANTS
  Calls = {c1}
  Traffic = {"peer", "slash"}
  Commands = {"clear"}
  Targets = {"inbox"}
  IncludeRoom = TRUE
  MaxLog = 1
  MaxFailures = 1
  MaxStops = 1
  Grace = 2
  NoCall = NoCall
  c1 = c1
  c2 = c2
SPECIFICATION FairSpec
INVARIANTS ConfirmedWasTyped Conserved TypedInOrder ReminderAfterClear
CHECK_DEADLOCK FALSE
PROPERTIES Relayed WipedIsReanchored
