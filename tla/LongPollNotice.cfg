CONSTANTS
  Inbox = inbox
  Rooms = {}
  Calls = {c1}
  Traffic = {"peer"}
  Window = 1
  MaxLog = 1
  MaxMoves = 0
  MaxFaults = 0
  None = None
  inbox = inbox
  room = room
  c1 = c1
  c2 = c2
SPECIFICATION FairSpec
PROPERTY Noticed
CHECK_DEADLOCK FALSE
