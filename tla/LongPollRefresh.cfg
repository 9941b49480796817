CONSTANTS
  Inbox = inbox
  Rooms = {room}
  Calls = {c1, c2}
  Traffic = {"peer"}
  Window = 1
  MaxLog = 1
  MaxMoves = 3
  MaxFaults = 0
  None = None
  inbox = inbox
  room = room
  c1 = c1
  c2 = c2
SPECIFICATION Spec
PROPERTY RefreshTails
CHECK_DEADLOCK FALSE
