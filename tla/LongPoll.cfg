CONSTANTS
  Inbox = inbox
  Rooms = {room}
  Calls = {c1, c2}
  Traffic = {"peer", "own"}
  Window = 1
  MaxLog = 2
  MaxMoves = 3
  MaxFaults = 1
  None = None
  inbox = inbox
  room = room
  c1 = c1
  c2 = c2
SPECIFICATION FairSpec
INVARIANTS InOrder OneCallEach NothingLost
CHECK_DEADLOCK FALSE
PROPERTIES FollowsRooms
