CONSTANTS
  Inboxes = {}
  Boards = {}
  Rooms = {room}
  Readers = {r1, r2}
  Hooks = {}
  Pushers = {}
  Limits = {0}
  Window = 1
  SinceCuts = {0}
  Crashes = TRUE
  Traffic = {"peer", "own"}
  MaxLog = 3
  NoOne = NoOne
  inbox = inbox
  board = board
  room = room
  r1 = r1
  r2 = r2
  hook = hook
  pusher = pusher
SPECIFICATION Spec
SYMMETRY Calls
INVARIANTS TypeOK ExactlyOnce RoomsLossless
PROPERTY RefinesDelivery
CHECK_DEADLOCK FALSE
