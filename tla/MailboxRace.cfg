CONSTANTS
  Inboxes = {inbox}
  Boards = {}
  Rooms = {room}
  Readers = {r1}
  Hooks = {hook}
  Pushers = {}
  Limits = {0}
  Window = 1
  SinceCuts = {0, 1}
  Crashes = TRUE
  Traffic = {"peer"}
  MaxLog = 1
  NoOne = NoOne
  inbox = inbox
  board = board
  room = room
  r1 = r1
  r2 = r2
  hook = hook
  pusher = pusher
SPECIFICATION Spec
INVARIANTS NoSkip CursorWithinLog
CHECK_DEADLOCK FALSE
