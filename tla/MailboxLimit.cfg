CONSTANTS
  Inboxes = {inbox}
  Boards = {}
  Rooms = {}
  Readers = {r1}
  Hooks = {}
  Pushers = {}
  Limits = {0, 1}
  Window = 1
  SinceCuts = {0}
  Crashes = FALSE
  Traffic = {"peer"}
  MaxLog = 3
  NoOne = NoOne
  inbox = inbox
  board = board
  room = room
  r1 = r1
  r2 = r2
  hook = hook
  pusher = pusher
SPECIFICATION Spec
INVARIANT AdvancesOnlyPastAccounted
CHECK_DEADLOCK FALSE
