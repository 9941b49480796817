CONSTANTS
  Inboxes = {inbox}
  Boards = {}
  Rooms = {}
  Readers = {r1}
  Hooks = {}
  Pushers = {pusher}
  Limits = {0}
  Window = 1
  SinceCuts = {0}
  Crashes = FALSE
  Traffic = {"peer"}
  MaxLog = 2
  NoOne = NoOne
  inbox = inbox
  board = board
  room = room
  r1 = r1
  r2 = r2
  hook = hook
  pusher = pusher
SPECIFICATION Spec
PROPERTY ReadSkipsPushed
CHECK_DEADLOCK FALSE
