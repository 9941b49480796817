CONSTANTS
  Ids = {a, b}
  Rooms = {room}
  Calls = {c1, c2}
  Evictions = TRUE
  MaxMail = 1
  MaxCalls = 2
  NoFile = NoFile
  a = a
  b = b
  d = d
  room = room
  c1 = c1
  c2 = c2
SPECIFICATION RegistrySpec
SYMMETRY Interchangeable
INVARIANTS MailKeptOnce Consistent
CHECK_DEADLOCK FALSE
