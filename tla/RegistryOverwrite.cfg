CONSTANTS
  Ids = {a, b}
  Rooms = {}
  Calls = {c1}
  Evictions = FALSE
  MaxMail = 2
  MaxCalls = 2
  NoFile = NoFile
  a = a
  b = b
  d = d
  room = room
  c1 = c1
  c2 = c2
SPECIFICATION RegistrySpec
PROPERTY RenameKeepsMail
CHECK_DEADLOCK FALSE
