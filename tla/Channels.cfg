SPECIFICATION ChannelsSpec
CONSTANTS
  Agents = {a, b}
  Channel = dev
  Calls = {c1}
  Backlogs <- MCBacklogs
  Spoils = TRUE
  MaxCalls = 2
  MaxMoves = 2
  MaxDeletes = 1
  MaxDoctors = 1
  None = None
INVARIANTS DoctorHeals Spared NoOffsetOutlives
SYMMETRY Symmetry
CONSTRAINT FourInAll
CHECK_DEADLOCK FALSE
