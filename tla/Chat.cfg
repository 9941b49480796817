SPECIFICATION Spec
CONSTANTS
  MaxPosts = 2
  MaxCommands = 2
  MaxReads = 1
  MaxDeaths = 1
  Me = me
  Peer = peer
INVARIANTS NothingPassedOver NothingUnseen Conserved
PROPERTY Shown
CHECK_DEADLOCK FALSE
