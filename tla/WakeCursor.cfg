\* A message is read while its batch waits for the flush.
SPECIFICATION Spec
CONSTANTS
    Mentions = {m1, m2}
    Chats = {}
    Shots = {}
    MaxCrashes = 0
    MaxFaults = 0
CHECK_DEADLOCK FALSE
INVARIANT SkipsOnlyDelivered
