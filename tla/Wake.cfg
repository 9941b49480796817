\* The whole stack with two one-shots, a death and a fault.
SPECIFICATION FairSpec
CONSTANTS
    Mentions = {m1, m2}
    Chats = {}
    Shots = {s1, s2}
    MaxCrashes = 1
    MaxFaults = 1
CHECK_DEADLOCK FALSE
INVARIANTS
    ClaimedInTime
    ClaimedIsRun
    BusyWhileRunning
PROPERTIES
    Relayed
