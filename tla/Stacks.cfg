\* A chat and the admin CLI invite, dismiss and kick the same agent.
SPECIFICATION Spec
CONSTANTS
    Pids = {p1, p2}
    Tasks = {t1}
    Chats = {chat}
    Admins = {admin}
    Faults = TRUE
    MaxCommands = 3
    None = None
    p1 = p1
    p2 = p2
    t1 = t1
    chat = chat
    admin = admin
SYMMETRY Symmetry
CHECK_DEADLOCK FALSE
INVARIANTS OneStack Marked
PROPERTY QuitLeavesNone
