CONSTANTS
  Senders = {s1}
  Readers = {r1, r2}
  Sweeps = {p1, p2}
  MaxMessages = 3
  MaxSweeps = 2
  MaxTime = 3
  Nothing = Nothing
  s1 = s1
  s2 = s2
  r1 = r1
  r2 = r2
  p1 = p1
  p2 = p2
SPECIFICATION PruneSpec
SYMMETRY Interchangeable
INVARIANTS ReadExactly CursorStands
CHECK_DEADLOCK FALSE
