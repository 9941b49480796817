SPECIFICATION Spec
CONSTANTS
  ann = ann
  bob = bob
  cat = cat
  t1 = t1
  t2 = t2
  Ids = {ann, bob, cat}
  Tokens = {t1, t2}
  Sessions = {s1, s2}
  Provisions <- MCProvisions
  MaxRenames = 2
  MaxStops = 1
  None = None
  Owners = {ann, bob, cat}
  Callers = {t1, t2}
  Signature <- MCSignature
  MaxStashes = 2
  MaxExpiries = 1
  Empty = Empty
  Nothing = Nothing
INVARIANTS SessionMatchesFile NobodyShutOut DigestOpens
SYMMETRY Symmetry
CONSTRAINT ThreeInAll
CHECK_DEADLOCK FALSE
