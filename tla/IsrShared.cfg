SPECIFICATION Spec
CONSTANTS
  c1 = c1
  c2 = c2
  b1 = b1
  b2 = b2
  p1 = p1
  p2 = p2
  t1 = t1
  t2 = t2
  Calls = {c1, c2}
  Builds = {b1}
  BuildOf <- OneBuild
  Pages = {p1, p2}
  Tags = {t1}
  TagsOf <- SharedTag
  NoEntry = NoEntry
  MaxClock = 2
  MaxRevalidations = 2
  Failing <- Lookup
  Dying <- None
SYMMETRY Symmetry
INVARIANTS
  TypeOK
  IndexSound
  StaleHasCause
  CachedIsRegistered
