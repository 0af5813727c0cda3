SPECIFICATION Spec
CONSTANTS
  c1 = c1
  c2 = c2
  o1 = o1
  o2 = o2
  k1 = k1
  k2 = k2
  t1 = t1
  t2 = t2
  Pods = {o1}
  Calls = {c1}
  Keys = {k1}
  Tags = {t1}
  TagsOf <- AllTags
  NoEntry = NoEntry
  UseRedis = TRUE
  Outages = TRUE
  Deaths = FALSE
  MaxRevalidations = 1
INVARIANT
  ServedIsCurrent
