SPECIFICATION Spec
CONSTANTS
  Threads = {t1, t2}
  Domains = {d1, d2, d3}
  t1 = t1
  t2 = t2
  d1 = d1
  d2 = d2
  d3 = d3
  MaxSize = 2
  Delay = 2
  OrderBound = 4
INVARIANTS Evictable CacheIsTheList
PROPERTIES TurnsSpaced TurnsGoOn
