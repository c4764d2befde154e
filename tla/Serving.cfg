SPECIFICATION MCSpec
CONSTANTS
  v1 = v1
  v2 = v2
  v3 = v3
  s1 = s1
  s2 = s2
  t1 = t1
  t2 = t2
  t3 = t3
  Version = {v1, v2, v3}
  Source = {s1, s2}
  older = older
  newer = newer
  Library = {older, newer}
  Bundle <- MCBundle
  Operator = {o1, o2}
  Thread = {t1, t2, t3}
  Lock = {l1, l2, l3}
  CacheSize = 1
  Demo = TRUE
  Spoilable = 1
  None = None
SYMMETRY MCSymmetry
INVARIANTS
  RegistryIsSound
  ServiceIsSound
  ModelsLoadOnce
PROPERTIES
  RegistryIsAStore
CHECK_DEADLOCK FALSE
