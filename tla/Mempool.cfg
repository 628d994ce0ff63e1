SPECIFICATION Spec
CONSTANTS
  Lcores = {l1, l2}
  Others = {x1}
  Objs = {o1, o2, o3, o4, o5}
  CacheSizes = {1, 2}
  CacheMax = 2
  MaxBulk = 3
SYMMETRY Symmetry
INVARIANTS OnePlace CacheFits
PROPERTIES FailsOnlyWhenUsed
