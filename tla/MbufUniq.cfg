SPECIFICATION Spec
CONSTANTS
  Threads = {t1, t2}
  Mbufs = {m1, m2, m3, m4}
  NULL = NULL
  RefWord = 16
  SegLimit = 3
  MaxHolds = 2
SYMMETRY Symmetry
INVARIANT UniqHolder
