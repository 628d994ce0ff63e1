SPECIFICATION Spec
CONSTANTS
  Lcores = {l1, l2}
  Timers = {t1, t2}
  NoOne = none
  Ticks = {1}
  Types = {"SINGLE", "PERIODICAL"}
  Ops = {"reset", "stop"}
  Sync = {FALSE, TRUE}
  MaxTime = 3
  MaxCalls = 3
SYMMETRY Symmetry
INVARIANTS LinkedOnce RunningOwned ListOrdered NeverEarly StoppedUnreferenced
PROPERTIES PendingKept
CHECK_DEADLOCK FALSE
