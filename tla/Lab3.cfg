CONSTANTS
  Word = 1048576
  PeriodMin = 3
  Hz = 10
  Params <- MCParams
  Starts = {1048574}
  MeterLeads = {1}
  Gaps = {0, 3, 9}
  Lens = {1, 3}
  InColors = {0, 1, 2}
  MaxPackets = 4
  RTE_RED_S = 1
  RedWord = 1048576
  Rands = {0, 3000}
  Flows = {0, 1}
  SrtcmParams <- MCSrtcmParams
  RedParams <- MCRedParams
  StartTimes = {1, 65536}
  Leads = {1}
  NanoPerSec = 10
  BurstNanos = 4
  MaxBursts = 2
  MaxBurst = 5
  PktLens = {1, 2}
INIT MCInit
NEXT MCNext
INVARIANTS RateLimited DegradedForCause AverageBounded EveryFlowServed DroppedForCause
CHECK_DEADLOCK FALSE
