SPECIFICATION UdpSpec
CONSTANTS
  App = app
  Nic = nic
  Threads = {app, nic}
  Mbufs = {m1, m2}
  NULL = NULL
  RefWord = 16
  SegLimit = 4
  MaxHolds = 2
INVARIANT DriverFrees
CHECK_DEADLOCK FALSE
