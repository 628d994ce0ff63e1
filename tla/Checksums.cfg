INIT MCInit
NEXT MCNext
CONSTANTS
  Packets <- MCPackets
  Deltas <- MCDeltas
  Sources <- LabSource
  Destinations <- LabDestination
  Sizes <- Payloads
INVARIANTS ChangeDetected CrcOfPolynomial HeaderVerifies
CHECK_DEADLOCK FALSE
