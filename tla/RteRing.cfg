CONSTANTS
  Producers = {p1, p2}
  Consumers = {c1, c2}
  Size = 4
  Word = 8
  Used = 5
  Filled = 2
  MaxBulk = 2
  MaxObjs = 4
  Fixed = {TRUE, FALSE}
  WaterMarks = {2}
SPECIFICATION Spec
INVARIANTS IndexOrder SlotsExclusive TailReserved
PROPERTIES HonestFailure WatermarkTold FifoSpec
SYMMETRY Symmetry
