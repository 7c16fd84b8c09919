\* The device of the output file fails.
SPECIFICATION Spec
CONSTANTS
  MaxLen = 1
  Lens = {1}
  MaxBytesChoices = {0}
  FlushInterval = 1
  MaxBufs = 1
  RingSize = 1
  MaxFrames = 2
  MaxConnects = 1
  Faults = {"device"}
INVARIANTS
  SummaryMatchesFile
