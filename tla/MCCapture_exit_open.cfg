\* The output file cannot be opened.
SPECIFICATION Spec
CONSTANTS
  MaxLen = 1
  Lens = {1}
  MaxBytesChoices = {0}
  FlushInterval = 1
  MaxBufs = 1
  RingSize = 1
  MaxFrames = 1
  MaxConnects = 1
  Faults = {"open"}
INVARIANTS
  ExitZeroMeansWritten
