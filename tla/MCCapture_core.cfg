\* Every call may fail; a ring larger than a burst.
SPECIFICATION Spec
CONSTANTS
  MaxLen = 2
  Lens = {0, 1, 2}
  MaxBytesChoices = {0, 3}
  FlushInterval = 2
  MaxBufs = 2
  RingSize = 3
  MaxFrames = 3
  MaxConnects = 2
  Faults = {"setup", "poll", "rx", "refill", "open", "device"}
INVARIANTS
  TypeOK
  FileWithinLimit
  FileInOrder
  ExitZeroComplete
  CrashLossBounded
PROPERTIES
  DurableGrows
  ImplementsLog
