\* The ring fits in one burst, and memif_rx_burst and memif_refill_queue succeed.
SPECIFICATION FairSpec
CONSTANTS
  MaxLen = 2
  Lens = {1, 2}
  MaxBytesChoices = {0, 3}
  FlushInterval = 2
  MaxBufs = 2
  RingSize = 2
  MaxFrames = 4
  MaxConnects = 2
  Faults = {"setup", "poll", "open", "device"}
INVARIANTS
  NoSkip
  SlotsReturned
PROPERTIES
  LimitStops
  RingDrained
  RepeatedSignalStops
