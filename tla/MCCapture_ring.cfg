\* The ring holds more frames than one burst takes.
SPECIFICATION FairSpec
CONSTANTS
  MaxLen = 1
  Lens = {1}
  MaxBytesChoices = {0}
  FlushInterval = 1
  MaxBufs = 1
  RingSize = 2
  MaxFrames = 2
  MaxConnects = 1
  Faults = {}
PROPERTIES
  RingDrained
