\* boy -p: every listing of up to five lines, failing allocations and requests,
\* terminals from far too narrow to wide enough.
SPECIFICATION FairSpec
CONSTANTS
  Columns <- PhyColumns
  FirstCapacity = 1
  Terminals = {20, 60, 75}
  Dumps <- MCDumps
  MemifNames = {"memif0/0"}
  Length <- MCLength
  Lines <- MCLines
  MaxLines = 5
  Faults = {"connect", "dump", "listing", "memory"}
INVARIANTS
  TypeOK
  NothingLeaks
  MemoryInBounds
  FamiliesAsListed
  FitsExactly
  FlexibleFirst
  InTurn
  Aligned
PROPERTIES
  RenderEnds
  ListingComplete
