\* Indices beyond uint32_t and below zero.
SPECIFICATION Spec
CONSTANTS
  WordSize = 8
  LongSize = 64
  Given <- GivenIndex
  MaxGiven = 5
INVARIANTS
  IndexAsWritten
