\* Command lines of up to five options and operands.
SPECIFICATION Spec
CONSTANTS
  WordSize = 8
  LongSize = 64
  Given <- GivenMany
  MaxGiven = 5
INVARIANTS
  TypeOK
  RunsAsGiven
  SetSpanComplete
  ErrorsRunNothing
  IdsAgree
