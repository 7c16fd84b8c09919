\* The session of the README: a memif is created and shown.
SPECIFICATION Spec
CONSTANTS
  Procs = {p1, p2}
  Indices = {1, 3}
  Ports = {1}
  Locals = {}
  MemifIds = {0}
  Before <- JustFresh
  Requests <- CreateThenShow
  Faults = {}
  Meddling = {}
  MaxMeddle = 0
INVARIANTS
  CreatedShownDown
