\* Two commands side by side, with every failure and disturbance.
SPECIFICATION Spec
CONSTANTS
  Procs = {p1, p2}
  Indices = {1, 2, 3, 4}
  Ports = {1}
  Locals = {2}
  MemifIds = {0, 1, 2}
  Before <- FreshOrInUse
  Requests <- AllRequests
  Faults = {"connect", "dump", "refuse", "noreply", "memory", "kill"}
  Meddling = {"delete", "create", "down", "l2", "restart"}
  MaxMeddle = 1
SYMMETRY ProcSymmetry
INVARIANTS
  TypeOK
  UnsetComplete
  CreatedIsUp
  MirrorsToMemif
  ShowComplete
PROPERTIES
  SetTakesEffect
  OnlyOwnSource
