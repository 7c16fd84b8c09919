\* A set_span and the interface of the name it was given, without failures.
SPECIFICATION Spec
CONSTANTS
  Procs = {p1}
  Indices = {1, 3, 4}
  Ports = {1}
  Locals = {}
  MemifIds = {0, 1}
  Before <- JustMemifs
  Requests <- Sets
  Faults = {}
  Meddling = {"delete", "create"}
  MaxMeddle = 2
PROPERTIES
  SetHitsNamed
