SPECIFICATION Spec
CHECK_DEADLOCK FALSE
CONSTANTS
  Keys <- MCKeys
  Kind <- MCKind
  Owner <- MCOwner
  Item <- MCItem
  Spans <- MCSpans
  MaxEdits = 1
  Imports = {"i1", "i2"}
  Workloads <- MCWorkloads
  MaxCrashes = 1
  
PROPERTIES NoLostUpdate ClaimedEnds
