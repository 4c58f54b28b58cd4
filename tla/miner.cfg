SPECIFICATION Spec
CONSTANTS
  a = a
  b = b
  f1 = f1
  f2 = f2
  None = None
  UIDs = {1, 2}
  Hotkeys = {a, b}
  Files = {f1, f2}
  Settings <- SmallSettings
  Histories <- SmallHistories
  MaxPending = 2
  MaxAnswers = 2
  FaultModels <- MaximalFaults
INVARIANTS
  TypeOK
  SyncedIsFresh
PROPERTIES
  AcceptedHeldPermit
  MetagraphCatchesUp
CHECK_DEADLOCK FALSE
