SPECIFICATION Spec
CONSTANTS
  w1 = w1
  w2 = w2
  w3 = w3
  WorkIds = {w1, w2, w3}
  MaxQueue = 3
  MaxFileEntries = 2
  MaxCount = 2
  MaxAge = 1
  BaseDelay = 1
  MaxDelay = 1
  InitialFiles <- SmallFiles
  FaultModels <- MaximalFaults
  NoWork = NoWork
INVARIANTS
  TypeOK
  RestartRecoversQueue
  PendingNotReported
PROPERTIES
  LossesAreBounded
  EverySubmissionSettles
