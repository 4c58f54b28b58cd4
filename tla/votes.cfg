SPECIFICATION Spec
CONSTANTS
  Miners = {m1}
  Tempo = 3
  Retention = 3
  Interval = 2
  RampUp = 2
  MinValidations = 2
  StaleAfter = 5
  Reports <- SmallReports
  MinReports = 1
  Floor = 1
  One = 2
  MaxCycle = 2
  FaultModels <- MaximalFaults
  None = None
INVARIANTS
  TypeOK
  FreshPassKept
  CountsPersisted
PROPERTIES
  OnTimeVoteStands
  RampUpNeverRewound
  PassLeadsToVote
