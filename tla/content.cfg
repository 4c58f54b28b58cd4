SPECIFICATION Spec
CONSTANTS
  a = a
  b = b
  None = None
  Agents = {a, b}
  Scenarios <- SmallScenarios
  BlankSteps = {3, 4}
  MinEvents = 5
  MaxEvents = 10000
  FaultModels <- SmallFaults
INVARIANTS
  TypeOK
  EveryoneHeardEverything
  VerdictJust
CHECK_DEADLOCK FALSE
