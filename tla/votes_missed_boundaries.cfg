SPECIFICATION CountSpec
CONSTANTS
  Miners = {m1}
  Tempo = 8
  Retention = 8
  Interval = 1
  RampUp = 0
  MinValidations = 2
  StaleAfter = 24
  Reports = {}
  MinReports = 1
  Floor = 1
  One = 2
  MaxCycle = 1
  FaultModels = {{}}
  None = None
INVARIANTS
  EveryPassIsCounted
