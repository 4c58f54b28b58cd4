SPECIFICATION Spec
CONSTANTS
  Containers = {c1, c2, c3, c4}
  Threads = {t1, t2}
  PoolSize = 2
  FaultModels <- MaximalFaults
  None = None
INVARIANTS
  TypeOK
  PoolBounded
  Accounted
PROPERTIES
  SimulationsEnd
  RecoversFromOutage
  PoolRefills
