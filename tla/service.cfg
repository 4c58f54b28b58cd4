SPECIFICATION Spec
CONSTANTS
  Responses <- SmallResponses
  Lo <- SmallLo
  Hi <- SmallHi
  Default <- SmallDefault
  MaxNumber = 4
  LocalMajor = 1
  MajorDelta = 1
  Installs <- SmallInstalls
  RefreshEvery = 1
  TokenLife = 3
  ReauthBuffer = 1
  CheckEvery = 2
  Window = 2
  MaxCycle = 2
  MaxSkew = 2
  MaxRecords = 2
  FaultModels <- MaximalFaults
  None = None
INVARIANTS
  TypeOK
  SettingsInBounds
  TokenLastsBuffer
PROPERTIES
  BudgetKept
  Reconnects
  DriftIsCaught
