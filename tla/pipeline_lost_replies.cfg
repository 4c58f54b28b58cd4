SPECIFICATION Spec
CONSTANTS
  v1 = v1
  v2 = v2
  a = a
  b = b
  m1 = m1
  m2 = m2
  k1 = k1
  k2 = k2
  w1 = w1
  w2 = w2
  w3 = w3
  NoCaller = NoCaller
  NoWork = NoWork
  Validators = {v1}
  Callers = {a}
  HostOf <- OneCaller
  Miners = {m1, m2}
  Configs = {k1, k2}
  WorkIds = {w1, w2, w3}
  MinerOf <- MCMinerOf
  ConfigOf <- MCConfigOf
  Receives <- OneReceives
  MaxSubmissions = 1
  MaxAttempts = 2
  InitialBalance = 1
  FaultModels <- OnlyLoss
PROPERTIES
  RejectedIsFree
