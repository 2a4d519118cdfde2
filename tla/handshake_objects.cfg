CONSTANTS
  Client = {"c1", "c2"}
  Server = {"s1", "s2"}
  UserOf <- MCUserOf
  ServerUser = "server"
  NotBefore <- MCNotBefore
  NotAfter <- MCNotAfter
  SkewLimit = 1
  BinKeywordAccepted = TRUE
  NoSession = NoSession
  MaxBuild = 2
  MaxHello = 2
  MaxFinish = 2
  MaxTime = 1
SPECIFICATION Spec
CHECK_DEADLOCK FALSE
INVARIANTS TypeOK ServerAgreement ClientAgreement SessionsDistinct
