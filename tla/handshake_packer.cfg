CONSTANTS
  Client = {"c1"}
  Server = {"s1"}
  UserOf <- MCUserOf
  ServerUser = "server"
  NotBefore <- MCNotBefore
  NotAfter <- MCNotAfter
  SkewLimit = 1
  BinKeywordAccepted = FALSE
  NoSession = NoSession
  MaxBuild = 1
  MaxHello = 1
  MaxFinish = 1
  MaxTime = 0
SPECIFICATION DriverSpec
CHECK_DEADLOCK FALSE
PROPERTY HandshakeCompletes
