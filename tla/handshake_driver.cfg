CONSTANTS
  Client = {"c1", "c2"}
  Server = {"s1", "s2"}
  UserOf <- MCUserOf
  ServerUser = "server"
  NotBefore <- MCNotBefore
  NotAfter <- MCNotAfter
  SkewLimit = 1
  BinKeywordAccepted = TRUE
  NoSession = NoSession
  MaxBuild = 1
  MaxHello = 1
  MaxFinish = 1
  MaxTime = 2
SPECIFICATION DriverSpec
CHECK_DEADLOCK FALSE
PROPERTY HandshakeCompletes
