CONSTANTS
  Client = {"laptop", "phone"}
  User = {"alice", "bob"}
  UserOf <- Names
  None = None
  MaxCalls <- SenderAndPeer
  MaxHello = 4
  MaxEpoch = 2
SPECIFICATION ReliableSpec
CHECK_DEADLOCK FALSE
PROPERTIES EveryCallReturns ConnectSucceeds
