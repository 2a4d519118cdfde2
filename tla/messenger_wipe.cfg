CONSTANTS
  Client = {"laptop", "phone"}
  User = {"alice", "bob"}
  UserOf <- Names
  None = None
  MaxCalls <- SenderAndReader
  MaxHello = 1
  MaxEpoch = 1
SPECIFICATION Spec
CHECK_DEADLOCK FALSE
PROPERTY QueuesKept
