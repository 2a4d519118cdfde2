CONSTANTS
  Sessions = {s1}
  ClientOf <- MCClientOf
  ServerUser = "server"
  Payload = {"p"}
  RekeyAfterMessages = 1
  RekeyAfterSeconds = 2
  DriftLimit = 1
  SignMayFail = FALSE
  MaxSeq = 2
  MaxTime = 0
SPECIFICATION Spec
CHECK_DEADLOCK FALSE
INVARIANT KeysRotated
