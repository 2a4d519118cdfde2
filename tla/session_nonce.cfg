CONSTANTS
  Sessions = {s1}
  ClientOf <- MCClientOf
  ServerUser = "server"
  Payload = {"p", "q"}
  RekeyAfterMessages = 1
  RekeyAfterSeconds = 2
  DriftLimit = 1
  SignMayFail = TRUE
  MaxSeq = 2
  MaxTime = 0
SPECIFICATION Spec
CHECK_DEADLOCK FALSE
INVARIANT NonceNeverReused
