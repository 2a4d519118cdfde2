CONSTANTS
  Sessions = {s1}
  ClientOf <- MCClientOf
  ServerUser = "server"
  Payload = {"p", "q"}
  RekeyAfterMessages = 1
  RekeyAfterSeconds = 1
  DriftLimit = 0
  SignMayFail = FALSE
  MaxSeq = 2
  MaxTime = 1
SPECIFICATION FairSpec
CHECK_DEADLOCK FALSE
INVARIANTS AtMostOnceInOrder Authentic RekeyFlagExact
PROPERTY EveryEnvelopeSettled
