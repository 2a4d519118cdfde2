CONSTANTS
  Sessions = {s1, s2}
  ClientOf <- MCClientOf
  ServerUser = "server"
  Payload = {"p"}
  RekeyAfterMessages = 1
  RekeyAfterSeconds = 2
  DriftLimit = 1
  SignMayFail = TRUE
  MaxSeq = 2
  MaxTime = 0
SPECIFICATION Spec
CHECK_DEADLOCK FALSE
INVARIANTS TypeOK WireNoncesUnique WindowBehindSender
PROPERTY ChannelRefinement
