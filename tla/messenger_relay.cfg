CONSTANTS
  Client = {"laptop", "desktop"}
  User = {"alice", "bob"}
  UserOf <- Names
  None = None
  MaxCalls <- TwoInstallations
  MaxHello = 2
  MaxEpoch = 2
SPECIFICATION Spec
CHECK_DEADLOCK FALSE
INVARIANTS TypeOK ConnectedMeansActive IdentityMatchesRegistry
PROPERTIES RelayRefinement QueuesOfRegisteredKept SessionsUnderOneCA
