CONSTANTS
  None = None
  SequenceWidth = 2
  MaxIdentity = 2
  MaxConnect = 2
  MaxServed = 3
  MaxSeq = 4
SPECIFICATION Spec
CHECK_DEADLOCK FALSE
INVARIANTS TypeOK NoZeroedKeyUsed ForwardSecrecy NonceOnce KeysIndependent SessionKeysWhileServed
