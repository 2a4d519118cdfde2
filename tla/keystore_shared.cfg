CONSTANTS
  Process = {p, q}
  User = {"a.b", "ab"}
  Name = {"ab"}
  FileName <- MCFileName
  Key = {k1, k2}
  Password = {w, x}
  Serial = {s1}
  None = None
  Absent = Absent
  Empty = Empty
  Garbled = Garbled
  MaxOps = 3
SPECIFICATION EnrolmentSpec
SYMMETRY Fresh
CHECK_DEADLOCK FALSE
INVARIANTS TypeOK LoadedIsOwn NeverMistaken FileIsLatest
