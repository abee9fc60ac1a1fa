SPECIFICATION Spec
CONSTANTS
  Proc = {p1, p2}
  Id = {a, b}
  NoId = NoId
  Absent = Absent
  LastOctet = 3
SYMMETRY Symmetry
INVARIANTS
  SandboxInv
  NoSharedAddress
  RecordOwnsAddress
  NothingLeftBehind
  BridgeCleanedUp
PROPERTIES
  NoResurrection
CHECK_DEADLOCK FALSE
