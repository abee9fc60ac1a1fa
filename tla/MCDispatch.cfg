SPECIFICATION DispatchSpec
CONSTANTS
  Proc = {p1, p2}
  Id = {a, v}
  Vm = {v}
  Options <- MCOptions
  NoId = NoId
  Absent = Absent
  LastOctet = 2
SYMMETRY Symmetry
INVARIANTS
  DispatchInv
  ReleasedWithRecord
PROPERTIES
  BridgeKeptForRunning
  MachinesComeAndGo
CHECK_DEADLOCK FALSE
