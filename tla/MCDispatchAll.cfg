SPECIFICATION DispatchUndisturbedSpec
CONSTANTS
  Proc = {p1, p2}
  Id = {a, v}
  Vm = {v}
  Options <- MCOptions
  NoId = NoId
  Absent = Absent
  LastOctet = 3
PROPERTY DestroyAllEndsVms
CHECK_DEADLOCK FALSE
