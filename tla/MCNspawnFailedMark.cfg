SPECIFICATION Spec
CONSTANTS
  Proc = {p1, p2}
  Id = {a}
  NoId = NoId
  Absent = Absent
  LastOctet = 2
PROPERTY FailedMarkStays
CHECK_DEADLOCK FALSE
