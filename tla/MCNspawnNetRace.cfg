SPECIFICATION UndisturbedSpec
CONSTANTS
  Proc = {p1, p2}
  Id = {a, b}
  NoId = NoId
  Absent = Absent
  LastOctet = 3
PROPERTY CreatedHasBridge
CHECK_DEADLOCK FALSE
