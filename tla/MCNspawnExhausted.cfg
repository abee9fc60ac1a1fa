SPECIFICATION UndisturbedSpec
CONSTANTS
  Proc = {p1, p2}
  Id = {a, b}
  NoId = NoId
  Absent = Absent
  LastOctet = 3
INVARIANT ExhaustedMeansUsed
CHECK_DEADLOCK FALSE
