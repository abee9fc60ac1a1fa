SPECIFICATION UndisturbedHostNetSpec
CONSTANTS
  Invocation = {p1, p2}
  NoOne = NoOne
  Id = {a, b, c}
  NoId = NoId
  LastOctet = 3
  Virtual = {}
  MaxForwards = 0
  MaxMishaps = 0
SYMMETRY MCSymmetry
INVARIANTS
  SandboxesAreSeparated
CHECK_DEADLOCK FALSE
