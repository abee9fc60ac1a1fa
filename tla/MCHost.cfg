SPECIFICATION MCHostSpec
CONSTANTS
  Invocation = {p1, p2}
  NoOne = NoOne
  Id = {a, b}
  NoId = NoId
  LastOctet = 3
  Virtual = {b}
  MaxForwards = 1
  MaxMishaps = 1
  MaxVersion = 2
  MaxBuilds = 4
  MaxMounts = 2
  Box = {b1, b2}
  MaxPid = 2
  MaxEdits = 1
  MaxCommands = 2
  MaxExecs = 4
SYMMETRY MCSymmetry
INVARIANTS
  MCHostTypeOK
  HalfBridgeIsAttended
  LastOneOutRemovesBridge
  LastOneOutRemovesRules
  ForwardsStayTheirs
  DropComesFirst
  LayersAreSound
  AcknowledgedStays
  UsedIsWhole
  HostNetInv
  LimaInv
  OneHostAgent
  BinaryIsCurrent
  ShownIsLogged
PROPERTIES
  WholeStays
  UnforcedLossIsARace
CHECK_DEADLOCK FALSE
