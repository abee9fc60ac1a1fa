SPECIFICATION FairFleetSpec
CONSTANTS
  Id = {1, 2, 3}
  Absent = Absent
  Group = {g, h}
  g = g
  h = h
  c = c
  d = d
  web = web
  unknown = unknown
  NoGroup = NoGroup
  NoProvision = NoProvision
  Nobody = Nobody
  Component = {c, d}
  Bundle <- MCBundle
  Threads = 3
  Worker <- MCWorker
  Scenes <- MCScenes
  Requests <- MCRequests
INVARIANTS
  FleetTypeOK
  RecordedAreInstalled
  SummaryAddsUp
  ChunksInTurn
  OkMeansRecorded
  ReportedAreInTheirFleet
  FleetDestroyAccounts
PROPERTIES
  NoFleetResurrection
  FleetCreateEnds
CHECK_DEADLOCK FALSE
