SPECIFICATION FairSpec
CONSTANTS
  b1 = b1
  b2 = b2
  Procs = {p1, p2}
  Models <- TwoModels
  Keys = {k1, k2}
  Vals = {x, y}
  ListLimit = 1
  ReindexLimit = 1
  MaxFaults = 1
  MaxEtag = 2
  Served = {k1}
  InitNets = {n1}
  Overlay = Overlay
  StartSchemas = {"missing", "old"}
INVARIANTS
  TypeOK
  ReadyMeansMigrated
  ReadyMeansLoaded
PROPERTIES
  MigrationKeepsRecords
  EventuallyRuns
CHECK_DEADLOCK FALSE
