SPECIFICATION FairSpec
CONSTANTS
  v1 = v1
  v2 = v2
  r1 = r1
  r2 = r2
  r3 = r3
  Reqs = {r1, r2, r3}
  Asks <- MCAsks
  Vms = {v1, v2}
  Macs = {1, 2, 3}
  StartNics <- Homes
  NicRetries = 0
INVARIANTS TypeOK DeadlocksArePrimaries OnePrimaryNic
PROPERTY EveryBatchEnds
