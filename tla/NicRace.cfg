SPECIFICATION Spec
CONSTANTS
  Requests = {r1, r2, r3}
  v1 = v1
  v2 = v2
  VMs = {v1, v2}
  NoOne = NoOne
  Other = Other
  SubnetFirst = 1
  ProvMin = 3
  ProvMax = 4
  SubnetLast = 5
  MaxMac = 3
  GapLength = 2
  FreedLimit = 2
  IpRetries = 1
  MacRetries = 2
  NicRetries = 2
  Faults = {}
  Ops <- MCRaceOps
  StartNics <- MCStartNics
  StartOther <- MCStartOther
SYMMETRY Symmetry
INVARIANTS
  UniqueAddresses
  NicsOwnTheirAddresses
  NoLeakedAddress
PROPERTIES
  FullMeansFull
  GapsBeforeFreed
  DeleteFreesAddress
  ImplementsLedger
