SPECIFICATION Spec
CONSTANTS
  Requests = {r1, r2, r3}
  v1 = v1
  v2 = v2
  VMs = {v1, v2}
  NoOne = NoOne
  Other = Other
  SubnetFirst = 1
  ProvMin = 3
  ProvMax = 5
  SubnetLast = 6
  MaxMac = 3
  GapLength = 3
  FreedLimit = 2
  IpRetries = 4
  MacRetries = 2
  NicRetries = 6
  Faults = {}
  Ops <- MCCreateOps
  StartNics <- MCEmptyNics
  StartOther <- MCStartOther
SYMMETRY Symmetry
INVARIANTS
  CompetitorsFindAddresses
