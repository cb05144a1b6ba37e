SPECIFICATION FairSpec
CONSTANTS
  Requests = {r1, r2}
  v1 = v1
  v2 = v2
  VMs = {v1, v2}
  NoOne = NoOne
  Other = Other
  SubnetFirst = 1
  ProvMin = 3
  ProvMax = 4
  SubnetLast = 5
  MaxMac = 3
  GapLength = 2
  FreedLimit = 2
  IpRetries = 2
  MacRetries = 2
  NicRetries = 1
  Faults = {"error", "lost"}
  Ops <- MCFaultOps
  StartNics <- MCStartNics
  StartOther <- MCStartOther
INVARIANTS
  IInv
PROPERTIES
  FreesItsOwn
  EveryRequestAnswered
