SPECIFICATION Spec
CONSTANTS
  o1 = o1
  o2 = o2
  n1 = n1
  n2 = n2
  n3 = n3
  r1 = r1
  r2 = r2
  Blocks <- MCBlocks
  PrefixSize = 2
  Owners = {o1}
  VlanIds = {1}
  Texts = {"a", "b"}
  VnetIds = {1}
  Names = {n1, n2, n3}
  Subnets <- SmallSubnets
  Reqs = {r1}
  Asks <- SmallAsks
PROPERTY ChosenIsFree
