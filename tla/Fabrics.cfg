SPECIFICATION Spec
CONSTANTS
  o1 = o1
  o2 = o2
  n1 = n1
  n2 = n2
  n3 = n3
  r1 = r1
  r2 = r2
  Blocks <- MCBlocks
  PrefixSize = 2
  Owners = {o1, o2}
  VlanIds = {1, 2}
  Texts = {"a", "b"}
  VnetIds = {1, 2}
  Names = {n1, n2, n3}
  Subnets <- MCSubnets
  Reqs = {r1, r2}
  Asks <- MCAsks
INVARIANTS
  TypeOK
  SharedVnet
PROPERTIES
  SoundUnlessOvertaken
  ExhaustedMeansFull
  VlansStayDeleted
