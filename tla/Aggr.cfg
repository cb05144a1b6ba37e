SPECIFICATION Spec
CONSTANTS
  s1 = s1
  s2 = s2
  vm = vm
  m1 = m1
  m2 = m2
  m3 = m3
  Reqs = {r1, r2}
  Asks <- MCAsks
  Servers = {s1, s2}
  Others = {}
  Names = {"aggr0"}
  Macs = {m1, m2, m3}
  MovableNics = {m3}
  StartNics <- Homes
  MaxFaults = 1
SYMMETRY Perms
INVARIANTS TypeOK ConsumersCatchUp
PROPERTIES UpdateKeepsTheRest

