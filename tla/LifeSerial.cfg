SPECIFICATION Spec
CONSTANTS
  t1 = t1
  t2 = t2
  t3 = t3
  n1 = n1
  p1 = p1
  m1 = m1
  m2 = m2
  Requests = {r1, r2}
  Tags = {t1, t2}
  Mtus = {1500, 9000}
  Nets = {n1}
  Pools = {p1}
  Nics = {m1, m2}
  Admin = Admin
  Nobody = Nobody
  Ops <- MCSerialOps
  Serial = TRUE
  MayStop = TRUE
SYMMETRY Symmetry
INVARIANTS
  TypeOK
  NetsResolve
  PoolsResolve
  NicsResolve
  GatewayNamesHolder
  NetsAreWhole
