CONSTANTS
  p1 = p1
  p2 = p2
  p3 = p3
  k1 = k1
  c1 = c1
  c2 = c2
  Pool = {p1, p2, p3}
  NoPool = NoPool
  Config <- Configs
  Key = {k1}
  NoKey = NoKey
  Hash <- Hashes
  Caller = {c1, c2}
  MaxEntries = 2
  MaxCursor = 6
SPECIFICATION Spec
INVARIANTS
  TypeOK
  Proportional
  OnlyWeighted
  SameRatioSameRing
PROPERTIES
  RoutesByWeight
CHECK_DEADLOCK FALSE
