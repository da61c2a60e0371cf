SPECIFICATION Spec
CONSTANTS
  a1 = a1
  a2 = a2
  None = None
  Group = g1
  Ips = {a1, a2}
  Bundled <- MCBundled
  Pinners = {p1, p2}
  Reporters = {r1}
  Viewers = {v1}
  Speeds = {}
  Latencies = {}
  Penalty = 1
  FailsMax = 1
  F64Min <- MCF64Min
  StartTime = 2
  MaxTime = 3
INVARIANTS
  TypeOK
  SnapshotSeesOneMoment
  PinningAgainRepairs
PROPERTIES
  OperationsAreAtomic
  EveryCallReturns
