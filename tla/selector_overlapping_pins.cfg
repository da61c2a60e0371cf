SPECIFICATION Spec
CONSTANTS
  g1 = g1
  a1 = a1
  a2 = a2
  a3 = a3
  None = None
  Groups = {g1}
  Ips = {a1, a2, a3}
  Bundled <- MCBundled
  Pinners = {p1, p2}
  Speeds = {0, 2}
  Latencies = {1}
  Penalty = 1
  FailsMax = 2
  F64Min <- MCF64Min
  StartTime = 2
  MaxTime = 5
INVARIANT
  PinnedIpTellsTheList
