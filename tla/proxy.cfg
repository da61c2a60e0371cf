SPECIFICATION ProxySpec
CONSTANTS
  g1 = g1
  a1 = a1
  a2 = a2
  None = None
  Groups = {g1}
  Ips = {a1, a2}
  Bundled <- MCBundled
  Pinners = {p1}
  Speeds = {1}
  Latencies = {1}
  Penalty = 2
  FailsMax = 1
  F64Min <- MCF64Min
  StartTime = 3
  MaxTime = 6
  Requests = {r1}
  Methods = {"GET", "POST"}
  HeaderTimeout = 1
  Statuses = {502}
  MaxChunks = 1
INVARIANTS
  ProxyTypeOK
  RecordedOnce
  RecordTellsWhatHappened
  RetryMovesOn
  HandlerEndsInTime
CHECK_DEADLOCK FALSE
