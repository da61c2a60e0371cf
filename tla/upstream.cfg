SPECIFICATION Spec
CONSTANTS
  None = None
  Ips = {a1, a2}
  Exchanges = {x1, x2}
  Speeds = {0, 1}
  Latencies <- MCLatencies
  Penalty = 1
  FailsMax = 1
  F64Min <- MCF64Min
  ConnectTimeout = 1
  ReadTimeout = 2
  HeaderTimeout = 3
  Chunk = 2
  MaxPiece = 2
INVARIANTS
  TypeOK
  DialsWhatWasAsked
  EndsInTime
PROPERTY
  EveryExchangeEnds
