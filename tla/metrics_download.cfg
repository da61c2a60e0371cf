SPECIFICATION FairSpec
CONSTANTS
  Requests = {r1, r2}
  Grace = 2
  HandlerLimit = 3
  BusyRetry = 2
  MaxBack = 2
PROPERTY
  NoPassStartsInDownload
