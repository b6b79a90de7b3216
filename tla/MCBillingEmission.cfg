SPECIFICATION FairSpec
CONSTANTS
  s1 = s1  s2 = s2  t1 = t1  t2 = t2
  Sales = {s1}
  Threads = {t1, t2}
  DocStatuses = {"RECEIVED", "ACCEPTED", "FAILED"}
  MaxAttempts = 2
  AttemptCap = 2
  MaxClock = 5
  MaxFaults = 1
  OperatorRetries = TRUE
  NoDoc = NoDoc
  NoSale = NoSale
CHECK_DEADLOCK FALSE
INVARIANTS
  OneDocumentPerSale
PROPERTIES
  QueueDrains
  ReconcileConverges
