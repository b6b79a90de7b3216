SPECIFICATION MCSpec
CONSTANTS
  d1 = d1  r1 = r1  r2 = r2  t1 = t1  t2 = t2  MaxTogether = 5
  Jobs = {d1}
  Runners = {r1, r2}
  Kinds = {"venta", "nota", "guia", "simulada", "deshabilitada"}
  MaxIntentos = 2
  IntentosCap = 3
  MaxRequests = 2
  MaxDeaths = 1
  NoJob = NoJob
  Threads = {t1, t2}
  Answers = {"ACCEPTED", "REJECTED", "FAILED"}
  FaultKinds = {"lost", "refused", "store", "crash"}
  MaxAttempts = 2
  AttemptCap = 3
  MaxClock = 8
  MaxFaults = 2
CHECK_DEADLOCK FALSE
INVARIANTS
  AsSunatDecided
  ReturnedOnce
PROPERTIES
  AcceptanceSticks
  QueueDrains
  AcceptedVoidAnnuls
