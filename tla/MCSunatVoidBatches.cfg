SPECIFICATION FairSpec
CONSTANTS
  v1 = v1  v2 = v2  r1 = r1  r2 = r2  clerk = clerk
  Jobs = {1}
  Runners = {r1, clerk}
  Clerk = clerk
  Ventas = {v1, v2}
  MaxIntentos = 2
  IntentosCap = 2
  MaxSends = 2
  MaxConsults = 1
  MaxFaults = 1
  NoJob = NoJob
CHECK_DEADLOCK FALSE
INVARIANTS
  AnnulledWasVoided
  BlockedWhileOpen
PROPERTIES
  BatchesEnd
