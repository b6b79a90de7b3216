SPECIFICATION FairSpec
CONSTANTS
  t1 = t1  t2 = t2
  Hilos = {t1, t2}
  Clases = {"debito", "guia", "baja"}
  MaxIntentos = 2
  MaxReloj = 2
  MaxFallas = 1
  NoHilo = NoHilo
  MaxEmisiones = 2
  MaxTextos = 1
CHECK_DEADLOCK FALSE
INVARIANTS
  ChargedAsAccepted
  IssuedAsWritten
PROPERTIES
  GuideCatchesUp
