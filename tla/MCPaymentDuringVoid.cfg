SPECIFICATION MCSpec
CONSTANTS
  Hilos = {t1}
  Requests = {r1, r2}
  Amounts = {1, 2}
  Originals <- TwoInstallments
  MaxSessions = 1
  MaxCalls = 5
  None = none
  p1 = p1  p2 = p2  u1 = u1  u2 = u2
  Jornadas <- SinAvisos
  Pases = {p1}
  Usuarios = {u1}
  Propietario = u1
  CadaHora = 2
  Nada = Nada
PROPERTY NoPaymentDuringVoid
CHECK_DEADLOCK FALSE
