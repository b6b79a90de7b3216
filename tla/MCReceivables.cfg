SPECIFICATION MCSpec
CONSTANTS
  Hilos = {t1, t2}
  Requests = {r1, r2}
  Amounts = {1, 2}
  Originals <- TwoInstallments
  MaxSessions = 2
  MaxCalls = 5
  None = none
  p1 = p1  p2 = p2  u1 = u1  u2 = u2
  Jornadas <- LasJornadas
  Pases = {p1, p2}
  Usuarios = {u1, u2}
  Propietario = u1
  CadaHora = 2
  Nada = Nada
SYMMETRY Symmetry
INVARIANTS
  MoneyExplained
  ChangesAreNoticed
CHECK_DEADLOCK FALSE
