SPECIFICATION MCSpec
CONSTANTS
  t1 = t1  t2 = t2  a1 = a1  a2 = a2  r1 = r1   s1 = s1  s2 = s2  v1 = v1  v2 = v2  b1 = b1  b2 = b2
  Ninguno = Ninguno
  Atenciones = {a1, a2}
  Requests = {r1}
  Series = {s1, s2}
  Locales = {b1}
  Dias <- LosDias
  MaxVentas = 2
  MaxCots = 2
  Vendidas = 2
  MaxNotas = 2
  MaxIncidencias = 2
  Cuentas <- LasCuentas
  Descuentos <- LosDescuentos
  Umbral = 500
  Planes <- LosPlanes
  Asistencias <- LasAsistencias
  Afiliados <- LosAfiliados
  MaxCreditos = 2
  Threads = {t1, t2}
  Branches <- TwoBranches
  Stores <- Store
  Managed <- Store
  Variants <- TwoVariants
  Carts <- SomeCarts
  Sales = {v1, v2}
  InitialUnits = 1
  Stocked <- InTheStore
  Counts <- NoUnits
  MaxRequests = 3
  None = None
  Empresa = Empresa
  Secuencia = Secuencia
SYMMETRY Symmetry
CHECK_DEADLOCK FALSE
INVARIANTS
  KardexExplainsStock
  TradesBalance
  SortedLockersNeverDeadlock
  GoodsWithinSold
  BoletaEndsByItsVoid
  OneSalePerQuotation
  OneActiveSerie
  AmountsAgree
