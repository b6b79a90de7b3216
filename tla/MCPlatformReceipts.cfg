SPECIFICATION MCSpec
CONSTANTS
  Planes = {"basico", "pro"}
  Limites = {1, 2}
  Empleados = 2
  Tipos = {"nota_venta", "boleta"}
  MaxMes = 1
  MaxVentas = 2
  MaxAjustes = 1
  OtraVenta = {"sunat"}
  h1 = h1
  h2 = h2
  Hilos <- MCHilos
  MaxIntentos = 2
  MaxHora = 6
  MaxFallos = 1
  MaxReintentos = 1
  Solicitudes <- MCHilos
  Emisores = {"empresa", "plataforma"}
  MaxPeticiones = 3
  MaxFallas = 1
SYMMETRY Symmetry
CHECK_DEADLOCK FALSE
INVARIANTS
  CompanyFollowsSales
  CommissionsAddUp
  ReceiptsFollowSources
  AnnulledWasAccepted
  VerdictsArrive
  SetupIsCurrent
PROPERTIES
  NumbersIssuedOnce
