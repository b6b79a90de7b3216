SPECIFICATION MCSpec
CONSTANTS
  t1 = t1  t2 = t2  h1 = h1  h2 = h2
  Gestores = {h1, h2}
  Fichas = {0, 1, 2}
  Nombres = {1, 2}
  Rutinas <- LasRutinas
  Couriers = {"SHALOM"}
  Agencias = {1, 2}
  Productos = {1, 2}
  Formas <- LasFormas
  Espacio = 2
  MaxSubidas = 4
  Hilos = {t1, t2}
  Objetos = {1, 2, 3}
  Dias <- LosDias
  MaxLimite = 2
  Titular = 1
  MaxVersion = 3
  MaxTokens = 2
  MaxEnlaces = 1
  Turnos = {1}
  Equipos = {1, 2}
  UltimoDia = 2
  UltimaHora = 2
  MaxMarcas = 3
  Administradores = {1, 2}
  MaxEdiciones = 3
SYMMETRY Symmetry
CHECK_DEADLOCK FALSE
INVARIANTS
  AccountHolds
  MarksAgree
  AccessHolds
  CataloguesAgree
  ProductsHold
PROPERTIES
  GrowsWithinLimit
  GrantsHold
