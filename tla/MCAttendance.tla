----------------------------- MODULE MCAttendance -----------------------------
(* PlanLimits, Sessions, Attendance and ModuleAccess on two threads and two or *)
(* three rows; and, in a part of their own, Catalogues, CourierAgencies and    *)
(* Products on two requests at a time, three in all.                           *)
EXTENDS ModuleAccess, Products, TLC

CONSTANTS t1, t2, h1, h2

Dia(c, q, n, r, p) == [clases |-> c, que |-> q, juntos |-> n, recursos |-> r, prueba |-> p]
Filas(k, c) == [o \in Objetos |-> IF o <= k THEN c ELSE "ninguna"]
Puestos == (3 :> "qrPoints") @@ Filas(1, "employees")
DiaQuieto == Dia(Filas(0, "users"), "consumo", 1, {}, FALSE)
LosDias ==
  {Dia(Filas(3, "users"), "limites", 2, {"users"}, FALSE),
   Dia(Filas(3, "employees"), "limites", 2, {"attendanceEmployees"}, FALSE),
   Dia(Filas(3, "qrPoints"), "limites", 2, {"attendanceQrPoints"}, FALSE),
   Dia(Filas(2, "sucursales"), "limites", 2, {"branches", "warehouses"}, FALSE),
   Dia(Filas(2, "productos"), "limites", 2, {"variants"}, FALSE),
   Dia(Filas(0, "users"), "consumo", 1, Contados, TRUE),
   Dia(Filas(0, "users"), "consumo", 1, Contados, FALSE),
   Dia(Filas(1, "users"), "alta", 2, {}, FALSE),
   Dia(Filas(1, "users"), "sesiones", 2, {}, FALSE),
   Dia(Puestos, "acceso", 2, {}, FALSE),
   Dia(Puestos, "asistencia", 2, {}, FALSE),
   Dia(Puestos, "turnos", 1, {}, FALSE),
   Dia(Filas(2, "users"), "permisos", 2, {}, FALSE),
   Dia(Filas(0, "users"), "modulos", 2, {}, FALSE),
   Dia(Filas(0, "users"), "administradores", 2, {}, FALSE),
   DiaQuieto}

Rutina(q, l, p, n, t) == [que |-> q, listas |-> l, puestas |-> p, fotos |-> n, tope |-> t]
Quieta == Rutina("ninguna", {}, {}, 0, 0)
LasRutinas ==
  {Rutina("listas", {k}, {0, 1}, 0, 3) : k \in Listas}
    \cup {Rutina("agencias", {}, {}, 0, 0), Rutina("productos", {}, {0, 1, 2}, 1, 3), Quieta}
Forma(n, c, v, s, k) ==
  [normal |-> FALSE, nombre |-> n, colores |-> c, celdas |-> v, stock |-> s, nuevas |-> k]
LasFormas ==
  {Forma(1, {1}, {<<1, 1>>}, FALSE, 0), Forma(1, {1}, {<<1, 1>>, <<1, 2>>}, FALSE, 1),
   Forma(2, {2}, {<<2, 1>>}, TRUE, 1),
   [normal |-> TRUE, nombre |-> 2, colores |-> {0}, celdas |-> {<<0, 0>>}, stock |-> FALSE,
    nuevas |-> 1]}

Symmetry == Permutations(Hilos) \cup Permutations(Gestores)

VARIABLE parte     \* chosen once

MCInit ==
  /\ CompanyInit /\ ProductsInit
  /\ \/ parte = "personas" /\ rutina = Quieta /\ dia # DiaQuieto
     \/ parte = "catalogo" /\ rutina # Quieta /\ dia = DiaQuieto
MCNext ==
  /\ \/ parte = "personas" /\ CompanyNext /\ UNCHANGED catalogueVars
     \/ parte = "catalogo" /\ CatalogueNext /\ UNCHANGED companyVars
  /\ UNCHANGED parte
MCSpec == MCInit /\ [][MCNext]_<<companyVars, catalogueVars, parte>>
=============================================================================
