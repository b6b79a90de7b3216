------------------------------ MODULE PlanLimits ------------------------------
(***************************************************************************)
(* What the plan of a company lets it have: its users, branches, products, *)
(* workers and QR points, the receipts and the document queries of the     *)
(* month.  PlansService.assertResourceLimits and the services that call it *)
(* (src/src/modules: plans, users, branches, employees,                    *)
(* attendance-qr-points, products).                                        *)
(*                                                                         *)
(* Whoever needs room locks the company's row in a SERIALIZABLE            *)
(* transaction, counts and writes: one step here, a serialization failure  *)
(* being a request refused.  Whether room is needed at all is decided      *)
(* earlier, on a row read outside of the transaction.                      *)
(***************************************************************************)
EXTENDS Integers, FiniteSets

CONSTANTS
  Hilos,       \* requests served at a time
  Objetos,     \* the rows of a day: users, branches, products, workers, QR points
  Dias,        \* bound: what happens together, see DiaType
  MaxLimite    \* bound: the largest limit of a plan

Clases == {"users", "employees", "qrPoints", "sucursales", "productos", "ninguna"}
Contados == {"documents", "documentQueries"}
Recursos == {"users", "branches", "warehouses", "products", "variants",
             "attendanceEmployees", "attendanceQrPoints"} \cup Contados

\* A day: the class of every row, what is exercised, how many requests at a time, which limits
\* the platform edits, and whether the plan is the free trial.
Ques == {"limites", "consumo", "alta", "sesiones", "acceso", "asistencia", "turnos",
         "permisos", "modulos", "administradores"}
DiaType == [clases : [Objetos -> Clases], que : Ques, juntos : Nat,
            recursos : SUBSET Recursos, prueba : BOOLEAN]

ASSUME LimitsAssumption ==
  /\ MaxLimite \in Nat /\ Dias \subseteq DiaType
  /\ Objetos \subseteq Nat \ {0} /\ IsFiniteSet(Objetos)      \* by their ids

VARIABLES
  dia,         \* the one of Dias that is seen
  filas,       \* the rows: class, kind of branch, state, live variants of a product
  limite,      \* the effective limits of the company
  vigente,     \* its plan has not expired
  servicio,    \* the company has Asistencias
  mes,         \* receipts and queries of the month
  hilo         \* what every thread read, and what it does with it

limitRows == <<filas, limite, vigente, servicio, mes>>
limitVars == <<dia, limitRows, hilo>>

Tipos == {"tienda", "almacen", "asistencia"}
FilaRows ==
  [clase : Clases, tipo : Tipos, estado : {"libre", "activo", "inactivo", "borrado"}, n : Nat]
PlanLimiteRows == [Recursos -> Nat]      \* what the plan and the additions of the company come to
Suscripcion    == BOOLEAN                \* alive, or over
ServicioAdicional == BOOLEAN             \* Asistencias
UsoMensualRows == [Contados -> Nat]
LimitsTypeOK ==
  /\ filas \in [Objetos -> FilaRows] /\ limite \in PlanLimiteRows /\ mes \in UsoMensualRows
  /\ vigente \in Suscripcion /\ servicio \in ServicioAdicional
Fila(c, e) == [clase |-> c, tipo |-> "tienda", estado |-> e, n |-> 0]
NoFila == Fila("users", "libre")
Idle == [pc |-> "idle", op |-> "nada", fila |-> NoFila, obj |-> 0, ver |-> 0, otro |-> 0]

----------------------------------------
(* Requests.                                                               *)

Reads(t, pc, op, fila, obj, ver, otro) ==
  /\ Cardinality({u \in Hilos : hilo[u] # Idle}) < dia.juntos
  /\ hilo' = [hilo EXCEPT ![t] = [pc |-> pc, op |-> op, fila |-> fila, obj |-> obj,
                                  ver |-> ver, otro |-> otro]]
Ends(t) == hilo' = [hilo EXCEPT ![t] = Idle]

----------------------------------------
(* What is used of a resource.                                             *)

Cuenta(f, r) ==
  CASE r \in {"users", "attendanceEmployees", "attendanceQrPoints"} ->
         IF f.clase = [users |-> "users", attendanceEmployees |-> "employees",
                       attendanceQrPoints |-> "qrPoints"][r] /\ f.estado = "activo" THEN 1 ELSE 0
    [] r \in {"branches", "warehouses"} ->          \* an inactive branch counts
         IF f.clase = "sucursales" /\ f.estado # "libre"
            /\ (f.tipo = "almacen") = (r = "warehouses") THEN 1 ELSE 0
    [] r = "products" -> IF f.clase = "productos" /\ f.estado = "activo" THEN 1 ELSE 0
    [] r = "variants" -> IF f.clase = "productos" THEN f.n ELSE 0

\* Everything that counts: a pair for each unit a row counts for.
Unidades(rows, r) == UNION {{o} \X (1..Cuenta(rows[o], r)) : o \in Objetos}
UsadoEn(rows, r) == Cardinality(Unidades(rows, r))
Usado(r) == IF r \in Contados THEN mes[r] ELSE UsadoEn(filas, r)

\* Without Asistencias there is room for no worker and no QR point.
GetEffectiveLimits(r) ==
  IF r \in {"attendanceEmployees", "attendanceQrPoints"} /\ ~servicio THEN 0 ELSE limite[r]

\* The company is locked, its plan must be alive, and there must be room for k more.
AssertResourceLimits(r, k) == vigente /\ (k > 0 => Usado(r) + k <= GetEffectiveLimits(r))

----------------------------------------
(* Users, workers and QR points: made, changed and removed.                *)

RecursoDe(clase) == [users |-> "users", employees |-> "attendanceEmployees",
                     qrPoints |-> "attendanceQrPoints"][clase]

CreateRow(o, c, e) ==
  /\ dia.clases[o] = c /\ filas[o].estado = "libre"
  /\ e = "activo" => AssertResourceLimits(RecursoDe(c), 1)
  /\ filas' = [filas EXCEPT ![o] = Fila(c, e)]
  /\ UNCHANGED <<dia, limite, vigente, servicio, mes, hilo>>

CreateUser(o) == CreateRow(o, "users", "activo")
CreateEmployee(o, e) == CreateRow(o, "employees", e)
CreateQrPoint(o, e) == CreateRow(o, "qrPoints", e)

\* A change reads the row first.
ReadRow(t, o) ==
  /\ hilo[t].pc = "idle" /\ filas[o].clase # "ninguna"
  /\ filas[o].estado \notin {"libre", "borrado"}
  /\ Reads(t, "fila", "fila", filas[o], o, 0, 0)
  /\ UNCHANGED <<dia, limitRows>>

\* A row that read as inactive needs room to become active; one that read as active needs none.
NeedsRoom(f, e) == e = "activo" /\ f.estado # "activo"
WriteRow(t, c, e, needs) ==
  LET o == hilo[t].obj IN
  /\ hilo[t].pc = "fila" /\ hilo[t].fila.clase = c /\ filas[o].estado # "libre"
  /\ needs => AssertResourceLimits(RecursoDe(c), 1)
  /\ filas' = [filas EXCEPT ![o].estado = e]
  /\ Ends(t)
  /\ UNCHANGED <<dia, limite, vigente, servicio, mes>>

UpdateUserStatus(t, e) == WriteRow(t, "users", e, NeedsRoom(hilo[t].fila, e))

\* An edit of other data writes the state that was read.
UpdateEmployee(t) == WriteRow(t, "employees", hilo[t].fila.estado, FALSE)
UpdateEmployeeStatusUnchecked(t, e) == WriteRow(t, "employees", e, FALSE)
UpdateEmployeeStatus(t, e) == WriteRow(t, "employees", e, NeedsRoom(hilo[t].fila, e))
UpdateQrPoint(t) == WriteRow(t, "qrPoints", hilo[t].fila.estado, FALSE)
UpdateQrPointStatus(t, e) == WriteRow(t, "qrPoints", e, NeedsRoom(hilo[t].fila, e))

\* A user is deleted; a worker or a QR point becomes inactive.
RemoveRow(o, c, e) ==
  /\ filas[o].clase = c /\ filas[o].estado # "libre"
  /\ filas' = [filas EXCEPT ![o].estado = e]
  /\ UNCHANGED <<dia, limite, vigente, servicio, mes, hilo>>

RemoveUser(o) == RemoveRow(o, "users", "libre")
RemoveEmployee(o) == RemoveRow(o, "employees", "inactivo")
RemoveQrPoint(o) == RemoveRow(o, "qrPoints", "inactivo")

----------------------------------------
(* Branches: a change of their kind needs room in the other resource.      *)

RecursoSucursal(tipo) == IF tipo = "almacen" THEN "warehouses" ELSE "branches"

CreateBranch(o, tipo) ==
  /\ dia.clases[o] = "sucursales" /\ filas[o].estado = "libre"
  /\ AssertResourceLimits(RecursoSucursal(tipo), 1)
  /\ filas' = [filas EXCEPT ![o] = [Fila("sucursales", "activo") EXCEPT !.tipo = tipo]]
  /\ UNCHANGED <<dia, limite, vigente, servicio, mes, hilo>>

\* The kind and the state asked for; a kind that is the one read asks for no room, and one
\* that is not asks for room even when both are counted as branches.
WriteBranch(t, tipo, e) ==
  LET o == hilo[t].obj
      f == hilo[t].fila
      r == RecursoSucursal(tipo)
  IN
  /\ hilo[t].pc = "fila" /\ f.clase = "sucursales" /\ e \in {"activo", "inactivo"}
  /\ tipo # f.tipo => AssertResourceLimits(r, 1)
  /\ filas' = [filas EXCEPT ![o].tipo = tipo, ![o].estado = e]
  /\ Ends(t)
  /\ UNCHANGED <<dia, limite, vigente, servicio, mes>>

\* A removed branch is an inactive one.
RemoveBranch(o) == RemoveRow(o, "sucursales", "inactivo")

----------------------------------------
(* Products and their variants.                                            *)

CreateProduct(o, k) ==
  /\ dia.clases[o] = "productos" /\ filas[o].estado = "libre"
  /\ AssertResourceLimits("products", 1) /\ AssertResourceLimits("variants", k)
  /\ filas' = [filas EXCEPT ![o] = [Fila("productos", "activo") EXCEPT !.n = k]]
  /\ UNCHANGED <<dia, limite, vigente, servicio, mes, hilo>>

\* The variants become the k of the request, whatever they are by then; the room asked for
\* is what k adds to those read, and a product removed meanwhile is written all the same.
WriteProduct(t, k) ==
  LET o == hilo[t].obj
      f == hilo[t].fila
  IN
  /\ hilo[t].pc = "fila" /\ f.clase = "productos"
  /\ AssertResourceLimits("variants", k - f.n)
  /\ filas' = [filas EXCEPT ![o].n = k]
  /\ Ends(t)
  /\ UNCHANGED <<dia, limite, vigente, servicio, mes>>

\* The row stays, deleted, and its live variants with it: read first, its pictures taken out
\* of the storage, then deleted.
ReadRemoval(t, o) ==
  /\ hilo[t].pc = "idle" /\ filas[o].clase = "productos" /\ filas[o].estado = "activo"
  /\ Reads(t, "borrar", "borrar", filas[o], o, 0, 0)
  /\ UNCHANGED <<dia, limitRows>>

RemoveProduct(t) ==
  /\ hilo[t].pc = "borrar"
  /\ filas' = [filas EXCEPT ![hilo[t].obj].estado = "borrado", ![hilo[t].obj].n = 0]
  /\ Ends(t)
  /\ UNCHANGED <<dia, limite, vigente, servicio, mes>>

----------------------------------------
(* The month, and what the platform changes.                               *)

\* A receipt beyond the limit is sold as an overage, except in the free trial.
AssessDocumentAllowance ==
  /\ vigente /\ mes["documents"] <= MaxLimite
  /\ (dia.prueba => Usado("documents") + 1 <= limite["documents"])
  /\ mes' = [mes EXCEPT !["documents"] = @ + 1]
  /\ UNCHANGED <<dia, filas, limite, vigente, servicio, hilo>>

RecordDocumentQuery ==
  /\ vigente /\ Usado("documentQueries") < limite["documentQueries"]
  /\ mes' = [mes EXCEPT !["documentQueries"] = @ + 1]
  /\ UNCHANGED <<dia, filas, limite, vigente, servicio, hilo>>

\* The range of a paid plan is the calendar month of Lima; that of the trial is the trial.
GetDocumentRange ==
  /\ ~dia.prueba /\ mes' = [r \in Contados |-> 0]
  /\ UNCHANGED <<dia, filas, limite, vigente, servicio, hilo>>

\* The limit in force is that of the plan and what the company was given beyond it.
SetLimit(r, n) ==
  /\ r \in dia.recursos
  /\ limite' = [limite EXCEPT ![r] = n]
  /\ UNCHANGED <<dia, filas, vigente, servicio, mes, hilo>>

\* An administrator whose copy of the plan's limits is the last one writes them.
UpdateLimits(r, n) == SetLimit(r, n)

\* What one company has beyond its plan is written over whatever it had; below the plan's
\* limit, which is above 0, it never comes.
UpdateCompanyLimits(r, n) == n > 0 /\ SetLimit(r, n)

\* The plan ends or is renewed, Asistencias is taken up or ends.
PlanTurns ==
  /\ vigente' = ~vigente
  /\ UNCHANGED <<dia, filas, limite, servicio, mes, hilo>>

AttendanceTurns ==
  /\ servicio' = ~servicio
  /\ UNCHANGED <<dia, filas, limite, vigente, mes, hilo>>

----------------------------------------

LimitsInit ==
  /\ dia \in Dias
  /\ filas = [o \in Objetos |-> Fila(dia.clases[o],
                  IF dia.que \in {"limites", "consumo", "alta"} THEN "libre" ELSE "activo")]
  /\ limite = [r \in Recursos |-> MaxLimite]
  /\ vigente = TRUE /\ servicio = TRUE
  /\ mes = [r \in Contados |-> 0]
  /\ hilo = [t \in Hilos |-> Idle]

Estados == {"activo", "inactivo"}
RowsNext ==
  \E o \in Objetos :
    \/ CreateUser(o) \/ RemoveUser(o) \/ RemoveEmployee(o) \/ RemoveQrPoint(o)
    \/ \E e \in Estados : CreateEmployee(o, e) \/ CreateQrPoint(o, e)

LimitsNext ==
  \/ /\ dia.que = "limites"
     /\ \/ RowsNext
        \/ \E t \in Hilos, o \in Objetos : ReadRow(t, o) \/ ReadRemoval(t, o)
        \/ \E t \in Hilos : UpdateEmployee(t) \/ UpdateQrPoint(t) \/ RemoveProduct(t)
        \/ \E t \in Hilos, e \in Estados :
             \/ UpdateUserStatus(t, e) \/ UpdateEmployeeStatus(t, e) \/ UpdateQrPointStatus(t, e)
             \/ \E tipo \in Tipos : WriteBranch(t, tipo, e)
        \/ \E o \in Objetos : RemoveBranch(o) \/ \E tipo \in Tipos : CreateBranch(o, tipo)
        \/ \E o \in Objetos, k \in 1..2 : CreateProduct(o, k)
        \/ \E t \in Hilos, k \in 1..2 : WriteProduct(t, k)
  \/ /\ dia.que = "consumo"
     /\ AssessDocumentAllowance \/ RecordDocumentQuery \/ GetDocumentRange
  \/ /\ dia.que \in {"limites", "consumo"}
     /\ PlanTurns \/ \E r \in Recursos, n \in 0..MaxLimite :
                        UpdateLimits(r, n) \/ UpdateCompanyLimits(r, n)
  \/ /\ dia.recursos \cap {"attendanceEmployees", "attendanceQrPoints"} # {}
     /\ AttendanceTurns

----------------------------------------

\* A step of a request whose row is no longer the one it read.
WritesOldRow ==
  \E t \in Hilos : /\ hilo[t].pc = "fila" /\ hilo'[t] = Idle
                  /\ filas[hilo[t].obj] # hilo[t].fila

\* Nothing a plan limits grows beyond the limit in force, receipts apart, unless the row was
\* changed between the reading that decided whether room was needed and the writing; whether
\* the limits were lowered meanwhile, or the plan ended, does not matter.
GrowsWithinLimit ==
  [][\A r \in Recursos \ {"documents"} :
       Usado(r)' > Usado(r) => (vigente /\ Usado(r)' <= GetEffectiveLimits(r)) \/ WritesOldRow]_limitVars
=============================================================================
