------------------------------ MODULE Attendance ------------------------------
(***************************************************************************)
(* Asistencias: the workers of a company, their access and device, their   *)
(* shifts and the marks of their days.  EmployeesService, WorkerAuthService,*)
(* WorkerService, AttendanceTimeEntriesService, ShiftsService and the two  *)
(* places that compute the state of a day (src/src/modules).               *)
(*                                                                         *)
(* Workers and QR points are rows of PlanLimits.  Every handler reads,     *)
(* decides and then writes in statements of their own; nothing in the      *)
(* database forbids two marks of a kind on a day.                          *)
(***************************************************************************)
EXTENDS Sessions

CONSTANTS
  Turnos,      \* shifts
  Equipos,     \* devices
  UltimoDia,   \* bound: days that are seen
  UltimaHora,  \* bound: moments of a day
  MaxMarcas    \* bound: marks

ASSUME AttendanceAssumption ==
  /\ MaxMarcas \in Nat /\ {UltimoDia, UltimaHora} \cup Equipos \cup Turnos \subseteq Nat \ {0}
  /\ Equipos # {}                 \* the workers of an ordinary day have one

Ninguno == 0    \* no device, no shift, no link

VARIABLES
  reloj,       \* the day and the moment
  acceso,      \* for every row: activation link, PIN, device, shift
  turnos,      \* turno: active, hour of entrance, working days
  marcas       \* marcaje_asistencia

dayRows == <<reloj, acceso, turnos, marcas>>

EmpleadoRows ==
  [enlace : Nat, pin : Nat, equipo : Equipos \cup {Ninguno}, turno : Turnos \cup {Ninguno}]
TurnoRows == [activo : BOOLEAN, entrada : Nat, labora : SUBSET (1..UltimoDia)]
MarcajeRows == [o : Objetos, tipo : {"entrada", "salida"}, qr : BOOLEAN, hora : Nat]
AttendanceTypeOK ==
  /\ reloj \in [dia : Nat, hora : Nat]
  /\ acceso \in [Objetos -> EmpleadoRows] /\ turnos \in [Turnos -> TurnoRows]
  /\ marcas \in Seq(MarcajeRows)

Worker(o) == filas[o].clase = "employees"
Libre == [enlace |-> Ninguno, pin |-> 0, equipo |-> Ninguno, turno |-> Ninguno]
Ahora == reloj.dia * (UltimaHora + 1) + reloj.hora
DiaDe(h) == h \div (UltimaHora + 1)
HoraDe(h) == h - DiaDe(h) * (UltimaHora + 1)
Momentos == {d * (UltimaHora + 1) + h : d \in 1..UltimoDia, h \in 1..UltimaHora}

\* The marks of a worker on a day.
Del(o, d) == {i \in DOMAIN marcas : marcas[i].o = o /\ DiaDe(marcas[i].hora) = d}
Tiene(o, d, tipo) == \E i \in Del(o, d) : marcas[i].tipo = tipo

OnlyHilo == UNCHANGED <<dia, limitRows, authVars, dayRows>>
OnlyAcceso == UNCHANGED <<dia, limitRows, authRows, reloj, turnos, marcas>>
OnlyMarcas == UNCHANGED <<dia, limitRows, authRows, reloj, turnos, acceso>>

----------------------------------------
(* The access of a worker: the link it is activated by, and its PIN.       *)

\* The free trial lets workers in, whether the company took up Asistencias or not.
EnsureAttendanceAccess == servicio \/ (dia.prueba /\ vigente)

\* create and generateAccessToken: the newest link replaces the one before.
GenerateAccessToken(o) ==
  /\ Worker(o) /\ filas[o].estado = "activo" /\ acceso[o].enlace < 2
  /\ acceso' = [acceso EXCEPT ![o].enlace = IF @ = Ninguno THEN 1 ELSE @ + 1]
  /\ OnlyAcceso /\ UNCHANGED <<hilo, viejas>>

\* Read by its link: the worker active, the link not used.
FindByActivationToken(t, o) ==
  /\ hilo[t].pc = "idle" /\ Worker(o) /\ filas[o].estado = "activo" /\ EnsureAttendanceAccess
  /\ acceso[o].enlace # Ninguno
  /\ Reads(t, "activar", "confirmActivation", filas[o], o, acceso[o].enlace, 0)
  /\ OnlyHilo

\* Written by the worker's id: whatever link there is by now is cleared.
ConfirmActivation(t) ==
  LET o == hilo[t].obj IN
  /\ hilo[t].pc = "activar"
  /\ acceso' = [acceso EXCEPT ![o].pin = hilo[t].ver, ![o].enlace = Ninguno]
  /\ Writes(t, Idle, acceso[o].enlace # hilo[t].ver)
  /\ OnlyAcceso

\* A worker's session, which no one closes, is good while the worker is active and has a PIN
\* (JwtStrategy) and its company has Asistencias.
EnsureEmployee(o) == Worker(o) /\ filas[o].estado = "activo" /\ acceso[o].pin > 0 /\ EnsureAttendanceAccess

----------------------------------------
(* The device.                                                             *)

RegisterDevice(t, o, e) ==
  /\ hilo[t].pc = "idle" /\ EnsureEmployee(o)
  /\ acceso[o].equipo \in {Ninguno, e}
  /\ Reads(t, "equipo", "registerDevice", filas[o], o, acceso[o].equipo, e)
  /\ OnlyHilo

WriteDevice(t) ==
  LET o == hilo[t].obj IN
  /\ hilo[t].pc = "equipo"
  /\ acceso' = [acceso EXCEPT ![o].equipo = hilo[t].otro]
  /\ Writes(t, Idle, acceso[o].equipo # hilo[t].ver)
  /\ OnlyAcceso

ResetDevice(o) ==
  /\ Worker(o) /\ filas[o].estado # "libre"
  /\ acceso' = [acceso EXCEPT ![o].equipo = Ninguno]
  /\ OnlyAcceso /\ UNCHANGED <<hilo, viejas>>

----------------------------------------
(* The marks.                                                              *)

\* What the next scan of the day is, from the marks it read.
TipoIf(o, d, complete) ==
  IF complete THEN "nada" ELSE IF Tiene(o, d, "entrada") THEN "salida" ELSE "entrada"
Completa(o, d) == Tiene(o, d, "entrada") /\ Tiene(o, d, "salida")
TipoAlways(o, d) == TipoIf(o, d, FALSE)
Tipo(o, d) == TipoIf(o, d, Completa(o, d))

EnsureDevice(o, e) == acceso[o].equipo = e
\* An active point of the company; what its code is signed with, and the distance, are left out.
QrIsValid(q) == filas[q].clase = "qrPoints" /\ filas[q].estado = "activo"

\* The worker, its device and the point first, then the marks of today; the kind is decided
\* there.
Scan(t, o, q, e) ==
  /\ hilo[t].pc = "idle" /\ EnsureEmployee(o) /\ EnsureDevice(o, e) /\ QrIsValid(q)
  /\ Tipo(o, reloj.dia) # "nada"
  /\ Reads(t, Tipo(o, reloj.dia), "scan", filas[o], o, reloj.dia,
           Cardinality(Del(o, reloj.dia)))
  /\ OnlyHilo

\* The mark has the time of its writing.  Old: another mark of the day is in, or the day is over.
WriteScan(t) ==
  LET o == hilo[t].obj IN
  /\ hilo[t].pc \in {"entrada", "salida"} /\ Len(marcas) < MaxMarcas
  /\ marcas' = Append(marcas, [o |-> o, tipo |-> hilo[t].pc, qr |-> TRUE, hora |-> Ahora])
  /\ Writes(t, Idle, \/ Cardinality(Del(o, hilo[t].ver)) # hilo[t].otro
                     \/ reloj.dia # hilo[t].ver)
  /\ OnlyMarcas

\* By hand, at any moment that is past: one mark of the kind on that day, and an exit after
\* the entrance, an entrance before the exit.
AssertManualEntryIsAllowed(o, tipo, h) ==
  /\ ~Tiene(o, DiaDe(h), tipo)
  /\ \A i \in Del(o, DiaDe(h)) :
       IF tipo = "salida" THEN h > marcas[i].hora ELSE h < marcas[i].hora

CreateManual(t, o, tipo, h) ==
  /\ hilo[t].pc = "idle" /\ Worker(o) /\ filas[o].estado = "activo"
  /\ h <= Ahora
  /\ AssertManualEntryIsAllowed(o, tipo, h)
  /\ Reads(t, "manual", tipo, filas[o], o, h, Cardinality(Del(o, DiaDe(h))))
  /\ OnlyHilo

WriteManual(t) ==
  LET o == hilo[t].obj IN
  /\ hilo[t].pc = "manual" /\ Len(marcas) < MaxMarcas
  /\ marcas' = Append(marcas, [o |-> o, tipo |-> hilo[t].op, qr |-> FALSE, hora |-> hilo[t].ver])
  /\ hilo' = [hilo EXCEPT ![t] = Idle]
  /\ viejas' = IF Cardinality(Del(o, DiaDe(hilo[t].ver))) # hilo[t].otro
                 THEN viejas \cup {"manual"} ELSE viejas
  /\ OnlyMarcas

----------------------------------------
(* The shifts.                                                             *)

\* The hours of a shift are in order and it has a working day (normalizeData).
UpdateShift(s, activo, entrada, labora) ==
  /\ turnos' = [turnos EXCEPT ![s] = [activo |-> activo, entrada |-> entrada, labora |-> labora]]
  /\ UNCHANGED <<dia, limitRows, authVars, hilo, reloj, acceso, marcas>>

\* The employees of the shift become these, whoever had it or another one before.
AssignEmployees(s, os) ==
  /\ turnos[s].activo /\ \A o \in os : Worker(o) /\ filas[o].estado = "activo"
  /\ acceso' = [o \in Objetos |->
       [acceso[o] EXCEPT !.turno = IF o \in os THEN s ELSE IF @ = s THEN Ninguno ELSE @]]
  /\ OnlyAcceso /\ UNCHANGED <<hilo, viejas>>

----------------------------------------
(* The state of a day of a worker, as the register of time entries computes *)
(* it and as the dashboard does, each with its own code.  S: the marks of  *)
(* the day that the branch they are asked for lets through.                *)

DeTipo(S, tipo) == {i \in S : marcas[i].tipo = tipo}
Trabaja(o, d) == d \in turnos[acceso[o].turno].labora
\* formatTime of a mark against the shift's hour of entrance.
Tarde(o, i) == HoraDe(marcas[i].hora) > turnos[acceso[o].turno].entrada

\* The first entrance and the last exit, in a cascade over one status.
BuildDayStatus(o, d, S) ==
  LET entradas == DeTipo(S, "entrada")
      salidas == DeTipo(S, "salida")
      entrada == CHOOSE i \in entradas : \A j \in entradas : marcas[i].hora <= marcas[j].hora
  IN IF d > reloj.dia THEN "pendiente"
     ELSE IF acceso[o].turno = Ninguno THEN "sin_turno"
     ELSE IF ~Trabaja(o, d) THEN "descanso"
     ELSE IF entradas # {} /\ salidas # {} THEN IF Tarde(o, entrada) THEN "tardanza" ELSE "asistencia"
     ELSE IF entradas # {} \/ salidas # {} THEN "incompleto" ELSE "falta"

\* By early returns, from whether the marks hold an entrance and an exit; it looks at the
\* earliest entrance, so a day is in time when one of its entrances is.
GetAttendanceStatus(o, d, S) ==
  LET tipos == {marcas[i].tipo : i \in S} IN
  IF d > reloj.dia THEN "pendiente"
  ELSE IF acceso[o].turno = Ninguno THEN "sin_turno"
  ELSE IF ~Trabaja(o, d) THEN "descanso"
  ELSE IF tipos = {} THEN "falta"
  ELSE IF tipos # {"entrada", "salida"} THEN "incompleto"
  ELSE IF \E i \in S : marcas[i].tipo = "entrada" /\ ~Tarde(o, i) THEN "asistencia" ELSE "tardanza"

----------------------------------------

Tick ==
  /\ reloj' = IF reloj.hora < UltimaHora THEN [reloj EXCEPT !.hora = @ + 1]
              ELSE [dia |-> reloj.dia + 1, hora |-> 1]
  /\ reloj'.dia <= UltimoDia
  /\ UNCHANGED <<dia, limitRows, authVars, hilo, acceso, turnos, marcas>>

AttendanceInit ==
  /\ reloj = [dia |-> 1, hora |-> 1]
  /\ acceso = [o \in Objetos |-> IF dia.que = "asistencia"
                                  THEN [Libre EXCEPT !.pin = 1, !.equipo = CHOOSE e \in Equipos : TRUE]
                                  ELSE Libre]
  /\ turnos = [s \in Turnos |-> [activo |-> TRUE, entrada |-> 1, labora |-> 1..UltimoDia]]
  /\ marcas = <<>>

AccessNext ==
  \/ \E o \in Objetos : GenerateAccessToken(o) \/ ResetDevice(o)
  \/ \E t \in Hilos : ConfirmActivation(t) \/ WriteDevice(t)
  \/ \E t \in Hilos, o \in Objetos :
       FindByActivationToken(t, o) \/ \E e \in Equipos : RegisterDevice(t, o, e)

MarksNext ==
  \/ Tick
  \/ \E t \in Hilos : WriteScan(t) \/ WriteManual(t)
  \/ \E t \in Hilos, o \in Objetos, q \in Objetos, e \in Equipos : Scan(t, o, q, e)
  \/ \E t \in Hilos, o \in Objetos, tipo \in {"entrada", "salida"}, h \in Momentos :
       CreateManual(t, o, tipo, h)

ShiftsNext ==
  \/ \E s \in Turnos, a \in BOOLEAN, h \in 1..UltimaHora, l \in {{1}, 1..UltimoDia} :
       UpdateShift(s, a, h, l)
  \/ \E s \in Turnos, os \in SUBSET Objetos : AssignEmployees(s, os)

\* Workers and QR points come and go as in PlanLimits while the day is worked.
AttendanceNext ==
  \/ dia.que = "acceso" /\ AccessNext
  \/ dia.que \in {"asistencia", "turnos"} /\ MarksNext
  \/ dia.que = "turnos" /\ ShiftsNext
  \/ dia.que \in {"acceso", "asistencia"} /\ RowsNext /\ UNCHANGED <<authVars, dayRows>>
  \/ dia.que = "acceso" /\ AttendanceTurns /\ UNCHANGED <<authVars, dayRows>>

Init == LimitsInit /\ SessionsInit /\ AttendanceInit

Next ==
  \/ LimitsNext /\ UNCHANGED <<authVars, dayRows>>
  \/ SessionsNext /\ UNCHANGED dayRows
  \/ AttendanceNext

vars == <<limitVars, authVars, dayRows>>
Spec == Init /\ [][Next]_vars

----------------------------------------

\* A worker has one entrance and one exit a day, unless two marks of the day were decided on
\* the same reading, or midnight passed between a scan's reading and its writing.
OneEntryPerDay ==
  \/ \A o \in Objetos, d \in 1..UltimoDia, tipo \in {"entrada", "salida"} :
       Cardinality(DeTipo(Del(o, d), tipo)) <= 1
  \/ viejas \cap {"scan", "manual"} # {}

\* The exit of a day is not before its entrance, unless the marks overlapped; the one order of
\* requests that breaks it is an entrance scanned on a day whose exit was put in by hand.
ExitFollowsEntrance ==
  \/ \A i, j \in DOMAIN marcas :
       /\ marcas[i].o = marcas[j].o /\ DiaDe(marcas[i].hora) = DiaDe(marcas[j].hora)
       /\ marcas[i].tipo = "entrada" /\ marcas[j].tipo = "salida"
       => marcas[i].hora <= marcas[j].hora \/ (j < i /\ marcas[i].qr /\ ~marcas[j].qr)
  \/ viejas \cap {"scan", "manual"} # {}

\* The dashboard, which takes the active workers, and the register of time entries give a day
\* of one the same state, whatever branch both are asked for.
DashboardAgrees ==
  \A o \in Objetos, d \in 1..UltimoDia : Worker(o) /\ filas[o].estado = "activo" =>
    \A S \in SUBSET Del(o, d) : BuildDayStatus(o, d, S) = GetAttendanceStatus(o, d, S)

\* The marks of a day make sense, and everyone who reads them sees the same day.
MarksAgree == OneEntryPerDay /\ ExitFollowsEntrance /\ DashboardAgrees
=============================================================================
