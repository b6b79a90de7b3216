----------------------------- MODULE Company_proofs -----------------------------
(***************************************************************************)
(* What a company has, what its plan lets it have, who may open it, and    *)
(* what it writes its products with: the properties of PlanLimits,         *)
(* Sessions, Attendance and ModuleAccess, and those of Catalogues,         *)
(* CourierAgencies and Products, for every number of requests at a time,   *)
(* of rows, of days, of administrators, of files and of products.          *)
(*                                                                         *)
(* TypeOK and AccessOK type every row, and say of every request what it    *)
(* has in hand where it stands (ThreadOK, TramiteOK); every other          *)
(* invariant is proved beside them: OneHolds, EpochHolds and SpentOK of    *)
(* the account, DayOK of the marks, AskedOK of the modules, RowsFit of     *)
(* what the plan limits.  A component that does not write what an          *)
(* invariant is about keeps it by HilosMove alone: where its requests may  *)
(* stand after a step.                                                     *)
(*                                                                         *)
(* The catalogues share no state with them.  Theirs are ReadsAgree (what a *)
(* listing has read), SyncsAlone (what a synchronisation has done so far)  *)
(* and ProductsInv (whose the files of a request are, by its step, and     *)
(* what a form counted as long as nobody wrote).                           *)
(***************************************************************************)
EXTENDS ModuleAccess, Products, FiniteSetTheorems, WellFoundedInduction, TLAPS

LeePcs  == {"version", "empresa", "inicio", "rotar", "editar", "clave"}
AbrePcs == {"token", "revocar"}
SesPcs  == LeePcs \cup AbrePcs
AltaPcs == {"codigo", "restablecer"}
RowPcs  == {"fila", "borrar"}
DayPcs  == {"entrada", "salida", "manual"}
AccPcs  == {"activar", "equipo"}
Pcs     == {"idle"} \cup SesPcs \cup AltaPcs \cup RowPcs \cup DayPcs \cup AccPcs

OpNames ==
  {"nada", "fila", "borrar", "verifyEmail", "login", "createCompany", "refresh", "updateMe",
   "changeMyPassword", "resetPassword", "confirmActivation", "registerDevice", "scan",
   "entrada", "salida"}
ThreadRows ==
  [pc : Pcs, op : OpNames, fila : FilaRows, obj : Nat, ver : Nat, otro : Nat]

\* What a request has in hand, by where it is.
ThreadOK(h) ==
  /\ h.pc = "version" => h.op = "login"
  /\ h.pc \in {"empresa", "inicio"} => h.op = "createCompany"
  /\ h.pc = "rotar" => h.op = "refresh" /\ h.obj \in DOMAIN tokens
  /\ h.pc = "editar" => h.op = "updateMe"
  /\ h.pc = "clave" => h.op = "changeMyPassword"
  /\ h.pc = "restablecer" => h.op = "resetPassword" /\ h.obj \in DOMAIN enlaces
  /\ h.pc = "empresa" => h.fila.n = 0
  /\ h.pc \in {"entrada", "salida"} => h.op = "scan"
  /\ h.pc = "manual" => h.op \in {"entrada", "salida"}
  /\ h.pc \in RowPcs \cup DayPcs \cup AccPcs => h.obj \in Objetos
  /\ h.pc = "equipo" => h.ver \in Equipos \cup {Ninguno} /\ h.otro \in Equipos

RowsOK   == LimitsTypeOK
PeopleOK == SessionsTypeOK /\ AttendanceTypeOK /\ reloj.hora \in 1..UltimaHora
HilosOK  == hilo \in [Hilos -> ThreadRows] /\ \A t \in Hilos : ThreadOK(hilo[t])
TypeOK   == dia \in Dias /\ RowsOK /\ PeopleOK /\ HilosOK

\* Every request stays where it was, or is now at one of P.
HilosMove(P) == \A t \in Hilos : hilo'[t] = hilo[t] \/ hilo'[t].pc \in P


\* A request goes to x, which is what it may have in hand there; the others stay.
LEMMA ThreadTo ==
  ASSUME HilosOK, NEW t \in Hilos, NEW x \in ThreadRows, ThreadOK(x),
         hilo' = [hilo EXCEPT ![t] = x],
         DOMAIN tokens \subseteq DOMAIN tokens', DOMAIN enlaces \subseteq DOMAIN enlaces'
  PROVE  HilosOK' /\ HilosMove({x.pc})
<1>1. ThreadOK(x)' /\ \A u \in Hilos : ThreadOK(hilo[u]) => ThreadOK(hilo[u])' \/ hilo'[u] = x
  BY DEF HilosOK, ThreadOK
<1> QED BY <1>1 DEF HilosOK, HilosMove, ThreadOK

\* A request that ended has nothing in hand.
LEMMA IdleOK == Idle \in ThreadRows /\ ThreadOK(Idle) /\ Idle.pc = "idle"
<1>1. NoFila \in FilaRows BY DEF NoFila, Fila, FilaRows, Clases, Tipos
<1>2. "idle" \in Pcs BY DEF Pcs
<1>3. Idle \in ThreadRows BY <1>1, <1>2 DEF Idle, ThreadRows, OpNames
<1>4. Idle.pc = "idle" BY DEF Idle
<1>5. ThreadOK(Idle) BY <1>4 DEF ThreadOK, SesPcs, LeePcs, AbrePcs, RowPcs, DayPcs, AccPcs
<1> QED BY <1>3, <1>4, <1>5

\* A request ends.
LEMMA ThreadEnds ==
  ASSUME HilosOK, NEW t \in Hilos, Ends(t),
         DOMAIN tokens \subseteq DOMAIN tokens', DOMAIN enlaces \subseteq DOMAIN enlaces'
  PROVE  HilosOK' /\ HilosMove({"idle"})
  BY ThreadTo, IdleOK DEF Ends

\* A request begins.
LEMMA ThreadReads ==
  ASSUME HilosOK, NEW t \in Hilos, NEW pc \in Pcs, NEW op \in OpNames, NEW fila \in FilaRows,
         NEW obj \in Nat, NEW ver \in Nat, NEW otro \in Nat,
         ThreadOK([pc |-> pc, op |-> op, fila |-> fila, obj |-> obj, ver |-> ver, otro |-> otro]),
         Reads(t, pc, op, fila, obj, ver, otro),
         DOMAIN tokens \subseteq DOMAIN tokens', DOMAIN enlaces \subseteq DOMAIN enlaces'
  PROVE  HilosOK' /\ HilosMove({pc})
<1> DEFINE x == [pc |-> pc, op |-> op, fila |-> fila, obj |-> obj, ver |-> ver, otro |-> otro]
<1>1. x \in ThreadRows /\ x.pc = pc BY DEF ThreadRows
<1>2. hilo' = [hilo EXCEPT ![t] = x] BY DEF Reads
<1> QED BY <1>1, <1>2, ThreadTo

----------------------------------------
(* Limits.                                                                 *)

\* The rows and the threads a step of PlanLimits leaves.
LEMMA RowsType ==
  ASSUME TypeOK, RowsNext, UNCHANGED <<authVars, dayRows>>
  PROVE  TypeOK' /\ UNCHANGED hilo
<1> USE DEF RowsNext, RemoveUser, RemoveEmployee, RemoveQrPoint, RemoveRow, CreateUser, CreateEmployee, CreateQrPoint, CreateRow
<1>1. UNCHANGED <<dia, limite, vigente, servicio, mes, hilo>> OBVIOUS
<1>2. \E o \in Objetos : \E e \in {"activo", "inactivo", "libre"} :
         \/ \E c \in Clases : filas' = [filas EXCEPT ![o] = Fila(c, e)]
         \/ filas' = [filas EXCEPT ![o].estado = e]
  BY DEF Estados, Clases
<1>3. filas' \in [Objetos -> FilaRows]
  BY <1>2 DEF TypeOK, RowsOK, LimitsTypeOK, FilaRows, Fila, Tipos
<1>4. QED
  BY <1>1, <1>3 DEF TypeOK, RowsOK, LimitsTypeOK, PeopleOK, HilosOK, ThreadOK, authVars, authRows, dayRows,
    SessionsTypeOK, AttendanceTypeOK

\* A step of PlanLimits keeps the types, and its requests read a row or end.
LEMMA LimitsType ==
  ASSUME TypeOK, LimitsNext, UNCHANGED <<authVars, dayRows>>
  PROVE  TypeOK' /\ HilosMove({"idle"} \cup RowPcs)
<1> DEFINE Goal == TypeOK' /\ HilosMove({"idle"} \cup RowPcs)
<1> USE DEF authVars, authRows, dayRows, limitRows
<1>0. UNCHANGED <<tokens, enlaces, registro, cuenta, viejas, reloj, acceso, turnos, marcas>> OBVIOUS
<1>a. ASSUME HilosOK' /\ HilosMove({"idle"} \cup RowPcs), RowsOK', UNCHANGED dia PROVE Goal
  BY <1>0, <1>a DEF TypeOK, PeopleOK, SessionsTypeOK, AttendanceTypeOK
<1>b. ASSUME RowsOK', UNCHANGED <<dia, hilo>> PROVE Goal
  BY <1>0, <1>b DEF TypeOK, PeopleOK, SessionsTypeOK, AttendanceTypeOK, HilosOK, ThreadOK, HilosMove
<1>c. ASSUME NEW t \in Hilos, Ends(t), RowsOK', UNCHANGED dia PROVE Goal
  <2>1. HilosOK' /\ HilosMove({"idle"}) BY <1>0, <1>c, ThreadEnds DEF TypeOK
  <2> QED BY <2>1, <1>a, <1>c DEF HilosMove
<1>d. ASSUME NEW t \in Hilos, NEW o \in Objetos, NEW pc \in RowPcs, Reads(t, pc, pc, filas[o], o, 0, 0),
             UNCHANGED <<dia, filas, limite, vigente, servicio, mes>>
      PROVE Goal
  <2>1. filas[o] \in FilaRows /\ o \in Nat BY LimitsAssumption DEF TypeOK, RowsOK, LimitsTypeOK
  <2>2. ThreadOK([pc |-> pc, op |-> pc, fila |-> filas[o], obj |-> o, ver |-> 0, otro |-> 0])
    BY DEF ThreadOK, RowPcs, SesPcs, LeePcs, AbrePcs, DayPcs, AccPcs
  <2>3. pc \in Pcs /\ pc \in OpNames BY DEF Pcs, RowPcs, OpNames
  <2>4. HilosOK' /\ HilosMove({pc}) BY <1>0, <1>d, <2>1, <2>2, <2>3, ThreadReads DEF TypeOK
  <2>5. RowsOK' BY <1>d DEF TypeOK, RowsOK, LimitsTypeOK
  <2> QED BY <2>4, <2>5, <1>a, <1>d DEF HilosMove
<1>1. ASSUME RowsNext PROVE Goal BY <1>1, RowsType DEF HilosMove
<1>2. ASSUME NEW t \in Hilos, NEW o \in Objetos, ReadRow(t, o) \/ ReadRemoval(t, o) PROVE Goal
  BY <1>2, <1>d DEF ReadRow, ReadRemoval, RowPcs
<1>3. ASSUME NEW t \in Hilos, NEW e \in Estados,
             \/ UpdateEmployee(t) \/ UpdateQrPoint(t)
             \/ UpdateUserStatus(t, e) \/ UpdateEmployeeStatus(t, e) \/ UpdateQrPointStatus(t, e)
      PROVE Goal
  <2>1. hilo[t] \in ThreadRows /\ (hilo[t].pc = "fila" => hilo[t].obj \in Objetos)
    BY DEF TypeOK, HilosOK, ThreadOK, RowPcs
  <2>2. PICK f \in {"libre", "activo", "inactivo", "borrado"} :
          /\ hilo[t].pc = "fila" /\ filas' = [filas EXCEPT ![hilo[t].obj].estado = f]
          /\ Ends(t) /\ UNCHANGED <<dia, limite, vigente, servicio, mes>>
    BY <1>3, <2>1 DEF UpdateEmployee, UpdateQrPoint, UpdateUserStatus, UpdateEmployeeStatus, UpdateQrPointStatus,
       WriteRow, Estados, ThreadRows, FilaRows
  <2>3. RowsOK' BY <2>1, <2>2 DEF TypeOK, RowsOK, LimitsTypeOK, FilaRows
  <2> QED BY <2>2, <2>3, <1>c
<1>4. ASSUME NEW t \in Hilos, RemoveProduct(t) PROVE Goal
  <2>1. hilo[t].obj \in Objetos BY <1>4 DEF TypeOK, HilosOK, ThreadOK, RowPcs, RemoveProduct
  <2>2. RowsOK' BY <1>4, <2>1 DEF RemoveProduct, TypeOK, RowsOK, LimitsTypeOK, FilaRows
  <2> QED BY <1>4, <2>2, <1>c DEF RemoveProduct
<1>5. ASSUME NEW t \in Hilos, NEW e \in Estados, NEW tipo \in Tipos, WriteBranch(t, tipo, e) PROVE Goal
  <2>1. hilo[t].obj \in Objetos BY <1>5 DEF TypeOK, HilosOK, ThreadOK, RowPcs, WriteBranch
  <2>2. RowsOK' BY <1>5, <2>1 DEF WriteBranch, TypeOK, RowsOK, LimitsTypeOK, FilaRows, Estados
  <2> QED BY <1>5, <2>2, <1>c DEF WriteBranch
<1>6. ASSUME NEW o \in Objetos, RemoveBranch(o) \/ \E tipo \in Tipos : CreateBranch(o, tipo) PROVE Goal
  <2>1. RowsOK'
    BY <1>6 DEF RemoveBranch, RemoveRow, CreateBranch, Fila, TypeOK, RowsOK, LimitsTypeOK, FilaRows, Clases, Tipos
  <2> QED BY <1>6, <2>1, <1>b DEF RemoveBranch, RemoveRow, CreateBranch
<1>7. ASSUME NEW o \in Objetos, NEW k \in 1..2, CreateProduct(o, k) PROVE Goal
  <2>1. RowsOK'
    BY <1>7 DEF CreateProduct, Fila, TypeOK, RowsOK, LimitsTypeOK, FilaRows, Clases, Tipos
  <2> QED BY <1>7, <2>1, <1>b DEF CreateProduct
<1>8. ASSUME NEW t \in Hilos, NEW k \in 1..2, WriteProduct(t, k) PROVE Goal
  <2>1. hilo[t].obj \in Objetos BY <1>8 DEF TypeOK, HilosOK, ThreadOK, RowPcs, WriteProduct
  <2>2. RowsOK' BY <1>8, <2>1 DEF WriteProduct, TypeOK, RowsOK, LimitsTypeOK, FilaRows
  <2> QED BY <1>8, <2>2, <1>c DEF WriteProduct
<1>9. ASSUME AssessDocumentAllowance \/ RecordDocumentQuery \/ GetDocumentRange PROVE Goal
  <2>1. RowsOK' /\ UNCHANGED <<dia, hilo>>
    BY <1>9 DEF AssessDocumentAllowance, RecordDocumentQuery, GetDocumentRange, TypeOK, RowsOK, LimitsTypeOK,
       UsoMensualRows, Contados
  <2> QED BY <2>1, <1>b
<1>10. ASSUME PlanTurns \/ AttendanceTurns PROVE Goal
  <2>1. RowsOK' /\ UNCHANGED <<dia, hilo>>
    BY <1>10 DEF PlanTurns, AttendanceTurns, TypeOK, RowsOK, LimitsTypeOK, Suscripcion, ServicioAdicional
  <2> QED BY <2>1, <1>b
<1>11. ASSUME NEW r \in Recursos, NEW n \in 0..MaxLimite, UpdateLimits(r, n) \/ UpdateCompanyLimits(r, n) PROVE Goal
  <2>1. RowsOK' /\ UNCHANGED <<dia, hilo>>
    BY <1>11, LimitsAssumption DEF UpdateLimits, UpdateCompanyLimits, SetLimit, TypeOK, RowsOK, LimitsTypeOK, PlanLimiteRows
  <2> QED BY <2>1, <1>b
<1> QED BY <1>1, <1>2, <1>3, <1>4, <1>5, <1>6, <1>7, <1>8, <1>9, <1>10, <1>11 DEF LimitsNext, Estados

----------------------------------------
(* Sessions.                                                               *)

\* A request that goes on with its operation, its row and its object.
LEMMA ThreadGoesOn ==
  ASSUME HilosOK, NEW t \in Hilos, NEW pc \in Pcs, NEW ver \in Nat, NEW otro \in Nat, NEW old,
         Writes(t, Next1(t, pc, ver, otro), old), ThreadOK(Next1(t, pc, ver, otro)),
         DOMAIN tokens \subseteq DOMAIN tokens', DOMAIN enlaces \subseteq DOMAIN enlaces'
  PROVE  HilosOK' /\ HilosMove({pc})
<1> DEFINE x == Next1(t, pc, ver, otro)
<1>1. x \in ThreadRows /\ x.pc = pc BY DEF HilosOK, ThreadRows, Next1
<1>2. hilo' = [hilo EXCEPT ![t] = x] BY DEF Writes
<1> QED BY <1>1, <1>2, ThreadTo

\* A request writes, and ends.
LEMMA ThreadWritesIdle ==
  ASSUME HilosOK, NEW t \in Hilos, NEW old, Writes(t, Idle, old),
         DOMAIN tokens \subseteq DOMAIN tokens', DOMAIN enlaces \subseteq DOMAIN enlaces'
  PROVE  HilosOK' /\ HilosMove({"idle"})
  BY ThreadTo, IdleOK DEF Writes

\* A place of a sequence written again.
LEMMA SetAt ==
  ASSUME NEW S, NEW s \in Seq(S), NEW k, NEW x, k \in DOMAIN s => x \in S
  PROVE  /\ [s EXCEPT ![k] = x] \in Seq(S)
         /\ DOMAIN [s EXCEPT ![k] = x] = DOMAIN s
         /\ Len([s EXCEPT ![k] = x]) = Len(s)
<1>1. s \in [1..Len(s) -> S] /\ Len(s) \in Nat OBVIOUS
<1>2. [s EXCEPT ![k] = x] \in [1..Len(s) -> S] BY <1>1
<1> QED BY <1>1, <1>2

\* The writes to the registration, to the account, to a token and to a link leave rows.
LEMMA RegistroRow ==
  ASSUME NEW r \in RegistroPendienteRows
  PROVE  /\ [r EXCEPT !.intentos = @ + 1] \in RegistroPendienteRows
         /\ [r EXCEPT !.verificado = TRUE] \in RegistroPendienteRows
<1>1. r.intentos + 1 \in Nat BY DEF RegistroPendienteRows
<1>2. \A n \in Nat : [r EXCEPT !.intentos = n] \in RegistroPendienteRows
  BY DEF RegistroPendienteRows
<1>3. [r EXCEPT !.verificado = TRUE] \in RegistroPendienteRows BY DEF RegistroPendienteRows
<1> QED BY <1>1, <1>2, <1>3

\* The same for the account.
LEMMA CuentaRow ==
  ASSUME NEW c \in CuentaRows, NEW v \in Nat, NEW e \in Nat
  PROVE  /\ [c EXCEPT !.clave = 1] \in CuentaRows
         /\ [c EXCEPT !.version = v] \in CuentaRows
         /\ [c EXCEPT !.empresas = v] \in CuentaRows
         /\ [c EXCEPT !.version = v, !.epoca = e] \in CuentaRows
         /\ [c EXCEPT !.clave = 2, !.version = v, !.epoca = e] \in CuentaRows
<1>1. [c EXCEPT !.clave = 1] \in CuentaRows BY DEF CuentaRows
<1>2. [c EXCEPT !.version = v] \in CuentaRows BY DEF CuentaRows
<1>3. [c EXCEPT !.empresas = v] \in CuentaRows BY DEF CuentaRows
<1>4. [c EXCEPT !.version = v, !.epoca = e] \in CuentaRows BY DEF CuentaRows
<1>5. 2 \in 0..2 OBVIOUS
<1>6. [c EXCEPT !.clave = 2, !.version = v, !.epoca = e] \in CuentaRows BY <1>5 DEF CuentaRows
<1> QED BY <1>1, <1>2, <1>3, <1>4, <1>6

\* The same for a token revoked.
LEMMA TokenRow ==
  ASSUME NEW x \in RefreshTokenRows
  PROVE  [x EXCEPT !.revocado = TRUE] \in RefreshTokenRows
  BY DEF RefreshTokenRows

\* The same for a link used.
LEMMA EnlaceRow ==
  ASSUME NEW x \in PasswordResetRows
  PROVE  [x EXCEPT !.usado = TRUE, !.veces = @ + 1] \in PasswordResetRows
<1>1. x.veces + 1 \in Nat BY DEF PasswordResetRows
<1>2. \A n \in Nat : [x EXCEPT !.usado = TRUE, !.veces = n] \in PasswordResetRows
  BY DEF PasswordResetRows
<1> QED BY <1>1, <1>2

\* Revoking one token, or every token, leaves as many tokens.
LEMMA RevokeOne ==
  ASSUME tokens \in Seq(RefreshTokenRows), NEW k
  PROVE  /\ [tokens EXCEPT ![k].revocado = TRUE] \in Seq(RefreshTokenRows)
         /\ DOMAIN [tokens EXCEPT ![k].revocado = TRUE] = DOMAIN tokens
<1>1. k \in DOMAIN tokens => [tokens[k] EXCEPT !.revocado = TRUE] \in RefreshTokenRows BY TokenRow
<1> QED BY <1>1, SetAt

\* The same of every token.
LEMMA RevokeEvery ==
  ASSUME tokens \in Seq(RefreshTokenRows)
  PROVE  RevokeAll \in Seq(RefreshTokenRows) /\ DOMAIN RevokeAll = DOMAIN tokens
<1>1. tokens \in [1..Len(tokens) -> RefreshTokenRows] /\ Len(tokens) \in Nat /\ DOMAIN tokens = 1..Len(tokens)
  OBVIOUS
<1>2. \A k \in 1..Len(tokens) : [tokens[k] EXCEPT !.revocado = TRUE] \in RefreshTokenRows
  BY <1>1, TokenRow
<1>3. RevokeAll = [k \in 1..Len(tokens) |-> [tokens[k] EXCEPT !.revocado = TRUE]]
  BY <1>1 DEF RevokeAll
<1>4. RevokeAll \in [1..Len(tokens) -> RefreshTokenRows] BY <1>2, <1>3
<1> QED BY <1>1, <1>4

\* The link a reset marks.
LEMMA MarkLink ==
  ASSUME enlaces \in Seq(PasswordResetRows), NEW k \in DOMAIN enlaces,
         enlaces' = [enlaces EXCEPT ![k].usado = TRUE, ![k].veces = @ + 1]
  PROVE  /\ enlaces' = [enlaces EXCEPT ![k] = [enlaces[k] EXCEPT !.usado = TRUE, !.veces = @ + 1]]
         /\ enlaces' \in Seq(PasswordResetRows) /\ DOMAIN enlaces' = DOMAIN enlaces
<1>1. enlaces[k] \in PasswordResetRows OBVIOUS
<1>2. enlaces' = [enlaces EXCEPT ![k] = [enlaces[k] EXCEPT !.usado = TRUE, !.veces = @ + 1]]
  BY <1>1 DEF PasswordResetRows
<1>3. [enlaces[k] EXCEPT !.usado = TRUE, !.veces = @ + 1] \in PasswordResetRows BY <1>1, EnlaceRow
<1>4. \A x \in PasswordResetRows : /\ [enlaces EXCEPT ![k] = x] \in Seq(PasswordResetRows)
                                   /\ DOMAIN [enlaces EXCEPT ![k] = x] = DOMAIN enlaces
  BY SetAt
<1> QED BY <1>2, <1>3, <1>4

\* The registration, the account, its tokens and its links after a step of Sessions.
LEMMA SessionsType ==
  ASSUME TypeOK, SessionsNext, UNCHANGED dayRows
  PROVE  TypeOK' /\ HilosMove({"idle"} \cup SesPcs \cup AltaPcs)
<1> DEFINE P == {"idle"} \cup SesPcs \cup AltaPcs
           Goal == TypeOK' /\ HilosMove(P)
<1> USE DEF dayRows, limitRows, authRows
<1>0. UNCHANGED <<reloj, acceso, turnos, marcas>> OBVIOUS
<1>t. /\ \A t \in Hilos : hilo[t] \in ThreadRows /\ ThreadOK(hilo[t])
      /\ RowsOK /\ PeopleOK /\ HilosOK /\ dia \in Dias
  BY DEF TypeOK, HilosOK
<1>n. /\ NoFila \in FilaRows /\ \A n \in Nat : [NoFila EXCEPT !.n = n] \in FilaRows
      /\ \A n \in Nat : [NoFila EXCEPT !.n = n].n = n
  BY DEF NoFila, Fila, FilaRows, Clases, Tipos
<1>a. ASSUME RowsOK', SessionsTypeOK', UNCHANGED dia, HilosOK', NEW Q \in SUBSET P, HilosMove(Q) PROVE Goal
  BY <1>0, <1>t, <1>a DEF TypeOK, PeopleOK, AttendanceTypeOK, HilosMove
<1>b. ASSUME RowsOK', SessionsTypeOK', UNCHANGED <<dia, hilo>>,
             DOMAIN tokens \subseteq DOMAIN tokens', DOMAIN enlaces \subseteq DOMAIN enlaces' PROVE Goal
  BY <1>0, <1>t, <1>b DEF TypeOK, PeopleOK, AttendanceTypeOK, HilosOK, ThreadOK, HilosMove
<1>c. ASSUME NEW t \in Hilos, NEW op \in OpNames, NEW pc \in SesPcs \cup AltaPcs, NEW fila \in FilaRows, NEW obj \in Nat,
             NEW ver \in Nat, NEW otro \in Nat, Reads(t, pc, op, fila, obj, ver, otro),
             ThreadOK([pc |-> pc, op |-> op, fila |-> fila, obj |-> obj, ver |-> ver, otro |-> otro]),
             UNCHANGED <<dia, limitRows, authRows, viejas>>
      PROVE Goal
  <2>1. HilosOK' /\ HilosMove({pc}) BY <1>c, <1>t, ThreadReads DEF Pcs
  <2>2. RowsOK' /\ SessionsTypeOK' BY <1>c, <1>t DEF RowsOK, LimitsTypeOK, PeopleOK, SessionsTypeOK
  <2> QED BY <2>1, <2>2, <1>a, <1>c
<1>d. cuenta \in CuentaRows /\ registro \in RegistroPendienteRows /\ tokens \in Seq(RefreshTokenRows)
      /\ enlaces \in Seq(PasswordResetRows) /\ filas \in [Objetos -> FilaRows]
  BY <1>t DEF PeopleOK, SessionsTypeOK, RowsOK, LimitsTypeOK
<1>1. ASSUME Register PROVE Goal
  <2>1. RowsOK' /\ SessionsTypeOK'
    BY <1>1, <1>t, <1>d DEF Register, RowsOK, LimitsTypeOK, SessionsTypeOK, RegistroPendienteRows
  <2> QED BY <1>1, <2>1, <1>b DEF Register
<1>2. ASSUME NEW t \in Hilos, VerifyEmail(t) PROVE Goal
  BY <1>2, <1>c, <1>d, <1>n DEF VerifyEmail, RegistroPendienteRows, ThreadOK, AltaPcs, OpNames, RowPcs, DayPcs, AccPcs
<1>3. ASSUME NEW t \in Hilos, WrongCode(t) PROVE Goal
  <2>1. RowsOK' /\ SessionsTypeOK' /\ UNCHANGED <<tokens, enlaces, dia>>
    BY <1>3, <1>t, <1>d, RegistroRow DEF WrongCode, RowsOK, LimitsTypeOK, SessionsTypeOK
  <2>2. HilosOK' /\ HilosMove({"idle"}) BY <1>3, <1>t, <2>1, ThreadWritesIdle DEF WrongCode
  <2> QED BY <2>1, <2>2, <1>a
<1>4. ASSUME NEW t \in Hilos, RightCode(t) PROVE Goal
  <2>a. cuenta' \in CuentaRows /\ registro' \in RegistroPendienteRows /\ UNCHANGED <<tokens, enlaces, dia>>
    BY <1>4, <1>d, RegistroRow, CuentaRow DEF RightCode
  <2>b. filas' \in [Objetos -> FilaRows] /\ UNCHANGED <<limite, vigente, servicio, mes>>
    <3>1. filas[Titular] \in FilaRows /\ [filas[Titular] EXCEPT !.estado = "activo"] \in FilaRows
      BY <1>d, SessionsAssumption DEF FilaRows
    <3>2. filas' = filas \/ filas' = [filas EXCEPT ![Titular] = [filas[Titular] EXCEPT !.estado = "activo"]]
      BY <1>4, <1>d DEF RightCode
    <3>3. UNCHANGED <<limite, vigente, servicio, mes>> BY <1>4 DEF RightCode
    <3> QED BY <1>d, <3>1, <3>2, <3>3
  <2>1. RowsOK' /\ SessionsTypeOK' /\ UNCHANGED <<tokens, enlaces, dia>>
    BY <1>d, <1>t, <2>a, <2>b DEF RowsOK, LimitsTypeOK, SessionsTypeOK
  <2>2. HilosOK' /\ HilosMove({"idle"})
    BY <1>4, <1>t, <2>1, ThreadWritesIdle, ThreadEnds DEF RightCode
  <2> QED BY <2>1, <2>2, <1>a
<1>5. ASSUME NEW t \in Hilos, CreateCompany(t) PROVE Goal
  <2>1. cuenta.empresas = 0 /\ cuenta.version \in Nat /\ cuenta.epoca \in Nat
    BY <1>5, <1>d DEF CreateCompany, CuentaRows
  <2>2. PICK f \in FilaRows : /\ f.n = 0
                             /\ Reads(t, "empresa", "createCompany", f, 0, cuenta.version, cuenta.epoca)
                             /\ UNCHANGED <<dia, limitRows, authRows, viejas>>
    BY <1>5, <1>n, <2>1 DEF CreateCompany
  <2>3. "empresa" \in SesPcs \cup AltaPcs /\ "createCompany" \in OpNames
    BY DEF SesPcs, LeePcs, OpNames
  <2>4. ThreadOK([pc |-> "empresa", op |-> "createCompany", fila |-> f, obj |-> 0,
                  ver |-> cuenta.version, otro |-> cuenta.epoca])
    BY <2>2 DEF ThreadOK, RowPcs, DayPcs, AccPcs
  <2> QED BY <2>1, <2>2, <2>3, <2>4, <1>c
<1>6. ASSUME NEW t \in Hilos, CommitCompany(t) PROVE Goal
  <2>1. RowsOK' /\ SessionsTypeOK' /\ UNCHANGED <<tokens, enlaces, dia>>
    BY <1>6, <1>t, <1>d DEF CommitCompany, RowsOK, LimitsTypeOK, SessionsTypeOK, CuentaRows
  <2>2. ThreadOK(Next1(t, "inicio", hilo[t].ver, hilo[t].otro)) /\ "inicio" \in Pcs
        /\ hilo[t].ver \in Nat /\ hilo[t].otro \in Nat
    BY <1>6, <1>t DEF CommitCompany, ThreadOK, Next1, ThreadRows, Pcs, SesPcs, LeePcs, RowPcs, DayPcs, AccPcs
  <2>3. HilosOK' /\ HilosMove({"inicio"}) BY <1>6, <1>t, <2>1, <2>2, ThreadGoesOn DEF CommitCompany
  <2> QED BY <2>1, <2>3, <1>a DEF SesPcs, LeePcs
<1>v. ASSUME NEW t \in Hilos, NEW v \in Nat, NEW rest \in Seq(RefreshTokenRows), WriteVersionAs(t, v, rest),
             DOMAIN tokens \subseteq DOMAIN rest PROVE Goal
  <2>1. RowsOK' /\ SessionsTypeOK' /\ UNCHANGED <<enlaces, dia>> /\ tokens' = rest
    BY <1>v, <1>t, <1>d DEF WriteVersionAs, RowsOK, LimitsTypeOK, SessionsTypeOK, CuentaRows
  <2>2. ThreadOK(Next1(t, "token", v, hilo[t].otro)) /\ "token" \in Pcs /\ hilo[t].otro \in Nat
    BY <1>t DEF ThreadOK, Next1, ThreadRows, Pcs, SesPcs, AbrePcs, RowPcs, DayPcs, AccPcs
  <2>3. HilosOK' /\ HilosMove({"token"}) BY <1>v, <1>t, <2>1, <2>2, ThreadGoesOn DEF WriteVersionAs
  <2> QED BY <2>1, <2>3, <1>a DEF SesPcs, AbrePcs
<1>7. ASSUME NEW t \in Hilos, StartCompany(t) \/ WriteVersion(t) \/ Rotate(t) PROVE Goal
  <2>1. hilo[t].ver + 1 \in Nat BY <1>t DEF ThreadRows
  <2>2. tokens \in Seq(RefreshTokenRows) /\ [tokens EXCEPT ![hilo[t].obj].revocado = TRUE] \in Seq(RefreshTokenRows)
        /\ DOMAIN [tokens EXCEPT ![hilo[t].obj].revocado = TRUE] = DOMAIN tokens
    BY <1>d, RevokeOne
  <2> QED BY <1>7, <2>1, <2>2, <1>v DEF StartCompany, WriteVersion, Rotate
<1>8. ASSUME ForgotPassword PROVE Goal
  <2>1. RowsOK' /\ SessionsTypeOK'
    BY <1>8, <1>t, <1>d DEF ForgotPassword, RowsOK, LimitsTypeOK, SessionsTypeOK, PasswordResetRows
  <2>2. DOMAIN enlaces \subseteq DOMAIN enlaces' BY <1>8, <1>d DEF ForgotPassword
  <2> QED BY <1>8, <2>1, <2>2, <1>b DEF ForgotPassword
<1>9. ASSUME UpdateStatus PROVE Goal
  <2>1. RowsOK' /\ SessionsTypeOK'
    BY <1>9, <1>t, <1>d, SessionsAssumption DEF UpdateStatus, RowsOK, LimitsTypeOK, SessionsTypeOK, FilaRows
  <2> QED BY <1>9, <2>1, <1>b DEF UpdateStatus
<1>10. ASSUME NEW k \in 1..MaxTokens, RefreshOld(k) PROVE Goal
  <2>1. tokens' \in Seq(RefreshTokenRows) /\ DOMAIN tokens' = DOMAIN tokens
    BY <1>10, <1>d, RevokeOne DEF RefreshOld
  <2>2. RowsOK' /\ SessionsTypeOK'
    BY <1>10, <1>t, <1>d, <2>1 DEF RefreshOld, RowsOK, LimitsTypeOK, SessionsTypeOK
  <2> QED BY <1>10, <2>1, <2>2, <1>b DEF RefreshOld
<1>r. RevokeAll \in Seq(RefreshTokenRows) /\ DOMAIN RevokeAll = DOMAIN tokens BY <1>d, RevokeEvery
<1>11. ASSUME NEW k \in 1..MaxTokens, Logout(k) PROVE Goal
  <2>a. cuenta.version + 1 \in Nat /\ cuenta.epoca + 1 \in Nat BY <1>d DEF CuentaRows
  <2>b. cuenta' \in CuentaRows BY <1>11, <1>d, <2>a, CuentaRow DEF Logout
  <2>1. RowsOK' /\ SessionsTypeOK'
    BY <1>11, <1>t, <1>d, <1>r, <2>b DEF Logout, RowsOK, LimitsTypeOK, SessionsTypeOK
  <2> QED BY <1>11, <1>r, <2>1, <1>b DEF Logout
<1>12. ASSUME NEW t \in Hilos, Login(t) PROVE Goal
  BY <1>12, <1>c, <1>d, <1>n DEF Login, CuentaRows, ThreadOK, SesPcs, LeePcs, OpNames, RowPcs, DayPcs, AccPcs
<1>13. ASSUME NEW t \in Hilos, NEW k \in 1..MaxTokens, Refresh(t, k) \/ UpdateMe(t, k) \/ ChangeMyPassword(t, k) PROVE Goal
  <2>1. cuenta.version \in Nat /\ cuenta.epoca \in Nat /\ k \in Nat /\ k \in DOMAIN tokens
    BY <1>13, <1>d, SessionsAssumption DEF CuentaRows, Refresh, UpdateMe, ChangeMyPassword
  <2>2. PICK pc \in {"rotar", "editar", "clave"}, op \in {"refresh", "updateMe", "changeMyPassword"} :
          /\ pc = "rotar" => op = "refresh"
          /\ pc = "editar" => op = "updateMe"
          /\ pc = "clave" => op = "changeMyPassword"
          /\ Reads(t, pc, op, NoFila, k, cuenta.version, cuenta.epoca)
          /\ UNCHANGED <<dia, limitRows, authRows, viejas>>
    BY <1>13 DEF Refresh, UpdateMe, ChangeMyPassword
  <2>3. ThreadOK([pc |-> pc, op |-> op, fila |-> NoFila, obj |-> k, ver |-> cuenta.version, otro |-> cuenta.epoca])
    BY <2>1, <2>2 DEF ThreadOK, RowPcs, DayPcs, AccPcs
  <2>4. pc \in SesPcs \cup AltaPcs /\ op \in OpNames BY <2>2 DEF SesPcs, LeePcs, OpNames
  <2> QED BY <2>1, <2>2, <2>3, <2>4, <1>c, <1>n
<1>14. ASSUME NEW t \in Hilos, NEW i \in 1..MaxEnlaces, ResetPassword(t, i) PROVE Goal
  <2>1. i \in Nat /\ i \in DOMAIN enlaces BY <1>14, SessionsAssumption DEF ResetPassword
  <2>2. ThreadOK([pc |-> "restablecer", op |-> "resetPassword", fila |-> NoFila, obj |-> i, ver |-> 0, otro |-> 0])
    BY <2>1 DEF ThreadOK, RowPcs, DayPcs, AccPcs
  <2>3. "restablecer" \in SesPcs \cup AltaPcs /\ "resetPassword" \in OpNames BY DEF AltaPcs, OpNames
  <2> QED BY <1>14, <2>1, <2>2, <2>3, <1>c, <1>n DEF ResetPassword
<1>15. ASSUME NEW t \in Hilos, CreateRefreshToken(t) PROVE Goal
  <2>1. tokens' \in Seq(RefreshTokenRows) /\ DOMAIN tokens \subseteq DOMAIN tokens'
    BY <1>15, <1>d, <1>t DEF CreateRefreshToken, RefreshTokenRows, ThreadRows
  <2>2. RowsOK' /\ SessionsTypeOK'
    BY <1>15, <1>t, <1>d, <2>1 DEF CreateRefreshToken, RowsOK, LimitsTypeOK, SessionsTypeOK
  <2>3. HilosOK' /\ HilosMove({"idle"}) BY <1>15, <1>t, <2>1, ThreadEnds DEF CreateRefreshToken
  <2> QED BY <1>15, <2>2, <2>3, <1>a DEF CreateRefreshToken
<1>16. ASSUME NEW t \in Hilos, WriteMe(t) PROVE Goal
  <2>1. RowsOK' /\ SessionsTypeOK' /\ UNCHANGED <<tokens, enlaces, dia>>
    BY <1>16, <1>t, <1>d DEF WriteMe, RowsOK, LimitsTypeOK, SessionsTypeOK, CuentaRows
  <2>2. ThreadOK(Next1(t, "token", cuenta.version + 1, hilo[t].otro)) /\ "token" \in Pcs /\ hilo[t].otro \in Nat
        /\ cuenta.version + 1 \in Nat
    BY <1>t, <1>d DEF ThreadOK, Next1, ThreadRows, Pcs, SesPcs, AbrePcs, RowPcs, DayPcs, AccPcs, CuentaRows
  <2>3. HilosOK' /\ HilosMove({"token"}) BY <1>16, <1>t, <2>1, <2>2, ThreadGoesOn DEF WriteMe
  <2> QED BY <2>1, <2>3, <1>a DEF SesPcs, AbrePcs
<1>17. ASSUME NEW t \in Hilos, WritePassword(t) PROVE Goal
  <2>a. cuenta.version + 1 \in Nat /\ cuenta.epoca + 1 \in Nat BY <1>d DEF CuentaRows
  <2>b. cuenta' \in CuentaRows BY <1>17, <1>d, <2>a, CuentaRow DEF WritePassword, WritePasswordAs
  <2>1. RowsOK' /\ SessionsTypeOK' /\ UNCHANGED <<tokens, enlaces, dia>>
    BY <1>17, <1>t, <1>d, <2>b DEF WritePassword, WritePasswordAs, RowsOK, LimitsTypeOK, SessionsTypeOK
  <2>2. ThreadOK(Next1(t, "revocar", cuenta.version + 1, cuenta.epoca + 1)) /\ "revocar" \in Pcs
        /\ cuenta.version + 1 \in Nat /\ cuenta.epoca + 1 \in Nat
    BY <1>t, <1>d DEF ThreadOK, Next1, ThreadRows, Pcs, SesPcs, AbrePcs, RowPcs, DayPcs, AccPcs, CuentaRows
  <2>3. HilosOK' /\ HilosMove({"revocar"})
    BY <1>17, <1>t, <2>1, <2>2, ThreadGoesOn DEF WritePassword, WritePasswordAs
  <2> QED BY <2>1, <2>3, <1>a DEF SesPcs, AbrePcs
<1>18. ASSUME NEW t \in Hilos, RevokeTokens(t) PROVE Goal
  <2>1. RowsOK' /\ SessionsTypeOK' /\ UNCHANGED <<enlaces, dia>> /\ tokens' = RevokeAll
    BY <1>18, <1>t, <1>d, <1>r DEF RevokeTokens, RowsOK, LimitsTypeOK, SessionsTypeOK
  <2>2. ThreadOK(Next1(t, "token", hilo[t].ver, hilo[t].otro)) /\ "token" \in Pcs /\ hilo[t].otro \in Nat
        /\ hilo[t].ver \in Nat
    BY <1>t DEF ThreadOK, Next1, ThreadRows, Pcs, SesPcs, AbrePcs, RowPcs, DayPcs, AccPcs
  <2>3. HilosOK' /\ HilosMove({"token"})
    BY <1>18, <1>t, <1>r, <2>1, <2>2, ThreadGoesOn DEF RevokeTokens
  <2> QED BY <2>1, <2>3, <1>a DEF SesPcs, AbrePcs
<1>19. ASSUME NEW t \in Hilos, WriteReset(t) PROVE Goal
  <2>0. hilo[t].obj \in DOMAIN enlaces BY <1>19, <1>t DEF WriteReset, ThreadOK
  <2>1. enlaces' \in Seq(PasswordResetRows) /\ DOMAIN enlaces' = DOMAIN enlaces
    BY <1>19, <1>d, <2>0, MarkLink DEF WriteReset
  <2>a. cuenta.version + 1 \in Nat /\ cuenta.epoca + 1 \in Nat BY <1>d DEF CuentaRows
  <2>b. cuenta' \in CuentaRows BY <1>19, <1>d, <2>a, CuentaRow DEF WriteReset
  <2>2. RowsOK' /\ SessionsTypeOK' /\ UNCHANGED dia /\ tokens' = RevokeAll
    BY <1>19, <1>t, <1>d, <1>r, <2>1, <2>b DEF WriteReset, RowsOK, LimitsTypeOK, SessionsTypeOK
  <2>3. HilosOK' /\ HilosMove({"idle"})
    BY <1>19, <1>t, <1>r, <2>1, <2>2, ThreadWritesIdle DEF WriteReset
  <2> QED BY <2>2, <2>3, <1>a
<1>20. QED
  BY <1>1, <1>2, <1>3, <1>4, <1>5, <1>6, <1>7, <1>8, <1>9, <1>10, <1>11, <1>12, <1>13, <1>14, <1>15, <1>16, <1>17, <1>18, <1>19
  DEF SessionsNext

----------------------------------------
(* Attendance.                                                             *)

\* The writes to the access of a worker leave a row.
LEMMA EmpleadoRow ==
  ASSUME acceso \in [Objetos -> EmpleadoRows], NEW o \in Objetos, NEW p \in Nat, NEW n \in Nat,
         NEW e \in Equipos \cup {Ninguno},
         \/ acceso' = [acceso EXCEPT ![o].enlace = n]
         \/ acceso' = [acceso EXCEPT ![o].pin = p, ![o].enlace = n]
         \/ acceso' = [acceso EXCEPT ![o].equipo = e]
  PROVE  acceso' \in [Objetos -> EmpleadoRows]
<1>1. CASE acceso' = [acceso EXCEPT ![o].enlace = n] BY <1>1 DEF EmpleadoRows
<1>2. CASE acceso' = [acceso EXCEPT ![o].pin = p, ![o].enlace = n]
  BY ZenonT(40), <1>2 DEF EmpleadoRows
<1>3. CASE acceso' = [acceso EXCEPT ![o].equipo = e] BY <1>3 DEF EmpleadoRows
<1> QED BY <1>1, <1>2, <1>3

\* The marks of a worker on a day are finitely many.
LEMMA DelFinite ==
  ASSUME marcas \in Seq(MarcajeRows), NEW o, NEW d
  PROVE  IsFiniteSet(Del(o, d)) /\ Cardinality(Del(o, d)) \in Nat
<1>1. IsFiniteSet(1..Len(marcas)) BY FS_Interval
<1>2. Del(o, d) \subseteq 1..Len(marcas) BY DEF Del
<1> QED BY <1>1, <1>2, FS_Subset, FS_CardinalityType

\* Now is a number, and so is every moment.
LEMMA AhoraNat ==
  ASSUME reloj \in [dia : Nat, hora : Nat]
  PROVE  Ahora \in Nat
<1>1. UltimaHora + 1 \in Nat /\ reloj.dia \in Nat /\ reloj.hora \in Nat BY AttendanceAssumption
<1>2. \A a, b \in Nat : a * b \in Nat OBVIOUS
<1> QED BY <1>1, <1>2 DEF Ahora

\* The moments that may be put in by hand are numbers.
LEMMA MomentosNat == Momentos \subseteq Nat
<1>1. UltimaHora + 1 \in Nat /\ UltimoDia \in Nat BY AttendanceAssumption
<1>2. \A a, b \in Nat : a * b \in Nat OBVIOUS
<1>3. \A d \in 1..UltimoDia, h \in 1..UltimaHora : d * (UltimaHora + 1) + h \in Nat BY <1>1, <1>2
<1> QED BY <1>3 DEF Momentos

\* The workers, their shifts and their marks after a step of Attendance.
LEMMA AttendanceType ==
  ASSUME TypeOK, AccessNext \/ MarksNext \/ ShiftsNext
  PROVE  TypeOK' /\ HilosMove({"idle"} \cup DayPcs \cup AccPcs)
<1> DEFINE P == {"idle"} \cup DayPcs \cup AccPcs
           Goal == TypeOK' /\ HilosMove(P)
<1> USE DEF dayRows, limitRows, authRows, authVars, OnlyHilo, OnlyAcceso, OnlyMarcas
<1>t. /\ \A t \in Hilos : hilo[t] \in ThreadRows /\ ThreadOK(hilo[t])
      /\ RowsOK /\ PeopleOK /\ HilosOK /\ dia \in Dias
  BY DEF TypeOK, HilosOK
<1>d. /\ reloj \in [dia : Nat, hora : Nat] /\ reloj.hora \in 1..UltimaHora
      /\ acceso \in [Objetos -> EmpleadoRows] /\ turnos \in [Turnos -> TurnoRows]
      /\ marcas \in Seq(MarcajeRows) /\ filas \in [Objetos -> FilaRows]
  BY <1>t DEF PeopleOK, AttendanceTypeOK, RowsOK, LimitsTypeOK
<1>o. \A o \in Objetos : o \in Nat BY LimitsAssumption
<1>a. ASSUME UNCHANGED <<dia, limitRows, authRows>>, AttendanceTypeOK', reloj'.hora \in 1..UltimaHora,
             HilosOK', NEW Q \in SUBSET P, HilosMove(Q)
      PROVE Goal
  BY <1>t, <1>a DEF TypeOK, RowsOK, LimitsTypeOK, PeopleOK, SessionsTypeOK, HilosMove
<1>b. ASSUME UNCHANGED <<dia, limitRows, authRows, hilo>>, AttendanceTypeOK', reloj'.hora \in 1..UltimaHora
      PROVE Goal
  BY <1>t, <1>b DEF TypeOK, RowsOK, LimitsTypeOK, PeopleOK, SessionsTypeOK, HilosOK, ThreadOK, HilosMove
<1>c. ASSUME NEW t \in Hilos, NEW op \in OpNames, NEW pc \in DayPcs \cup AccPcs, NEW o \in Objetos,
             NEW ver \in Nat, NEW otro \in Nat, Reads(t, pc, op, filas[o], o, ver, otro),
             ThreadOK([pc |-> pc, op |-> op, fila |-> filas[o], obj |-> o, ver |-> ver, otro |-> otro]),
             OnlyHilo
      PROVE Goal
  <2>1. filas[o] \in FilaRows /\ o \in Nat BY <1>d, <1>o
  <2>2. HilosOK' /\ HilosMove({pc}) BY <1>c, <1>t, <2>1, ThreadReads DEF Pcs
  <2>3. AttendanceTypeOK' /\ reloj'.hora \in 1..UltimaHora BY <1>c, <1>d DEF AttendanceTypeOK
  <2> QED BY <1>a, <1>c, <2>2, <2>3
<1>e. ASSUME NEW t \in Hilos, NEW old, Writes(t, Idle, old), AttendanceTypeOK', reloj'.hora \in 1..UltimaHora,
             UNCHANGED <<dia, limitRows, authRows>>
      PROVE Goal
  <2>1. HilosOK' /\ HilosMove({"idle"}) BY <1>e, <1>t, ThreadWritesIdle
  <2> QED BY <1>a, <1>e, <2>1
<1>1. ASSUME NEW o \in Objetos, GenerateAccessToken(o) \/ ResetDevice(o) PROVE Goal
  <2>1. acceso[o].enlace \in Nat BY <1>d DEF EmpleadoRows
  <2>2. \E n \in Nat : acceso' = [acceso EXCEPT ![o].enlace = n] \/ acceso' = [acceso EXCEPT ![o].equipo = Ninguno]
    <3>1. CASE ResetDevice(o) BY <3>1 DEF ResetDevice
    <3>2. CASE GenerateAccessToken(o)
      <4> DEFINE n == IF acceso[o].enlace = Ninguno THEN 1 ELSE acceso[o].enlace + 1
      <4>1. n \in Nat BY <2>1
      <4>2. acceso' = [acceso EXCEPT ![o].enlace = n] BY <3>2, <1>d DEF GenerateAccessToken
      <4> QED BY <4>1, <4>2
    <3> QED BY <1>1, <3>1, <3>2
  <2>3. acceso' \in [Objetos -> EmpleadoRows] BY <1>d, <2>2, EmpleadoRow
  <2>4. UNCHANGED <<dia, limitRows, authRows, hilo, reloj, turnos, marcas>>
    BY <1>1 DEF GenerateAccessToken, ResetDevice
  <2>5. AttendanceTypeOK' /\ reloj'.hora \in 1..UltimaHora BY <1>d, <2>3, <2>4 DEF AttendanceTypeOK
  <2> QED BY <1>b, <2>4, <2>5
<1>2. ASSUME NEW t \in Hilos, ConfirmActivation(t) \/ WriteDevice(t) PROVE Goal
  <2>1. hilo[t].obj \in Objetos BY <1>2, <1>t DEF ConfirmActivation, WriteDevice, ThreadOK, AccPcs
  <2>2. hilo[t].ver \in Nat /\ (hilo[t].pc = "equipo" => hilo[t].otro \in Equipos)
    BY <1>t DEF ThreadRows, ThreadOK
  <2>3. \/ acceso' = [acceso EXCEPT ![hilo[t].obj].pin = hilo[t].ver, ![hilo[t].obj].enlace = Ninguno]
        \/ hilo[t].pc = "equipo" /\ acceso' = [acceso EXCEPT ![hilo[t].obj].equipo = hilo[t].otro]
    BY <1>2 DEF ConfirmActivation, WriteDevice
  <2>4. acceso' \in [Objetos -> EmpleadoRows]
    <3>1. Ninguno \in Nat /\ (hilo[t].pc = "equipo" => hilo[t].otro \in Equipos \cup {Ninguno})
      BY <2>2 DEF Ninguno
    <3> QED BY <1>d, <2>1, <2>2, <2>3, <3>1, EmpleadoRow
  <2>5. AttendanceTypeOK' /\ reloj'.hora \in 1..UltimaHora /\ UNCHANGED <<dia, limitRows, authRows>>
    BY <1>2, <1>d, <2>4 DEF AttendanceTypeOK, ConfirmActivation, WriteDevice
  <2>6. PICK old : Writes(t, Idle, old) BY <1>2 DEF ConfirmActivation, WriteDevice
  <2> QED BY <1>e, <2>5, <2>6
<1>3. ASSUME NEW t \in Hilos, NEW o \in Objetos, FindByActivationToken(t, o) PROVE Goal
  <2>1. acceso[o].enlace \in Nat BY <1>d DEF EmpleadoRows
  <2>2. "activar" \in DayPcs \cup AccPcs /\ "confirmActivation" \in OpNames BY DEF AccPcs, OpNames
  <2>3. ThreadOK([pc |-> "activar", op |-> "confirmActivation", fila |-> filas[o], obj |-> o,
                  ver |-> acceso[o].enlace, otro |-> 0])
    BY DEF ThreadOK
  <2> QED BY <1>3, <1>c, <2>1, <2>2, <2>3 DEF FindByActivationToken
<1>4. ASSUME NEW t \in Hilos, NEW o \in Objetos, NEW e \in Equipos, RegisterDevice(t, o, e) PROVE Goal
  <2>1. acceso[o].equipo \in Equipos \cup {Ninguno} /\ acceso[o].equipo \in Nat /\ e \in Nat
    BY <1>d, AttendanceAssumption DEF EmpleadoRows, Ninguno
  <2>2. "equipo" \in DayPcs \cup AccPcs /\ "registerDevice" \in OpNames BY DEF AccPcs, OpNames
  <2>3. ThreadOK([pc |-> "equipo", op |-> "registerDevice", fila |-> filas[o], obj |-> o,
                  ver |-> acceso[o].equipo, otro |-> e])
    BY <2>1 DEF ThreadOK
  <2> QED BY <1>4, <1>c, <2>1, <2>2, <2>3 DEF RegisterDevice
<1>5. ASSUME Tick PROVE Goal
  <2>1. reloj' \in [dia : Nat, hora : Nat] /\ reloj'.hora \in 1..UltimaHora
    <3>1. UltimaHora \in Nat \ {0} BY AttendanceAssumption
    <3>2. \/ reloj.hora < UltimaHora /\ reloj' = [reloj EXCEPT !.hora = @ + 1]
          \/ reloj' = [dia |-> reloj.dia + 1, hora |-> 1]
      BY <1>5 DEF Tick
    <3> QED BY <1>d, <3>1, <3>2
  <2>2. AttendanceTypeOK' /\ UNCHANGED <<dia, limitRows, authRows, hilo>>
    BY <1>5, <1>d, <2>1 DEF Tick, AttendanceTypeOK
  <2> QED BY <1>b, <2>1, <2>2
<1>6. ASSUME NEW t \in Hilos, WriteScan(t) PROVE Goal
  <2>1. hilo[t].obj \in Objetos /\ hilo[t].pc \in {"entrada", "salida"}
    BY <1>6, <1>t DEF WriteScan, ThreadOK, DayPcs
  <2>2. [o |-> hilo[t].obj, tipo |-> hilo[t].pc, qr |-> TRUE, hora |-> Ahora] \in MarcajeRows
    BY <1>d, <2>1, AhoraNat DEF MarcajeRows
  <2>3. marcas' \in Seq(MarcajeRows) BY <1>6, <1>d, <2>2 DEF WriteScan
  <2>4. AttendanceTypeOK' /\ reloj'.hora \in 1..UltimaHora /\ UNCHANGED <<dia, limitRows, authRows>>
    BY <1>6, <1>d, <2>3 DEF AttendanceTypeOK, WriteScan
  <2>5. PICK old : Writes(t, Idle, old) BY <1>6 DEF WriteScan
  <2> QED BY <1>e, <2>4, <2>5
<1>7. ASSUME NEW t \in Hilos, WriteManual(t) PROVE Goal
  <2>1. hilo[t].obj \in Objetos /\ hilo[t].op \in {"entrada", "salida"} /\ hilo[t].ver \in Nat
    BY <1>7, <1>t DEF WriteManual, ThreadOK, DayPcs, ThreadRows
  <2>2. [o |-> hilo[t].obj, tipo |-> hilo[t].op, qr |-> FALSE, hora |-> hilo[t].ver] \in MarcajeRows
    BY <2>1 DEF MarcajeRows
  <2>3. marcas' \in Seq(MarcajeRows) BY <1>7, <1>d, <2>2 DEF WriteManual
  <2>4. AttendanceTypeOK' /\ reloj'.hora \in 1..UltimaHora /\ UNCHANGED <<dia, limitRows, authRows>>
    BY <1>7, <1>d, <2>3 DEF AttendanceTypeOK, WriteManual
  <2>5. Ends(t) BY <1>7 DEF WriteManual, Ends
  <2>6. HilosOK' /\ HilosMove({"idle"}) BY <1>t, <2>4, <2>5, ThreadEnds
  <2> QED BY <1>a, <2>4, <2>6
<1>8. ASSUME NEW t \in Hilos, NEW o \in Objetos, NEW q \in Objetos, NEW e \in Equipos, Scan(t, o, q, e) PROVE Goal
  <2>1. Tipo(o, reloj.dia) \in {"entrada", "salida"} BY <1>8 DEF Scan, Tipo, TipoIf
  <2>2. reloj.dia \in Nat /\ Cardinality(Del(o, reloj.dia)) \in Nat BY <1>d, DelFinite
  <2>3. Tipo(o, reloj.dia) \in DayPcs \cup AccPcs /\ "scan" \in OpNames BY <2>1 DEF DayPcs, OpNames
  <2>4. ThreadOK([pc |-> Tipo(o, reloj.dia), op |-> "scan", fila |-> filas[o], obj |-> o, ver |-> reloj.dia,
                  otro |-> Cardinality(Del(o, reloj.dia))])
    BY <2>1 DEF ThreadOK
  <2> QED BY <1>8, <1>c, <2>2, <2>3, <2>4 DEF Scan
<1>9. ASSUME NEW t \in Hilos, NEW o \in Objetos, NEW tipo \in {"entrada", "salida"}, NEW h \in Momentos,
             CreateManual(t, o, tipo, h)
      PROVE Goal
  <2>1. h \in Nat /\ Cardinality(Del(o, DiaDe(h))) \in Nat BY <1>d, DelFinite, MomentosNat
  <2>2. "manual" \in DayPcs \cup AccPcs /\ tipo \in OpNames BY DEF DayPcs, OpNames
  <2>3. ThreadOK([pc |-> "manual", op |-> tipo, fila |-> filas[o], obj |-> o, ver |-> h,
                  otro |-> Cardinality(Del(o, DiaDe(h)))])
    BY DEF ThreadOK
  <2> QED BY <1>9, <1>c, <2>1, <2>2, <2>3 DEF CreateManual
<1>10. ASSUME ShiftsNext PROVE Goal
  <2>1. UNCHANGED <<dia, limitRows, authRows, hilo, reloj, marcas>>
    BY <1>10 DEF ShiftsNext, UpdateShift, AssignEmployees
  <2>2. turnos' \in [Turnos -> TurnoRows]
    <3>1. ASSUME NEW s \in Turnos, NEW a \in BOOLEAN, NEW h \in 1..UltimaHora, NEW l \in {{1}, 1..UltimoDia},
                 UpdateShift(s, a, h, l)
          PROVE turnos' \in [Turnos -> TurnoRows]
      <4>1. h \in Nat /\ UltimoDia \in Nat BY AttendanceAssumption
      <4>2. UltimoDia > 0 BY SMTT(20), AttendanceAssumption
      <4>3. l \in SUBSET (1..UltimoDia) BY <4>1, <4>2
      <4>4. [activo |-> a, entrada |-> h, labora |-> l] \in TurnoRows BY <4>1, <4>3 DEF TurnoRows
      <4> QED BY <3>1, <4>4, <1>d DEF UpdateShift
    <3> QED BY <1>10, <1>d, <3>1 DEF ShiftsNext, AssignEmployees
  <2>3. acceso' \in [Objetos -> EmpleadoRows]
    <3>1. ASSUME NEW s \in Turnos, NEW os \in SUBSET Objetos, AssignEmployees(s, os)
          PROVE acceso' \in [Objetos -> EmpleadoRows]
      <4>1. \A o \in Objetos, n \in Turnos \cup {Ninguno} : [acceso[o] EXCEPT !.turno = n] \in EmpleadoRows
        BY <1>d DEF EmpleadoRows
      <4>2. \A o \in Objetos : acceso[o].turno \in Turnos \cup {Ninguno} BY <1>d DEF EmpleadoRows
      <4>3. \A o \in Objetos : \E n \in Turnos \cup {Ninguno} : acceso'[o] = [acceso[o] EXCEPT !.turno = n]
        BY <3>1, <4>2 DEF AssignEmployees
      <4>4. acceso' = [o \in Objetos |-> acceso'[o]] BY <3>1 DEF AssignEmployees
      <4> QED BY <4>1, <4>3, <4>4
    <3> QED BY <1>10, <1>d, <3>1 DEF ShiftsNext, UpdateShift
  <2>4. AttendanceTypeOK' /\ reloj'.hora \in 1..UltimaHora
    BY <1>d, <2>1, <2>2, <2>3 DEF AttendanceTypeOK
  <2> QED BY <1>b, <2>1, <2>4
<1> QED BY <1>1, <1>2, <1>3, <1>4, <1>5, <1>6, <1>7, <1>8, <1>9, <1>10 DEF AccessNext, MarksNext

----------------------------------------
(* What a user may open.                                                   *)

UserPcs == {"crea", "edita", "creando", "editando"}
TramitePcs == {"libre", "activo", "inactivo", "asistencias"} \cup UserPcs \cup Tarifas
TramiteRows ==
  [pc : TramitePcs, por : [sucursal : Sucursales, ve : Visibilidades], o : Nat,
   sabe : SUBSET (Modulos \cup Administradores), claves : SUBSET (Modulos \cup Administradores),
   ver : Nat]

\* What a request of the users' or of the administrators' screen has in hand.
TramiteOK(h) ==
  /\ h.pc \in UserPcs => h.o \in Objetos /\ h.claves \subseteq Modulos /\ h.sabe \subseteq Modulos
  /\ h.pc \in {"activo", "inactivo"} =>
       \E by, a \in Administradores : /\ h.sabe = {by} /\ h.claves = {a}
                                      /\ h.pc = "inactivo" => by # a

AccessOK ==
  /\ AccessTypeOK
  /\ catalogo \in [Tarifas \cup {"asistencias"} -> Nat]
  /\ tramite \in [Hilos -> TramiteRows] /\ \A t \in Hilos : TramiteOK(tramite[t])

\* No request is a row of the type, and asks nothing.
LEMMA NadaOK == Nada \in TramiteRows /\ TramiteOK(Nada) /\ Nada.pc = "libre"
<1>1. Nada \in TramiteRows BY DEF Nada, TramiteRows, TramitePcs, Sucursales, Visibilidades
<1>2. Nada.pc = "libre" BY DEF Nada
<1>3. TramiteOK(Nada) BY <1>2 DEF TramiteOK, UserPcs
<1> QED BY <1>1, <1>2, <1>3

\* One request goes on; the others stay as they were.
LEMMA TramiteTo ==
  ASSUME AccessOK, NEW t \in Hilos, NEW x \in TramiteRows, TramiteOK(x),
         tramite' = [tramite EXCEPT ![t] = x]
  PROVE  tramite' \in [Hilos -> TramiteRows] /\ \A u \in Hilos : TramiteOK(tramite'[u])
<1>1. tramite' \in [Hilos -> TramiteRows] BY DEF AccessOK
<1>2. \A u \in Hilos : tramite'[u] = x \/ tramite'[u] = tramite[u] BY DEF AccessOK
<1> QED BY <1>1, <1>2 DEF AccessOK

\* What the company may open is modules.
LEMMA AvailableModulos == ASSUME plan \subseteq Modulos PROVE Available \subseteq Modulos
  BY DEF Available, Base

\* The users and what they were given after a step of the users' screen.
LEMMA UsersType ==
  ASSUME TypeOK, AccessOK, UsersNext
  PROVE  TypeOK' /\ AccessOK' /\ UNCHANGED <<hilo, people, dia>>
<1> DEFINE Goal == TypeOK' /\ AccessOK' /\ UNCHANGED <<hilo, people, dia>>
<1> USE DEF accessRows, OnlyUsers, people
<1>t. /\ filas \in [Objetos -> FilaRows] /\ ficha \in [Objetos -> UsuarioRows] /\ plan \subseteq Modulos
      /\ ajustes \in EmpresaModuloRows /\ catalogo \in [Tarifas \cup {"asistencias"} -> Nat]
      /\ admins \subseteq Administradores /\ cruce \in BOOLEAN
      /\ tramite \in [Hilos -> TramiteRows] /\ \A t \in Hilos : TramiteOK(tramite[t])
  BY DEF TypeOK, RowsOK, LimitsTypeOK, AccessOK, AccessTypeOK, PlanModuloRows
<1>a. ASSUME filas' \in [Objetos -> FilaRows], UNCHANGED <<dia, limite, vigente, servicio, mes, hilo, people>>
      PROVE TypeOK'
  BY <1>a DEF TypeOK, RowsOK, LimitsTypeOK, PeopleOK, SessionsTypeOK, AttendanceTypeOK, HilosOK, ThreadOK,
     authVars, authRows, dayRows
<1>b. ASSUME tramite' \in [Hilos -> TramiteRows], \A t \in Hilos : TramiteOK(tramite'[t]),
             ficha' \in [Objetos -> UsuarioRows], UNCHANGED <<plan, ajustes, catalogo, admins, cruce>>
      PROVE AccessOK'
  BY <1>t, <1>b DEF AccessOK, AccessTypeOK, PlanModuloRows
<1>c. ASSUME NEW t \in Hilos, NEW pc \in UserPcs, NEW scope \in [sucursal : Sucursales, ve : Visibilidades],
             NEW o \in Objetos, NEW claves \in SUBSET Modulos, Begins(t, pc, scope, o, claves)
      PROVE Goal
  <2> DEFINE x == [Nada EXCEPT !.pc = pc, !.por = scope, !.o = o, !.claves = claves]
  <2>1. o \in Nat /\ pc \in TramitePcs /\ claves \in SUBSET (Modulos \cup Administradores) /\ Nada.sabe = {}
    BY LimitsAssumption DEF TramitePcs, Nada
  <2>2. [Nada EXCEPT !.pc = pc, !.por = scope] \in TramiteRows /\ [Nada EXCEPT !.pc = pc, !.por = scope].sabe = {}
    BY <2>1, NadaOK DEF TramiteRows
  <2>3. /\ x \in TramiteRows
        /\ x.pc = pc /\ x.o = o /\ x.claves = claves /\ x.sabe = {}
    BY <2>1, <2>2 DEF TramiteRows
  <2>4. TramiteOK(x) BY <2>3 DEF TramiteOK, UserPcs
  <2>5. tramite' = [tramite EXCEPT ![t] = x] BY <1>c DEF Begins
  <2>6. tramite' \in [Hilos -> TramiteRows] /\ \A u \in Hilos : TramiteOK(tramite'[u])
    BY <2>3, <2>4, <2>5, TramiteTo
  <2> QED BY <1>c, <1>a, <1>b, <1>t, <2>6 DEF Begins
<1>d. ASSUME NEW t \in Hilos, tramite' = [tramite EXCEPT ![t] = Nada]
      PROVE tramite' \in [Hilos -> TramiteRows] /\ \A u \in Hilos : TramiteOK(tramite'[u])
  BY <1>d, NadaOK, TramiteTo
<1>s. \A q \in Objetos \cup {Dueno} : CommercialScope(q) \in [sucursal : Sucursales, ve : Visibilidades]
  BY <1>t DEF CommercialScope, UsuarioRows, Sucursales, Visibilidades
<1>1. ASSUME NEW t \in Hilos, NEW q \in Objetos \cup {Dueno}, NEW o \in Objetos, BeginCreate(t, q, o) PROVE Goal
  BY <1>1, <1>c, <1>s DEF BeginCreate, UserPcs
<1>2. ASSUME NEW t \in Hilos, NEW q \in Objetos \cup {Dueno}, NEW o \in Objetos, FindCompanyUser(t, q, o) PROVE Goal
  <2>1. ficha[o].claves \in SUBSET Modulos BY <1>t DEF UsuarioRows
  <2> QED BY <1>2, <1>c, <1>s, <2>1 DEF FindCompanyUser, UserPcs
<1>3. ASSUME NEW t \in Hilos, AssertModulesIncluded(t) PROVE Goal
  <2>1. tramite[t].pc \in {"crea", "edita"} BY <1>3 DEF AssertModulesIncluded, Checked
  <2>2. CASE tramite' = [tramite EXCEPT ![t] = Nada]
    BY <1>3, <1>a, <1>b, <1>d, <1>t, <2>2 DEF AssertModulesIncluded
  <2>3. CASE tramite' = [tramite EXCEPT ![t].pc = Checked[@], ![t].sabe = Available]
    <3> DEFINE x == [tramite[t] EXCEPT !.pc = Checked[tramite[t].pc], !.sabe = Available]
    <3>1. tramite' = [tramite EXCEPT ![t] = x] BY <2>3, <1>t DEF TramiteRows
    <3>2. Checked[tramite[t].pc] \in {"creando", "editando"} BY <2>1 DEF Checked
    <3>3. Available \in SUBSET Modulos BY <1>t, AvailableModulos
    <3>4. x \in TramiteRows BY <1>t, <3>2, <3>3 DEF TramiteRows, TramitePcs, UserPcs
    <3>5. TramiteOK(x)
      <4>1. TramiteOK(tramite[t]) /\ tramite[t].pc \in UserPcs BY <1>t, <2>1 DEF UserPcs
      <4>2. /\ x.pc = Checked[tramite[t].pc] /\ x.sabe = Available
            /\ x.o = tramite[t].o /\ x.claves = tramite[t].claves
        BY <1>t DEF TramiteRows
      <4> QED BY <3>2, <3>3, <4>1, <4>2 DEF TramiteOK
    <3>6. tramite' \in [Hilos -> TramiteRows] /\ \A u \in Hilos : TramiteOK(tramite'[u])
      BY <3>1, <3>4, <3>5, TramiteTo
    <3> QED BY <1>3, <1>a, <1>b, <1>t, <3>6 DEF AssertModulesIncluded
  <2> QED BY <1>3, <2>2, <2>3 DEF AssertModulesIncluded
<1>4. ASSUME NEW t \in Hilos, UserRefused(t) PROVE Goal
  BY <1>4, <1>a, <1>b, <1>d, <1>t DEF UserRefused
<1>5. ASSUME NEW t \in Hilos, NEW s \in Sucursales, NEW v \in Visibilidades, NEW keys \in SUBSET Modulos,
             WriteNewUser(t, keys, s, v) \/ WriteUser(t, keys, s, v)
      PROVE Goal
  <2>1. tramite[t].o \in Objetos /\ tramite[t].claves \subseteq Modulos
    BY <1>5, <1>t DEF WriteNewUser, WriteUser, Writes2, TramiteOK, UserPcs
  <2>2. [claves |-> StoredKeys(t, keys), sucursal |-> s, ve |-> v] \in UsuarioRows
    BY <2>1 DEF StoredKeys, UsuarioRows
  <2>3. ficha' \in [Objetos -> UsuarioRows] BY <1>5, <1>t, <2>2 DEF WriteNewUser, WriteUser, Writes2
  <2>4. filas' \in [Objetos -> FilaRows]
    BY <1>5, <1>t DEF WriteNewUser, WriteUser, Fila, FilaRows, Clases, Tipos
  <2>5. /\ tramite' = [tramite EXCEPT ![t] = Nada]
        /\ UNCHANGED <<dia, limite, vigente, servicio, mes, hilo, people, plan, ajustes, catalogo, admins, cruce>>
    BY <1>5 DEF WriteNewUser, WriteUser, Writes2
  <2> QED BY <1>a, <1>b, <1>d, <2>3, <2>4, <2>5
<1>6. ASSUME NEW q \in Objetos \cup {Dueno}, NEW o \in Objetos, Remove(q, o) PROVE Goal
  <2>1. filas' \in [Objetos -> FilaRows] BY <1>6, <1>t DEF Remove, RemoveUser, RemoveRow, FilaRows
  <2> QED BY <1>6, <1>a, <1>b, <1>t, <2>1 DEF Remove, RemoveUser, RemoveRow
<1>7. DeAlmacen \subseteq Modulos /\ {"usuarios"} \subseteq Modulos /\ {"usuarios", "marcajes"} \subseteq Modulos
  BY DEF DeAlmacen, Modulos
<1> QED BY <1>1, <1>2, <1>3, <1>4, <1>5, <1>6, <1>7 DEF UsersNext

\* A step of the platform: what it changes is typed, and nothing of the company's day changes.
LEMMA PlatformType ==
  ASSUME TypeOK, AccessOK, PlatformNext
  PROVE  TypeOK' /\ AccessOK' /\ UNCHANGED <<hilo, people, dia>>
<1> DEFINE Goal == TypeOK' /\ AccessOK' /\ UNCHANGED <<hilo, people, dia>>
<1> USE DEF OnlyPlatform, limitVars, limitRows
<1>t. /\ ficha \in [Objetos -> UsuarioRows] /\ plan \subseteq Modulos
      /\ ajustes \in EmpresaModuloRows /\ catalogo \in [Tarifas \cup {"asistencias"} -> Nat]
      /\ admins \subseteq Administradores /\ cruce \in BOOLEAN
      /\ tramite \in [Hilos -> TramiteRows] /\ \A t \in Hilos : TramiteOK(tramite[t])
  BY DEF AccessOK, AccessTypeOK, PlanModuloRows
<1>a. ASSUME OnlyPlatform, plan' \subseteq Modulos, ajustes' \in EmpresaModuloRows,
             catalogo' \in [Tarifas \cup {"asistencias"} -> Nat], UNCHANGED <<admins, cruce>>,
             tramite' \in [Hilos -> TramiteRows], \A t \in Hilos : TramiteOK(tramite'[t])
      PROVE Goal
  BY <1>a, <1>t DEF TypeOK, RowsOK, LimitsTypeOK, PeopleOK, SessionsTypeOK, AttendanceTypeOK, HilosOK, ThreadOK,
     people, authVars, authRows, dayRows, AccessOK, AccessTypeOK, PlanModuloRows
<1>d. ASSUME NEW t \in Hilos, tramite' = [tramite EXCEPT ![t] = Nada]
      PROVE tramite' \in [Hilos -> TramiteRows] /\ \A u \in Hilos : TramiteOK(tramite'[u])
  BY <1>d, NadaOK, TramiteTo
<1>1. ASSUME NEW S \in SUBSET Modulos, UpdateCompanyModules(S) PROVE Goal
  <2>1. ajustes' \in EmpresaModuloRows
    BY <1>1 DEF UpdateCompanyModules, Overrides, EmpresaModuloRows
  <2> QED BY <1>1, <1>a, <1>t, <2>1 DEF UpdateCompanyModules
<1>2. ASSUME NEW t \in Hilos, NEW r \in DOMAIN catalogo, ReadCatalog(t, r) PROVE Goal
  <2> DEFINE x == [Nada EXCEPT !.pc = r, !.ver = catalogo[r]]
  <2>1. r \in Tarifas \cup {"asistencias"} /\ catalogo[r] \in Nat BY <1>t
  <2>2. r \in TramitePcs /\ r \notin UserPcs /\ r \notin {"activo", "inactivo"}
    BY <2>1 DEF TramitePcs, Tarifas, UserPcs
  <2>3. x \in TramiteRows /\ x.pc = r BY <2>1, <2>2, NadaOK DEF TramiteRows
  <2>4. TramiteOK(x) BY <2>2, <2>3 DEF TramiteOK
  <2>5. tramite' = [tramite EXCEPT ![t] = x] BY <1>2, <1>t DEF ReadCatalog
  <2>6. tramite' \in [Hilos -> TramiteRows] /\ \A u \in Hilos : TramiteOK(tramite'[u])
    BY <2>3, <2>4, <2>5, TramiteTo
  <2> QED BY <1>2, <1>a, <1>t, <2>6 DEF ReadCatalog
<1>3. ASSUME NEW t \in Hilos, NEW r \in Tarifas \cup {"asistencias"}, SaveOver(t, r), plan' \subseteq Modulos PROVE Goal
  <2>1. catalogo' \in [Tarifas \cup {"asistencias"} -> Nat] BY <1>3, <1>t DEF SaveOver
  <2> QED BY <1>3, <1>a, <1>d, <1>t, <2>1 DEF SaveOver
<1>4. ASSUME NEW t \in Hilos, SaveRefused(t) PROVE Goal BY <1>4, <1>a, <1>d, <1>t DEF SaveRefused
<1>5. ASSUME NEW t \in Hilos,
             \/ UpdatePricing(t) \/ UpdateLimitRows(t) \/ UpdateOveragePricing(t)
             \/ UpdateTrial(t) \/ UpdateAttendancePricing(t) \/ \E S \in SUBSET Modulos : UpdateModules(t, S)
      PROVE Goal
  BY <1>5, <1>3, <1>t DEF UpdatePricing, UpdateLimitRows, UpdateOveragePricing, UpdateTrial,
     UpdateAttendancePricing, UpdateModules, Save, Tarifas
<1> QED BY <1>1, <1>2, <1>4, <1>5 DEF PlatformNext

\* The same for a step of its administrators.
LEMMA AdminsType ==
  ASSUME TypeOK, AccessOK, AdminsNext
  PROVE  TypeOK' /\ AccessOK' /\ UNCHANGED <<hilo, people, dia>>
<1> DEFINE Goal == TypeOK' /\ AccessOK' /\ UNCHANGED <<hilo, people, dia>>
<1> USE DEF OnlyPlatform, limitVars, limitRows
<1>t. /\ ficha \in [Objetos -> UsuarioRows] /\ plan \subseteq Modulos
      /\ ajustes \in EmpresaModuloRows /\ catalogo \in [Tarifas \cup {"asistencias"} -> Nat]
      /\ admins \subseteq Administradores /\ cruce \in BOOLEAN
      /\ tramite \in [Hilos -> TramiteRows] /\ \A t \in Hilos : TramiteOK(tramite[t])
  BY DEF AccessOK, AccessTypeOK, PlanModuloRows
<1>a. ASSUME OnlyPlatform, admins' \subseteq Administradores, cruce' \in BOOLEAN, UNCHANGED <<plan, ajustes, catalogo>>,
             tramite' \in [Hilos -> TramiteRows], \A t \in Hilos : TramiteOK(tramite'[t])
      PROVE Goal
  BY <1>a, <1>t DEF TypeOK, RowsOK, LimitsTypeOK, PeopleOK, SessionsTypeOK, AttendanceTypeOK, HilosOK, ThreadOK,
     people, authVars, authRows, dayRows, AccessOK, AccessTypeOK, PlanModuloRows
<1>1. ASSUME NEW a \in Administradores, CreateAdmin(a) PROVE Goal
  BY <1>1, <1>a, <1>t DEF CreateAdmin
<1>2. ASSUME NEW t \in Hilos, UpdateAdminStatus(t) PROVE Goal
  <2>1. tramite' \in [Hilos -> TramiteRows] /\ \A u \in Hilos : TramiteOK(tramite'[u])
    BY <1>2, NadaOK, TramiteTo DEF UpdateAdminStatus
  <2>2. tramite[t].claves \subseteq Administradores BY <1>2, <1>t DEF UpdateAdminStatus, TramiteOK
  <2>3. admins' \subseteq Administradores /\ cruce' \in BOOLEAN
    BY <1>2, <1>t, <2>2 DEF UpdateAdminStatus
  <2> QED BY <1>2, <1>a, <2>1, <2>3 DEF UpdateAdminStatus
<1>3. ASSUME NEW t \in Hilos, NEW by \in Administradores, NEW a \in Administradores, NEW e \in Estados,
             BeginStatus(t, by, a, e)
      PROVE Goal
  <2> DEFINE x == [Nada EXCEPT !.pc = e, !.sabe = {by}, !.claves = {a}]
  <2>1. e \in TramitePcs /\ e \in {"activo", "inactivo"} BY DEF Estados, TramitePcs
  <2>2. x \in TramiteRows /\ x.pc = e /\ x.sabe = {by} /\ x.claves = {a}
    BY <2>1, NadaOK DEF TramiteRows
  <2>3. TramiteOK(x) BY <1>3, <2>1, <2>2 DEF TramiteOK, UserPcs, BeginStatus, NotItself
  <2>4. tramite' = [tramite EXCEPT ![t] = x] BY <1>3, <1>t DEF BeginStatus
  <2>5. tramite' \in [Hilos -> TramiteRows] /\ \A u \in Hilos : TramiteOK(tramite'[u])
    BY <2>2, <2>3, <2>4, TramiteTo
  <2> QED BY <1>3, <1>a, <1>t, <2>5 DEF BeginStatus
<1> QED BY <1>1, <1>2, <1>3 DEF AdminsNext

\* At the start every row is typed and no request is served.
LEMMA CompanyInitType == CompanyInit => TypeOK /\ AccessOK
<1> SUFFICES ASSUME CompanyInit PROVE TypeOK /\ AccessOK OBVIOUS
<1>1. dia \in Dias /\ RowsOK
  <2>1. dia \in DiaType BY LimitsAssumption DEF CompanyInit, Init, LimitsInit
  <2>2. QED
    BY <2>1, LimitsAssumption DEF CompanyInit, Init, LimitsInit, RowsOK, LimitsTypeOK, DiaType, Fila, FilaRows, Tipos,
       PlanLimiteRows, UsoMensualRows, Suscripcion, ServicioAdicional
<1>2. SessionsTypeOK
  BY DEF CompanyInit, Init, SessionsInit, SessionsTypeOK, RegistroPendienteRows, CuentaRows
<1>3. AttendanceTypeOK /\ reloj.hora \in 1..UltimaHora
  <2>1. UltimaHora \in Nat \ {0} /\ UltimoDia \in Nat \ {0} BY AttendanceAssumption
  <2>2. reloj = [dia |-> 1, hora |-> 1] /\ marcas = <<>> BY DEF CompanyInit, Init, AttendanceInit
  <2>3. turnos \in [Turnos -> TurnoRows]
    <3>1. [activo |-> TRUE, entrada |-> 1, labora |-> 1..UltimoDia] \in TurnoRows
      BY <2>1 DEF TurnoRows
    <3> QED BY <3>1 DEF CompanyInit, Init, AttendanceInit
  <2>4. acceso \in [Objetos -> EmpleadoRows]
    <3>1. Libre \in EmpleadoRows BY DEF Libre, EmpleadoRows, Ninguno
    <3>2. [Libre EXCEPT !.pin = 1, !.equipo = CHOOSE e \in Equipos : TRUE] \in EmpleadoRows
      <4>1. (CHOOSE e \in Equipos : TRUE) \in Equipos BY AttendanceAssumption
      <4> QED BY <3>1, <4>1 DEF EmpleadoRows
    <3> QED BY <3>1, <3>2 DEF CompanyInit, Init, AttendanceInit
  <2> QED BY <2>1, <2>2, <2>3, <2>4 DEF AttendanceTypeOK
<1>4. HilosOK BY IdleOK DEF CompanyInit, Init, LimitsInit, HilosOK
<1>5. AccessOK
  <2>1. plan = Modulos /\ ficha \in [Objetos -> UsuarioRows] /\ ajustes \in EmpresaModuloRows
    BY DEF CompanyInit, AccessInit, UsuarioRows, Sucursales, Visibilidades, RegistrationOverrides, EmpresaModuloRows
  <2>2. tramite \in [Hilos -> TramiteRows] /\ \A t \in Hilos : TramiteOK(tramite[t])
    BY NadaOK DEF CompanyInit, AccessInit
  <2>3. catalogo \in [Tarifas \cup {"asistencias"} -> Nat] /\ admins \subseteq Administradores /\ cruce \in BOOLEAN
    BY DEF CompanyInit, AccessInit
  <2> QED BY <2>1, <2>2, <2>3 DEF AccessOK, AccessTypeOK, PlanModuloRows
<1> QED BY <1>1, <1>2, <1>3, <1>4, <1>5 DEF TypeOK, PeopleOK

\* Where the requests of each part of the system may go.
LEMMA CompanyType ==
  ASSUME TypeOK, AccessOK, [CompanyNext]_companyVars
  PROVE  TypeOK' /\ AccessOK'
<1> USE DEF companyVars, vars, limitVars, accessVars, accessRows
<1>a. ASSUME UNCHANGED accessVars PROVE AccessOK' BY <1>a DEF AccessOK, AccessTypeOK
<1>b. ASSUME AttendanceTurns, UNCHANGED people PROVE TypeOK'
  BY <1>b DEF AttendanceTurns, people, TypeOK, RowsOK, LimitsTypeOK, PeopleOK, SessionsTypeOK, AttendanceTypeOK,
     HilosOK, ThreadOK, authVars, authRows, dayRows, ServicioAdicional
<1>1. CASE Next /\ UNCHANGED accessVars
  BY <1>1, <1>a, <1>b, LimitsType, SessionsType, AttendanceType, RowsType DEF Next, AttendanceNext, people
<1>2. CASE AccessNext2 BY <1>2, <1>a, <1>b, UsersType, PlatformType, AdminsType DEF AccessNext2
<1>3. CASE UNCHANGED companyVars
  BY <1>3 DEF AccessOK, AccessTypeOK, TypeOK, RowsOK, LimitsTypeOK, PeopleOK, SessionsTypeOK, AttendanceTypeOK,
     HilosOK, ThreadOK, authVars, authRows, dayRows, limitRows
<1> QED BY <1>1, <1>2, <1>3 DEF CompanyNext

\* Every row of the company, its account, its workers, its users and its administrators, and
\* everything the requests have in hand, is of its type, whatever is served at a time.
THEOREM CompanyTypes ==
  CompanySpec => [](LimitsTypeOK /\ SessionsTypeOK /\ AttendanceTypeOK /\ AccessTypeOK)
<1>1. TypeOK /\ AccessOK => LimitsTypeOK /\ SessionsTypeOK /\ AttendanceTypeOK /\ AccessTypeOK
  BY DEF TypeOK, RowsOK, PeopleOK, AccessOK
<1> QED BY <1>1, CompanyInitType, CompanyType, PTL DEF CompanySpec

\* The users' screen writes nothing of the platform's.
LEMMA UsersKeep == UsersNext => UNCHANGED <<plan, ajustes, catalogo, admins, pedido, cruce>>
<1> USE DEF accessRows, OnlyUsers
<1>1. ASSUME NEW t \in Hilos, AssertModulesIncluded(t) \/ UserRefused(t)
      PROVE UNCHANGED <<plan, ajustes, catalogo, admins, pedido, cruce>>
  BY <1>1 DEF AssertModulesIncluded, UserRefused
<1>2. ASSUME NEW t \in Hilos, NEW q, NEW o, BeginCreate(t, q, o) \/ FindCompanyUser(t, q, o)
      PROVE UNCHANGED <<plan, ajustes, catalogo, admins, pedido, cruce>>
  BY <1>2 DEF BeginCreate, FindCompanyUser, Begins
<1>3. ASSUME NEW t \in Hilos, NEW keys, NEW s, NEW v, WriteNewUser(t, keys, s, v) \/ WriteUser(t, keys, s, v)
      PROVE UNCHANGED <<plan, ajustes, catalogo, admins, pedido, cruce>>
  BY <1>3 DEF WriteNewUser, WriteUser, Writes2
<1>4. ASSUME NEW q, NEW o, Remove(q, o)
      PROVE UNCHANGED <<plan, ajustes, catalogo, admins, pedido, cruce>>
  BY <1>4 DEF Remove
<1> QED BY <1>1, <1>2, <1>3, <1>4 DEF UsersNext

\* The administrators change by nobody but the administrators' screen, where whoever switches
\* one off is another.
LEMMA AdminStays ==
  ASSUME AccessOK, AdminRemains, [CompanyNext]_companyVars
  PROVE  AdminRemains'
<1> USE DEF AdminRemains, accessVars, accessRows
<1>1. ASSUME UNCHANGED <<admins, cruce>> PROVE AdminRemains' BY <1>1
<1>2. ASSUME UsersNext PROVE UNCHANGED <<admins, cruce>> BY <1>2, UsersKeep
<1>3. ASSUME PlatformNext PROVE UNCHANGED <<admins, cruce>>
  BY <1>3 DEF PlatformNext, UpdateCompanyModules, ReadCatalog, UpdatePricing, UpdateLimitRows, UpdateOveragePricing,
     UpdateTrial, UpdateAttendancePricing, SaveRefused, UpdateModules, Save, SaveOver
<1>4. ASSUME AdminsNext PROVE AdminRemains'
  <2>1. ASSUME NEW a \in Administradores, CreateAdmin(a) PROVE AdminRemains' BY <2>1 DEF CreateAdmin
  <2>2. ASSUME NEW t \in Hilos, UpdateAdminStatus(t) PROVE AdminRemains'
    <3>1. PICK by, a \in Administradores : /\ tramite[t].sabe = {by} /\ tramite[t].claves = {a}
                                           /\ tramite[t].pc = "inactivo" => by # a
      BY <2>2 DEF UpdateAdminStatus, AccessOK, TramiteOK
    <3>2. CASE tramite[t].pc = "activo" BY <2>2, <3>1, <3>2 DEF UpdateAdminStatus
    <3>3. CASE tramite[t].pc = "inactivo"
      <4>1. by \in admins \/ cruce' BY <2>2, <3>1 DEF UpdateAdminStatus
      <4>2. by \in admins => by \in admins' BY <2>2, <3>1, <3>3 DEF UpdateAdminStatus
      <4> QED BY <4>1, <4>2
    <3> QED BY <2>2, <3>2, <3>3 DEF UpdateAdminStatus
  <2>3. ASSUME NEW t \in Hilos, NEW by \in Administradores, NEW a \in Administradores, NEW e \in Estados,
               BeginStatus(t, by, a, e)
        PROVE AdminRemains'
    BY <2>3 DEF BeginStatus
  <2> QED BY <1>4, <2>1, <2>2, <2>3 DEF AdminsNext
<1> QED BY <1>1, <1>2, <1>3, <1>4 DEF CompanyNext, AccessNext2, companyVars

\* The platform keeps an administrator (platform-admin.service.ts, updateAdminStatus refuses only
\* one who switches itself off): the last two may switch each other off, and then one of them
\* acted after it was switched off itself; nothing else leaves the platform without one.
THEOREM SomeAdminRemains == CompanySpec => []AdminRemains
<1>1. CompanyInit => AdminRemains BY AccessAssumption DEF CompanyInit, AccessInit, AdminRemains
<1> QED BY <1>1, CompanyInitType, CompanyType, AdminStays, PTL DEF CompanySpec

----------------------------------------
(* The modules that were asked for.                                        *)

\* What is switched on and off is the difference between what was last asked for and the plan
\* it was asked over.
BaseOf(p) == p.plan \ (IF p.servicio THEN {} ELSE DeAsistencias)
AskedOK ==
  /\ pedido.modulos \subseteq Modulos
  /\ ajustes = [m \in Modulos |-> IF (m \in pedido.modulos) = (m \in BaseOf(pedido)) THEN "plan"
                                  ELSE IF m \in pedido.modulos THEN "si" ELSE "no"]

\* Over the plan it was asked for, the difference gives back what was asked.
LEMMA AskedIsOpen == AccessOK /\ AskedOK => AsAsked
<1> SUFFICES ASSUME AccessOK, AskedOK, pedido.plan = plan, pedido.servicio = servicio
             PROVE  Available = pedido.modulos \ (IF servicio THEN {} ELSE DeAsistencias)
  BY DEF AsAsked
<1>1. BaseOf(pedido) = Base /\ Base \subseteq Modulos
  BY DEF BaseOf, Base, AccessOK, AccessTypeOK, PlanModuloRows
<1>2. ASSUME NEW m \in Modulos
      PROVE  m \in (Base \cup {n \in Modulos : ajustes[n] = "si"}) \ {n \in Modulos : ajustes[n] = "no"}
             <=> m \in pedido.modulos
  <2>1. ajustes[m] = IF (m \in pedido.modulos) = (m \in Base) THEN "plan"
                     ELSE IF m \in pedido.modulos THEN "si" ELSE "no"
    BY <1>1 DEF AskedOK
  <2> QED BY <2>1
<1>3. (Base \cup {n \in Modulos : ajustes[n] = "si"}) \ {n \in Modulos : ajustes[n] = "no"} = pedido.modulos
  BY <1>1, <1>2 DEF AskedOK
<1> QED BY <1>3 DEF Available

\* A company begins with the modules of what it registered for.
LEMMA AskedInit == CompanyInit => AskedOK
<1> SUFFICES ASSUME CompanyInit PROVE AskedOK OBVIOUS
<1>1. /\ plan = Modulos /\ servicio = TRUE
      /\ pedido = [modulos |-> Available, plan |-> plan, servicio |-> servicio]
  BY DEF CompanyInit, Init, LimitsInit, AccessInit
<1>2. PICK mode \in {"both", "pos", "attendance"} : ajustes = RegistrationOverrides(mode)
  BY DEF CompanyInit, AccessInit
<1>3. /\ pedido.modulos = Available /\ Available \subseteq Modulos /\ Base = Modulos /\ BaseOf(pedido) = Modulos
  BY <1>1, AvailableModulos DEF Base, BaseOf
<1>4. ajustes = [m \in Modulos |-> ajustes[m]] /\ \A m \in Modulos : ajustes[m] \in {"no", "plan"}
  BY <1>2 DEF RegistrationOverrides
<1>5. \A m \in Modulos : m \in Available <=> ajustes[m] # "no" BY <1>1, <1>3, <1>4 DEF Available
<1>6. \A m \in Modulos : ajustes[m] = IF (m \in pedido.modulos) = (m \in BaseOf(pedido)) THEN "plan"
                                      ELSE IF m \in pedido.modulos THEN "si" ELSE "no"
  BY <1>3, <1>4, <1>5
<1> QED BY <1>3, <1>4, <1>6 DEF AskedOK

\* Only updateCompanyModules changes what is switched on and off, and it keeps the difference.
LEMMA AskedStays ==
  ASSUME AskedOK, [CompanyNext]_companyVars
  PROVE  AskedOK'
<1> USE DEF accessVars, accessRows
<1>1. ASSUME UNCHANGED <<ajustes, pedido>> PROVE AskedOK' BY <1>1 DEF AskedOK, BaseOf
<1>2. ASSUME UsersNext PROVE UNCHANGED <<ajustes, pedido>> BY <1>2, UsersKeep
<1>3. ASSUME NEW S \in SUBSET Modulos, UpdateCompanyModules(S) PROVE AskedOK'
  <2>1. /\ ajustes' = Overrides(S)
        /\ pedido' = [modulos |-> S, plan |-> plan, servicio |-> servicio]
    BY <1>3 DEF UpdateCompanyModules
  <2>2. pedido'.modulos = S /\ BaseOf(pedido') = Base BY <2>1 DEF BaseOf, Base
  <2> QED BY <2>1, <2>2 DEF AskedOK, Overrides
<1>4. ASSUME PlatformNext PROVE AskedOK'
  BY <1>1, <1>3, <1>4 DEF PlatformNext, ReadCatalog, UpdatePricing, UpdateLimitRows, UpdateOveragePricing,
     UpdateTrial, UpdateAttendancePricing, SaveRefused, UpdateModules, Save, SaveOver
<1>5. ASSUME AdminsNext PROVE UNCHANGED <<ajustes, pedido>>
  BY <1>5 DEF AdminsNext, CreateAdmin, UpdateAdminStatus, BeginStatus
<1> QED BY <1>1, <1>2, <1>4, <1>5 DEF CompanyNext, AccessNext2, companyVars

\* A company may open what was last asked for it whenever its plan and its service are what they
\* were then, whatever they went through (plans.service.ts, updateCompanyModules and
\* getCompanyModules): what is kept is the difference from the plan, not the modules.
THEOREM CompanyOpensWhatWasAsked == CompanySpec => []AsAsked
  BY CompanyInitType, CompanyType, AskedInit, AskedStays, AskedIsOpen, PTL DEF CompanySpec

\* Both together: what was granted can be used, by the company and by the platform itself.
THEOREM AccessIsHeld == CompanySpec => []AccessHolds
<1>1. AsAsked /\ AdminRemains => AccessHolds BY DEF AccessHolds
<1> QED  BY <1>1, CompanyOpensWhatWasAsked, SomeAdminRemains, PTL

----------------------------------------
(* What a user may do.                                                     *)

GrantsKept ==
  \A o \in Objetos : \A m \in ficha[o].claves \ ficha'[o].claves :
    \E t \in Hilos : /\ tramite[t].pc \in {"creando", "editando"} /\ tramite[t].o = o
                     /\ m \in tramite[t].sabe \/ m \notin tramite[t].claves
Within ==
  \A o \in Objetos : ficha'[o] # ficha[o] =>
    \E t \in Hilos : /\ tramite[t].o = o /\ tramite'[t] = Nada
                     /\ tramite[t].por.sucursal \in {"todas", ficha'[o].sucursal}
                     /\ tramite[t].por.ve \in {"todas", ficha'[o].ve}

\* Only the writes of the users' screen change what a user was given.
LEMMA FichaStays ==
  ASSUME CompanyNext
  PROVE  \/ UNCHANGED ficha
         \/ \E t \in Hilos, s \in Sucursales, v \in Visibilidades : \E keys :
              Writes2(t, "creando", keys, s, v) \/ Writes2(t, "editando", keys, s, v)
<1> USE DEF accessVars, accessRows
<1>1. ASSUME UsersNext
      PROVE  \/ UNCHANGED ficha
             \/ \E t \in Hilos, s \in Sucursales, v \in Visibilidades : \E keys :
                  Writes2(t, "creando", keys, s, v) \/ Writes2(t, "editando", keys, s, v)
  BY ZenonT(40), <1>1 DEF UsersNext, AssertModulesIncluded, UserRefused, BeginCreate, FindCompanyUser, Begins, WriteNewUser,
     WriteUser, Remove
<1>2. PlatformNext => UNCHANGED ficha
  BY DEF PlatformNext, UpdateCompanyModules, ReadCatalog, UpdatePricing, UpdateLimitRows, UpdateOveragePricing,
     UpdateTrial, UpdateAttendancePricing, SaveRefused, UpdateModules, Save, SaveOver, OnlyPlatform
<1>3. AdminsNext => UNCHANGED ficha
  BY DEF AdminsNext, CreateAdmin, UpdateAdminStatus, BeginStatus, OnlyPlatform
<1> QED BY <1>1, <1>2, <1>3 DEF CompanyNext, AccessNext2

\* What one of those writes takes and gives.
LEMMA GrantStep ==
  ASSUME AccessOK, [CompanyNext]_companyVars
  PROVE  GrantsKept /\ Within
<1>1. CASE UNCHANGED ficha BY <1>1 DEF GrantsKept, Within
<1>2. ASSUME NEW t \in Hilos, NEW s \in Sucursales, NEW v \in Visibilidades, NEW keys, NEW pc \in {"creando", "editando"},
             Writes2(t, pc, keys, s, v)
      PROVE GrantsKept /\ Within
  <2> DEFINE o == tramite[t].o
  <2>1. /\ tramite[t].pc \in {"creando", "editando"} /\ tramite'[t] = Nada
        /\ ficha' = [ficha EXCEPT ![o] = [claves |-> StoredKeys(t, keys), sucursal |-> s, ve |-> v]]
    BY <1>2 DEF Writes2, AccessOK
  <2>2. ficha'[o] = [claves |-> keys \cup (tramite[t].claves \ tramite[t].sabe), sucursal |-> s, ve |-> v]
        \/ ficha'[o] = ficha[o]
    BY <2>1 DEF StoredKeys, AccessOK, AccessTypeOK
  <2>3. \A u \in Objetos : u # o => ficha'[u] = ficha[u] BY <2>1 DEF AccessOK, AccessTypeOK
  <2>4. GrantsKept BY <2>1, <2>2, <2>3 DEF GrantsKept
  <2>5. tramite[t].por.ve \in Visibilidades BY DEF AccessOK, TramiteRows
  <2>6. tramite[t].por.sucursal \in {"todas", s} /\ tramite[t].por.ve \in {"todas", v}
    BY <1>2, <2>5 DEF Writes2, ResolveGrantedBranch, AssertGrantedVisibility, Visibilidades
  <2>7. Within BY <2>1, <2>2, <2>3, <2>6 DEF Within
  <2> QED BY <2>4, <2>7
<1> QED BY <1>1, <1>2, FichaStays DEF companyVars, accessVars, accessRows

\* A key goes only by an edit that saw it among the company's modules or had not found it, and a
\* branch and a visibility are given only by one who had them (users.service.ts, update): whatever
\* else the company, its plan and its other users went through between the reading and the writing.
THEOREM GrantsAreHeld == CompanySpec => GrantsHold
<1>1. TypeOK /\ AccessOK /\ [CompanyNext]_companyVars => GrantsKept /\ Within BY GrantStep
<1>2. CompanySpec => [][GrantsKept]_companyVars /\ [][Within]_companyVars
  BY <1>1, CompanyInitType, CompanyType, PTL DEF CompanySpec
<1> QED BY <1>2 DEF GrantsHold, KeysSurvive, GrantsWithinScope, GrantsKept, Within

----------------------------------------
(* The sessions of an account.                                             *)

Cuentan == {"login", "refresh", "createCompany"}
Siguen  == Cuentan \cup {"updateMe", "changeMyPassword"}
Fresco(ops) == viejas \cap ops = {}

\* What holds the version of now: a request about to store its token, or a token.
Abierta(t) == hilo[t].pc \in AbrePcs /\ hilo[t].ver = cuenta.version
Buena(k)   == tokens[k].ver = cuenta.version

\* Nobody is ahead of the account, and at most one is level with it.
OneHolds ==
  Fresco(Cuentan) =>
    /\ \A k \in DOMAIN tokens : tokens[k].ver <= cuenta.version
    /\ \A t \in Hilos : hilo[t].pc \in SesPcs => hilo[t].ver <= cuenta.version
    /\ \A t, u \in Hilos : Abierta(t) /\ Abierta(u) => t = u
    /\ \A k, l \in DOMAIN tokens : Buena(k) /\ Buena(l) => k = l
    /\ \A t \in Hilos, k \in DOMAIN tokens : ~(Abierta(t) /\ Buena(k))

\* Whoever is level with it was let in after the password last changed.
EpochHolds ==
  Fresco(Siguen) =>
    /\ \A k \in DOMAIN tokens : Buena(k) => tokens[k].epoca = cuenta.epoca
    /\ \A t \in Hilos : hilo[t].pc \in SesPcs /\ hilo[t].ver = cuenta.version => hilo[t].otro = cuenta.epoca

SpentOK ==
  /\ Fresco({"resetPassword"}) =>
       \A i \in DOMAIN enlaces : enlaces[i].veces <= 1 /\ (~enlaces[i].usado => enlaces[i].veces = 0)
  /\ Fresco({"createCompany"}) => cuenta.empresas <= 1

AccountOK == OneHolds /\ EpochHolds /\ SpentOK

\* The tokens are as many, of the versions and epochs they were.
SameTokens ==
  /\ DOMAIN tokens' = DOMAIN tokens
  /\ \A k \in DOMAIN tokens : tokens'[k].ver = tokens[k].ver /\ tokens'[k].epoca = tokens[k].epoca

\* A step that leaves the version alone: a request may read it, or go on with what it had.
Quiet ==
  /\ viejas \subseteq viejas' /\ SameTokens
  /\ cuenta'.version = cuenta.version /\ cuenta'.epoca = cuenta.epoca
  /\ \A t \in Hilos :
       \/ hilo'[t] = hilo[t]
       \/ hilo'[t].pc \notin SesPcs
       \/ hilo'[t].pc \in LeePcs /\ hilo'[t].ver = cuenta.version /\ hilo'[t].otro = cuenta.epoca
       \/ /\ hilo[t].pc \in SesPcs /\ hilo'[t].ver = hilo[t].ver /\ hilo'[t].otro = hilo[t].otro
          /\ hilo'[t].pc \in LeePcs \/ hilo[t].pc \in AbrePcs

\* A step that makes a newer version: one request at most has it.
Bumps ==
  /\ viejas \subseteq viejas' /\ SameTokens
  /\ cuenta'.version = cuenta.version + 1
  /\ \E t \in Hilos :
       /\ \A u \in Hilos \ {t} : hilo'[u] = hilo[u]
       /\ \/ hilo'[t] = hilo[t]
          \/ hilo'[t].pc \notin SesPcs
          \/ /\ hilo'[t].pc \in AbrePcs /\ hilo'[t].ver = cuenta.version + 1
             /\ Fresco(Siguen)' => hilo'[t].otro = cuenta'.epoca

\* What the lemmas below take from the types.
LEMMA AccountNumbers ==
  ASSUME TypeOK
  PROVE  /\ cuenta.version \in Nat /\ cuenta.epoca \in Nat /\ cuenta.empresas \in Nat
         /\ \A k \in DOMAIN tokens : tokens[k].ver \in Nat
         /\ \A t \in Hilos : hilo[t].ver \in Nat
<1>1. cuenta \in CuentaRows /\ tokens \in Seq(RefreshTokenRows)
  BY DEF TypeOK, PeopleOK, SessionsTypeOK
<1>2. cuenta.version \in Nat /\ cuenta.epoca \in Nat /\ cuenta.empresas \in Nat
  BY <1>1 DEF CuentaRows
<1>3. \A k \in DOMAIN tokens : tokens[k].ver \in Nat
  <2>1. \A k \in DOMAIN tokens : tokens[k] \in RefreshTokenRows BY <1>1
  <2> QED BY <2>1 DEF RefreshTokenRows
<1>4. \A t \in Hilos : hilo[t].ver \in Nat BY DEF TypeOK, HilosOK, ThreadRows
<1> QED BY <1>2, <1>3, <1>4

\* A quiet step changes nobody's standing.
LEMMA QuietHolds ==
  ASSUME TypeOK, OneHolds, EpochHolds, Quiet
  PROVE  OneHolds' /\ EpochHolds'
<1>1. LeePcs \cap AbrePcs = {} /\ SesPcs = LeePcs \cup AbrePcs BY DEF LeePcs, AbrePcs, SesPcs
<1>2. \A t \in Hilos : hilo'[t].pc \in AbrePcs =>
        hilo[t].pc \in AbrePcs /\ hilo'[t].ver = hilo[t].ver /\ hilo'[t].otro = hilo[t].otro
  BY <1>1 DEF Quiet
<1>3. \A t \in Hilos : hilo'[t].pc \in SesPcs =>
        \/ hilo'[t].ver = cuenta.version /\ hilo'[t].otro = cuenta.epoca
        \/ hilo[t].pc \in SesPcs /\ hilo'[t].ver = hilo[t].ver /\ hilo'[t].otro = hilo[t].otro
  BY <1>1 DEF Quiet
<1>4. /\ Fresco(Cuentan)' => Fresco(Cuentan)
      /\ Fresco(Siguen)' => Fresco(Siguen)
  BY DEF Fresco, Quiet
<1>5. \A t \in Hilos : Abierta(t)' => Abierta(t) BY <1>2 DEF Abierta, Quiet
<1>6. \A k \in DOMAIN tokens : Buena(k)' <=> Buena(k) BY DEF Buena, Quiet, SameTokens
<1>7. OneHolds' BY <1>3, <1>4, <1>5, <1>6, AccountNumbers DEF OneHolds, Quiet, SameTokens
<1>8. EpochHolds' BY <1>3, <1>4, <1>6 DEF EpochHolds, Quiet, SameTokens
<1> QED BY <1>7, <1>8

\* A newer version leaves everybody behind but the one that made it.
LEMMA BumpHolds ==
  ASSUME TypeOK, OneHolds, EpochHolds, Bumps
  PROVE  OneHolds' /\ EpochHolds'
<1>1. PICK t \in Hilos :
       /\ \A u \in Hilos \ {t} : hilo'[u] = hilo[u]
       /\ \/ hilo'[t] = hilo[t]
          \/ hilo'[t].pc \notin SesPcs
          \/ /\ hilo'[t].pc \in AbrePcs /\ hilo'[t].ver = cuenta.version + 1
             /\ Fresco(Siguen)' => hilo'[t].otro = cuenta'.epoca
  BY DEF Bumps
<1>2. AbrePcs \subseteq SesPcs BY DEF AbrePcs, SesPcs
<1>3. /\ Fresco(Cuentan)' => Fresco(Cuentan)
      /\ Fresco(Siguen)' => Fresco(Cuentan)'
  BY DEF Fresco, Bumps, Siguen
<1>4. ASSUME Fresco(Cuentan)
      PROVE  /\ \A k \in DOMAIN tokens : tokens'[k].ver < cuenta'.version
             /\ \A u \in Hilos \ {t} : hilo'[u].pc \in SesPcs => hilo'[u].ver < cuenta'.version
             /\ hilo'[t].pc \in SesPcs => hilo'[t].ver <= cuenta'.version
             /\ hilo'[t].pc \in SesPcs /\ hilo'[t].ver = cuenta'.version
                  => (Fresco(Siguen)' => hilo'[t].otro = cuenta'.epoca)
  BY <1>1, <1>2, <1>4, AccountNumbers DEF OneHolds, Bumps, SameTokens
<1>5. DOMAIN tokens' = DOMAIN tokens /\ \A k \in DOMAIN tokens : tokens'[k].ver \in Nat
  BY AccountNumbers DEF Bumps, SameTokens
<1>6. ASSUME Fresco(Cuentan)
      PROVE  /\ \A k \in DOMAIN tokens' : ~Buena(k)'
             /\ \A u \in Hilos \ {t} : ~Abierta(u)'
  BY <1>2, <1>4, <1>5, <1>6, AccountNumbers, <1>1 DEF Buena, Abierta, Bumps
<1>7. \A k \in DOMAIN tokens : Fresco(Cuentan) => tokens'[k].ver <= cuenta'.version
  BY <1>4, <1>5, AccountNumbers DEF Bumps
<1>8. \A u \in Hilos : Fresco(Cuentan) /\ hilo'[u].pc \in SesPcs => hilo'[u].ver <= cuenta'.version
  BY <1>1, <1>4, AccountNumbers DEF Bumps
<1>9. OneHolds' BY <1>3, <1>5, <1>6, <1>7, <1>8 DEF OneHolds
<1>10. ASSUME Fresco(Cuentan) PROVE EpochHolds'
  <2>1. \A u \in Hilos \ {t} : hilo'[u].pc \in SesPcs => hilo'[u].ver # cuenta'.version
    BY <1>1, <1>4, <1>10, AccountNumbers DEF Bumps
  <2> QED BY <1>4, <1>6, <1>10, <2>1 DEF EpochHolds
<1>11. ASSUME ~Fresco(Cuentan) PROVE EpochHolds' BY <1>3, <1>11 DEF EpochHolds
<1> QED BY <1>9, <1>10, <1>11

\* The token a request stores is of the version and the epoch it had.
LEMMA StoreHolds ==
  ASSUME TypeOK, OneHolds, EpochHolds, NEW t \in Hilos, CreateRefreshToken(t)
  PROVE  OneHolds' /\ EpochHolds'
<1>1. tokens \in Seq(RefreshTokenRows) /\ hilo[t].pc = "token" /\ UNCHANGED <<cuenta, viejas>>
  BY DEF TypeOK, PeopleOK, SessionsTypeOK, CreateRefreshToken
<1>n. PICK n : n = Len(tokens) + 1 OBVIOUS
<1>2. /\ DOMAIN tokens' = DOMAIN tokens \cup {n} /\ n \notin DOMAIN tokens
      /\ \A k \in DOMAIN tokens : tokens'[k] = tokens[k]
      /\ tokens'[n].ver = hilo[t].ver /\ tokens'[n].epoca = hilo[t].otro
  BY <1>1, <1>n DEF CreateRefreshToken
<1>3. \A u \in Hilos \ {t} : hilo'[u] = hilo[u] BY DEF CreateRefreshToken, Ends, TypeOK, HilosOK
<1>4. hilo'[t].pc \notin SesPcs /\ hilo'[t].pc \notin AbrePcs
  BY IdleOK DEF CreateRefreshToken, Ends, TypeOK, HilosOK, SesPcs, LeePcs, AbrePcs
<1>5. "token" \in SesPcs /\ "token" \in AbrePcs BY DEF SesPcs, AbrePcs
<1>6. /\ Fresco(Cuentan)' <=> Fresco(Cuentan)
      /\ Fresco(Siguen)' <=> Fresco(Siguen)
  BY <1>1 DEF Fresco
<1>7. \A u \in Hilos : Abierta(u)' => Abierta(u) /\ u # t BY <1>1, <1>3, <1>4 DEF Abierta
<1>8. /\ \A k \in DOMAIN tokens : Buena(k)' <=> Buena(k)
      /\ Buena(n)' <=> Abierta(t)
  BY <1>1, <1>2, <1>5 DEF Buena, Abierta
<1>9. OneHolds'
  <2>1. SUFFICES ASSUME Fresco(Cuentan)
                 PROVE  /\ \A k \in DOMAIN tokens' : tokens'[k].ver <= cuenta'.version
                        /\ \A u \in Hilos : hilo'[u].pc \in SesPcs => hilo'[u].ver <= cuenta'.version
                        /\ \A u, v \in Hilos : Abierta(u)' /\ Abierta(v)' => u = v
                        /\ \A k, l \in DOMAIN tokens' : Buena(k)' /\ Buena(l)' => k = l
                        /\ \A u \in Hilos, k \in DOMAIN tokens' : ~(Abierta(u)' /\ Buena(k)')
    BY <1>6 DEF OneHolds
  <2>2. \A k \in DOMAIN tokens' : tokens'[k].ver <= cuenta'.version
    BY <1>1, <1>2, <1>5, <2>1 DEF OneHolds
  <2>3. \A u \in Hilos : hilo'[u].pc \in SesPcs => hilo'[u].ver <= cuenta'.version
    BY <1>1, <1>3, <1>4, <2>1 DEF OneHolds
  <2>4. \A u, v \in Hilos : Abierta(u)' /\ Abierta(v)' => u = v BY <1>7, <2>1 DEF OneHolds
  <2>5. \A k, l \in DOMAIN tokens' : Buena(k)' /\ Buena(l)' => k = l
    BY <1>2, <1>8, <2>1 DEF OneHolds
  <2>6. \A u \in Hilos, k \in DOMAIN tokens' : ~(Abierta(u)' /\ Buena(k)')
    BY <1>2, <1>7, <1>8, <2>1 DEF OneHolds
  <2> QED BY <2>2, <2>3, <2>4, <2>5, <2>6
<1>10. EpochHolds'
  <2>1. SUFFICES ASSUME Fresco(Siguen)
                 PROVE  /\ \A k \in DOMAIN tokens' : Buena(k)' => tokens'[k].epoca = cuenta'.epoca
                        /\ \A u \in Hilos : hilo'[u].pc \in SesPcs /\ hilo'[u].ver = cuenta'.version
                                              => hilo'[u].otro = cuenta'.epoca
    BY <1>6 DEF EpochHolds
  <2>2. \A k \in DOMAIN tokens' : Buena(k)' => tokens'[k].epoca = cuenta'.epoca
    BY <1>1, <1>2, <1>5, <1>8, <2>1 DEF EpochHolds, Abierta
  <2>3. \A u \in Hilos : hilo'[u].pc \in SesPcs /\ hilo'[u].ver = cuenta'.version => hilo'[u].otro = cuenta'.epoca
    BY <1>1, <1>3, <1>4, <2>1 DEF EpochHolds
  <2> QED BY <2>2, <2>3
<1> QED BY <1>9, <1>10

\* The version read, plus one: newer when nobody wrote meanwhile, and otherwise on record.
LEMMA WriteVersionHolds ==
  ASSUME TypeOK, OneHolds, EpochHolds, NEW t \in Hilos, NEW rest, hilo[t].pc \in LeePcs, hilo[t].op \in Cuentan,
         DOMAIN rest = DOMAIN tokens,
         \A k \in DOMAIN tokens : rest[k].ver = tokens[k].ver /\ rest[k].epoca = tokens[k].epoca,
         WriteVersionAs(t, hilo[t].ver + 1, rest)
  PROVE  OneHolds' /\ EpochHolds'
<1> DEFINE x == Next1(t, "token", hilo[t].ver + 1, hilo[t].otro)
<1>1. /\ viejas' = IF cuenta.version # hilo[t].ver THEN viejas \cup {hilo[t].op} ELSE viejas
      /\ hilo' = [hilo EXCEPT ![t] = x] /\ cuenta' = [cuenta EXCEPT !.version = hilo[t].ver + 1] /\ tokens' = rest
  BY DEF WriteVersionAs, Writes
<1>2. CASE cuenta.version # hilo[t].ver
  <2>1. ~Fresco(Cuentan)' /\ ~Fresco(Siguen)' BY <1>1, <1>2 DEF Fresco, Siguen
  <2> QED BY <2>1 DEF OneHolds, EpochHolds
<1>3. CASE cuenta.version = hilo[t].ver
  <2>1. SameTokens /\ viejas' = viejas BY <1>1, <1>3 DEF SameTokens
  <2>2. cuenta'.version = cuenta.version + 1 /\ cuenta'.epoca = cuenta.epoca
    BY <1>1, <1>3 DEF TypeOK, PeopleOK, SessionsTypeOK, CuentaRows
  <2>3. x.pc = "token" /\ x.ver = cuenta.version + 1 /\ x.otro = hilo[t].otro
    BY <1>3 DEF TypeOK, HilosOK, ThreadRows, Next1
  <2>4. hilo'[t] = x /\ \A u \in Hilos \ {t} : hilo'[u] = hilo[u] BY <1>1 DEF TypeOK, HilosOK
  <2>5. Fresco(Siguen)' => hilo[t].otro = cuenta.epoca BY <1>3, <2>1 DEF EpochHolds, Fresco, SesPcs
  <2>6. Bumps BY <2>1, <2>2, <2>3, <2>4, <2>5 DEF Bumps, AbrePcs
  <2> QED BY <2>6, BumpHolds
<1> QED BY <1>2, <1>3

\* Every other step of Sessions is quiet, or makes a newer version.
LEMMA SessionsHold ==
  ASSUME TypeOK, OneHolds, EpochHolds, SessionsNext
  PROVE  OneHolds' /\ EpochHolds'
<1> DEFINE Goal == OneHolds' /\ EpochHolds'
<1> USE DEF authRows
<1>t. /\ hilo \in [Hilos -> ThreadRows] /\ cuenta \in CuentaRows /\ tokens \in Seq(RefreshTokenRows)
      /\ \A t \in Hilos : ThreadOK(hilo[t])
  BY DEF TypeOK, HilosOK, PeopleOK, SessionsTypeOK
<1>s. UNCHANGED tokens => SameTokens BY DEF SameTokens
<1>r. tokens' = RevokeAll => SameTokens
  <2>1. \A k \in DOMAIN tokens : tokens[k] \in RefreshTokenRows BY <1>t
  <2> QED BY <2>1 DEF RevokeAll, RefreshTokenRows, SameTokens
<1>k. \A k : LET rest == [tokens EXCEPT ![k].revocado = TRUE]
             IN  /\ DOMAIN rest = DOMAIN tokens
                 /\ \A l \in DOMAIN tokens : rest[l].ver = tokens[l].ver /\ rest[l].epoca = tokens[l].epoca
  <2>1. \A k \in DOMAIN tokens : tokens[k] \in RefreshTokenRows BY <1>t
  <2> QED BY <2>1 DEF RefreshTokenRows
<1>i. Idle.pc \notin SesPcs BY IdleOK DEF SesPcs, LeePcs, AbrePcs
<1>1. ASSUME UNCHANGED <<hilo, viejas>>, SameTokens, cuenta'.version = cuenta.version, cuenta'.epoca = cuenta.epoca
      PROVE Goal
  BY <1>1, QuietHolds DEF Quiet
<1>2. ASSUME NEW t \in Hilos, hilo' = [hilo EXCEPT ![t] = Idle], viejas \subseteq viejas', UNCHANGED tokens,
             cuenta'.version = cuenta.version, cuenta'.epoca = cuenta.epoca
      PROVE Goal
  <2>1. \A u \in Hilos : hilo'[u] = hilo[u] \/ hilo'[u].pc \notin SesPcs BY <1>2, <1>i, <1>t
  <2> QED BY <1>2, <1>s, <2>1, QuietHolds DEF Quiet
<1>3. ASSUME NEW t \in Hilos, NEW pc, pc \notin AbrePcs, NEW op, NEW fila, NEW obj, NEW ver, NEW otro,
             pc \in LeePcs => ver = cuenta.version /\ otro = cuenta.epoca,
             Reads(t, pc, op, fila, obj, ver, otro), UNCHANGED <<authRows, viejas>>
      PROVE Goal
  <2>1. \A u \in Hilos : \/ hilo'[u] = hilo[u] \/ hilo'[u].pc \notin SesPcs
                         \/ hilo'[u].pc \in LeePcs /\ hilo'[u].ver = cuenta.version /\ hilo'[u].otro = cuenta.epoca
    BY <1>3, <1>t DEF Reads, SesPcs
  <2> QED BY <1>3, <1>s, <2>1, QuietHolds DEF Quiet
<1>4. Register \/ ForgotPassword \/ UpdateStatus => Goal
  BY <1>1, <1>s DEF Register, ForgotPassword, UpdateStatus
<1>5. ASSUME NEW k, RefreshOld(k) PROVE Goal BY <1>1, <1>5, <1>k DEF RefreshOld, SameTokens
<1>6. ASSUME NEW e, Logout(e) PROVE Goal
  <2>1. cuenta'.version = cuenta.version + 1 /\ UNCHANGED <<hilo, viejas>> /\ SameTokens
    BY <1>6, <1>r, <1>t DEF Logout, CuentaRows
  <2>2. CASE Hilos = {}
    <3>1. DOMAIN tokens' = DOMAIN tokens /\ \A k \in DOMAIN tokens : tokens'[k].ver = tokens[k].ver
      BY <2>1 DEF SameTokens
    <3>2. Fresco(Cuentan) => \A k \in DOMAIN tokens : tokens'[k].ver < cuenta'.version
      BY <2>1, <3>1, AccountNumbers DEF OneHolds
    <3>3. Fresco(Siguen) => Fresco(Cuentan) BY DEF Fresco, Siguen
    <3>4. (Fresco(Cuentan)' <=> Fresco(Cuentan)) /\ (Fresco(Siguen)' <=> Fresco(Siguen))
      BY <2>1 DEF Fresco
    <3>5. Fresco(Cuentan) => \A k \in DOMAIN tokens' : ~Buena(k)' /\ tokens'[k].ver <= cuenta'.version
      BY <2>1, <3>1, <3>2, AccountNumbers DEF Buena
    <3> QED BY <2>2, <3>3, <3>4, <3>5 DEF OneHolds, EpochHolds
  <2>3. CASE Hilos # {} BY <2>1, <2>3, BumpHolds DEF Bumps
  <2> QED BY <2>2, <2>3
<1>7. ASSUME NEW t \in Hilos, WrongCode(t) \/ RightCode(t) PROVE Goal
  <2>1. /\ hilo' = [hilo EXCEPT ![t] = Idle] /\ viejas \subseteq viejas' /\ UNCHANGED tokens
        /\ cuenta'.version = cuenta.version /\ cuenta'.epoca = cuenta.epoca
    BY <1>7, <1>t DEF WrongCode, RightCode, Writes, Ends, CuentaRows
  <2> QED BY <1>2, <2>1
<1>8. ASSUME NEW t \in Hilos, VerifyEmail(t) PROVE Goal
  BY <1>3, <1>8 DEF VerifyEmail, LeePcs, AbrePcs
<1>9. ASSUME NEW t \in Hilos, CreateCompany(t) PROVE Goal BY <1>3, <1>9 DEF CreateCompany, AbrePcs
<1>10. ASSUME NEW t \in Hilos, Login(t) PROVE Goal BY <1>3, <1>10 DEF Login, AbrePcs
<1>11. ASSUME NEW t \in Hilos, NEW k, Refresh(t, k) \/ UpdateMe(t, k) \/ ChangeMyPassword(t, k) PROVE Goal
  BY <1>3, <1>11 DEF Refresh, UpdateMe, ChangeMyPassword, AbrePcs
<1>12. ASSUME NEW t \in Hilos, NEW i, ResetPassword(t, i) PROVE Goal
  BY <1>3, <1>12 DEF ResetPassword, AbrePcs, LeePcs
<1>13. ASSUME NEW t \in Hilos, WriteVersion(t) \/ StartCompany(t) \/ Rotate(t) PROVE Goal
  <2>1. hilo[t].pc \in LeePcs /\ hilo[t].op \in Cuentan
    BY <1>13, <1>t DEF WriteVersion, StartCompany, Rotate, ThreadOK, LeePcs, Cuentan
  <2>2. CASE WriteVersionAs(t, hilo[t].ver + 1, tokens) BY <2>1, <2>2, WriteVersionHolds
  <2>3. CASE WriteVersionAs(t, hilo[t].ver + 1, [tokens EXCEPT ![hilo[t].obj].revocado = TRUE])
    <3>1. PICK rest : rest = [tokens EXCEPT ![hilo[t].obj].revocado = TRUE] OBVIOUS
    <3>2. /\ DOMAIN rest = DOMAIN tokens
          /\ \A l \in DOMAIN tokens : rest[l].ver = tokens[l].ver /\ rest[l].epoca = tokens[l].epoca
      BY <1>k, <3>1
    <3>3. WriteVersionAs(t, hilo[t].ver + 1, rest) BY <2>3, <3>1
    <3> QED BY <2>1, <3>2, <3>3, WriteVersionHolds
  <2> QED BY <1>13, <2>2, <2>3 DEF WriteVersion, StartCompany, Rotate
<1>14. ASSUME NEW t \in Hilos, CommitCompany(t) \/ RevokeTokens(t) PROVE Goal
  <2>1. /\ cuenta'.version = cuenta.version /\ cuenta'.epoca = cuenta.epoca /\ SameTokens /\ viejas \subseteq viejas'
    BY <1>14, <1>t, <1>s, <1>r DEF CommitCompany, RevokeTokens, Writes, CuentaRows
  <2>2. PICK pc \in {"inicio", "token"} : /\ hilo' = [hilo EXCEPT ![t] = Next1(t, pc, hilo[t].ver, hilo[t].otro)]
                                          /\ (hilo[t].pc \in SesPcs /\ pc \in LeePcs) \/ hilo[t].pc \in AbrePcs
    BY <1>14 DEF CommitCompany, RevokeTokens, Writes, SesPcs, LeePcs, AbrePcs
  <2>3. /\ hilo'[t].pc = pc /\ hilo'[t].ver = hilo[t].ver /\ hilo'[t].otro = hilo[t].otro
        /\ \A u \in Hilos \ {t} : hilo'[u] = hilo[u]
    BY <1>t, <2>2 DEF Next1, ThreadRows
  <2> QED BY <2>1, <2>2, <2>3, QuietHolds DEF Quiet, SesPcs
<1>15. ASSUME NEW t \in Hilos, WriteMe(t) PROVE Goal
  <2>1. /\ cuenta'.version = cuenta.version + 1 /\ cuenta'.epoca = cuenta.epoca /\ SameTokens
        /\ viejas' = IF cuenta.version # hilo[t].ver THEN viejas \cup {"updateMe"} ELSE viejas
    BY <1>15, <1>t, <1>s DEF WriteMe, Writes, CuentaRows, ThreadOK
  <2>2. /\ hilo'[t].pc = "token" /\ hilo'[t].ver = cuenta.version + 1 /\ hilo'[t].otro = hilo[t].otro
        /\ \A u \in Hilos \ {t} : hilo'[u] = hilo[u]
    BY <1>15, <1>t DEF WriteMe, Writes, Next1, ThreadRows
  <2>3. Fresco(Siguen)' => hilo[t].otro = cuenta.epoca
    BY <1>15, <2>1 DEF EpochHolds, Fresco, Siguen, WriteMe, SesPcs, LeePcs
  <2> QED BY <2>1, <2>2, <2>3, BumpHolds DEF Bumps, AbrePcs
<1>16. ASSUME NEW t \in Hilos, WritePassword(t) PROVE Goal
  <2>1. /\ cuenta'.version = cuenta.version + 1 /\ cuenta'.epoca = cuenta.epoca + 1 /\ SameTokens
        /\ viejas \subseteq viejas'
    BY <1>16, <1>t, <1>s DEF WritePassword, WritePasswordAs, Writes, CuentaRows
  <2>2. /\ hilo'[t].pc = "revocar" /\ hilo'[t].ver = cuenta.version + 1 /\ hilo'[t].otro = cuenta.epoca + 1
        /\ \A u \in Hilos \ {t} : hilo'[u] = hilo[u]
    BY <1>16, <1>t DEF WritePassword, WritePasswordAs, Writes, Next1, ThreadRows
  <2> QED BY <2>1, <2>2, BumpHolds DEF Bumps, AbrePcs
<1>17. ASSUME NEW t \in Hilos, WriteReset(t) PROVE Goal
  <2>1. /\ cuenta'.version = cuenta.version + 1 /\ SameTokens /\ viejas \subseteq viejas'
    BY <1>17, <1>t, <1>r DEF WriteReset, Writes, CuentaRows
  <2>2. hilo'[t].pc \notin SesPcs /\ \A u \in Hilos \ {t} : hilo'[u] = hilo[u]
    BY <1>17, <1>t, <1>i DEF WriteReset, Writes
  <2> QED BY <2>1, <2>2, BumpHolds DEF Bumps
<1>18. QED
  BY <1>4, <1>5, <1>6, <1>7, <1>8, <1>9, <1>10, <1>11, <1>12, <1>13, <1>14, <1>15, <1>16, <1>17, StoreHolds
  DEF SessionsNext

\* What may be done once: a link that was not used has changed nothing, and a request that made a
\* company had found none.
LEMMA SpentHolds ==
  ASSUME TypeOK, SpentOK, SessionsNext
  PROVE  SpentOK'
<1> USE DEF authRows
<1>t. /\ cuenta \in CuentaRows /\ enlaces \in Seq(PasswordResetRows) /\ hilo \in [Hilos -> ThreadRows]
      /\ \A t \in Hilos : ThreadOK(hilo[t])
  BY DEF TypeOK, HilosOK, PeopleOK, SessionsTypeOK
<1>1. ASSUME UNCHANGED enlaces, cuenta'.empresas = cuenta.empresas, viejas \subseteq viejas' PROVE SpentOK'
  BY <1>1 DEF SpentOK, Fresco
<1>2. ASSUME NEW t \in Hilos, CommitCompany(t) PROVE SpentOK'
  <2>1. hilo[t].fila.n = 0 /\ hilo[t].op = "createCompany" /\ cuenta'.empresas = cuenta.empresas + 1 /\ UNCHANGED enlaces
    BY <1>2, <1>t DEF CommitCompany, ThreadOK, CuentaRows
  <2>2. viejas' = IF cuenta.empresas # 0 THEN viejas \cup {"createCompany"} ELSE viejas
    BY <1>2, <2>1 DEF CommitCompany, Writes
  <2>3. Fresco({"createCompany"})' => cuenta'.empresas <= 1 BY <2>1, <2>2 DEF Fresco
  <2>4. Fresco({"resetPassword"})' => Fresco({"resetPassword"}) BY <2>2 DEF Fresco
  <2> QED BY <2>1, <2>3, <2>4 DEF SpentOK
<1>3. ASSUME ForgotPassword PROVE SpentOK'
  <2>1. UNCHANGED <<cuenta, viejas>> BY <1>3 DEF ForgotPassword
  <2>2. \A i \in DOMAIN enlaces' :
          (i \in DOMAIN enlaces /\ enlaces'[i] = enlaces[i]) \/ enlaces'[i] = [usado |-> FALSE, veces |-> 0]
    BY <1>3, <1>t DEF ForgotPassword
  <2> QED BY <2>1, <2>2 DEF SpentOK, Fresco
<1>4. ASSUME NEW t \in Hilos, WriteReset(t) PROVE SpentOK'
  <2>0. PICK l : l = hilo[t].obj OBVIOUS
  <2>1. l \in DOMAIN enlaces /\ hilo[t].op = "resetPassword"
    BY <1>4, <1>t, <2>0 DEF WriteReset, ThreadOK
  <2>2. /\ enlaces' = [enlaces EXCEPT ![l] = [enlaces[l] EXCEPT !.usado = TRUE, !.veces = @ + 1]]
        /\ DOMAIN enlaces' = DOMAIN enlaces
    BY <1>4, <1>t, <2>0, <2>1, MarkLink DEF WriteReset
  <2>3. viejas' = IF enlaces[l].usado THEN viejas \cup {"resetPassword"} ELSE viejas
    BY <1>4, <2>0, <2>1 DEF WriteReset, Writes
  <2>4. cuenta'.empresas = cuenta.empresas BY <1>4, <1>t DEF WriteReset, CuentaRows
  <2>5. enlaces[l] \in PasswordResetRows BY <1>t, <2>1
  <2>6. enlaces'[l].usado = TRUE /\ enlaces'[l].veces = enlaces[l].veces + 1
    BY <2>1, <2>2, <2>5 DEF PasswordResetRows
  <2>7. \A i \in DOMAIN enlaces : i # l => enlaces'[i] = enlaces[i] BY <2>2
  <2>8. ASSUME Fresco({"resetPassword"})'
        PROVE  ~enlaces[l].usado /\ Fresco({"resetPassword"})
    BY <2>3, <2>8 DEF Fresco
  <2>9. ASSUME Fresco({"resetPassword"})', NEW i \in DOMAIN enlaces'
        PROVE  enlaces'[i].veces <= 1 /\ (~enlaces'[i].usado => enlaces'[i].veces = 0)
    BY <2>2, <2>6, <2>7, <2>8, <2>9 DEF SpentOK
  <2>10. Fresco({"createCompany"})' => Fresco({"createCompany"}) BY <2>3 DEF Fresco
  <2> QED BY <2>4, <2>9, <2>10 DEF SpentOK
<1>5. ASSUME NEW t \in Hilos, WrongCode(t) \/ RightCode(t) PROVE SpentOK'
  BY <1>1, <1>5, <1>t DEF WrongCode, RightCode, Writes, CuentaRows
<1>6. ASSUME NEW t \in Hilos, WriteVersion(t) \/ StartCompany(t) \/ Rotate(t) PROVE SpentOK'
  BY <1>1, <1>6, <1>t DEF WriteVersion, StartCompany, Rotate, WriteVersionAs, Writes, CuentaRows
<1>7. ASSUME NEW t \in Hilos, WriteMe(t) \/ WritePassword(t) \/ RevokeTokens(t) PROVE SpentOK'
  BY <1>1, <1>7, <1>t DEF WriteMe, WritePassword, WritePasswordAs, RevokeTokens, Writes, CuentaRows
<1>8. ASSUME NEW t \in Hilos,
             \/ VerifyEmail(t) \/ CreateCompany(t) \/ Login(t) \/ CreateRefreshToken(t)
             \/ \E k \in 1..MaxTokens : Refresh(t, k) \/ UpdateMe(t, k) \/ ChangeMyPassword(t, k)
             \/ \E i \in 1..MaxEnlaces : ResetPassword(t, i)
      PROVE SpentOK'
  BY <1>1, <1>8 DEF VerifyEmail, CreateCompany, Login, CreateRefreshToken, Refresh, UpdateMe, ChangeMyPassword,
     ResetPassword
<1>9. ASSUME NEW k, RefreshOld(k) \/ Logout(k) PROVE SpentOK'
  BY <1>1, <1>9, <1>t DEF RefreshOld, Logout, CuentaRows
<1>10. Register \/ UpdateStatus => SpentOK' BY <1>1 DEF Register, UpdateStatus
<1> QED BY <1>2, <1>3, <1>4, <1>5, <1>6, <1>7, <1>8, <1>9, <1>10 DEF SessionsNext

\* Everything but Sessions leaves the account alone, whatever its requests do.
LEMMA OthersHold ==
  ASSUME TypeOK, AccountOK, viejas \subseteq viejas', UNCHANGED authRows,
         NEW P, HilosMove(P), P \cap SesPcs = {}
  PROVE  AccountOK'
<1>1. Quiet BY DEF HilosMove, Quiet, SameTokens, authRows
<1>2. SpentOK' BY DEF AccountOK, SpentOK, Fresco, authRows
<1> QED BY <1>1, <1>2, QuietHolds DEF AccountOK

\* A step of Attendance writes its own rows and records its own handlers.
LEMMA AttendanceKeeps ==
  ASSUME AccessNext \/ MarksNext \/ ShiftsNext
  PROVE  UNCHANGED authRows /\ viejas \subseteq viejas'
<1> USE DEF OnlyHilo, OnlyAcceso, OnlyMarcas, authVars, Writes
<1>1. AccessNext => UNCHANGED authRows /\ viejas \subseteq viejas'
  BY DEF AccessNext, GenerateAccessToken, ResetDevice, ConfirmActivation, WriteDevice, FindByActivationToken, RegisterDevice
<1>2. MarksNext => UNCHANGED authRows /\ viejas \subseteq viejas'
  BY DEF MarksNext, Tick, WriteScan, WriteManual, Scan, CreateManual
<1>3. ShiftsNext => UNCHANGED authRows /\ viejas \subseteq viejas'
  BY DEF ShiftsNext, UpdateShift, AssignEmployees
<1> QED BY <1>1, <1>2, <1>3

\* The invariant of the account is kept by everything the company does.
LEMMA AccountStays ==
  ASSUME TypeOK, AccessOK, AccountOK, [CompanyNext]_companyVars
  PROVE  AccountOK'
<1> USE DEF companyVars, vars, accessVars, authVars
<1>i. ASSUME UNCHANGED <<hilo, authVars>> PROVE AccountOK'
  <2>1. HilosMove({}) /\ {} \cap SesPcs = {} /\ viejas \subseteq viejas' /\ UNCHANGED authRows
    BY <1>i DEF HilosMove
  <2> QED BY <2>1, OthersHold
<1>1. CASE LimitsNext /\ UNCHANGED <<authVars, dayRows>>
  BY <1>1, LimitsType, OthersHold DEF RowPcs, SesPcs, LeePcs, AbrePcs
<1>2. CASE SessionsNext /\ UNCHANGED dayRows BY <1>2, SessionsHold, SpentHolds DEF AccountOK
<1>3. CASE AccessNext \/ MarksNext \/ ShiftsNext
  <2>1. HilosMove({"idle"} \cup DayPcs \cup AccPcs) BY <1>3, AttendanceType
  <2>2. ({"idle"} \cup DayPcs \cup AccPcs) \cap SesPcs = {}
    BY DEF DayPcs, AccPcs, SesPcs, LeePcs, AbrePcs
  <2> QED BY <1>3, <2>1, <2>2, AttendanceKeeps, OthersHold
<1>4. CASE (RowsNext \/ AttendanceTurns) /\ UNCHANGED <<authVars, dayRows>>
  BY <1>4, <1>i, RowsType DEF AttendanceTurns
<1>5. CASE AccessNext2
  BY <1>5, <1>i, UsersType, PlatformType, AdminsType DEF AccessNext2, people, AttendanceTurns
<1>6. CASE UNCHANGED companyVars BY <1>6, <1>i DEF limitVars
<1> QED BY <1>1, <1>2, <1>3, <1>4, <1>5, <1>6 DEF CompanyNext, Next, AttendanceNext

\* A set of equals has one element at most.
LEMMA OneAtMost ==
  ASSUME NEW S, \A x, y \in S : x = y
  PROVE  IsFiniteSet(S) /\ Cardinality(S) <= 1
<1>1. CASE S = {} BY <1>1, FS_EmptySet
<1>2. CASE S # {}
  <2>1. PICK x : S = {x} BY <1>2
  <2>2. IsFiniteSet({x}) /\ Cardinality({x}) = 1 BY FS_Singleton
  <2> QED BY <2>1, <2>2
<1> QED BY <1>1, <1>2

\* The account holds what it promises.
LEMMA AccountPromises == AccountOK => AccountHolds
<1> SUFFICES ASSUME AccountOK PROVE AccountHolds OBVIOUS
<1>1. SessionsFollowPassword
  BY DEF AccountOK, EpochHolds, Buena, SessionsFollowPassword, Validates, Fresco, Siguen, Cuentan
<1>2. OneLiveSession
  <2>1. CASE Fresco(Cuentan)
    <3>1. \A k, l \in {k \in DOMAIN tokens : Usable(k)} : k = l
      BY <2>1 DEF AccountOK, OneHolds, Buena, Usable
    <3> QED BY <3>1, OneAtMost DEF OneLiveSession
  <2> QED BY <2>1 DEF OneLiveSession, Fresco, Cuentan
<1>3. SpentOnce BY DEF AccountOK, SpentOK, SpentOnce, Fresco
<1> QED BY <1>1, <1>2, <1>3 DEF AccountHolds

\* An account begins with nothing open.
LEMMA AccountInit == CompanyInit => AccountOK
<1> SUFFICES ASSUME CompanyInit PROVE AccountOK OBVIOUS
<1>1. /\ tokens = <<>> /\ enlaces = <<>> /\ cuenta.empresas <= 1
      /\ \A t \in Hilos : hilo[t] = Idle
  BY DEF CompanyInit, Init, LimitsInit, SessionsInit
<1>2. \A t \in Hilos : hilo[t].pc \notin SesPcs /\ ~Abierta(t)
  BY <1>1, IdleOK DEF SesPcs, LeePcs, AbrePcs, Abierta
<1>3. DOMAIN tokens = {} /\ DOMAIN enlaces = {} BY <1>1
<1> QED BY <1>1, <1>2, <1>3 DEF AccountOK, OneHolds, EpochHolds, SpentOK

\* A change of password, a reset or a logout ends what was opened before it; one refresh token
\* at most is good; a link and an account are spent once (auth.service.ts): unless a handler wrote
\* by what it had read and another had written since.  Whatever else the company does meanwhile,
\* and however many requests are served at a time.
THEOREM AccountIsHeld == CompanySpec => []AccountHolds
  BY CompanyInitType, CompanyType, AccountInit, AccountStays, AccountPromises, PTL DEF CompanySpec

----------------------------------------
(* The marks of a day.                                                     *)

\* A day has as many moments as the clock counts: now is of today, and time does not go back.
LEMMA DayOfMoment ==
  ASSUME NEW d \in Nat, NEW m \in Nat, NEW h \in Nat, h < m
  PROVE  (d * m + h) \div m = d
  OBVIOUS

\* The clock shows a day and one of its moments, before a step and after it.
LEMMA Clock ==
  /\ TypeOK => /\ reloj.dia \in Nat /\ reloj.hora \in Nat /\ reloj.hora < UltimaHora + 1
               /\ UltimaHora + 1 \in Nat /\ Ahora \in Nat
  /\ TypeOK' => Ahora' \in Nat
<1>1. UltimaHora \in Nat BY AttendanceAssumption
<1>2. ASSUME TypeOK PROVE reloj \in [dia : Nat, hora : Nat] /\ reloj.hora \in 1..UltimaHora
  BY <1>2 DEF TypeOK, PeopleOK, AttendanceTypeOK
<1>3. ASSUME TypeOK'
      PROVE reloj'.dia \in Nat /\ reloj'.hora \in Nat
  BY <1>3 DEF TypeOK, PeopleOK, AttendanceTypeOK
<1>4. \A a, b, c \in Nat : a * b + c \in Nat OBVIOUS
<1> QED BY <1>1, <1>2, <1>3, <1>4 DEF Ahora

\* Now is a moment of today.
LEMMA TodayIsNow ==
  ASSUME TypeOK
  PROVE  DiaDe(Ahora) = reloj.dia
<1>1. /\ reloj.dia \in Nat /\ reloj.hora \in Nat /\ reloj.hora < UltimaHora + 1 /\ UltimaHora + 1 \in Nat
  BY Clock
<1> QED BY <1>1, DayOfMoment DEF DiaDe, Ahora

\* Time does not go back.
LEMMA TimePasses ==
  ASSUME TypeOK, Tick
  PROVE  Ahora <= Ahora'
<1> DEFINE m == UltimaHora + 1
<1>1. /\ reloj.dia \in Nat /\ reloj.hora \in Nat /\ reloj.hora < m /\ m \in Nat BY Clock
<1>2. \/ reloj'.dia = reloj.dia /\ reloj'.hora = reloj.hora + 1
      \/ reloj'.dia = reloj.dia + 1 /\ reloj'.hora = 1
  BY DEF Tick, TypeOK, PeopleOK, AttendanceTypeOK
<1>3. (reloj.dia + 1) * m = reloj.dia * m + m /\ reloj.dia * m \in Nat BY <1>1
<1> QED BY <1>1, <1>2, <1>3 DEF Ahora

\* A mark put in by hand was decided on the marks that are still all there are, or others are in.
ManualOK(h) ==
  h.pc = "manual" =>
    /\ h.ver <= Ahora /\ h.otro <= Cardinality(Del(h.obj, DiaDe(h.ver)))
    /\ h.otro = Cardinality(Del(h.obj, DiaDe(h.ver))) => AssertManualEntryIsAllowed(h.obj, h.op, h.ver)

\* The same of a scan.
ScanOK(h) ==
  h.pc \in {"entrada", "salida"} =>
    /\ h.otro <= Cardinality(Del(h.obj, h.ver))
    /\ h.otro = Cardinality(Del(h.obj, h.ver)) => Tipo(h.obj, h.ver) = h.pc

SameDay(i, j) == marcas[i].o = marcas[j].o /\ DiaDe(marcas[i].hora) = DiaDe(marcas[j].hora)
MarksOK ==
  /\ \A i, j \in DOMAIN marcas : SameDay(i, j) /\ marcas[i].tipo = marcas[j].tipo => i = j
  /\ \A j \in DOMAIN marcas : marcas[j].tipo = "salida" /\ marcas[j].qr =>
       \E i \in DOMAIN marcas : SameDay(i, j) /\ marcas[i].tipo = "entrada"
  /\ \A i, j \in DOMAIN marcas :
       SameDay(i, j) /\ marcas[i].tipo = "entrada" /\ marcas[j].tipo = "salida"
         => marcas[i].hora <= marcas[j].hora \/ (j < i /\ marcas[i].qr /\ ~marcas[j].qr)

DayOK ==
  /\ \A i \in DOMAIN marcas : marcas[i].hora <= Ahora
  /\ \A t \in Hilos : ManualOK(hilo[t]) /\ ScanOK(hilo[t])
  /\ Fresco({"scan", "manual"}) => MarksOK

\* What the lemmas below take from the types.
LEMMA DayNumbers ==
  ASSUME TypeOK
  PROVE  /\ Ahora \in Nat /\ marcas \in Seq(MarcajeRows) /\ Len(marcas) \in Nat
         /\ \A i \in DOMAIN marcas : marcas[i] \in MarcajeRows /\ marcas[i].hora \in Nat
         /\ \A o, d : Cardinality(Del(o, d)) \in Nat /\ IsFiniteSet(Del(o, d))
         /\ \A t \in Hilos : hilo[t].ver \in Nat /\ hilo[t].otro \in Nat
<1>1. marcas \in Seq(MarcajeRows) /\ Ahora \in Nat
  BY AhoraNat DEF TypeOK, PeopleOK, AttendanceTypeOK
<1>2. Len(marcas) \in Nat /\ \A i \in DOMAIN marcas : marcas[i] \in MarcajeRows BY <1>1
<1>3. \A i \in DOMAIN marcas : marcas[i].hora \in Nat BY <1>2 DEF MarcajeRows
<1>4. \A o, d : Cardinality(Del(o, d)) \in Nat /\ IsFiniteSet(Del(o, d)) BY <1>1, DelFinite
<1>5. \A t \in Hilos : hilo[t].ver \in Nat /\ hilo[t].otro \in Nat
  BY DEF TypeOK, HilosOK, ThreadRows
<1> QED BY <1>1, <1>2, <1>3, <1>4, <1>5

\* With the same marks, a reading stays as good as it was.
LEMMA ReadingStays ==
  ASSUME TypeOK, TypeOK', UNCHANGED marcas, Ahora <= Ahora', NEW t \in Hilos, hilo'[t] = hilo[t],
         ManualOK(hilo[t]), ScanOK(hilo[t])
  PROVE  ManualOK(hilo[t])' /\ ScanOK(hilo[t])'
<1>1. \A o, d : Del(o, d)' = Del(o, d) BY DEF Del
<1>2. ManualOK(hilo[t])'
  <2>1. hilo[t].ver \in Nat /\ Ahora \in Nat /\ Ahora' \in Nat BY DayNumbers, Clock
  <2> QED BY <1>1, <2>1 DEF ManualOK, AssertManualEntryIsAllowed, Tiene
<1>3. ScanOK(hilo[t])' BY <1>1 DEF ScanOK, Tipo, TipoIf, Completa, Tiene
<1> QED BY <1>2, <1>3

\* A step that marks nothing.
LEMMA NoMark ==
  ASSUME TypeOK, TypeOK', DayOK, UNCHANGED marcas, Ahora <= Ahora', viejas \subseteq viejas',
         \A t \in Hilos : \/ hilo'[t] = hilo[t] \/ hilo'[t].pc \notin DayPcs
                          \/ ManualOK(hilo[t])' /\ ScanOK(hilo[t])'
  PROVE  DayOK'
<1>1. \A t \in Hilos : hilo'[t].pc \notin DayPcs => ManualOK(hilo[t])' /\ ScanOK(hilo[t])'
  BY DEF ManualOK, ScanOK, DayPcs
<1>2. \A t \in Hilos : ManualOK(hilo[t])' /\ ScanOK(hilo[t])' BY <1>1, ReadingStays DEF DayOK
<1>3. \A i \in DOMAIN marcas' : marcas'[i].hora <= Ahora' BY DayNumbers, Clock DEF DayOK
<1>4. Fresco({"scan", "manual"})' => MarksOK' BY DEF DayOK, Fresco, MarksOK, SameDay
<1> QED BY <1>2, <1>3, <1>4 DEF DayOK

\* A mark more is a mark more of one worker and one day.
LEMMA OneMore ==
  ASSUME TypeOK, NEW m \in MarcajeRows, marcas' = Append(marcas, m), NEW n, n = Len(marcas) + 1
  PROVE  /\ DOMAIN marcas' = DOMAIN marcas \cup {n} /\ n \notin DOMAIN marcas
         /\ marcas'[n] = m /\ \A i \in DOMAIN marcas : marcas'[i] = marcas[i] /\ i < n
         /\ \A o, d : IF o = m.o /\ d = DiaDe(m.hora)
                        THEN Cardinality(Del(o, d)') = Cardinality(Del(o, d)) + 1
                        ELSE Del(o, d)' = Del(o, d)
<1>1. /\ DOMAIN marcas' = DOMAIN marcas \cup {n} /\ n \notin DOMAIN marcas
      /\ marcas'[n] = m /\ \A i \in DOMAIN marcas : marcas'[i] = marcas[i] /\ i < n
  BY DayNumbers
<1>2. ASSUME NEW o, NEW d
      PROVE  Del(o, d)' = IF o = m.o /\ d = DiaDe(m.hora) THEN Del(o, d) \cup {n} ELSE Del(o, d)
  BY <1>1 DEF Del
<1>3. ASSUME NEW o, NEW d, o = m.o, d = DiaDe(m.hora)
      PROVE  Cardinality(Del(o, d)') = Cardinality(Del(o, d)) + 1
  <2>1. Del(o, d)' = Del(o, d) \cup {n} /\ n \notin Del(o, d) BY <1>1, <1>2, <1>3 DEF Del
  <2>2. IsFiniteSet(Del(o, d)) BY DayNumbers
  <2> QED BY <2>1, <2>2, FS_AddElement
<1> QED BY <1>1, <1>2, <1>3

\* A reading of another worker or another day is as good as it was, one of this worker and this
\* day is no longer what there is.
LEMMA ReadingAged ==
  ASSUME TypeOK, NEW m \in MarcajeRows, marcas' = Append(marcas, m), UNCHANGED reloj,
         NEW t \in Hilos, hilo'[t] = hilo[t], ManualOK(hilo[t]), ScanOK(hilo[t])
  PROVE  ManualOK(hilo[t])' /\ ScanOK(hilo[t])'
<1> DEFINE h == hilo[t]
<1>n. PICK n : n = Len(marcas) + 1 OBVIOUS
<1>1. /\ \A i \in DOMAIN marcas : marcas'[i] = marcas[i]
      /\ \A o, d : IF o = m.o /\ d = DiaDe(m.hora)
                     THEN Cardinality(Del(o, d)') = Cardinality(Del(o, d)) + 1
                     ELSE Del(o, d)' = Del(o, d)
  BY <1>n, OneMore
<1>2. Ahora' = Ahora BY DEF Ahora
<1>3. /\ h.otro \in Nat
      /\ \A o, d : Cardinality(Del(o, d)) \in Nat
      /\ \A o, d : Del(o, d) \subseteq DOMAIN marcas
  BY DayNumbers DEF Del
<1>4. ManualOK(hilo[t])'
  <2> SUFFICES ASSUME h.pc = "manual"
               PROVE  /\ h.ver <= Ahora /\ h.otro <= Cardinality(Del(h.obj, DiaDe(h.ver))')
                      /\ h.otro = Cardinality(Del(h.obj, DiaDe(h.ver))')
                           => AssertManualEntryIsAllowed(h.obj, h.op, h.ver)'
    BY <1>2 DEF ManualOK
  <2>1. h.otro <= Cardinality(Del(h.obj, DiaDe(h.ver))) /\ h.ver <= Ahora BY DEF ManualOK
  <2>2. CASE h.obj = m.o /\ DiaDe(h.ver) = DiaDe(m.hora)
    <3>1. Cardinality(Del(h.obj, DiaDe(h.ver))') = Cardinality(Del(h.obj, DiaDe(h.ver))) + 1
      BY <1>1, <2>2
    <3> QED BY <1>3, <2>1, <3>1
  <2>3. CASE ~(h.obj = m.o /\ DiaDe(h.ver) = DiaDe(m.hora))
    <3>1. Del(h.obj, DiaDe(h.ver))' = Del(h.obj, DiaDe(h.ver)) BY <1>1, <2>3
    <3>2. AssertManualEntryIsAllowed(h.obj, h.op, h.ver) => AssertManualEntryIsAllowed(h.obj, h.op, h.ver)'
      BY <1>1, <1>3, <3>1 DEF AssertManualEntryIsAllowed, Tiene
    <3> QED BY <2>1, <3>1, <3>2 DEF ManualOK
  <2> QED BY <2>2, <2>3
<1>5. ScanOK(hilo[t])'
  <2> SUFFICES ASSUME h.pc \in {"entrada", "salida"}
               PROVE  /\ h.otro <= Cardinality(Del(h.obj, h.ver)')
                      /\ h.otro = Cardinality(Del(h.obj, h.ver)') => Tipo(h.obj, h.ver)' = h.pc
    BY DEF ScanOK
  <2>1. h.otro <= Cardinality(Del(h.obj, h.ver)) BY DEF ScanOK
  <2>2. CASE h.obj = m.o /\ h.ver = DiaDe(m.hora)
    <3>1. Cardinality(Del(h.obj, h.ver)') = Cardinality(Del(h.obj, h.ver)) + 1 BY <1>1, <2>2
    <3> QED BY <1>3, <2>1, <3>1
  <2>3. CASE ~(h.obj = m.o /\ h.ver = DiaDe(m.hora))
    <3>1. Del(h.obj, h.ver)' = Del(h.obj, h.ver) BY <1>1, <2>3
    <3>2. Tipo(h.obj, h.ver)' = Tipo(h.obj, h.ver)
      BY SMTT(20), <1>1, <1>3, <3>1 DEF Tipo, TipoIf, Completa, Tiene
    <3> QED BY <2>1, <3>1, <3>2 DEF ScanOK
  <2> QED BY <2>2, <2>3
<1> QED BY <1>4, <1>5

\* A mark is put in: not of a time to come, and, unless its reading was old, the first of its kind
\* on that day and in its place among the others.
LEMMA MarkAdded ==
  ASSUME TypeOK, DayOK, NEW m \in MarcajeRows, marcas' = Append(marcas, m), UNCHANGED reloj, viejas \subseteq viejas',
         m.hora <= Ahora,
         \A t \in Hilos : hilo'[t] = hilo[t] \/ hilo'[t].pc \notin DayPcs,
         Fresco({"scan", "manual"})' =>
           /\ \A i \in Del(m.o, DiaDe(m.hora)) : marcas[i].tipo # m.tipo
           /\ m.tipo = "salida" => \A i \in Del(m.o, DiaDe(m.hora)) : marcas[i].hora <= m.hora
           /\ m.tipo = "salida" /\ m.qr => \E i \in Del(m.o, DiaDe(m.hora)) : marcas[i].tipo = "entrada"
           /\ m.tipo = "entrada" /\ ~m.qr => \A i \in Del(m.o, DiaDe(m.hora)) : m.hora <= marcas[i].hora
  PROVE  DayOK'
<1>n. PICK n : n = Len(marcas) + 1 OBVIOUS
<1>1. /\ DOMAIN marcas' = DOMAIN marcas \cup {n} /\ n \notin DOMAIN marcas
      /\ marcas'[n] = m /\ \A i \in DOMAIN marcas : marcas'[i] = marcas[i] /\ i < n
  BY <1>n, OneMore
<1>2. Ahora' = Ahora BY DEF Ahora
<1>3. \A i \in DOMAIN marcas' : marcas'[i].hora <= Ahora' BY <1>1, <1>2 DEF DayOK
<1>4. \A t \in Hilos : ManualOK(hilo[t])' /\ ScanOK(hilo[t])'
  <2> SUFFICES ASSUME NEW t \in Hilos PROVE ManualOK(hilo[t])' /\ ScanOK(hilo[t])' OBVIOUS
  <2>1. CASE hilo'[t] = hilo[t] BY <2>1, ReadingAged DEF DayOK
  <2>2. CASE hilo'[t].pc \notin DayPcs BY <2>2 DEF ManualOK, ScanOK, DayPcs
  <2> QED BY <2>1, <2>2
<1>5. ASSUME Fresco({"scan", "manual"})' PROVE MarksOK'
  <2>1. MarksOK BY <1>5 DEF DayOK, Fresco
  <2>2. \A i, j \in DOMAIN marcas : SameDay(i, j)' <=> SameDay(i, j) BY <1>1 DEF SameDay
  <2>3. \A i \in DOMAIN marcas : /\ SameDay(i, n)' <=> i \in Del(m.o, DiaDe(m.hora))
                                 /\ SameDay(n, i)' <=> i \in Del(m.o, DiaDe(m.hora))
    BY <1>1 DEF SameDay, Del
  <2>4. \A i, j \in DOMAIN marcas' : SameDay(i, j)' /\ marcas'[i].tipo = marcas'[j].tipo => i = j
    BY <1>1, <1>5, <2>1, <2>2, <2>3 DEF MarksOK
  <2>5. m.tipo \in {"entrada", "salida"} BY DEF MarcajeRows
  <2>6. ASSUME NEW j \in DOMAIN marcas', marcas'[j].tipo = "salida", marcas'[j].qr
        PROVE  \E i \in DOMAIN marcas' : SameDay(i, j)' /\ marcas'[i].tipo = "entrada"
    <3>1. CASE j = n
      <4>1. PICK i \in Del(m.o, DiaDe(m.hora)) : marcas[i].tipo = "entrada"
        BY <1>1, <1>5, <2>6, <3>1
      <4>2. i \in DOMAIN marcas BY DEF Del
      <4> QED BY <1>1, <2>3, <3>1, <4>1, <4>2
    <3>2. CASE j \in DOMAIN marcas BY <1>1, <2>1, <2>2, <2>6, <3>2 DEF MarksOK
    <3> QED BY <1>1, <3>1, <3>2
  <2>7. ASSUME NEW i \in DOMAIN marcas', NEW j \in DOMAIN marcas', SameDay(i, j)',
               marcas'[i].tipo = "entrada", marcas'[j].tipo = "salida"
        PROVE  marcas'[i].hora <= marcas'[j].hora \/ (j < i /\ marcas'[i].qr /\ ~marcas'[j].qr)
    <3>1. CASE i \in DOMAIN marcas /\ j \in DOMAIN marcas
      BY <1>1, <2>1, <2>2, <2>7, <3>1 DEF MarksOK
    <3>2. CASE i \in DOMAIN marcas /\ j = n BY <1>1, <1>5, <2>3, <2>7, <3>2
    <3>3. CASE i = n /\ j \in DOMAIN marcas
      <4>1. j \in Del(m.o, DiaDe(m.hora)) /\ j < n /\ marcas'[j] = marcas[j] /\ m.tipo = "entrada"
        BY <1>1, <2>3, <2>7, <3>3
      <4>2. CASE ~m.qr BY <1>1, <1>5, <3>3, <4>1, <4>2
      <4>3. CASE m.qr
        <5>1. ASSUME marcas[j].qr PROVE FALSE
          <6>1. PICK k \in DOMAIN marcas : SameDay(k, j) /\ marcas[k].tipo = "entrada"
            BY <2>1, <2>7, <3>3, <4>1, <5>1 DEF MarksOK
          <6>2. k \in Del(m.o, DiaDe(m.hora)) BY <4>1, <6>1 DEF SameDay, Del
          <6> QED BY <1>5, <4>1, <6>1, <6>2
        <5> QED BY <1>1, <3>3, <4>1, <4>3, <5>1
      <4> QED BY <4>2, <4>3
    <3>4. CASE i = n /\ j = n BY <2>7, <3>4
    <3> QED BY <1>1, <3>1, <3>2, <3>3, <3>4
  <2> QED BY <2>4, <2>6, <2>7 DEF MarksOK
<1> QED BY <1>3, <1>4, <1>5 DEF DayOK

\* A scan writes the kind its reading of the day called for.
LEMMA ScanMarks ==
  ASSUME TypeOK, DayOK, NEW t \in Hilos, WriteScan(t)
  PROVE  DayOK'
<1> DEFINE h == hilo[t]
           m == [o |-> h.obj, tipo |-> h.pc, qr |-> TRUE, hora |-> Ahora]
<1>1. h.pc \in {"entrada", "salida"} /\ h.obj \in Objetos /\ h.op = "scan"
  BY DEF WriteScan, TypeOK, HilosOK, ThreadOK, DayPcs
<1>2. m \in MarcajeRows /\ marcas' = Append(marcas, m) /\ UNCHANGED reloj /\ Ahora <= Ahora
  BY <1>1, Clock DEF WriteScan, MarcajeRows, OnlyMarcas
<1>3. \A u \in Hilos : hilo'[u] = hilo[u] \/ hilo'[u].pc \notin DayPcs
  BY IdleOK DEF WriteScan, Writes, TypeOK, HilosOK, DayPcs
<1>4. /\ viejas \subseteq viejas'
      /\ Fresco({"scan", "manual"})' => Cardinality(Del(h.obj, h.ver)) = h.otro /\ reloj.dia = h.ver
  BY <1>1 DEF WriteScan, Writes, Fresco
<1>5. ASSUME Fresco({"scan", "manual"})'
      PROVE  /\ \A i \in Del(m.o, DiaDe(m.hora)) : marcas[i].tipo # m.tipo
             /\ m.tipo = "salida" => \A i \in Del(m.o, DiaDe(m.hora)) : marcas[i].hora <= m.hora
             /\ m.tipo = "salida" /\ m.qr => \E i \in Del(m.o, DiaDe(m.hora)) : marcas[i].tipo = "entrada"
             /\ m.tipo = "entrada" /\ ~m.qr => \A i \in Del(m.o, DiaDe(m.hora)) : m.hora <= marcas[i].hora
  <2>1. Tipo(h.obj, h.ver) = h.pc /\ h.ver = DiaDe(Ahora)
    BY <1>1, <1>4, <1>5, TodayIsNow DEF DayOK, ScanOK
  <2>2. /\ h.pc = "entrada" => ~Tiene(h.obj, DiaDe(Ahora), "entrada")
        /\ h.pc = "salida" => Tiene(h.obj, DiaDe(Ahora), "entrada") /\ ~Tiene(h.obj, DiaDe(Ahora), "salida")
    BY <2>1 DEF Tipo, TipoIf, Completa
  <2>3. \A i \in Del(h.obj, DiaDe(Ahora)) : marcas[i].hora <= Ahora BY DEF DayOK, Del
  <2> QED BY <1>1, <2>2, <2>3 DEF Tiene
<1> QED BY <1>2, <1>3, <1>4, <1>5, MarkAdded

\* A mark by hand is written where its check allowed it.
LEMMA ManualMarks ==
  ASSUME TypeOK, DayOK, NEW t \in Hilos, WriteManual(t)
  PROVE  DayOK'
<1> DEFINE h == hilo[t]
           m == [o |-> h.obj, tipo |-> h.op, qr |-> FALSE, hora |-> h.ver]
<1>1. h.pc = "manual" /\ h.op \in {"entrada", "salida"} /\ h.obj \in Objetos /\ h.ver \in Nat
  BY DEF WriteManual, TypeOK, HilosOK, ThreadOK, DayPcs, ThreadRows
<1>2. m \in MarcajeRows /\ marcas' = Append(marcas, m) /\ UNCHANGED reloj
  BY <1>1 DEF WriteManual, MarcajeRows, OnlyMarcas
<1>3. \A u \in Hilos : hilo'[u] = hilo[u] \/ hilo'[u].pc \notin DayPcs
  BY IdleOK DEF WriteManual, TypeOK, HilosOK, DayPcs
<1>4. /\ viejas \subseteq viejas'
      /\ Fresco({"scan", "manual"})' => Cardinality(Del(h.obj, DiaDe(h.ver))) = h.otro
  BY DEF WriteManual, Fresco
<1>5. m.hora <= Ahora BY <1>1 DEF DayOK, ManualOK
<1>6. ASSUME Fresco({"scan", "manual"})'
      PROVE  /\ \A i \in Del(m.o, DiaDe(m.hora)) : marcas[i].tipo # m.tipo
             /\ m.tipo = "salida" => \A i \in Del(m.o, DiaDe(m.hora)) : marcas[i].hora <= m.hora
             /\ m.tipo = "salida" /\ m.qr => \E i \in Del(m.o, DiaDe(m.hora)) : marcas[i].tipo = "entrada"
             /\ m.tipo = "entrada" /\ ~m.qr => \A i \in Del(m.o, DiaDe(m.hora)) : m.hora <= marcas[i].hora
  <2>1. AssertManualEntryIsAllowed(h.obj, h.op, h.ver) BY <1>1, <1>4, <1>6 DEF DayOK, ManualOK
  <2>2. \A i \in Del(h.obj, DiaDe(h.ver)) : marcas[i].hora \in Nat BY DayNumbers DEF Del
  <2> QED BY <1>1, <2>1, <2>2 DEF AssertManualEntryIsAllowed, Tiene
<1> QED BY <1>2, <1>3, <1>4, <1>5, <1>6, MarkAdded

\* A request that reads the day has read all there is.
LEMMA ReadingIsGood ==
  ASSUME TypeOK, TypeOK', DayOK, NEW t \in Hilos, NEW o \in Objetos,
         \/ \E q \in Objetos, e \in Equipos : Scan(t, o, q, e)
         \/ \E tipo \in {"entrada", "salida"}, h \in Momentos : CreateManual(t, o, tipo, h)
  PROVE  DayOK'
<1>1. UNCHANGED <<marcas, reloj, viejas>> /\ Ahora <= Ahora'
  BY Clock DEF Scan, CreateManual, OnlyHilo, dayRows, authVars, Ahora
<1>2. \A u \in Hilos \ {t} : hilo'[u] = hilo[u] BY DEF Scan, CreateManual, Reads, TypeOK, HilosOK
<1>3. \A p, d : Del(p, d)' = Del(p, d) BY <1>1 DEF Del
<1>4. \A p, d : Cardinality(Del(p, d)) \in Nat BY DayNumbers
<1>5. ManualOK(hilo[t])' /\ ScanOK(hilo[t])'
  <2>1. ASSUME NEW q \in Objetos, NEW e \in Equipos, Scan(t, o, q, e)
        PROVE ManualOK(hilo[t])' /\ ScanOK(hilo[t])'
    <3>1. /\ hilo'[t].pc = Tipo(o, reloj.dia) /\ hilo'[t].obj = o /\ hilo'[t].ver = reloj.dia
          /\ hilo'[t].otro = Cardinality(Del(o, reloj.dia)) /\ hilo'[t].pc # "manual"
      BY <2>1 DEF Scan, Reads, TypeOK, HilosOK, Tipo, TipoIf
    <3>2. Tipo(o, reloj.dia)' = Tipo(o, reloj.dia) BY <1>1, <1>3 DEF Tipo, TipoIf, Completa, Tiene
    <3>3. ScanOK(hilo[t])' BY <1>1, <1>3, <1>4, <3>1, <3>2 DEF ScanOK
    <3> QED BY <3>1, <3>3 DEF ManualOK
  <2>2. ASSUME NEW tipo \in {"entrada", "salida"}, NEW h \in Momentos, CreateManual(t, o, tipo, h)
        PROVE ManualOK(hilo[t])' /\ ScanOK(hilo[t])'
    <3>1. /\ hilo'[t].pc = "manual" /\ hilo'[t].op = tipo /\ hilo'[t].obj = o /\ hilo'[t].ver = h
          /\ hilo'[t].otro = Cardinality(Del(o, DiaDe(h)))
      BY <2>2 DEF CreateManual, Reads, TypeOK, HilosOK
    <3>2. /\ AssertManualEntryIsAllowed(o, tipo, h)' /\ h <= Ahora'
      BY <1>1, <1>3, <2>2 DEF CreateManual, AssertManualEntryIsAllowed, Tiene, Ahora
    <3>3. ManualOK(hilo[t])' BY <1>3, <1>4, <3>1, <3>2 DEF ManualOK
    <3> QED BY <3>1, <3>3 DEF ScanOK
  <2> QED BY <2>1, <2>2
<1> QED BY <1>1, <1>2, <1>5, NoMark

\* The invariant of the marks is kept by everything the company does.
LEMMA DayStays ==
  ASSUME TypeOK, TypeOK', AccessOK, DayOK, [CompanyNext]_companyVars
  PROVE  DayOK'
<1> USE DEF companyVars, vars, accessVars, authVars, dayRows
<1>a. ASSUME UNCHANGED <<marcas, reloj>>, viejas \subseteq viejas',
             \A t \in Hilos : hilo'[t] = hilo[t] \/ hilo'[t].pc \notin DayPcs
      PROVE DayOK'
  <2>1. Ahora <= Ahora' BY <1>a, Clock DEF Ahora
  <2> QED BY <1>a, <2>1, NoMark
<1>b. ASSUME NEW P, HilosMove(P), P \cap DayPcs = {}
      PROVE \A t \in Hilos : hilo'[t] = hilo[t] \/ hilo'[t].pc \notin DayPcs
  BY <1>b DEF HilosMove
<1>1. CASE LimitsNext /\ UNCHANGED <<authVars, dayRows>>
  <2>1. ({"idle"} \cup RowPcs) \cap DayPcs = {} BY DEF RowPcs, DayPcs
  <2> QED BY <1>1, <1>a, <1>b, <2>1, LimitsType
<1>2. CASE SessionsNext /\ UNCHANGED dayRows
  <2>1. ({"idle"} \cup SesPcs \cup AltaPcs) \cap DayPcs = {}
    BY DEF SesPcs, LeePcs, AbrePcs, AltaPcs, DayPcs
  <2>2. viejas \subseteq viejas'
    BY <1>2 DEF SessionsNext, Register, ForgotPassword, UpdateStatus, RefreshOld, Logout, WrongCode, RightCode,
       WriteVersion, StartCompany, Rotate, WriteVersionAs, WriteMe, WritePassword, WritePasswordAs, RevokeTokens,
       WriteReset, CommitCompany, VerifyEmail, CreateCompany, Login, CreateRefreshToken, Refresh, UpdateMe,
       ChangeMyPassword, ResetPassword, Writes
  <2> QED BY <1>2, <1>a, <1>b, <2>1, <2>2, SessionsType
<1>3. CASE AccessNext \/ ShiftsNext
  <2>1. UNCHANGED <<marcas, reloj>> /\ viejas \subseteq viejas'
    BY <1>3, AttendanceKeeps DEF AccessNext, ShiftsNext, GenerateAccessToken, ResetDevice, ConfirmActivation,
       WriteDevice, FindByActivationToken, RegisterDevice, UpdateShift, AssignEmployees, OnlyHilo, OnlyAcceso
  <2>2. \A t \in Hilos : hilo'[t] = hilo[t] \/ hilo'[t].pc \notin DayPcs
    <3>1. ASSUME NEW t \in Hilos, NEW x, x.pc \notin DayPcs, hilo' = [hilo EXCEPT ![t] = x]
          PROVE \A u \in Hilos : hilo'[u] = hilo[u] \/ hilo'[u].pc \notin DayPcs
      BY <3>1 DEF TypeOK, HilosOK
    <3>2. Idle.pc \notin DayPcs BY IdleOK DEF DayPcs
    <3>3. ASSUME NEW t \in Hilos, ConfirmActivation(t) \/ WriteDevice(t)
          PROVE \A u \in Hilos : hilo'[u] = hilo[u] \/ hilo'[u].pc \notin DayPcs
      BY <3>1, <3>2, <3>3 DEF ConfirmActivation, WriteDevice, Writes
    <3>4. ASSUME NEW t \in Hilos, NEW o \in Objetos,
                 FindByActivationToken(t, o) \/ \E e \in Equipos : RegisterDevice(t, o, e)
          PROVE \A u \in Hilos : hilo'[u] = hilo[u] \/ hilo'[u].pc \notin DayPcs
      <4>1. PICK x : x.pc \notin DayPcs /\ hilo' = [hilo EXCEPT ![t] = x]
        BY <3>4 DEF FindByActivationToken, RegisterDevice, Reads, DayPcs
      <4> QED BY <3>1, <4>1
    <3>5. QED
      BY <1>3, <3>3, <3>4 DEF AccessNext, ShiftsNext, GenerateAccessToken, ResetDevice, UpdateShift, AssignEmployees
  <2> QED BY <1>a, <2>1, <2>2
<1>4. CASE MarksNext
  <2>1. CASE Tick BY <2>1, TimePasses, NoMark DEF Tick
  <2> QED BY <1>4, <2>1, ScanMarks, ManualMarks, ReadingIsGood DEF MarksNext
<1>5. CASE (RowsNext \/ AttendanceTurns) /\ UNCHANGED <<authVars, dayRows>>
  BY <1>5, <1>a, RowsType DEF AttendanceTurns
<1>6. CASE AccessNext2
  BY <1>6, <1>a, UsersType, PlatformType, AdminsType DEF AccessNext2, people, AttendanceTurns
<1>7. CASE UNCHANGED companyVars BY <1>7, <1>a DEF limitVars
<1> QED BY <1>1, <1>2, <1>3, <1>4, <1>5, <1>6, <1>7 DEF CompanyNext, Next, AttendanceNext

\* Of some marks one is the earliest: the one with a smallest set of marks before it.
LEMMA EarliestMark ==
  ASSUME TypeOK, NEW S, S \subseteq DOMAIN marcas, S # {}
  PROVE  \E i \in S : \A j \in S : marcas[i].hora <= marcas[j].hora
<1> DEFINE D == DOMAIN marcas
           W(i) == {j \in S : marcas[j].hora < marcas[i].hora}
           Ws == {W(i) : i \in S}
<1>1. \A i \in S : marcas[i].hora \in Nat BY DayNumbers
<1>2. IsFiniteSet(D) BY DayNumbers, FS_Interval
<1>3. IsWellFoundedOn(StrictSubsetOrdering(D), SUBSET D)
  BY <1>2, FS_StrictSubsetOrderingWellFounded, FS_FiniteSubsetsOfFinite
<1>4. Ws \subseteq SUBSET D /\ Ws # {} OBVIOUS
<1>5. PICK w \in Ws : \A v \in Ws : ~(<<v, w>> \in StrictSubsetOrdering(D))
  <2> HIDE DEF Ws
  <2> QED  BY <1>3, <1>4, WFMin
<1>6. PICK i \in S : w = W(i) OBVIOUS
<1>7. ASSUME NEW j \in S, marcas[j].hora < marcas[i].hora PROVE FALSE
  <2>1. W(j) \subseteq w /\ j \in w /\ j \notin W(j) /\ w \subseteq D BY <1>1, <1>6, <1>7
  <2>2. PICK v \in Ws : v = W(j) OBVIOUS
  <2>3. <<v, w>> \in StrictSubsetOrdering(D)
    <3>1. v \subseteq w /\ v # w /\ v \in SUBSET D /\ w \in SUBSET D BY <2>1, <2>2
    <3> HIDE DEF W, Ws
    <3> QED  BY <3>1 DEF StrictSubsetOrdering
  <2> HIDE DEF W, Ws
  <2> QED  BY <1>5, <2>3
<1> QED  BY <1>1, <1>7

\* The first entrance of some marks of a day is late when all of them are: both readers of a
\* day find it in the same state.
LEMMA ReadersAgree ==
  ASSUME TypeOK, NEW o \in Objetos, NEW d \in 1..UltimoDia, NEW S, S \subseteq Del(o, d)
  PROVE  BuildDayStatus(o, d, S) = GetAttendanceStatus(o, d, S)
<1> DEFINE E == DeTipo(S, "entrada")
           X == DeTipo(S, "salida")
           e == CHOOSE i \in E : \A j \in E : marcas[i].hora <= marcas[j].hora
           T == {marcas[i].tipo : i \in S}
<1>1. \A i \in S : /\ marcas[i].hora \in Nat /\ DiaDe(marcas[i].hora) = d
                   /\ marcas[i].tipo \in {"entrada", "salida"}
  BY DayNumbers DEF MarcajeRows, Del
<1>2. E # {} => e \in E /\ \A j \in E : marcas[e].hora <= marcas[j].hora
  <2>1. E \subseteq DOMAIN marcas BY DEF DeTipo, Del
  <2> HIDE DEF E
  <2> QED  BY <2>1, EarliestMark
<1>3. E # {} /\ acceso[o].turno # Ninguno
        => (Tarde(o, e) <=> ~ \E i \in S : marcas[i].tipo = "entrada" /\ ~Tarde(o, i))
  <2> SUFFICES ASSUME E # {}, acceso[o].turno # Ninguno
               PROVE Tarde(o, e) <=> ~ \E i \in S : marcas[i].tipo = "entrada" /\ ~Tarde(o, i)
    OBVIOUS
  <2>1. \A i : i \in E <=> i \in S /\ marcas[i].tipo = "entrada" BY DEF DeTipo
  <2>2. turnos[acceso[o].turno].entrada \in Nat
    <3>1. acceso[o] \in EmpleadoRows /\ turnos \in [Turnos -> TurnoRows]
      BY DEF TypeOK, PeopleOK, AttendanceTypeOK
    <3>2. acceso[o].turno \in Turnos BY <3>1 DEF EmpleadoRows
    <3>3. turnos[acceso[o].turno] \in TurnoRows BY <3>1, <3>2
    <3> QED  BY <3>3 DEF TurnoRows
  <2>3. e \in E /\ \A j \in E : marcas[e].hora <= marcas[j].hora BY <1>2
  <2> HIDE DEF E, e
  <2>4. PICK k : k = e OBVIOUS
  <2>5. \A i \in S : Tarde(o, i) <=> marcas[i].hora - d * (UltimaHora + 1) > turnos[acceso[o].turno].entrada
    BY <1>1 DEF Tarde, HoraDe
  <2>6. PICK z : z = d * (UltimaHora + 1) + turnos[acceso[o].turno].entrada /\ z \in Nat
    BY <2>2, AttendanceAssumption
  <2>7. \A i \in S : Tarde(o, i) <=> marcas[i].hora > z
    BY <1>1, <2>2, <2>5, <2>6, AttendanceAssumption
  <2> QED  BY <1>1, <2>1, <2>3, <2>4, <2>6, <2>7
<1>4. /\ (E # {} /\ X # {} <=> T = {"entrada", "salida"})
      /\ (E # {} \/ X # {} <=> T # {})
  BY <1>1 DEF DeTipo
<1> QED  BY <1>3, <1>4 DEF BuildDayStatus, GetAttendanceStatus

\* The marks say what they promise.
LEMMA MarksPromise == TypeOK /\ DayOK => MarksAgree
<1> SUFFICES ASSUME TypeOK, DayOK PROVE MarksAgree OBVIOUS
<1>1. OneEntryPerDay
  <2>1. CASE Fresco({"scan", "manual"})
    <3>1. ASSUME NEW o \in Objetos, NEW d \in 1..UltimoDia, NEW tipo \in {"entrada", "salida"}
          PROVE  Cardinality(DeTipo(Del(o, d), tipo)) <= 1
      <4>1. \A i, j \in DeTipo(Del(o, d), tipo) : i = j
        BY <2>1 DEF DayOK, MarksOK, SameDay, DeTipo, Del
      <4> QED BY <4>1, OneAtMost
    <3> QED BY <3>1 DEF OneEntryPerDay
  <2> QED BY <2>1 DEF Fresco, OneEntryPerDay
<1>2. ExitFollowsEntrance BY DEF DayOK, MarksOK, SameDay, Fresco, ExitFollowsEntrance
<1>3. DashboardAgrees BY ReadersAgree DEF DashboardAgrees
<1> QED BY <1>1, <1>2, <1>3 DEF MarksAgree

\* A day begins with no mark and no reading.
LEMMA DayInit == CompanyInit => DayOK
<1> SUFFICES ASSUME CompanyInit PROVE DayOK OBVIOUS
<1>1. marcas = <<>> /\ \A t \in Hilos : hilo[t] = Idle
  BY DEF CompanyInit, Init, LimitsInit, AttendanceInit
<1>2. \A t \in Hilos : ManualOK(hilo[t]) /\ ScanOK(hilo[t]) BY <1>1, IdleOK DEF ManualOK, ScanOK
<1>3. DOMAIN marcas = {} BY <1>1
<1> QED BY <1>2, <1>3 DEF DayOK, MarksOK

\* A worker has one entrance and one exit a day, the exit after the entrance, and everyone who
\* reads them sees the same (time-entries.service.ts, worker.service.ts), unless two marks of the
\* day were decided on the same reading or midnight passed between a scan and its writing:
\* whatever number of workers, devices, days and requests.
THEOREM MarksAgreeAlways == CompanySpec => []MarksAgree
  BY CompanyInitType, CompanyType, DayInit, DayStays, MarksPromise, PTL DEF CompanySpec

----------------------------------------
(* What is used of a resource.                                             *)

\* What rows are counted for.
Filados == Recursos \ Contados

\* What a row counts for is a number.
LEMMA CuentaNat == \A f \in FilaRows, r \in Filados : Cuenta(f, r) \in Nat
<1>1. ASSUME NEW f \in FilaRows, NEW r \in Filados PROVE Cuenta(f, r) \in Nat
  <2>1. f.n \in Nat BY DEF FilaRows
  <2>2. CASE r \in {"users", "attendanceEmployees", "attendanceQrPoints"} BY <2>2 DEF Cuenta
  <2>3. CASE r \in {"branches", "warehouses"} BY <2>3 DEF Cuenta
  <2>4. CASE r = "products" BY <2>4 DEF Cuenta
  <2>5. CASE r = "variants" BY <2>1, <2>5 DEF Cuenta
  <2> QED BY <2>2, <2>3, <2>4, <2>5 DEF Filados, Recursos
<1> QED BY <1>1

\* The units of a row are as many as it counts for.
LEMMA UnitsOf ==
  ASSUME NEW o, NEW k \in Nat
  PROVE  IsFiniteSet({o} \X (1..k)) /\ Cardinality({o} \X (1..k)) = k
<1>1. IsFiniteSet({o}) /\ Cardinality({o}) = 1 BY FS_Singleton
<1>2. IsFiniteSet(1..k) /\ Cardinality(1..k) = k BY FS_Interval
<1>3. /\ IsFiniteSet({o} \X (1..k))
      /\ Cardinality({o} \X (1..k)) = Cardinality({o}) * Cardinality(1..k)
  BY <1>1, <1>2, FS_Product, Zenon
<1>4. Cardinality({o}) * Cardinality(1..k) = 1 * k BY <1>1, <1>2
<1>5. 1 * k = k OBVIOUS
<1> QED BY <1>3, <1>4, <1>5

\* What finitely many rows count for is finite.
LEMMA UnitsFinite ==
  ASSUME NEW rows \in [Objetos -> FilaRows], NEW r \in Filados, NEW S \in SUBSET Objetos
  PROVE  IsFiniteSet(UNION {{o} \X (1..Cuenta(rows[o], r)) : o \in S})
<1> DEFINE f == [o \in S |-> {o} \X (1..Cuenta(rows[o], r))]
           T == {{o} \X (1..Cuenta(rows[o], r)) : o \in S}
<1>1. f \in Surjection(S, T) BY DEF Surjection
<1>2. IsFiniteSet(S) BY LimitsAssumption, FS_Subset
<1>3. IsFiniteSet(T) BY <1>1, <1>2, FS_Surjection
<1>4. \A u \in T : IsFiniteSet(u) BY ZenonT(40), UnitsOf, CuentaNat
<1> QED BY <1>3, <1>4, FS_UNION

\* A row apart, the units of the others are the same.
LEMMA UnitsApart ==
  ASSUME NEW rows \in [Objetos -> FilaRows], NEW r \in Filados, NEW o \in Objetos,
         NEW Rest, Rest = UNION {{u} \X (1..Cuenta(rows[u], r)) : u \in Objetos \ {o}}
  PROVE  UsadoEn(rows, r) \in Nat /\ UsadoEn(rows, r) = Cardinality(Rest) + Cuenta(rows[o], r)
         /\ Cardinality(Rest) \in Nat
<1> DEFINE Own == {o} \X (1..Cuenta(rows[o], r))
<1>1. Unidades(rows, r) = Rest \cup Own BY DEF Unidades
<1>2. Rest \cap Own = {} OBVIOUS
<1>3. IsFiniteSet(Rest)
  <2>1. IsFiniteSet(UNION {{u} \X (1..Cuenta(rows[u], r)) : u \in Objetos \ {o}}) BY UnitsFinite
  <2> QED BY <2>1
<1>4. Cuenta(rows[o], r) \in Nat BY CuentaNat
<1>5. IsFiniteSet(Own) /\ Cardinality(Own) = Cuenta(rows[o], r) BY <1>4, UnitsOf
<1>6. Cardinality(Rest \cup Own) = Cardinality(Rest) + Cardinality(Own) - Cardinality(Rest \cap Own)
  BY <1>3, <1>5, FS_Union
<1>7. Cardinality({}) = 0 BY FS_EmptySet
<1>8. Cardinality(Rest) \in Nat BY <1>3, FS_CardinalityType
<1>9. UsadoEn(rows, r) = Cardinality(Rest \cup Own) BY <1>1 DEF UsadoEn
<1>10. Cardinality(Rest \cap Own) = 0 BY <1>2, <1>7
<1>11. UsadoEn(rows, r) = Cardinality(Rest) + Cuenta(rows[o], r)
  BY <1>4, <1>5, <1>6, <1>8, <1>9, <1>10
<1> QED BY <1>4, <1>8, <1>11

\* A row is written: what is used changes by what it counts for.
LEMMA OneRow ==
  ASSUME NEW rows \in [Objetos -> FilaRows], NEW r \in Filados, NEW o \in Objetos, NEW x \in FilaRows
  PROVE  /\ UsadoEn(rows, r) \in Nat /\ UsadoEn([rows EXCEPT ![o] = x], r) \in Nat
         /\ UsadoEn([rows EXCEPT ![o] = x], r) + Cuenta(rows[o], r) = UsadoEn(rows, r) + Cuenta(x, r)
<1>1. PICK next : next = [rows EXCEPT ![o] = x] OBVIOUS
<1>2. next \in [Objetos -> FilaRows] /\ next[o] = x /\ \A u \in Objetos \ {o} : next[u] = rows[u]
  BY <1>1
<1>3. PICK Rest : Rest = UNION {{u} \X (1..Cuenta(rows[u], r)) : u \in Objetos \ {o}} OBVIOUS
<1>4. {{u} \X (1..Cuenta(rows[u], r)) : u \in Objetos \ {o}} = {{u} \X (1..Cuenta(next[u], r)) : u \in Objetos \ {o}}
  BY <1>2
<1>5. Rest = UNION {{u} \X (1..Cuenta(next[u], r)) : u \in Objetos \ {o}} BY <1>3, <1>4
<1>6. UsadoEn(rows, r) \in Nat /\ UsadoEn(rows, r) = Cardinality(Rest) + Cuenta(rows[o], r) /\ Cardinality(Rest) \in Nat
  BY <1>3, UnitsApart
<1>7. UsadoEn(next, r) \in Nat /\ UsadoEn(next, r) = Cardinality(Rest) + Cuenta(next[o], r)
  BY <1>2, <1>5, UnitsApart
<1>8. Cuenta(rows[o], r) \in Nat /\ Cuenta(x, r) \in Nat BY CuentaNat
<1> QED BY <1>1, <1>2, <1>6, <1>7, <1>8

----------------------------------------
(* Nothing grows beyond its limit.                                         *)

\* The rows are those of the day, or users; a row that is changed was there when it was read;
\* and an account is registered where nothing is used and a plan is alive.
ClaseFit == \A o \in Objetos : filas[o].clase \in {dia.clases[o], "users"}
HiloFit ==
  \A t \in Hilos : /\ hilo[t].pc = "fila" => hilo[t].fila.estado \notin {"libre", "borrado"}
                   /\ hilo[t].pc = "borrar" => dia.clases[hilo[t].obj] = "productos"
AltaFit ==
  dia.que = "alta" =>
    /\ vigente /\ limite["users"] = MaxLimite
    /\ cuenta.clave = 0 => \A o \in Objetos : filas[o].estado = "libre"
RowsFit == ClaseFit /\ HiloFit /\ AltaFit

Grown ==
  \A r \in Recursos \ {"documents"} :
    Usado(r)' > Usado(r) => (vigente /\ Usado(r)' <= GetEffectiveLimits(r)) \/ WritesOldRow

\* There is room for what the row x counts for beyond the row that is there.
Fits(o, x) ==
  \A r \in Filados :
    Cuenta(x, r) > Cuenta(filas[o], r)
      => AssertResourceLimits(r, Cuenta(x, r) - Cuenta(filas[o], r))

\* What each kind of row counts for.
LEMMA CuentaDe ==
  ASSUME NEW f \in FilaRows
  PROVE  /\ Cuenta(f, "users") = IF f.clase = "users" /\ f.estado = "activo" THEN 1 ELSE 0
         /\ Cuenta(f, "attendanceEmployees") = IF f.clase = "employees" /\ f.estado = "activo" THEN 1 ELSE 0
         /\ Cuenta(f, "attendanceQrPoints") = IF f.clase = "qrPoints" /\ f.estado = "activo" THEN 1 ELSE 0
         /\ Cuenta(f, "branches") = IF f.clase = "sucursales" /\ f.estado # "libre" /\ f.tipo # "almacen" THEN 1 ELSE 0
         /\ Cuenta(f, "warehouses") = IF f.clase = "sucursales" /\ f.estado # "libre" /\ f.tipo = "almacen" THEN 1 ELSE 0
         /\ Cuenta(f, "products") = IF f.clase = "productos" /\ f.estado = "activo" THEN 1 ELSE 0
         /\ Cuenta(f, "variants") = IF f.clase = "productos" THEN f.n ELSE 0
<1>1. Cuenta(f, "users") = IF f.clase = "users" /\ f.estado = "activo" THEN 1 ELSE 0 BY DEF Cuenta
<1>2. Cuenta(f, "attendanceEmployees") = IF f.clase = "employees" /\ f.estado = "activo" THEN 1 ELSE 0
  BY DEF Cuenta
<1>3. Cuenta(f, "attendanceQrPoints") = IF f.clase = "qrPoints" /\ f.estado = "activo" THEN 1 ELSE 0
  BY DEF Cuenta
<1>4. Cuenta(f, "branches") = IF f.clase = "sucursales" /\ f.estado # "libre" /\ f.tipo # "almacen" THEN 1 ELSE 0
  BY DEF Cuenta
<1>5. Cuenta(f, "warehouses") = IF f.clase = "sucursales" /\ f.estado # "libre" /\ f.tipo = "almacen" THEN 1 ELSE 0
  BY DEF Cuenta
<1>6. Cuenta(f, "products") = IF f.clase = "productos" /\ f.estado = "activo" THEN 1 ELSE 0
  BY DEF Cuenta
<1>7. Cuenta(f, "variants") = IF f.clase = "productos" THEN f.n ELSE 0 BY DEF Cuenta
<1> QED BY <1>1, <1>2, <1>3, <1>4, <1>5, <1>6, <1>7

\* A row that fits is written: nothing grows beyond its limit.
LEMMA FitsGrows ==
  ASSUME LimitsTypeOK, NEW o \in Objetos, NEW x \in FilaRows, Fits(o, x),
         filas' = [filas EXCEPT ![o] = x], UNCHANGED mes
  PROVE  Grown
<1> SUFFICES ASSUME NEW r \in Recursos, Usado(r)' > Usado(r)
             PROVE  vigente /\ Usado(r)' <= GetEffectiveLimits(r)
  BY DEF Grown
<1>1. CASE r \in Contados
  <2>1. Usado(r)' = Usado(r) /\ Usado(r) \in Nat BY <1>1 DEF Usado, LimitsTypeOK, UsoMensualRows
  <2> QED BY <2>1
<1>2. CASE r \in Filados
  <2>1. filas \in [Objetos -> FilaRows] /\ filas[o] \in FilaRows BY DEF LimitsTypeOK
  <2>2. Usado(r) = UsadoEn(filas, r) /\ Usado(r)' = UsadoEn(filas', r) BY <1>2 DEF Usado, Filados
  <2>3. /\ UsadoEn(filas, r) \in Nat /\ UsadoEn(filas', r) \in Nat
        /\ UsadoEn(filas', r) + Cuenta(filas[o], r) = UsadoEn(filas, r) + Cuenta(x, r)
    BY <1>2, <2>1, OneRow
  <2>4. Cuenta(filas[o], r) \in Nat /\ Cuenta(x, r) \in Nat BY <1>2, <2>1, CuentaNat
  <2>5. Cuenta(x, r) > Cuenta(filas[o], r) BY <2>2, <2>3, <2>4
  <2>6. AssertResourceLimits(r, Cuenta(x, r) - Cuenta(filas[o], r)) BY <1>2, <2>5 DEF Fits
  <2>7. vigente /\ Usado(r) + (Cuenta(x, r) - Cuenta(filas[o], r)) <= GetEffectiveLimits(r)
    BY <2>4, <2>5, <2>6 DEF AssertResourceLimits
  <2> QED BY <2>2, <2>3, <2>4, <2>7
<1> QED BY <1>1, <1>2 DEF Filados

\* What is used is a number.
LEMMA UsadoNat ==
  ASSUME LimitsTypeOK, NEW r \in Recursos
  PROVE  Usado(r) \in Nat
<1>1. CASE r \in Contados BY <1>1 DEF Usado, LimitsTypeOK, UsoMensualRows
<1>2. CASE r \in Filados
  <2>1. filas \in [Objetos -> FilaRows] /\ Objetos \subseteq Objetos BY DEF LimitsTypeOK
  <2>2. IsFiniteSet(UNION {{o} \X (1..Cuenta(filas[o], r)) : o \in Objetos})
    BY <1>2, <2>1, UnitsFinite
  <2>3. Cardinality(Unidades(filas, r)) \in Nat BY <2>2, FS_CardinalityType DEF Unidades
  <2> QED BY <1>2, <2>3 DEF Usado, UsadoEn, Filados
<1> QED BY <1>1, <1>2 DEF Filados

\* Nothing is written: nothing grows.
LEMMA NothingGrows ==
  ASSUME LimitsTypeOK, UNCHANGED <<filas, mes>>
  PROVE  Grown
<1>1. \A r \in Recursos : Usado(r)' = Usado(r) BY DEF Usado, UsadoEn, Unidades
<1>2. \A r \in Recursos : Usado(r) \in Nat BY UsadoNat
<1> QED BY <1>1, <1>2 DEF Grown

\* A user, a worker or a QR point is written in a state for which there is room.
LEMMA StateFits ==
  ASSUME LimitsTypeOK, NEW o \in Objetos, NEW e \in {"libre", "activo", "inactivo", "borrado"},
         filas[o].clase \in {"users", "employees", "qrPoints"},
         e = "activo" /\ filas[o].estado # "activo" => AssertResourceLimits(RecursoDe(filas[o].clase), 1)
  PROVE  [filas[o] EXCEPT !.estado = e] \in FilaRows /\ Fits(o, [filas[o] EXCEPT !.estado = e])
<1>1. PICK x : x = [filas[o] EXCEPT !.estado = e] OBVIOUS
<1>2. filas[o] \in FilaRows BY DEF LimitsTypeOK
<1>3. x \in FilaRows /\ x.clase = filas[o].clase /\ x.estado = e BY <1>1, <1>2 DEF FilaRows
<1>4. ASSUME NEW r \in Filados, Cuenta(x, r) > Cuenta(filas[o], r)
      PROVE  AssertResourceLimits(r, Cuenta(x, r) - Cuenta(filas[o], r))
  <2>1. /\ r = RecursoDe(filas[o].clase) /\ e = "activo" /\ filas[o].estado # "activo"
        /\ Cuenta(x, r) = 1 /\ Cuenta(filas[o], r) = 0
    BY <1>2, <1>3, <1>4, CuentaDe DEF RecursoDe, Filados, Recursos, Contados
  <2>2. AssertResourceLimits(r, 1) /\ Cuenta(x, r) - Cuenta(filas[o], r) = 1 BY <2>1
  <2> QED BY <2>2
<1> QED BY <1>1, <1>3, <1>4 DEF Fits

\* A new user, worker or QR point for which there is room.
LEMMA NewFits ==
  ASSUME LimitsTypeOK, NEW o \in Objetos, NEW e \in {"activo", "inactivo"}, filas[o].estado = "libre",
         NEW c \in {"users", "employees", "qrPoints"},
         e = "activo" => AssertResourceLimits(RecursoDe(c), 1)
  PROVE  Fila(c, e) \in FilaRows /\ Fits(o, Fila(c, e))
<1>1. PICK x : x = Fila(c, e) OBVIOUS
<1>2. filas[o] \in FilaRows /\ filas[o].n \in Nat BY DEF LimitsTypeOK, FilaRows
<1>3. x \in FilaRows /\ x.clase = c /\ x.estado = e /\ x.n = 0
  BY <1>1 DEF Fila, FilaRows, Clases, Tipos
<1>4. ASSUME NEW r \in Filados, Cuenta(x, r) > Cuenta(filas[o], r)
      PROVE  AssertResourceLimits(r, Cuenta(x, r) - Cuenta(filas[o], r))
  <2>1. r = RecursoDe(c) /\ e = "activo" /\ Cuenta(x, r) = 1 /\ Cuenta(filas[o], r) = 0
    BY <1>2, <1>3, <1>4, CuentaDe DEF RecursoDe, Filados, Recursos, Contados
  <2>2. AssertResourceLimits(r, 1) /\ Cuenta(x, r) - Cuenta(filas[o], r) = 1 BY <2>1
  <2> QED BY <2>2
<1> QED BY <1>1, <1>3, <1>4 DEF Fits

\* Room for more is room for less.
LEMMA RoomForLess ==
  ASSUME LimitsTypeOK, NEW r \in Recursos, NEW k \in Nat, NEW j \in Nat, AssertResourceLimits(r, k)
  PROVE  AssertResourceLimits(r, k - j)
<1>1. Usado(r) \in Nat BY UsadoNat
<1>2. GetEffectiveLimits(r) \in Nat BY DEF GetEffectiveLimits, LimitsTypeOK, PlanLimiteRows
<1> QED BY <1>1, <1>2 DEF AssertResourceLimits

\* A branch changes its kind where there is room for it, and stays a branch.
LEMMA BranchFits ==
  ASSUME LimitsTypeOK, NEW o \in Objetos, NEW e \in {"activo", "inactivo"}, NEW tipo \in Tipos,
         filas[o].clase = "sucursales", filas[o].estado # "libre",
         tipo # filas[o].tipo => AssertResourceLimits(RecursoSucursal(tipo), 1)
  PROVE  /\ [filas[o] EXCEPT !.tipo = tipo, !.estado = e] \in FilaRows
         /\ Fits(o, [filas[o] EXCEPT !.tipo = tipo, !.estado = e])
<1>1. PICK x : x = [filas[o] EXCEPT !.tipo = tipo, !.estado = e] OBVIOUS
<1>2. filas[o] \in FilaRows BY DEF LimitsTypeOK
<1>3. x \in FilaRows /\ x.clase = "sucursales" /\ x.estado = e /\ x.tipo = tipo
  BY <1>1, <1>2 DEF FilaRows
<1>4. ASSUME NEW r \in Filados, Cuenta(x, r) > Cuenta(filas[o], r)
      PROVE  AssertResourceLimits(r, Cuenta(x, r) - Cuenta(filas[o], r))
  <2>1. r = RecursoSucursal(tipo) /\ tipo # filas[o].tipo /\ Cuenta(x, r) = 1 /\ Cuenta(filas[o], r) = 0
    BY <1>2, <1>3, <1>4, CuentaDe DEF RecursoSucursal, Filados, Recursos, Contados
  <2>2. AssertResourceLimits(r, 1) /\ Cuenta(x, r) - Cuenta(filas[o], r) = 1 BY <2>1
  <2> QED BY <2>2
<1> QED BY <1>1, <1>3, <1>4 DEF Fits

\* A new branch of a kind there is room for.
LEMMA NewBranchFits ==
  ASSUME LimitsTypeOK, NEW o \in Objetos, NEW tipo \in Tipos, filas[o].estado = "libre",
         AssertResourceLimits(RecursoSucursal(tipo), 1)
  PROVE  /\ [Fila("sucursales", "activo") EXCEPT !.tipo = tipo] \in FilaRows
         /\ Fits(o, [Fila("sucursales", "activo") EXCEPT !.tipo = tipo])
<1>1. PICK x : x = [Fila("sucursales", "activo") EXCEPT !.tipo = tipo] OBVIOUS
<1>2. filas[o] \in FilaRows /\ filas[o].n \in Nat BY DEF LimitsTypeOK, FilaRows
<1>3. x \in FilaRows /\ x.clase = "sucursales" /\ x.estado = "activo" /\ x.tipo = tipo
  BY <1>1 DEF Fila, FilaRows, Clases, Tipos
<1>4. ASSUME NEW r \in Filados, Cuenta(x, r) > Cuenta(filas[o], r)
      PROVE  AssertResourceLimits(r, Cuenta(x, r) - Cuenta(filas[o], r))
  <2>1. r = RecursoSucursal(tipo) /\ Cuenta(x, r) = 1 /\ Cuenta(filas[o], r) = 0
    BY <1>2, <1>3, <1>4, CuentaDe DEF RecursoSucursal, Filados, Recursos, Contados
  <2>2. AssertResourceLimits(r, 1) /\ Cuenta(x, r) - Cuenta(filas[o], r) = 1 BY <2>1
  <2> QED BY <2>2
<1> QED BY <1>1, <1>3, <1>4 DEF Fits

\* A new product, when there is room for it and for its variants.
LEMMA NewProductFits ==
  ASSUME LimitsTypeOK, NEW o \in Objetos, NEW k \in Nat, filas[o].estado = "libre",
         AssertResourceLimits("products", 1), AssertResourceLimits("variants", k)
  PROVE  /\ [Fila("productos", "activo") EXCEPT !.n = k] \in FilaRows
         /\ Fits(o, [Fila("productos", "activo") EXCEPT !.n = k])
<1>1. PICK x : x = [Fila("productos", "activo") EXCEPT !.n = k] OBVIOUS
<1>2. filas[o] \in FilaRows /\ filas[o].n \in Nat BY DEF LimitsTypeOK, FilaRows
<1>3. x \in FilaRows /\ x.clase = "productos" /\ x.estado = "activo" /\ x.n = k
  BY <1>1 DEF Fila, FilaRows, Clases, Tipos
<1>4. ASSUME NEW r \in Filados, Cuenta(x, r) > Cuenta(filas[o], r)
      PROVE  AssertResourceLimits(r, Cuenta(x, r) - Cuenta(filas[o], r))
  <2>1. r = "products" \/ r = "variants"
    BY <1>2, <1>3, <1>4, CuentaDe DEF Filados, Recursos, Contados
  <2>2. CASE r = "products"
    <3>1. Cuenta(x, r) - Cuenta(filas[o], r) = 1 BY <1>2, <1>3, <2>2, CuentaDe
    <3> QED BY <2>2, <3>1
  <2>3. CASE r = "variants"
    <3>1. Cuenta(x, r) = k /\ Cuenta(filas[o], r) \in Nat BY <1>2, <1>3, <2>3, CuentaDe
    <3> QED BY <2>3, <3>1, RoomForLess DEF Recursos
  <2> QED BY <2>1, <2>2, <2>3
<1> QED BY <1>1, <1>3, <1>4 DEF Fits

\* The variants of a product change where there is room for those that come.
LEMMA VariantsFit ==
  ASSUME LimitsTypeOK, NEW o \in Objetos, NEW k \in Nat, filas[o].clase = "productos",
         AssertResourceLimits("variants", k - filas[o].n)
  PROVE  [filas[o] EXCEPT !.n = k] \in FilaRows /\ Fits(o, [filas[o] EXCEPT !.n = k])
<1>1. PICK x : x = [filas[o] EXCEPT !.n = k] OBVIOUS
<1>2. filas[o] \in FilaRows /\ filas[o].n \in Nat BY DEF LimitsTypeOK, FilaRows
<1>3. x \in FilaRows /\ x.clase = "productos" /\ x.estado = filas[o].estado /\ x.n = k
  BY <1>1, <1>2 DEF FilaRows
<1>4. ASSUME NEW r \in Filados, Cuenta(x, r) > Cuenta(filas[o], r)
      PROVE  AssertResourceLimits(r, Cuenta(x, r) - Cuenta(filas[o], r))
  <2>1. r = "variants" /\ Cuenta(x, r) = k /\ Cuenta(filas[o], r) = filas[o].n
    BY <1>2, <1>3, <1>4, CuentaDe DEF Filados, Recursos, Contados
  <2> QED BY <2>1
<1> QED BY <1>1, <1>3, <1>4 DEF Fits

\* What is removed leaves room.
LEMMA RemovalFits ==
  ASSUME LimitsTypeOK, NEW o \in Objetos
  PROVE  /\ filas[o].clase \in {"productos", "users"} =>
              /\ [filas[o] EXCEPT !.estado = "borrado", !.n = 0] \in FilaRows
              /\ Fits(o, [filas[o] EXCEPT !.estado = "borrado", !.n = 0])
         /\ filas[o].clase = "sucursales" /\ filas[o].estado # "libre" =>
              /\ [filas[o] EXCEPT !.estado = "inactivo"] \in FilaRows
              /\ Fits(o, [filas[o] EXCEPT !.estado = "inactivo"])
<1>1. PICK x : x = [filas[o] EXCEPT !.estado = "borrado", !.n = 0] OBVIOUS
<1>2. PICK y : y = [filas[o] EXCEPT !.estado = "inactivo"] OBVIOUS
<1>3. filas[o] \in FilaRows /\ filas[o].n \in Nat BY DEF LimitsTypeOK, FilaRows
<1>4. x \in FilaRows /\ x.clase = filas[o].clase /\ x.estado = "borrado" /\ x.n = 0
  BY <1>1, <1>3 DEF FilaRows
<1>5. /\ y \in FilaRows /\ y.clase = filas[o].clase /\ y.estado = "inactivo" /\ y.n = filas[o].n
      /\ y.tipo = filas[o].tipo
  BY <1>2, <1>3 DEF FilaRows
<1>6. ASSUME NEW r \in Filados, filas[o].clase \in {"productos", "users"}
      PROVE  ~(Cuenta(x, r) > Cuenta(filas[o], r))
  BY <1>3, <1>4, <1>6, CuentaDe DEF Filados, Recursos, Contados
<1>7. ASSUME NEW r \in Filados, filas[o].clase = "sucursales", filas[o].estado # "libre"
      PROVE  ~(Cuenta(y, r) > Cuenta(filas[o], r))
  BY <1>3, <1>5, <1>7, CuentaDe DEF Filados, Recursos, Contados
<1> QED BY <1>1, <1>2, <1>4, <1>5, <1>6, <1>7 DEF Fits

\* A request that writes over a row it read otherwise.
LEMMA OldRow ==
  ASSUME HilosOK, NEW t \in Hilos, hilo[t].pc = "fila", Ends(t), hilo[t].fila # filas[hilo[t].obj]
  PROVE  Grown
<1>1. hilo'[t] = Idle BY DEF HilosOK, Ends
<1>2. WritesOldRow BY <1>1 DEF WritesOldRow
<1> QED BY <1>2 DEF Grown

\* Users, workers and QR points are made and removed within the limit.
LEMMA RowsGrow ==
  ASSUME LimitsTypeOK, RowsFit, RowsNext
  PROVE  Grown
<1>1. ASSUME NEW o \in Objetos, NEW c \in {"users", "employees", "qrPoints"}, NEW e \in {"activo", "inactivo"},
             CreateRow(o, c, e)
      PROVE  Grown
  <2>1. Fila(c, e) \in FilaRows /\ Fits(o, Fila(c, e)) BY <1>1, NewFits DEF CreateRow
  <2> QED BY <1>1, <2>1, FitsGrows DEF CreateRow
<1>2. ASSUME NEW o \in Objetos, NEW c \in {"users", "employees", "qrPoints"}, NEW e \in {"libre", "inactivo"},
             RemoveRow(o, c, e)
      PROVE  Grown
  <2>1. PICK x : x = [filas[o] EXCEPT !.estado = e] OBVIOUS
  <2>2. x \in FilaRows /\ Fits(o, x) BY <1>2, <2>1, StateFits DEF RemoveRow
  <2>3. filas' = [filas EXCEPT ![o] = x] /\ UNCHANGED mes BY <1>2, <2>1 DEF RemoveRow, LimitsTypeOK
  <2> QED BY <2>2, <2>3, FitsGrows
<1>3. QED
  BY <1>1, <1>2 DEF RowsNext, CreateUser, CreateEmployee, CreateQrPoint, RemoveUser, RemoveEmployee, RemoveQrPoint, Estados

\* Nothing grows beyond its limit by a step of PlanLimits.
LEMMA LimitsGrow ==
  ASSUME LimitsTypeOK, HilosOK, RowsFit, LimitsNext
  PROVE  Grown
<1> USE DEF limitRows
<1>1. CASE RowsNext BY <1>1, RowsGrow
<1>2. ASSUME NEW t \in Hilos, NEW o \in Objetos, ReadRow(t, o) \/ ReadRemoval(t, o) PROVE Grown
  BY <1>2, NothingGrows DEF ReadRow, ReadRemoval
<1>t. \A t \in Hilos : /\ hilo[t] \in ThreadRows /\ hilo[t].fila \in FilaRows
                       /\ hilo[t].pc \in RowPcs => hilo[t].obj \in Objetos
  BY DEF HilosOK, ThreadOK, ThreadRows
<1>3. ASSUME NEW t \in Hilos, NEW c \in {"users", "employees", "qrPoints"},
             NEW e \in {"libre", "activo", "inactivo", "borrado"},
             NEW needs, e = "activo" /\ hilo[t].fila.estado # "activo" => needs, WriteRow(t, c, e, needs)
      PROVE  Grown
  <2>1. CASE hilo[t].fila # filas[hilo[t].obj] BY <1>3, <2>1, OldRow DEF WriteRow
  <2>2. CASE hilo[t].fila = filas[hilo[t].obj]
    <3>1. PICK o \in Objetos : o = hilo[t].obj BY <1>3, <1>t DEF WriteRow, RowPcs
    <3>2. PICK x : x = [filas[o] EXCEPT !.estado = e] OBVIOUS
    <3>3. filas[o].clase = c /\ (e = "activo" /\ filas[o].estado # "activo" => AssertResourceLimits(RecursoDe(c), 1))
      BY <1>3, <2>2, <3>1 DEF WriteRow
    <3>4. x \in FilaRows /\ Fits(o, x) BY <3>2, <3>3, StateFits
    <3>5. filas' = [filas EXCEPT ![o] = x] /\ UNCHANGED mes
      BY <1>3, <3>1, <3>2 DEF WriteRow, LimitsTypeOK
    <3> QED BY <3>4, <3>5, FitsGrows
  <2> QED BY <2>1, <2>2
<1>4. ASSUME NEW t \in Hilos, NEW e \in Estados,
             \/ UpdateEmployee(t) \/ UpdateQrPoint(t)
             \/ UpdateUserStatus(t, e) \/ UpdateEmployeeStatus(t, e) \/ UpdateQrPointStatus(t, e)
      PROVE Grown
  <2>1. hilo[t].fila.estado \in {"libre", "activo", "inactivo", "borrado"} BY <1>t DEF FilaRows
  <2>2. CASE UpdateEmployee(t) \/ UpdateQrPoint(t)
    <3>1. CASE hilo[t].fila.estado = "activo"
      BY <2>1, <2>2, <3>1, <1>3 DEF UpdateEmployee, UpdateQrPoint
    <3>2. CASE hilo[t].fila.estado # "activo"
      BY <2>1, <2>2, <3>2, <1>3 DEF UpdateEmployee, UpdateQrPoint
    <3> QED BY <3>1, <3>2
  <2>3. CASE UpdateUserStatus(t, e) BY <2>3, <1>3 DEF UpdateUserStatus, NeedsRoom, Estados
  <2>4. CASE UpdateEmployeeStatus(t, e) BY <2>4, <1>3 DEF UpdateEmployeeStatus, NeedsRoom, Estados
  <2>5. CASE UpdateQrPointStatus(t, e) BY <2>5, <1>3 DEF UpdateQrPointStatus, NeedsRoom, Estados
  <2> QED BY <1>4, <2>2, <2>3, <2>4, <2>5
<1>5. ASSUME NEW t \in Hilos, RemoveProduct(t) PROVE Grown
  <2>1. PICK o \in Objetos : o = hilo[t].obj BY <1>5, <1>t DEF RemoveProduct, RowPcs
  <2>2. filas[o].clase \in {"productos", "users"}
    BY <1>5, <2>1 DEF RemoveProduct, RowsFit, ClaseFit, HiloFit, AltaFit
  <2>3. PICK x : x = [filas[o] EXCEPT !.estado = "borrado", !.n = 0] OBVIOUS
  <2>4. x \in FilaRows /\ Fits(o, x) BY <2>2, <2>3, RemovalFits
  <2>5. filas' = [filas EXCEPT ![o] = x] /\ UNCHANGED mes
    BY <1>5, <2>1, <2>3 DEF RemoveProduct, LimitsTypeOK
  <2> QED BY <2>4, <2>5, FitsGrows
<1>6. ASSUME NEW t \in Hilos, NEW e \in Estados, NEW tipo \in Tipos, WriteBranch(t, tipo, e) PROVE Grown
  <2>1. CASE hilo[t].fila # filas[hilo[t].obj] BY <1>6, <2>1, OldRow DEF WriteBranch
  <2>2. CASE hilo[t].fila = filas[hilo[t].obj]
    <3>1. PICK o \in Objetos : o = hilo[t].obj BY <1>6, <1>t DEF WriteBranch, RowPcs
    <3>2. PICK x : x = [filas[o] EXCEPT !.tipo = tipo, !.estado = e] OBVIOUS
    <3>3. /\ filas[o].clase = "sucursales" /\ filas[o].estado # "libre"
          /\ tipo # filas[o].tipo => AssertResourceLimits(RecursoSucursal(tipo), 1)
      BY <1>6, <2>2, <3>1 DEF WriteBranch, RowsFit, ClaseFit, HiloFit, AltaFit
    <3>4. x \in FilaRows /\ Fits(o, x) BY <3>2, <3>3, BranchFits DEF Estados
    <3>5. filas' = [filas EXCEPT ![o] = x] /\ UNCHANGED mes
      BY <1>6, <3>1, <3>2 DEF WriteBranch, LimitsTypeOK
    <3> QED BY <3>4, <3>5, FitsGrows
  <2> QED BY <2>1, <2>2
<1>7. ASSUME NEW o \in Objetos, RemoveBranch(o) PROVE Grown
  <2>1. PICK x : x = [filas[o] EXCEPT !.estado = "inactivo"] OBVIOUS
  <2>2. x \in FilaRows /\ Fits(o, x) BY <1>7, <2>1, RemovalFits DEF RemoveBranch, RemoveRow
  <2>3. filas' = [filas EXCEPT ![o] = x] /\ UNCHANGED mes
    BY <1>7, <2>1 DEF RemoveBranch, RemoveRow, LimitsTypeOK
  <2> QED BY <2>2, <2>3, FitsGrows
<1>8. ASSUME NEW o \in Objetos, NEW tipo \in Tipos, CreateBranch(o, tipo) PROVE Grown
  <2>1. PICK x : x = [Fila("sucursales", "activo") EXCEPT !.tipo = tipo] OBVIOUS
  <2>2. x \in FilaRows /\ Fits(o, x) BY <1>8, <2>1, NewBranchFits DEF CreateBranch
  <2>3. filas' = [filas EXCEPT ![o] = x] /\ UNCHANGED mes BY <1>8, <2>1 DEF CreateBranch
  <2> QED BY <2>2, <2>3, FitsGrows
<1>9. ASSUME NEW o \in Objetos, NEW k \in 1..2, CreateProduct(o, k) PROVE Grown
  <2>1. PICK x : x = [Fila("productos", "activo") EXCEPT !.n = k] OBVIOUS
  <2>2. k \in Nat OBVIOUS
  <2>3. x \in FilaRows /\ Fits(o, x) BY <1>9, <2>1, <2>2, NewProductFits DEF CreateProduct
  <2>4. filas' = [filas EXCEPT ![o] = x] /\ UNCHANGED mes BY <1>9, <2>1 DEF CreateProduct
  <2> QED BY <2>3, <2>4, FitsGrows
<1>10. ASSUME NEW t \in Hilos, NEW k \in 1..2, WriteProduct(t, k) PROVE Grown
  <2>1. CASE hilo[t].fila # filas[hilo[t].obj] BY <1>10, <2>1, OldRow DEF WriteProduct
  <2>2. CASE hilo[t].fila = filas[hilo[t].obj]
    <3>1. PICK o \in Objetos : o = hilo[t].obj BY <1>10, <1>t DEF WriteProduct, RowPcs
    <3>2. PICK x : x = [filas[o] EXCEPT !.n = k] OBVIOUS
    <3>3. filas[o].clase = "productos" /\ AssertResourceLimits("variants", k - filas[o].n) /\ k \in Nat
      BY <1>10, <2>2, <3>1 DEF WriteProduct
    <3>4. x \in FilaRows /\ Fits(o, x) BY <3>2, <3>3, VariantsFit
    <3>5. filas' = [filas EXCEPT ![o] = x] /\ UNCHANGED mes
      BY <1>10, <3>1, <3>2 DEF WriteProduct, LimitsTypeOK
    <3> QED BY <3>4, <3>5, FitsGrows
  <2> QED BY <2>1, <2>2
<1>11. ASSUME AssessDocumentAllowance \/ RecordDocumentQuery \/ GetDocumentRange PROVE Grown
  <2>1. \A r \in Filados : Usado(r)' = Usado(r) /\ Usado(r) \in Nat
    BY <1>11, UsadoNat DEF AssessDocumentAllowance, RecordDocumentQuery, GetDocumentRange, Usado, UsadoEn, Unidades, Filados
  <2>2. Usado("documentQueries") = mes["documentQueries"] /\ Usado("documentQueries")' = mes'["documentQueries"]
    BY DEF Usado, Contados
  <2>3. mes \in [Contados -> Nat] /\ mes["documentQueries"] \in Nat /\ limite["documentQueries"] \in Nat
    BY DEF LimitsTypeOK, UsoMensualRows, Contados, PlanLimiteRows, Recursos
  <2>4. GetEffectiveLimits("documentQueries") = limite["documentQueries"] BY DEF GetEffectiveLimits
  <2>5. CASE AssessDocumentAllowance
    <3>1. mes'["documentQueries"] = mes["documentQueries"]
      BY <2>3, <2>5 DEF AssessDocumentAllowance, Contados
    <3> QED BY <2>1, <2>2, <2>3, <3>1 DEF Grown, Filados, Contados
  <2>6. CASE RecordDocumentQuery
    <3>1. mes'["documentQueries"] = mes["documentQueries"] + 1
      BY <2>3, <2>6 DEF RecordDocumentQuery, Contados
    <3>2. vigente /\ Usado("documentQueries")' <= GetEffectiveLimits("documentQueries")
      BY <2>2, <2>3, <2>4, <2>6, <3>1 DEF RecordDocumentQuery
    <3> QED BY <2>1, <3>2 DEF Grown, Filados, Contados
  <2>7. CASE GetDocumentRange
    <3>1. mes'["documentQueries"] = 0 BY <2>7 DEF GetDocumentRange, Contados
    <3> QED BY <2>1, <2>2, <2>3, <3>1 DEF Grown, Filados, Contados
  <2> QED BY <1>11, <2>5, <2>6, <2>7
<1>12. ASSUME NEW r \in Recursos, NEW n \in 0..MaxLimite, UpdateLimits(r, n) \/ UpdateCompanyLimits(r, n) PROVE Grown
  BY <1>12, NothingGrows DEF UpdateLimits, UpdateCompanyLimits, SetLimit
<1>13. CASE PlanTurns \/ AttendanceTurns BY <1>13, NothingGrows DEF PlanTurns, AttendanceTurns
<1>e. "activo" \in Estados BY DEF Estados
<1>14. QED
  BY <1>e, <1>1, <1>2, <1>4, <1>5, <1>6, <1>7, <1>8, <1>9, <1>10, <1>11, <1>12, <1>13 DEF LimitsNext

\* An account that is registered, or let in again, is a user there is room for.
LEMMA TitularFits ==
  ASSUME LimitsTypeOK, RowsFit, NEW e \in {"activo", "inactivo"}, dia.que \in {"alta", "sesiones"}, dia \in Dias,
         e = "activo" /\ filas[Titular].estado # "activo" => AssertResourceLimits("users", 1),
         filas' = [filas EXCEPT ![Titular].estado = e], UNCHANGED mes
  PROVE  Grown
<1>1. Titular \in Objetos /\ filas[Titular].clase = "users"
  BY SessionsAssumption DEF RowsFit, ClaseFit, HiloFit, AltaFit
<1>2. PICK x : x = [filas[Titular] EXCEPT !.estado = e] OBVIOUS
<1>3. RecursoDe("users") = "users" BY DEF RecursoDe
<1>4. x \in FilaRows /\ Fits(Titular, x) BY <1>1, <1>2, <1>3, StateFits
<1>5. filas' = [filas EXCEPT ![Titular] = x] BY <1>1, <1>2 DEF LimitsTypeOK
<1> QED BY <1>1, <1>4, <1>5, FitsGrows

\* While nobody has registered nothing is used, and there is room for the one who does.
LEMMA RoomToRegister ==
  ASSUME LimitsTypeOK, RowsFit, dia.que = "alta", cuenta.clave = 0
  PROVE  AssertResourceLimits("users", 1)
<1>1. \A o \in Objetos : Cuenta(filas[o], "users") = 0
  BY CuentaDe DEF RowsFit, ClaseFit, HiloFit, AltaFit, LimitsTypeOK
<1>2. Unidades(filas, "users") = {} BY <1>1 DEF Unidades
<1>3. Usado("users") = 0 BY <1>2, FS_EmptySet DEF Usado, UsadoEn, Contados
<1>4. GetEffectiveLimits("users") = MaxLimite /\ vigente
  BY DEF GetEffectiveLimits, RowsFit, ClaseFit, HiloFit, AltaFit
<1>5. MaxLimite \in Nat /\ MaxLimite > 0 BY LimitsAssumption, SessionsAssumption
<1> QED BY <1>3, <1>4, <1>5 DEF AssertResourceLimits

\* Nothing grows beyond its limit by a step of Sessions.
LEMMA SessionsGrow ==
  ASSUME TypeOK, RowsFit, SessionsNext
  PROVE  Grown
<1> USE DEF limitRows, Writes, TypeOK, RowsOK
<1>1. ASSUME NEW t \in Hilos, RightCode(t), dia.que = "alta" PROVE Grown
  <2>1. CASE cuenta.clave = 0
    <3>1. AssertResourceLimits("users", 1) BY <1>1, <2>1, RoomToRegister
    <3> QED BY <1>1, <2>1, <3>1, TitularFits DEF RightCode
  <2>2. CASE cuenta.clave # 0 BY <1>1, <2>2, NothingGrows DEF RightCode
  <2> QED BY <2>1, <2>2
<1>2. ASSUME UpdateStatus, dia.que = "sesiones" PROVE Grown
  BY <1>2, TitularFits DEF UpdateStatus, Activo
<1>3. CASE Register \/ ForgotPassword BY <1>3, NothingGrows DEF Register, ForgotPassword
<1>4. ASSUME NEW t \in Hilos,
             \/ VerifyEmail(t) \/ WrongCode(t) \/ CreateCompany(t) \/ CommitCompany(t) \/ StartCompany(t)
             \/ Login(t) \/ WriteVersion(t) \/ CreateRefreshToken(t)
      PROVE  Grown
  BY <1>4, NothingGrows DEF VerifyEmail, WrongCode, CreateCompany, CommitCompany, StartCompany, Login, WriteVersion,
     WriteVersionAs, CreateRefreshToken
<1>5. ASSUME NEW t \in Hilos, Rotate(t) \/ WriteMe(t) \/ WritePassword(t) \/ RevokeTokens(t) \/ WriteReset(t)
      PROVE  Grown
  BY <1>5, NothingGrows DEF Rotate, WriteVersionAs, WriteMe, WritePassword, WritePasswordAs, RevokeTokens, WriteReset
<1>6. ASSUME NEW t \in Hilos, NEW k, Refresh(t, k) \/ UpdateMe(t, k) \/ ChangeMyPassword(t, k) \/ ResetPassword(t, k)
             \/ RefreshOld(k) \/ Logout(k)
      PROVE  Grown
  BY <1>6, NothingGrows DEF Refresh, UpdateMe, ChangeMyPassword, ResetPassword, RefreshOld, Logout
<1>7. ASSUME NEW k, RefreshOld(k) \/ Logout(k) PROVE Grown
  BY <1>7, NothingGrows DEF RefreshOld, Logout
<1> QED BY <1>1, <1>2, <1>3, <1>4, <1>5, <1>6, <1>7 DEF SessionsNext

\* What requests read for a change is as it was, when they go nowhere near one.
LEMMA HiloStays ==
  ASSUME HilosOK, HiloFit, UNCHANGED dia, NEW P, HilosMove(P), P \cap RowPcs = {}
  PROVE  HiloFit'
BY DEF HiloFit, HilosMove, RowPcs

\* A row that comes is of the class of its day.
LEMMA RowsNextFit ==
  ASSUME LimitsTypeOK, ClaseFit, RowsNext
  PROVE  ClaseFit'
<1>1. ASSUME NEW o \in Objetos, NEW c, NEW e, CreateRow(o, c, e) PROVE ClaseFit'
  <2>1. filas' = [filas EXCEPT ![o] = Fila(c, e)] /\ c = dia.clases[o] /\ dia' = dia
    BY <1>1 DEF CreateRow
  <2>2. \A u \in Objetos : filas'[u] = IF u = o THEN Fila(c, e) ELSE filas[u]
    BY <2>1 DEF LimitsTypeOK
  <2>3. Fila(c, e).clase = c BY DEF Fila
  <2> QED BY <2>1, <2>2, <2>3 DEF ClaseFit
<1>2. ASSUME NEW o \in Objetos, NEW c, NEW e, RemoveRow(o, c, e) PROVE ClaseFit'
  <2>1. filas' = [filas EXCEPT ![o].estado = e] /\ dia' = dia BY <1>2 DEF RemoveRow
  <2>2. \A u \in Objetos : filas'[u].clase = filas[u].clase BY <2>1 DEF LimitsTypeOK, FilaRows
  <2> QED BY <2>1, <2>2 DEF ClaseFit
<1>3. QED
  BY <1>1, <1>2 DEF RowsNext, CreateUser, CreateEmployee, CreateQrPoint, RemoveUser, RemoveEmployee, RemoveQrPoint

\* A step of PlanLimits keeps the rows fit.
LEMMA LimitsFit ==
  ASSUME TypeOK, RowsFit, LimitsNext, UNCHANGED <<authVars, dayRows>>
  PROVE  RowsFit'
<1> USE DEF limitRows
<1>t. /\ \A t \in Hilos : hilo[t] \in ThreadRows /\ (hilo[t].pc \in RowPcs => hilo[t].obj \in Objetos)
      /\ LimitsTypeOK /\ HilosOK /\ hilo \in [Hilos -> ThreadRows] /\ filas \in [Objetos -> FilaRows]
      /\ ClaseFit /\ HiloFit /\ AltaFit
  BY DEF TypeOK, HilosOK, ThreadOK, RowsOK, LimitsTypeOK, RowsFit
<1>a. AltaFit'
  <2>1. CASE dia.que = "alta"
    <3>1. UNCHANGED <<dia, vigente, limite, filas, cuenta>>
      BY <2>1 DEF LimitsNext, AttendanceTurns, authVars, authRows
    <3> QED BY <3>1, <1>t DEF AltaFit
  <2>2. CASE dia.que # "alta"
    <3>1. dia' = dia
      BY DEF LimitsNext, RowsNext, CreateUser, RemoveUser, RemoveEmployee, RemoveQrPoint, CreateEmployee, CreateQrPoint,
         CreateRow, RemoveRow, ReadRow, ReadRemoval, UpdateEmployee, UpdateQrPoint, RemoveProduct, UpdateUserStatus,
         UpdateEmployeeStatus, UpdateQrPointStatus, WriteRow, WriteBranch, RemoveBranch, CreateBranch, CreateProduct,
         WriteProduct, AssessDocumentAllowance, RecordDocumentQuery, GetDocumentRange, PlanTurns, AttendanceTurns,
         UpdateLimits, UpdateCompanyLimits, SetLimit
    <3> QED BY <3>1, <2>2 DEF AltaFit
  <2> QED BY <2>1, <2>2
<1>b. ASSUME ClaseFit', UNCHANGED <<dia, hilo>> PROVE RowsFit'
  BY <1>t, <1>a, <1>b DEF RowsFit, HiloFit
<1>c. ASSUME ClaseFit', UNCHANGED dia, NEW t \in Hilos, Ends(t) PROVE RowsFit'
  <2>1. \A u \in Hilos : hilo'[u] = hilo[u] \/ hilo'[u].pc = "idle" BY <1>c, <1>t DEF Ends, Idle
  <2>2. HilosMove({"idle"}) BY <2>1 DEF HilosMove
  <2>3. HiloFit' BY <2>2, <1>c, <1>t, HiloStays DEF RowPcs
  <2> QED BY <2>3, <1>a, <1>c DEF RowsFit
<1>1. CASE RowsNext
  <2>1. ClaseFit' BY <1>1, <1>t, RowsNextFit
  <2>2. UNCHANGED <<dia, hilo>>
    BY <1>1 DEF RowsNext, CreateUser, RemoveUser, RemoveEmployee, RemoveQrPoint, CreateEmployee, CreateQrPoint,
       CreateRow, RemoveRow
  <2> QED BY <2>1, <2>2, <1>b
<1>2. ASSUME NEW t \in Hilos, NEW o \in Objetos, ReadRow(t, o) \/ ReadRemoval(t, o) PROVE RowsFit'
  <2>1. UNCHANGED <<dia, filas>> /\ ClaseFit' BY <1>2, <1>t DEF ReadRow, ReadRemoval, ClaseFit
  <2>2. \A u \in Hilos : u # t => hilo'[u] = hilo[u] BY <1>2, <1>t DEF ReadRow, ReadRemoval, Reads
  <2>3. CASE ReadRow(t, o)
    <3>1. hilo'[t].pc = "fila" /\ hilo'[t].fila.estado \notin {"libre", "borrado"}
      BY <2>3, <1>t DEF ReadRow, Reads
    <3> QED BY <2>1, <2>2, <3>1, <1>t, <1>a DEF RowsFit, HiloFit
  <2>4. CASE ReadRemoval(t, o)
    <3>1. hilo'[t].pc = "borrar" /\ hilo'[t].obj = o /\ dia.clases[o] = "productos"
      BY <2>4, <1>t DEF ReadRemoval, Reads, ClaseFit
    <3> QED BY <2>1, <2>2, <3>1, <1>t, <1>a DEF RowsFit, HiloFit
  <2> QED BY <1>2, <2>3, <2>4
<1>3. ASSUME NEW t \in Hilos, NEW e \in Estados,
             \/ UpdateEmployee(t) \/ UpdateQrPoint(t)
             \/ UpdateUserStatus(t, e) \/ UpdateEmployeeStatus(t, e) \/ UpdateQrPointStatus(t, e)
      PROVE RowsFit'
  <2>1. PICK s : filas' = [filas EXCEPT ![hilo[t].obj].estado = s] /\ dia' = dia /\ Ends(t)
    BY <1>3 DEF UpdateEmployee, UpdateQrPoint, UpdateUserStatus, UpdateEmployeeStatus, UpdateQrPointStatus, WriteRow
  <2>2. \A o \in Objetos : filas'[o].clase = filas[o].clase BY <2>1, <1>t DEF FilaRows
  <2>3. ClaseFit' BY <2>1, <2>2, <1>t DEF ClaseFit
  <2> QED BY <2>1, <2>3, <1>c
<1>4. ASSUME NEW t \in Hilos, NEW e, NEW tipo, NEW k,
             RemoveProduct(t) \/ WriteBranch(t, tipo, e) \/ WriteProduct(t, k) PROVE RowsFit'
  <2>1. \A o \in Objetos : filas'[o].clase = filas[o].clase
    BY <1>4, <1>t DEF FilaRows, RemoveProduct, WriteBranch, WriteProduct
  <2>2. ClaseFit' /\ UNCHANGED dia /\ Ends(t)
    BY <1>4, <2>1, <1>t DEF ClaseFit, RemoveProduct, WriteBranch, WriteProduct
  <2> QED BY <2>2, <1>c
<1>5. ASSUME NEW o \in Objetos, RemoveBranch(o) PROVE RowsFit'
  <2>1. \A u \in Objetos : filas'[u].clase = filas[u].clase
    BY <1>5, <1>t DEF FilaRows, RemoveBranch, RemoveRow
  <2> QED BY <1>5, <2>1, <1>t, <1>b DEF ClaseFit, RemoveBranch, RemoveRow
<1>6. ASSUME NEW o \in Objetos, NEW tipo, NEW k, CreateBranch(o, tipo) \/ CreateProduct(o, k) PROVE RowsFit'
  <2>1. filas'[o].clase = dia.clases[o] /\ \A u \in Objetos : u # o => filas'[u] = filas[u]
    BY <1>6, <1>t DEF CreateBranch, CreateProduct, Fila
  <2>2. UNCHANGED <<dia, hilo>> /\ ClaseFit'
    BY <1>6, <2>1, <1>t DEF ClaseFit, CreateBranch, CreateProduct
  <2> QED BY <2>2, <1>b
<1>7. CASE UNCHANGED <<dia, filas, hilo>> BY <1>7, <1>t, <1>b DEF ClaseFit
<1>e. "activo" \in Estados BY DEF Estados
<1>8. QED
  BY <1>e, <1>1, <1>2, <1>3, <1>4, <1>5, <1>6, <1>7 DEF LimitsNext, AssessDocumentAllowance, RecordDocumentQuery,
     GetDocumentRange, PlanTurns, AttendanceTurns, UpdateLimits, UpdateCompanyLimits, SetLimit

\* An account is registered once, in a company that is as it was.
LEMMA SessionsAlta ==
  ASSUME TypeOK, SessionsNext, dia.que = "alta"
  PROVE  /\ UNCHANGED <<vigente, limite>>
         /\ cuenta'.clave = 0 => cuenta.clave = 0 /\ UNCHANGED filas
<1> USE DEF limitRows, authRows, Writes
<1>t. cuenta \in CuentaRows BY DEF TypeOK, PeopleOK, SessionsTypeOK
<1>1. CASE Register BY <1>1 DEF Register
<1>2. ASSUME NEW t \in Hilos, RightCode(t)
      PROVE  UNCHANGED <<vigente, limite>> /\ (cuenta'.clave = 0 => cuenta.clave = 0 /\ UNCHANGED filas)
  <2>1. CASE cuenta.clave = 0
    <3>1. cuenta'.clave = 1 BY <1>2, <1>t, <2>1 DEF RightCode, CuentaRows
    <3> QED BY <1>2, <3>1 DEF RightCode
  <2>2. CASE cuenta.clave # 0 BY <1>2, <2>2 DEF RightCode
  <2> QED BY <2>1, <2>2
<1>3. ASSUME NEW t \in Hilos, VerifyEmail(t) \/ WrongCode(t) \/ CreateCompany(t) \/ Login(t) \/ CreateRefreshToken(t)
      PROVE  UNCHANGED <<vigente, limite, filas, cuenta>>
  BY <1>3 DEF VerifyEmail, WrongCode, CreateCompany, Login, CreateRefreshToken
<1>4. ASSUME NEW t \in Hilos, CommitCompany(t) \/ StartCompany(t) \/ WriteVersion(t)
      PROVE  UNCHANGED <<vigente, limite, filas>> /\ cuenta'.clave = cuenta.clave
  BY <1>4, <1>t DEF CommitCompany, StartCompany, WriteVersion, WriteVersionAs, CuentaRows
<1> QED BY <1>1, <1>2, <1>3, <1>4 DEF SessionsNext

\* What a request of the account does to the rows: nothing, or the state of its own.
LEMMA SessionsRows ==
  ASSUME TypeOK, SessionsNext
  PROVE  UNCHANGED dia /\ \A o \in Objetos : filas'[o].clase = filas[o].clase
<1> USE DEF limitRows, authRows, Writes
<1>t. filas \in [Objetos -> FilaRows] BY DEF TypeOK, RowsOK, LimitsTypeOK
<1>1. ASSUME UNCHANGED dia, UNCHANGED filas \/ \E e : filas' = [filas EXCEPT ![Titular].estado = e]
      PROVE  UNCHANGED dia /\ \A o \in Objetos : filas'[o].clase = filas[o].clase
  BY <1>1, <1>t DEF FilaRows
<1>2. ASSUME NEW t \in Hilos, RightCode(t)
      PROVE  UNCHANGED dia /\ (UNCHANGED filas \/ \E e : filas' = [filas EXCEPT ![Titular].estado = e])
  BY <1>2 DEF RightCode
<1>3. ASSUME UpdateStatus
      PROVE  UNCHANGED dia /\ (UNCHANGED filas \/ \E e : filas' = [filas EXCEPT ![Titular].estado = e])
  BY <1>3 DEF UpdateStatus
<1>4. ASSUME NEW t \in Hilos,
             \/ VerifyEmail(t) \/ WrongCode(t) \/ CreateCompany(t) \/ CommitCompany(t) \/ StartCompany(t)
             \/ Login(t) \/ WriteVersion(t) \/ CreateRefreshToken(t) \/ Register \/ ForgotPassword
      PROVE  UNCHANGED <<dia, filas>>
  BY <1>4 DEF VerifyEmail, WrongCode, CreateCompany, CommitCompany, StartCompany, Login, WriteVersion,
     WriteVersionAs, CreateRefreshToken, Register, ForgotPassword
<1>5. ASSUME NEW t \in Hilos, Rotate(t) \/ WriteMe(t) \/ WritePassword(t) \/ RevokeTokens(t) \/ WriteReset(t)
      PROVE  UNCHANGED <<dia, filas>>
  BY <1>5 DEF Rotate, WriteVersionAs, WriteMe, WritePassword, WritePasswordAs, RevokeTokens, WriteReset
<1>6. ASSUME NEW t \in Hilos, NEW k, Refresh(t, k) \/ UpdateMe(t, k) \/ ChangeMyPassword(t, k) \/ ResetPassword(t, k)
      PROVE  UNCHANGED <<dia, filas>>
  BY <1>6 DEF Refresh, UpdateMe, ChangeMyPassword, ResetPassword
<1>7. ASSUME NEW k, RefreshOld(k) \/ Logout(k) PROVE UNCHANGED <<dia, filas>>
  BY <1>7 DEF RefreshOld, Logout
<1>8. Register \/ ForgotPassword => UNCHANGED <<dia, filas>> BY DEF Register, ForgotPassword
<1>9. (UNCHANGED dia /\ (UNCHANGED filas \/ \E e : filas' = [filas EXCEPT ![Titular].estado = e]))
      \/ UNCHANGED <<dia, filas>>
  BY <1>2, <1>3, <1>4, <1>5, <1>6, <1>7, <1>8 DEF SessionsNext
<1> QED BY <1>1, <1>9

\* A step of Sessions keeps the rows fit.
LEMMA SessionsFit ==
  ASSUME TypeOK, RowsFit, SessionsNext, UNCHANGED dayRows
  PROVE  RowsFit'
<1>1. ClaseFit' /\ UNCHANGED dia BY SessionsRows DEF RowsFit, ClaseFit
<1>2. HiloFit'
  <2>1. HilosMove({"idle"} \cup SesPcs \cup AltaPcs) /\ ({"idle"} \cup SesPcs \cup AltaPcs) \cap RowPcs = {}
    BY SessionsType DEF SesPcs, LeePcs, AbrePcs, AltaPcs, RowPcs
  <2> QED BY <1>1, <2>1, HiloStays DEF RowsFit, TypeOK
<1>3. AltaFit' BY <1>1, SessionsAlta DEF RowsFit, AltaFit
<1> QED BY <1>1, <1>2, <1>3 DEF RowsFit

\* Attendance writes no row of what the plan limits, except as PlanLimits does.
LEMMA AttendanceRows ==
  ASSUME AccessNext \/ MarksNext \/ ShiftsNext
  PROVE  UNCHANGED <<dia, filas, mes, cuenta>>
<1> USE DEF OnlyHilo, OnlyAcceso, OnlyMarcas, authVars, authRows, limitRows
<1>1. AccessNext => UNCHANGED <<dia, filas, mes, cuenta>>
  BY DEF AccessNext, GenerateAccessToken, ResetDevice, ConfirmActivation, WriteDevice, FindByActivationToken, RegisterDevice
<1>2. MarksNext => UNCHANGED <<dia, filas, mes, cuenta>>
  BY DEF MarksNext, Tick, WriteScan, WriteManual, Scan, CreateManual
<1>3. ShiftsNext => UNCHANGED <<dia, filas, mes, cuenta>>
  BY DEF ShiftsNext, UpdateShift, AssignEmployees
<1> QED BY <1>1, <1>2, <1>3

\* A user is made where there is room, and removed.
LEMMA UsersRows ==
  ASSUME TypeOK, AccessOK, RowsFit, UsersNext
  PROVE  Grown /\ ClaseFit'
<1> USE DEF OnlyUsers, accessRows
<1>t. LimitsTypeOK /\ filas \in [Objetos -> FilaRows] /\ ClaseFit /\ \A t \in Hilos : TramiteOK(tramite[t])
  BY DEF TypeOK, RowsOK, LimitsTypeOK, RowsFit, AccessOK
<1>a. ASSUME UNCHANGED <<dia, filas, mes>> PROVE Grown /\ ClaseFit'
  BY <1>a, <1>t, NothingGrows DEF ClaseFit
<1>1. ASSUME NEW t \in Hilos, NEW q, NEW o, AssertModulesIncluded(t) \/ UserRefused(t) \/ BeginCreate(t, q, o)
             \/ FindCompanyUser(t, q, o)
      PROVE  UNCHANGED <<dia, filas, mes>>
  BY <1>1 DEF AssertModulesIncluded, UserRefused, BeginCreate, FindCompanyUser, Begins
<1>2. ASSUME NEW t \in Hilos, NEW keys, NEW s, NEW v, WriteUser(t, keys, s, v) PROVE UNCHANGED <<dia, filas, mes>>
  BY <1>2 DEF WriteUser, Writes2
<1>3. ASSUME NEW t \in Hilos, NEW keys, NEW s, NEW v, WriteNewUser(t, keys, s, v) PROVE Grown /\ ClaseFit'
  <2>1. PICK o \in Objetos : o = tramite[t].o
    BY <1>3, <1>t DEF WriteNewUser, Writes2, TramiteOK, UserPcs
  <2>2. RecursoDe("users") = "users" BY DEF RecursoDe
  <2>3. PICK x : x = Fila("users", "activo") OBVIOUS
  <2>4. x \in FilaRows /\ Fits(o, x) BY <1>3, <1>t, <2>1, <2>2, <2>3, NewFits DEF WriteNewUser
  <2>5. filas' = [filas EXCEPT ![o] = x] /\ UNCHANGED <<dia, mes>>
    BY <1>3, <2>1, <2>3 DEF WriteNewUser, Writes2
  <2>6. x.clase = "users" BY <2>3 DEF Fila
  <2> QED BY <1>t, <2>4, <2>5, <2>6, FitsGrows DEF ClaseFit
<1>4. ASSUME NEW q, NEW o \in Objetos, Remove(q, o) PROVE Grown /\ ClaseFit'
  <2>1. RowsNext BY <1>4 DEF Remove, RowsNext
  <2> QED BY <2>1, <1>t, RowsGrow, RowsNextFit
<1> QED BY <1>1, <1>2, <1>3, <1>4, <1>a DEF UsersNext

\* The platform writes no row of the company.
LEMMA PlatformRows ==
  ASSUME PlatformNext \/ AdminsNext
  PROVE  UNCHANGED <<dia, filas, mes>>
BY ZenonT(40) DEF PlatformNext, AdminsNext, UpdateCompanyModules, ReadCatalog, UpdatePricing, UpdateLimitRows, UpdateOveragePricing,
   UpdateTrial, UpdateAttendancePricing, SaveRefused, UpdateModules, Save, SaveOver, CreateAdmin, UpdateAdminStatus,
   BeginStatus, OnlyPlatform, limitVars, limitRows

\* Every step of the company keeps its rows fit, and lets nothing grow beyond its limit.
LEMMA CompanyGrows ==
  ASSUME TypeOK, AccessOK, RowsFit, [CompanyNext]_companyVars
  PROVE  RowsFit' /\ [Grown]_limitVars
<1> USE DEF companyVars, vars, limitVars, limitRows, authVars, authRows
<1>t. LimitsTypeOK /\ HilosOK /\ ClaseFit /\ HiloFit /\ AltaFit BY DEF TypeOK, RowsOK, RowsFit
<1>a. ASSUME ClaseFit', dia.que # "alta", UNCHANGED dia, NEW P, HilosMove(P), P \cap RowPcs = {} PROVE RowsFit'
  BY <1>a, <1>t, HiloStays DEF RowsFit, AltaFit
<1>b. ASSUME UNCHANGED hilo PROVE HilosMove({}) /\ {} \cap RowPcs = {} BY <1>b DEF HilosMove
<1>1. CASE LimitsNext /\ UNCHANGED <<authVars, dayRows>> BY <1>1, <1>t, LimitsGrow, LimitsFit
<1>2. CASE SessionsNext /\ UNCHANGED dayRows BY <1>2, SessionsGrow, SessionsFit
<1>3. CASE (AccessNext \/ MarksNext \/ ShiftsNext) /\ dia.que # "alta"
  <2>1. HilosMove({"idle"} \cup DayPcs \cup AccPcs) /\ ({"idle"} \cup DayPcs \cup AccPcs) \cap RowPcs = {}
    BY <1>3, AttendanceType DEF DayPcs, AccPcs, RowPcs
  <2>2. UNCHANGED <<dia, filas, mes>> /\ ClaseFit' BY <1>3, <1>t, AttendanceRows DEF ClaseFit
  <2>3. RowsFit' BY <1>3, <1>a, <2>1, <2>2
  <2>4. Grown BY <1>t, <2>2, NothingGrows
  <2> QED BY <2>3, <2>4
<1>4. CASE RowsNext /\ UNCHANGED <<authVars, dayRows>> /\ dia.que # "alta"
  <2>1. UNCHANGED <<dia, hilo>>
    BY <1>4 DEF RowsNext, CreateUser, RemoveUser, RemoveEmployee, RemoveQrPoint, CreateEmployee, CreateQrPoint,
       CreateRow, RemoveRow
  <2>2. ClaseFit' /\ Grown BY <1>4, <1>t, RowsGrow, RowsNextFit
  <2> QED BY <1>4, <1>a, <1>b, <2>1, <2>2
<1>5. CASE AttendanceTurns /\ dia.que # "alta"
  <2>1. UNCHANGED <<dia, filas, mes, hilo>> /\ ClaseFit' BY <1>5, <1>t DEF AttendanceTurns, ClaseFit
  <2> QED BY <1>5, <1>a, <1>b, <1>t, <2>1, NothingGrows
<1>6. CASE AccessNext2
  <2>1. CASE dia.que = "permisos" /\ UsersNext BY <2>1, <1>a, <1>b, UsersType, UsersRows
  <2>2. CASE dia.que \in {"modulos", "administradores"} /\ (PlatformNext \/ AdminsNext)
    <3>1. UNCHANGED <<dia, filas, mes>> /\ ClaseFit' /\ UNCHANGED hilo
      BY <2>2, <1>t, PlatformRows, PlatformType, AdminsType DEF ClaseFit
    <3> QED BY <2>2, <3>1, <1>a, <1>b, <1>t, NothingGrows
  <2>3. CASE dia.que \in {"permisos", "modulos"} /\ AttendanceTurns BY <2>3, <1>5
  <2> QED BY <1>6, <2>1, <2>2, <2>3 DEF AccessNext2
<1>7. CASE UNCHANGED companyVars BY <1>7, <1>t DEF RowsFit, ClaseFit, HiloFit, AltaFit
<1> QED BY <1>1, <1>2, <1>3, <1>4, <1>5, <1>6, <1>7 DEF CompanyNext, Next, AttendanceNext

\* The rows are fit when the day begins.
LEMMA CompanyInitFits == CompanyInit => RowsFit
<1> SUFFICES ASSUME CompanyInit PROVE RowsFit OBVIOUS
<1>1. ClaseFit BY DEF CompanyInit, Init, LimitsInit, ClaseFit, Fila
<1>2. HiloFit BY DEF CompanyInit, Init, LimitsInit, HiloFit, Idle
<1>3. limite["users"] = MaxLimite /\ vigente BY DEF CompanyInit, Init, LimitsInit, Recursos
<1>4. dia.que = "alta" => \A o \in Objetos : filas[o].estado = "libre"
  BY DEF CompanyInit, Init, LimitsInit, Fila
<1> QED BY <1>1, <1>2, <1>3, <1>4 DEF RowsFit, AltaFit

\* Nothing a plan limits grows beyond the limit in force, receipts apart, unless the row was
\* changed between the reading that decided whether room was needed and the writing
\* (PlansService.assertResourceLimits and the services that call it): for every number of
\* requests, of rows and of days, and whatever the platform does to the limits meanwhile.
THEOREM NothingGrowsBeyond == CompanySpec => GrowsWithinLimit
<1>1. TypeOK /\ AccessOK /\ RowsFit /\ [CompanyNext]_companyVars => [Grown]_limitVars
  BY CompanyGrows
<1>2. CompanySpec => [][Grown]_limitVars
  BY <1>1, CompanyInitType, CompanyType, CompanyInitFits, CompanyGrows, PTL DEF CompanySpec
<1> QED BY <1>2 DEF GrowsWithinLimit, Grown

----------------------------------------
(* The lists.                                                              *)

\* A listing that has read the rows holds them as they are, or was crossed by a change.
ReadsAgree ==
  \A h \in Gestores :
    gestion[h].op = "listar" =>
      gestion[h].cruzada \/ gestion[h].valor = FindAllUncached(gestion[h].lista, gestion[h].consulta)

\* What a listing reads is an answer.
LEMMA ReadingTyped ==
  ASSUME ListsTypeOK, NEW k \in Listas, NEW q \in Consultas
  PROVE  FindAllUncached(k, q) \in Entradas
  BY DEF FindAllUncached, Entradas, ListsTypeOK, FichaRows, Listas, Consultas

\* A request that comes in is of its type.
LEMMA AskingTyped ==
  ASSUME ListsTypeOK, NEW h \in Gestores, NEW p \in Gestiones, Pide(h, p)
  PROVE  /\ gestion' \in [Gestores -> Gestiones]
         /\ gestiones' \in Nat
  BY DEF Pide, Counts, ListsTypeOK

\* So is one at rest.
LEMMA IdleTyped == SinGestion \in Gestiones
  BY CataloguesAssumption DEF SinGestion, Gestiones, Listas, Consultas, Entradas, Ops

\* So is one that ends.
LEMMA ClosingTyped ==
  ASSUME ListsTypeOK, NEW h \in Gestores, Cierra(h)
  PROVE  gestion' \in [Gestores -> Gestiones]
  BY IdleTyped DEF Cierra, ListsTypeOK

\* A row that is restored, edited or removed is still a row.
LEMMA RowTyped ==
  ASSUME NEW r \in FichaRows, NEW n \in Nombres \cup {0}, NEW e \in {"libre", "viva", "borrada"},
         NEW a \in BOOLEAN
  PROVE  /\ [r EXCEPT !.estado = e, !.activo = a] \in FichaRows
         /\ [r EXCEPT !.nombre = n, !.activo = a] \in FichaRows
  BY DEF FichaRows

\* A request that goes on to clear, and a listing that a change crosses, keep their type.
LEMMA GoingTyped ==
  ASSUME NEW g \in Gestiones
  PROVE  [g EXCEPT !.op = "limpiar"] \in Gestiones /\ [g EXCEPT !.cruzada = TRUE] \in Gestiones
  BY DEF Gestiones, Ops

\* A change of a row keeps every type.
LEMMA WritingTyped ==
  ASSUME ListsTypeOK, NEW h \in Gestores, NEW k \in Listas, NEW i \in Fichas,
         NEW row \in FichaRows, WritesFicha(h, k, i, row)
  PROVE  ListsTypeOK'
<1>1. fichas' \in [Listas -> [Fichas -> FichaRows]] BY DEF WritesFicha, ListsTypeOK
<1>2. gestion' \in [Gestores -> Gestiones]
  <2>1. \A x \in Gestores : gestion[x] \in Gestiones BY DEF ListsTypeOK
  <2>2. \A x \in Gestores : gestion'[x] \in Gestiones BY <2>1, GoingTyped DEF WritesFicha
  <2>3. gestion' = [x \in Gestores |-> gestion'[x]] BY DEF WritesFicha
  <2> QED  BY <2>2, <2>3
<1> QED  BY <1>1, <1>2 DEF WritesFicha, ListsTypeOK

\* No answer is a kind of answer.
LEMMA EmptyTyped == Vacia \in Respuestas
  BY DEF Vacia, Respuestas, Entradas

\* So does whatever a service does to its list.
LEMMA ServiceTyped ==
  ASSUME ListsTypeOK, NEW h \in Gestores, NEW k \in Listas, Service(h, k)
  PROVE  ListsTypeOK'
<1> USE CataloguesAssumption
<1>0. /\ gestion[h] \in Gestiones /\ gestion[h].ficha \in Fichas
      /\ gestion[h].nombre \in Nombres \cup {0} /\ gestion[h].activo \in BOOLEAN
      /\ \A i \in Fichas : fichas[k][i] \in FichaRows
  BY DEF ListsTypeOK, Gestiones
<1>1. ASSUME NEW n \in Nombres, NEW a \in BOOLEAN, BeginCreateRow(h, k, n, a) PROVE ListsTypeOK'
  <2>1. PICK i \in Fichas :
          /\ Pide(h, [SinGestion EXCEPT !.op = "crear", !.lista = k, !.ficha = i, !.nombre = n, !.activo = a])
          /\ UNCHANGED <<rutina, fichas, respuestas>>
    BY <1>1 DEF BeginCreateRow
  <2>2. [SinGestion EXCEPT !.op = "crear", !.lista = k, !.ficha = i, !.nombre = n, !.activo = a] \in Gestiones
    BY IdleTyped DEF Gestiones, Ops
  <2> QED  BY <2>1, <2>2, AskingTyped DEF ListsTypeOK
<1>2. ASSUME NEW i \in Fichas, NEW n \in Nombres \cup {0}, NEW a \in BOOLEAN, BeginUpdateRow(h, k, i, n, a)
      PROVE  ListsTypeOK'
  <2>1. [SinGestion EXCEPT !.op = "editar", !.lista = k, !.ficha = i, !.nombre = n, !.activo = a] \in Gestiones
    BY IdleTyped DEF Gestiones, Ops
  <2> QED  BY <1>2, <2>1, AskingTyped DEF ListsTypeOK, BeginUpdateRow
<1>3. ASSUME NEW i \in Fichas, BeginRemoveRow(h, k, i) PROVE ListsTypeOK'
  <2>1. [SinGestion EXCEPT !.op = "quitar", !.lista = k, !.ficha = i] \in Gestiones
    BY IdleTyped DEF Gestiones, Ops
  <2> QED  BY <1>3, <2>1, AskingTyped DEF ListsTypeOK, BeginRemoveRow
<1>4. ASSUME RefusedRow(h) PROVE ListsTypeOK' BY <1>4, ClosingTyped DEF RefusedRow, ListsTypeOK
<1>5. ASSUME CreateRow1(h, k) PROVE ListsTypeOK'
  <2>1. CASE gestion[h].ficha # 0
    <3>1. [fichas[k][gestion[h].ficha] EXCEPT !.estado = "viva", !.activo = gestion[h].activo] \in FichaRows
      BY <1>0, RowTyped
    <3> QED  BY <1>0, <1>5, <2>1, <3>1, WritingTyped DEF CreateRow1
  <2>2. CASE gestion[h].ficha = 0 /\ ~NameTaken(k, 0, gestion[h].nombre)
    <3>1. PICK i \in Fichas : WritesFicha(h, k, i, [nombre |-> gestion[h].nombre, estado |-> "viva", activo |-> gestion[h].activo])
      BY <1>5, <2>2 DEF CreateRow1
    <3>2. [nombre |-> gestion[h].nombre, estado |-> "viva", activo |-> gestion[h].activo] \in FichaRows
      BY <1>0 DEF FichaRows
    <3> QED  BY <3>1, <3>2, WritingTyped
  <2> QED  BY <1>4, <1>5, <2>1, <2>2 DEF CreateRow1
<1>6. ASSUME UpdateRow1(h, k) PROVE ListsTypeOK'
  <2> DEFINE n == IF gestion[h].nombre = 0 THEN fichas[k][gestion[h].ficha].nombre ELSE gestion[h].nombre
  <2>1. n \in Nombres \cup {0} BY <1>0 DEF FichaRows
  <2>2. CASE ~NameTaken(k, gestion[h].ficha, n)
    <3>1. PICK a \in {gestion[h].activo, fichas[k][gestion[h].ficha].activo} :
            WritesFicha(h, k, gestion[h].ficha, [fichas[k][gestion[h].ficha] EXCEPT !.nombre = n, !.activo = a])
      BY <1>6, <2>2 DEF UpdateRow1
    <3>2. a \in BOOLEAN BY <1>0 DEF FichaRows
    <3>3. [fichas[k][gestion[h].ficha] EXCEPT !.nombre = n, !.activo = a] \in FichaRows
      BY <1>0, <2>1, <3>2, RowTyped
    <3> QED  BY <1>0, <3>1, <3>3, WritingTyped
  <2> QED  BY <1>4, <1>6, <2>2 DEF UpdateRow1
<1>7. ASSUME RemoveRow1(h, k) PROVE ListsTypeOK'
  <2>1. [fichas[k][gestion[h].ficha] EXCEPT !.estado = "borrada", !.activo = FALSE] \in FichaRows
    BY <1>0, RowTyped
  <2> QED  BY <1>0, <1>7, <2>1, WritingTyped DEF RemoveRow1
<1> QED  BY <1>1, <1>2, <1>3, <1>5, <1>6, <1>7 DEF Service

\* The five services are one, each on its list.
LEMMA ServicesAre ==
  ASSUME NEW h \in Gestores, Services(h)
  PROVE  \E k \in Listas : Service(h, k)
  BY DEF Services, CategoriesService, BrandsService, ColorsService, SizesService, PaymentMethodsService, Listas

\* Every step on the lists keeps their types.
LEMMA ListsTyped ==
  ASSUME ListsTypeOK, ListsNext
  PROVE  ListsTypeOK'
<1> USE CataloguesAssumption
<1>1. rutina.listas \subseteq Listas BY DEF ListsTypeOK, RutinaType
<1>2. ASSUME NEW k \in Listas, NEW q \in Consultas, Expires(k, q) PROVE ListsTypeOK'
  BY <1>2, EmptyTyped DEF Expires, ListsTypeOK
<1>3. ASSUME NEW h \in Gestores, NEW k \in Listas, NEW q \in Consultas, FindAll(h, k, q) PROVE ListsTypeOK'
  <2>1. [SinGestion EXCEPT !.op = "listar", !.lista = k, !.consulta = q, !.valor = FindAllUncached(k, q)] \in Gestiones
    BY IdleTyped, ReadingTyped DEF Gestiones, Ops
  <2> QED  BY <1>3, <2>1, AskingTyped DEF FindAll, ListsTypeOK
<1>4. ASSUME NEW h \in Gestores, GetOrSet(h) PROVE ListsTypeOK'
  <2>1. gestion[h] \in Gestiones BY DEF ListsTypeOK
  <2>2. [hay |-> TRUE, valor |-> gestion[h].valor, cruzada |-> gestion[h].cruzada] \in Respuestas
    BY <2>1 DEF Gestiones, Respuestas
  <2>3. gestion[h].lista \in Listas /\ gestion[h].consulta \in Consultas BY <2>1 DEF Gestiones
  <2>4. respuestas' \in [Listas -> [Consultas -> Respuestas]]
    BY <1>4, <2>2, <2>3 DEF GetOrSet, ListsTypeOK
  <2> QED  BY <1>4, <2>4, ClosingTyped DEF GetOrSet, ListsTypeOK
<1>5. ASSUME NEW h \in Gestores, ClearCache(h) PROVE ListsTypeOK'
  <2>1. respuestas' \in [Listas -> [Consultas -> Respuestas]]
    BY <1>5, EmptyTyped DEF ClearCache, ListsTypeOK
  <2> QED  BY <1>5, <2>1, ClosingTyped DEF ClearCache, ListsTypeOK
<1> QED  BY <1>1, <1>2, <1>3, <1>4, <1>5, ServicesAre, ServiceTyped DEF ListsNext

\* What a listing shows does not depend on the row users never see.
LEMMA ShownAlike ==
  ASSUME NEW k \in Listas, NEW q \in Consultas,
         \A i \in Fichas : ~(i = 0 /\ k \in Escondidas) => fichas'[k][i] = fichas[k][i]
  PROVE  FindAllUncached(k, q)' = FindAllUncached(k, q)
<1> DEFINE S == {j \in Fichas : Visible(k, j) /\ (q = "activas" => fichas[k][j].activo)}
<1>1. S' = S BY DEF Visible
<1>2. \A i \in S : fichas'[k][i] = fichas[k][i] BY DEF Visible
<1> QED  BY <1>1, <1>2 DEF FindAllUncached

ListsInv == ListsAgree /\ ReadsAgree

\* Where the rows of the lists stay, so does what agrees with them.
LEMMA ListsFrame ==
  ASSUME ListsInv, UNCHANGED <<respuestas, gestion>>,
         \A k \in Listas : \A i \in Fichas : ~(i = 0 /\ k \in Escondidas) => fichas'[k][i] = fichas[k][i],
         ListsTypeOK
  PROVE  ListsInv'
<1>1. \A k \in Listas, q \in Consultas : FindAllUncached(k, q)' = FindAllUncached(k, q)
  BY ShownAlike
<1>2. \A h \in Gestores : gestion[h].lista \in Listas /\ gestion[h].consulta \in Consultas
  BY DEF ListsTypeOK, Gestiones
<1>3. ListsAgree' BY <1>1 DEF ListsInv, ListsAgree
<1>4. ASSUME NEW h \in Gestores, gestion'[h].op = "listar"
      PROVE  gestion'[h].cruzada \/ gestion'[h].valor = FindAllUncached(gestion[h].lista, gestion[h].consulta)'
  BY <1>1, <1>2, <1>4 DEF ListsInv, ReadsAgree
<1> QED  BY <1>3, <1>4 DEF ListsInv, ReadsAgree

\* A request that begins or ends, with nothing written or to clear, keeps what agrees with the rows.
LEMMA ListsAgreeWhenClosed ==
  ASSUME ListsTypeOK, ListsInv, NEW h \in Gestores, NEW g \in Gestiones,
         g.op \notin {"listar"}, gestion[h].op # "limpiar",
         gestion' = [gestion EXCEPT ![h] = g], UNCHANGED <<fichas, respuestas>>
  PROVE  ListsInv'
<1>1. \A k \in Listas, q \in Consultas : FindAllUncached(k, q)' = FindAllUncached(k, q)
  BY ShownAlike
<1>2. \A x \in Gestores : gestion[x].lista \in Listas /\ gestion[x].consulta \in Consultas
  BY DEF ListsTypeOK, Gestiones
<1>3. ListsAgree' BY <1>1 DEF ListsInv, ListsAgree, ListsTypeOK
<1>4. ASSUME NEW x \in Gestores, gestion'[x].op = "listar"
      PROVE  gestion'[x].cruzada \/ gestion'[x].valor = FindAllUncached(gestion[x].lista, gestion[x].consulta)'
  <2>1. x # h /\ gestion'[x] = gestion[x] BY <1>4 DEF ListsTypeOK
  <2> QED  BY <1>1, <1>2, <1>4, <2>1 DEF ListsInv, ReadsAgree
<1> QED  BY <1>3, <1>4 DEF ListsInv, ReadsAgree

\* A change of a row crosses the listings that read its list, and is still to clear the answers.
LEMMA WritingAgrees ==
  ASSUME ListsTypeOK, ListsInv, NEW h \in Gestores, NEW k \in Listas, NEW i \in Fichas, NEW row,
         gestion[h].op \notin {"listar", "limpiar"}, gestion[h].lista = k, WritesFicha(h, k, i, row)
  PROVE  ListsInv'
<1>1. \A l \in Listas \ {k} : \A q \in Consultas : FindAllUncached(l, q)' = FindAllUncached(l, q)
  BY ShownAlike DEF WritesFicha, ListsTypeOK
<1>2. \A x \in Gestores : /\ gestion[x] \in Gestiones
                          /\ gestion[x].lista \in Listas /\ gestion[x].consulta \in Consultas
  BY DEF ListsTypeOK, Gestiones
<1>3. gestion'[h].op = "limpiar" /\ gestion'[h].lista = k BY <1>2 DEF WritesFicha, Gestiones
<1>4. \A x \in Gestores \ {h} : /\ gestion'[x].op = gestion[x].op /\ gestion'[x].lista = gestion[x].lista
                                /\ gestion'[x].consulta = gestion[x].consulta
                                /\ gestion'[x].valor = gestion[x].valor
                                /\ gestion'[x].cruzada = (gestion[x].cruzada \/ (gestion[x].op = "listar" /\ gestion[x].lista = k))
  BY <1>2 DEF WritesFicha, Gestiones
<1>5. respuestas' = respuestas BY DEF WritesFicha
<1>6. ASSUME NEW l \in Listas, NEW q \in Consultas, respuestas'[l][q].hay
      PROVE  \/ respuestas'[l][q].valor = FindAllUncached(l, q)'
             \/ respuestas'[l][q].cruzada
             \/ \E x \in Gestores : gestion'[x].op = "limpiar" /\ gestion'[x].lista = l
  <2>1. CASE l = k BY <1>3, <2>1
  <2>2. CASE l # k BY <1>1, <1>4, <1>5, <1>6, <2>2 DEF ListsInv, ListsAgree
  <2> QED  BY <2>1, <2>2
<1>7. ASSUME NEW x \in Gestores, gestion'[x].op = "listar"
      PROVE  gestion'[x].cruzada \/ gestion'[x].valor = FindAllUncached(gestion[x].lista, gestion[x].consulta)'
  <2>1. x # h /\ gestion[x].op = "listar" BY <1>3, <1>4, <1>7
  <2>2. gestion[x].cruzada \/ gestion[x].valor = FindAllUncached(gestion[x].lista, gestion[x].consulta)
    BY <2>1 DEF ListsInv, ReadsAgree
  <2>3. CASE gestion[x].lista = k BY <1>4, <2>1, <2>3
  <2>4. CASE gestion[x].lista # k
    <3>1. PICK l \in Listas, q \in Consultas : l = gestion[x].lista /\ q = gestion[x].consulta
      BY <1>2
    <3> QED BY <1>1, <1>4, <2>1, <2>2, <2>4, <3>1
  <2> QED BY <2>3, <2>4
<1> QED  BY <1>6, <1>7 DEF ListsInv, ListsAgree, ReadsAgree

\* Whatever a service does to its list keeps what agrees with the rows.
LEMMA ServiceAgrees ==
  ASSUME ListsTypeOK, ListsInv, NEW h \in Gestores, NEW k \in Listas, Service(h, k)
  PROVE  ListsInv'
<1> USE CataloguesAssumption
<1>0. SinGestion.op = "nada" /\ gestion[h] \in Gestiones /\ gestion[h].ficha \in Fichas
  BY DEF SinGestion, ListsTypeOK, Gestiones
<1>1. ASSUME NEW n \in Nombres, NEW a \in BOOLEAN, BeginCreateRow(h, k, n, a) PROVE ListsInv'
  <2>1. PICK i \in Fichas :
          /\ Pide(h, [SinGestion EXCEPT !.op = "crear", !.lista = k, !.ficha = i, !.nombre = n, !.activo = a])
          /\ UNCHANGED <<rutina, fichas, respuestas>>
    BY <1>1 DEF BeginCreateRow
  <2>2. PICK g \in Gestiones : g = [SinGestion EXCEPT !.op = "crear", !.lista = k, !.ficha = i, !.nombre = n, !.activo = a]
    BY IdleTyped DEF Gestiones, Ops
  <2>3. g.op = "crear" BY <2>2 DEF SinGestion
  <2> QED  BY <1>0, <2>1, <2>2, <2>3, ListsAgreeWhenClosed DEF Pide
<1>2. ASSUME NEW i \in Fichas, NEW n \in Nombres \cup {0}, NEW a \in BOOLEAN, BeginUpdateRow(h, k, i, n, a)
      PROVE  ListsInv'
  <2>2. PICK g \in Gestiones : g = [SinGestion EXCEPT !.op = "editar", !.lista = k, !.ficha = i, !.nombre = n, !.activo = a]
    BY IdleTyped DEF Gestiones, Ops
  <2>3. g.op = "editar" BY <2>2 DEF SinGestion
  <2> QED  BY <1>0, <1>2, <2>2, <2>3, ListsAgreeWhenClosed DEF Pide, BeginUpdateRow
<1>3. ASSUME NEW i \in Fichas, BeginRemoveRow(h, k, i) PROVE ListsInv'
  <2>2. PICK g \in Gestiones : g = [SinGestion EXCEPT !.op = "quitar", !.lista = k, !.ficha = i]
    BY IdleTyped DEF Gestiones, Ops
  <2>3. g.op = "quitar" BY <2>2 DEF SinGestion
  <2> QED  BY <1>0, <1>3, <2>2, <2>3, ListsAgreeWhenClosed DEF Pide, BeginRemoveRow
<1>4. ASSUME RefusedRow(h), gestion[h].op # "limpiar" PROVE ListsInv'
  BY <1>0, <1>4, IdleTyped, ListsAgreeWhenClosed DEF RefusedRow, Cierra
<1>5. ASSUME CreateRow1(h, k) PROVE ListsInv'
  <2>1. ASSUME NEW i \in Fichas, NEW row, WritesFicha(h, k, i, row) PROVE ListsInv'
    BY <1>5, <2>1, WritingAgrees DEF CreateRow1
  <2> QED  BY <1>0, <1>4, <1>5, <2>1 DEF CreateRow1
<1>6. ASSUME UpdateRow1(h, k) PROVE ListsInv'
  <2>1. ASSUME NEW i \in Fichas, NEW row, WritesFicha(h, k, i, row) PROVE ListsInv'
    BY <1>6, <2>1, WritingAgrees DEF UpdateRow1
  <2> QED  BY <1>0, <1>4, <1>6, <2>1 DEF UpdateRow1
<1>7. ASSUME RemoveRow1(h, k) PROVE ListsInv' BY <1>0, <1>7, WritingAgrees DEF RemoveRow1
<1> QED  BY <1>1, <1>2, <1>3, <1>5, <1>6, <1>7 DEF Service

\* So does every step on the lists.
LEMMA ListsStayAgreed ==
  ASSUME ListsTypeOK, ListsInv, ListsNext
  PROVE  ListsInv'
<1> USE CataloguesAssumption
<1>1. rutina.listas \subseteq Listas BY DEF ListsTypeOK, RutinaType
<1>0. ASSUME UNCHANGED fichas
      PROVE  \A l \in Listas, q \in Consultas : FindAllUncached(l, q)' = FindAllUncached(l, q)
  BY <1>0, ShownAlike
<1>01. \A x \in Gestores : gestion[x] \in Gestiones /\ gestion[x].lista \in Listas /\ gestion[x].consulta \in Consultas
  BY DEF ListsTypeOK, Gestiones
<1>2. ASSUME NEW k \in Listas, NEW q \in Consultas, Expires(k, q) PROVE ListsInv'
  <2>1. UNCHANGED <<fichas, gestion>> BY <1>2 DEF Expires
  <2>2. \A l \in Listas, c \in Consultas : respuestas'[l][c].hay => respuestas'[l][c] = respuestas[l][c]
    BY <1>2 DEF Expires, Vacia, ListsTypeOK
  <2>3. ListsAgree' BY <1>0, <2>1, <2>2 DEF ListsInv, ListsAgree
  <2>4. ReadsAgree' BY <1>0, <1>01, <2>1 DEF ListsInv, ReadsAgree
  <2> QED  BY <2>3, <2>4 DEF ListsInv
<1>3. ASSUME NEW h \in Gestores, NEW k \in Listas, NEW q \in Consultas, FindAll(h, k, q) PROVE ListsInv'
  <2>1. UNCHANGED <<fichas, respuestas>> /\ gestion[h].op = "nada"
    BY <1>3 DEF FindAll, Pide, SinGestion
  <2>2. PICK g \in Gestiones : g = [SinGestion EXCEPT !.op = "listar", !.lista = k, !.consulta = q, !.valor = FindAllUncached(k, q)]
    BY IdleTyped, ReadingTyped DEF Gestiones, Ops
  <2>3. g.op = "listar" /\ g.lista = k /\ g.consulta = q /\ g.valor = FindAllUncached(k, q)
    BY <2>2 DEF SinGestion
  <2>4. gestion' = [gestion EXCEPT ![h] = g] BY <1>3, <2>2 DEF FindAll, Pide
  <2>5. gestion'[h] = g /\ \A x \in Gestores \ {h} : gestion'[x] = gestion[x]
    BY <2>4 DEF ListsTypeOK
  <2>6. ListsAgree' BY <1>0, <2>1, <2>5 DEF ListsInv, ListsAgree
  <2>7. ASSUME NEW x \in Gestores, gestion'[x].op = "listar"
        PROVE  gestion'[x].cruzada \/ gestion'[x].valor = FindAllUncached(gestion[x].lista, gestion[x].consulta)'
    <3>1. CASE x = h BY <1>0, <2>1, <2>3, <2>5, <3>1
    <3>2. CASE x # h BY <1>0, <1>01, <2>1, <2>5, <2>7, <3>2 DEF ListsInv, ReadsAgree
    <3> QED  BY <3>1, <3>2
  <2> QED  BY <2>6, <2>7 DEF ListsInv, ReadsAgree
<1>4. ASSUME NEW h \in Gestores, GetOrSet(h) PROVE ListsInv'
  <2> DEFINE l == gestion[h].lista
             c == gestion[h].consulta
  <2>1. UNCHANGED fichas /\ gestion[h].op = "listar" BY <1>4 DEF GetOrSet
  <2>2. gestion'[h].op = "nada" /\ \A x \in Gestores \ {h} : gestion'[x] = gestion[x]
    BY <1>4 DEF GetOrSet, Cierra, SinGestion, ListsTypeOK
  <2>3. /\ respuestas'[l][c].valor = gestion[h].valor /\ respuestas'[l][c].cruzada = gestion[h].cruzada
        /\ \A k \in Listas, q \in Consultas : <<k, q>> # <<l, c>> => respuestas'[k][q] = respuestas[k][q]
    BY <1>01, <1>4 DEF GetOrSet, ListsTypeOK
  <2>4. gestion[h].cruzada \/ gestion[h].valor = FindAllUncached(l, c)
    BY <2>1 DEF ListsInv, ReadsAgree
  <2>5. \A x \in Gestores : gestion[x].op = "limpiar" => gestion'[x] = gestion[x] BY <2>1, <2>2
  <2>6. ASSUME NEW k \in Listas, NEW q \in Consultas, respuestas'[k][q].hay
        PROVE  \/ respuestas'[k][q].valor = FindAllUncached(k, q)'
               \/ respuestas'[k][q].cruzada
               \/ \E x \in Gestores : gestion'[x].op = "limpiar" /\ gestion'[x].lista = k
    <3>1. CASE <<k, q>> = <<l, c>> BY <1>0, <1>01, <2>1, <2>3, <2>4, <3>1
    <3>2. CASE <<k, q>> # <<l, c>> BY <1>0, <2>1, <2>3, <2>5, <2>6, <3>2 DEF ListsInv, ListsAgree
    <3> QED  BY <3>1, <3>2
  <2>7. ReadsAgree' BY <1>0, <1>01, <2>1, <2>2 DEF ListsInv, ReadsAgree
  <2> QED  BY <2>6, <2>7 DEF ListsInv, ListsAgree
<1>5. ASSUME NEW h \in Gestores, ClearCache(h) PROVE ListsInv'
  <2> DEFINE l == gestion[h].lista
  <2>1. UNCHANGED fichas BY <1>5 DEF ClearCache
  <2>2. gestion'[h].op = "nada" /\ \A x \in Gestores \ {h} : gestion'[x] = gestion[x]
    BY <1>5 DEF ClearCache, Cierra, SinGestion, ListsTypeOK
  <2>3. \A k \in Listas, q \in Consultas : respuestas'[k][q].hay => k # l /\ respuestas'[k][q] = respuestas[k][q]
    BY <1>01, <1>5 DEF ClearCache, Vacia, ListsTypeOK
  <2>4. \A x \in Gestores, k \in Listas : k # l /\ gestion[x].op = "limpiar" /\ gestion[x].lista = k
          => gestion'[x].op = "limpiar" /\ gestion'[x].lista = k
    BY <2>2
  <2>5. ListsAgree' BY <1>0, <2>1, <2>3, <2>4 DEF ListsInv, ListsAgree
  <2>6. ReadsAgree' BY <1>0, <1>01, <2>1, <2>2 DEF ListsInv, ReadsAgree
  <2> QED  BY <2>5, <2>6 DEF ListsInv
<1> QED  BY <1>1, <1>2, <1>3, <1>4, <1>5, ServicesAre, ServiceAgrees DEF ListsNext

----------------------------------------
(* The agencies.                                                           *)

\* A synchronisation has its courier for itself, and what it is to write follows from what it wrote.
SyncsAlone ==
  /\ \A h \in Gestores :
       sincro[h] # Quieto =>
         /\ sincro[h].courier \in running /\ ejecucion[sincro[h].courier] = "procesando"
         /\ sincro[h].paso # "pedir" => sincro[h].vistas # {}
         /\ sincro[h].paso = "retirar" => sincro[h].vistas \subseteq activas[sincro[h].courier]
         /\ sincro[h].paso = "cerrar" => sincro[h].vistas = activas[sincro[h].courier]
  /\ \A h, x \in Gestores :
       sincro[h] # Quieto /\ sincro[x] # Quieto /\ sincro[h].courier = sincro[x].courier => h = x

AgenciesInv == AgenciesTypeOK /\ SyncsAlone /\ AgenciesAsReceived

\* What a synchronisation has in hand is of its type.
LEMMA SyncIsTyped ==
  ASSUME AgenciesTypeOK, NEW h \in Gestores
  PROVE  /\ sincro[h] \in Sincros \/ sincro[h] = Quieto
         /\ Quieto.paso = "nada" /\ Quieto \notin Sincros
         /\ sincro[h].paso # "nada" => sincro[h] # Quieto
         /\ sincro[h] # Quieto => /\ sincro[h] \in Sincros /\ sincro[h].courier \in Couriers
                                  /\ sincro[h].vistas \in SUBSET Agencias
  BY DEF AgenciesTypeOK, Sincros, Quieto

\* So is what it has after a step.
LEMMA StepTyped ==
  ASSUME NEW s \in Sincros, NEW p \in {"pedir", "guardar", "retirar", "cerrar"},
         NEW v \in SUBSET Agencias
  PROVE  /\ [s EXCEPT !.paso = p] \in Sincros
         /\ [s EXCEPT !.paso = p].paso = p /\ [s EXCEPT !.paso = p].courier = s.courier
         /\ [s EXCEPT !.paso = p].vistas = s.vistas
         /\ [s EXCEPT !.paso = p, !.vistas = v] \in Sincros
         /\ [s EXCEPT !.paso = p, !.vistas = v].paso = p
         /\ [s EXCEPT !.paso = p, !.vistas = v].courier = s.courier
         /\ [s EXCEPT !.paso = p, !.vistas = v].vistas = v
  BY DEF Sincros

\* Every step of a synchronisation keeps the invariant of the agencies.
LEMMA AgenciesStay ==
  ASSUME AgenciesInv, AgenciesNext
  PROVE  AgenciesInv'
<1> USE DEF AgenciesInv
<1>0. \A h \in Gestores : sincro[h] # Quieto =>
        /\ sincro[h] \in Sincros /\ sincro[h].courier \in Couriers /\ sincro[h].vistas \in SUBSET Agencias
  BY SyncIsTyped
<1>1. ASSUME NEW h \in Gestores, NEW c \in Couriers, Sync(h, c) PROVE AgenciesInv'
  <2>1. PICK s \in Sincros : s = [courier |-> c, paso |-> "pedir", vistas |-> {}] BY DEF Sincros
  <2>2. sincro' = [sincro EXCEPT ![h] = s] /\ s # Quieto /\ s.courier = c /\ s.paso = "pedir"
    BY <1>1, <2>1, SyncIsTyped DEF Sync, Quieto
  <2>3. sincro'[h] = s /\ \A x \in Gestores \ {h} : sincro'[x] = sincro[x]
    BY <2>2 DEF AgenciesTypeOK
  <2>4. /\ running' = running \cup {c} /\ c \notin running
        /\ ejecucion' = [ejecucion EXCEPT ![c] = "procesando"] /\ UNCHANGED <<activas, recibidas>>
    BY <1>1 DEF Sync, NotRunning
  <2>5. AgenciesTypeOK' BY <2>2, <2>4 DEF AgenciesTypeOK
  <2>6. SyncsAlone' BY <1>0, <2>2, <2>3, <2>4 DEF SyncsAlone, AgenciesTypeOK
  <2>7. AgenciesAsReceived' BY <2>4 DEF AgenciesAsReceived, AgenciesTypeOK
  <2> QED  BY <2>5, <2>6, <2>7
<1>2. ASSUME NEW h \in Gestores, NEW c \in Couriers, SyncStuck(h, c) PROVE AgenciesInv'
  BY <1>2 DEF SyncStuck, SyncsAlone, AgenciesAsReceived, AgenciesTypeOK
<1>3. ASSUME NEW h \in Gestores, FetchAgencies(h) PROVE AgenciesInv'
  <2>1. PICK v \in (SUBSET Agencias) \ {{}} : sincro' = [sincro EXCEPT ![h].paso = "guardar", ![h].vistas = v]
    BY <1>3 DEF FetchAgencies
  <2>2. sincro[h] \in Sincros /\ sincro[h] # Quieto BY <1>3, SyncIsTyped DEF FetchAgencies, Quieto
  <2>3. PICK s \in Sincros : s = [sincro[h] EXCEPT !.paso = "guardar", !.vistas = v]
    BY <2>2, StepTyped
  <2>4. s.courier = sincro[h].courier /\ s.paso = "guardar" /\ s.vistas = v /\ s # Quieto /\ v # {}
    <3>1. s # Quieto BY SyncIsTyped
    <3>2. PICK r \in Sincros : r = sincro[h] BY <2>2
    <3>3. s = [r EXCEPT !.paso = "guardar", !.vistas = v] BY <2>3, <3>2
    <3>4. v \in SUBSET Agencias /\ v # {} OBVIOUS
    <3>5. s.courier = r.courier /\ s.paso = "guardar" /\ s.vistas = v
      <4>1. s = [courier |-> r.courier, paso |-> "guardar", vistas |-> v] BY <3>3 DEF Sincros
      <4> QED  BY <4>1
    <3> QED  BY <3>1, <3>2, <3>4, <3>5
  <2>5. sincro' = [sincro EXCEPT ![h] = s] BY <2>1, <2>3 DEF AgenciesTypeOK
  <2>6. sincro'[h] = s /\ \A x \in Gestores \ {h} : sincro'[x] = sincro[x]
    BY <2>5 DEF AgenciesTypeOK
  <2>7. UNCHANGED <<activas, running, ejecucion, recibidas>> BY <1>3 DEF FetchAgencies
  <2>8. AgenciesTypeOK' BY <2>5, <2>7 DEF AgenciesTypeOK
  <2>9. SyncsAlone' BY <1>0, <2>2, <2>4, <2>6, <2>7 DEF SyncsAlone
  <2> QED  BY <2>7, <2>8, <2>9 DEF AgenciesAsReceived
<1>4. ASSUME NEW h \in Gestores, UpsertAgencies(h) PROVE AgenciesInv'
  <2> DEFINE c == sincro[h].courier
  <2>2. sincro[h] \in Sincros /\ sincro[h] # Quieto /\ c \in Couriers /\ sincro[h].vistas \in SUBSET Agencias
    BY <1>4, SyncIsTyped DEF UpsertAgencies, Quieto
  <2>3. PICK s \in Sincros : s = [sincro[h] EXCEPT !.paso = "retirar"] BY <2>2, StepTyped
  <2>4. s.courier = c /\ s.paso = "retirar" /\ s.vistas = sincro[h].vistas /\ s # Quieto
    BY ZenonT(40), <2>2, <2>3, StepTyped, SyncIsTyped
  <2>5. sincro' = [sincro EXCEPT ![h] = s] BY <1>4, <2>3 DEF UpsertAgencies, AgenciesTypeOK
  <2>6. sincro'[h] = s /\ \A x \in Gestores \ {h} : sincro'[x] = sincro[x]
    BY <2>5 DEF AgenciesTypeOK
  <2>7. /\ activas'[c] = activas[c] \cup sincro[h].vistas
        /\ \A d \in Couriers \ {c} : activas'[d] = activas[d]
        /\ activas' \in [Couriers -> SUBSET Agencias]
        /\ UNCHANGED <<running, ejecucion, recibidas>>
    BY <1>4, <2>2 DEF UpsertAgencies, AgenciesTypeOK
  <2>8. AgenciesTypeOK' BY <2>5, <2>7 DEF AgenciesTypeOK
  <2>9. \A x \in Gestores \ {h} : sincro[x] # Quieto => sincro[x].courier # c BY <2>2 DEF SyncsAlone
  <2>10. sincro[h].vistas # {} /\ ejecucion[c] = "procesando" /\ c \in running
    BY <1>4, <2>2 DEF SyncsAlone, UpsertAgencies
  <2>11. SyncsAlone' BY <1>0, <2>2, <2>4, <2>6, <2>7, <2>9, <2>10 DEF SyncsAlone
  <2>12. AgenciesAsReceived' BY <2>2, <2>7, <2>10 DEF AgenciesAsReceived
  <2> QED  BY <2>8, <2>11, <2>12
<1>5. ASSUME NEW h \in Gestores, Deactivate(h) PROVE AgenciesInv'
  <2> DEFINE c == sincro[h].courier
  <2>2. sincro[h] \in Sincros /\ sincro[h] # Quieto /\ c \in Couriers /\ sincro[h].vistas \in SUBSET Agencias
    BY <1>5, SyncIsTyped DEF Deactivate, Quieto
  <2>3. PICK s \in Sincros : s = [sincro[h] EXCEPT !.paso = "cerrar"] BY <2>2, StepTyped
  <2>4. s.courier = c /\ s.paso = "cerrar" /\ s.vistas = sincro[h].vistas /\ s # Quieto
    BY ZenonT(40), <2>2, <2>3, StepTyped, SyncIsTyped
  <2>5. sincro' = [sincro EXCEPT ![h] = s] BY <1>5, <2>3 DEF Deactivate, AgenciesTypeOK
  <2>6. sincro'[h] = s /\ \A x \in Gestores \ {h} : sincro'[x] = sincro[x]
    BY <2>5 DEF AgenciesTypeOK
  <2>7. /\ activas'[c] = activas[c] \cap sincro[h].vistas
        /\ \A d \in Couriers \ {c} : activas'[d] = activas[d]
        /\ activas' \in [Couriers -> SUBSET Agencias]
        /\ UNCHANGED <<running, ejecucion, recibidas>>
    BY <1>5, <2>2 DEF Deactivate, AgenciesTypeOK
  <2>8. AgenciesTypeOK' BY <2>5, <2>7 DEF AgenciesTypeOK
  <2>9. \A x \in Gestores \ {h} : sincro[x] # Quieto => sincro[x].courier # c BY <2>2 DEF SyncsAlone
  <2>10. /\ sincro[h].vistas # {} /\ ejecucion[c] = "procesando" /\ c \in running
         /\ sincro[h].vistas \subseteq activas[c]
    BY <1>5, <2>2 DEF SyncsAlone, Deactivate
  <2>13. activas'[c] = sincro[h].vistas BY <2>7, <2>10
  <2>11. SyncsAlone' BY <1>0, <2>2, <2>4, <2>6, <2>7, <2>9, <2>10, <2>13 DEF SyncsAlone
  <2>12. AgenciesAsReceived' BY <2>2, <2>7, <2>10 DEF AgenciesAsReceived
  <2> QED  BY <2>8, <2>11, <2>12
<1>6. ASSUME NEW h \in Gestores, NEW c \in Couriers, NEW e \in {"completada", "fallida", "procesando"},
             sincro[h] # Quieto, c = sincro[h].courier,
             sincro' = [sincro EXCEPT ![h] = Quieto], running' = running \ {c},
             ejecucion' = [ejecucion EXCEPT ![c] = e], UNCHANGED activas,
             recibidas' \in [Couriers -> SUBSET Agencias],
             \A d \in Couriers \ {c} : recibidas'[d] = recibidas[d],
             e = "completada" => activas[c] = recibidas'[c] /\ activas[c] # {}
      PROVE  AgenciesInv'
  <2>1. AgenciesTypeOK' BY <1>6 DEF AgenciesTypeOK
  <2>2. sincro'[h] = Quieto /\ \A x \in Gestores \ {h} : sincro'[x] = sincro[x]
    BY <1>6 DEF AgenciesTypeOK
  <2>3. \A x \in Gestores \ {h} : sincro[x] # Quieto => sincro[x].courier # c BY <1>6 DEF SyncsAlone
  <2>4. SyncsAlone' BY <1>0, <1>6, <2>2, <2>3 DEF SyncsAlone, AgenciesTypeOK
  <2>5. AgenciesAsReceived' BY <1>6 DEF AgenciesAsReceived, AgenciesTypeOK
  <2> QED  BY <2>1, <2>4, <2>5
<1>7. ASSUME NEW h \in Gestores, CompleteSync(h) PROVE AgenciesInv'
  <2>1. sincro[h] # Quieto /\ sincro[h].courier \in Couriers /\ sincro[h].vistas \in SUBSET Agencias
    BY <1>7, SyncIsTyped DEF CompleteSync, Quieto
  <2>2. sincro[h].vistas = activas[sincro[h].courier] /\ sincro[h].vistas # {}
    BY <1>7, <2>1 DEF SyncsAlone, CompleteSync
  <2>3. /\ recibidas' \in [Couriers -> SUBSET Agencias]
        /\ \A d \in Couriers \ {sincro[h].courier} : recibidas'[d] = recibidas[d]
        /\ recibidas'[sincro[h].courier] = sincro[h].vistas
    BY <1>7, <2>1 DEF CompleteSync, AgenciesTypeOK
  <2> QED  BY <1>6, <1>7, <2>1, <2>2, <2>3 DEF CompleteSync
<1>8. ASSUME NEW h \in Gestores, SyncFails(h) PROVE AgenciesInv'
  <2>1. sincro[h] # Quieto /\ sincro[h].courier \in Couriers BY <1>8, SyncIsTyped DEF SyncFails
  <2>2. PICK e \in {"fallida", "procesando"} : ejecucion' = [ejecucion EXCEPT ![sincro[h].courier] = e]
    BY <1>8 DEF SyncFails
  <2>3. recibidas' \in [Couriers -> SUBSET Agencias] /\ UNCHANGED recibidas
    BY <1>8 DEF SyncFails, AgenciesTypeOK
  <2> QED  BY <1>6, <1>8, <2>1, <2>2, <2>3 DEF SyncFails
<1> QED  BY <1>1, <1>2, <1>3, <1>4, <1>5, <1>7, <1>8 DEF AgenciesNext

\* What writes nothing of the agencies keeps it.
LEMMA AgenciesFrame ==
  ASSUME AgenciesInv, UNCHANGED agencyVars
  PROVE  AgenciesInv'
  BY DEF AgenciesInv, agencyVars, AgenciesTypeOK, SyncsAlone, AgenciesAsReceived

\* A restart keeps it: what it cuts is not complete.
LEMMA AgenciesCut ==
  ASSUME AgenciesInv, AgenciesRestart
  PROVE  AgenciesInv'
  BY DEF AgenciesInv, AgenciesRestart, AgenciesTypeOK, SyncsAlone, AgenciesAsReceived

\* It holds at the start.
LEMMA AgenciesStart == AgenciesInit => AgenciesInv
  BY DEF AgenciesInv, AgenciesInit, AgenciesTypeOK, SyncsAlone, AgenciesAsReceived

----------------------------------------
(* The products: types.                                                    *)

\* What every request on a product has, open or not.
LEMMA LedgerTyped ==
  ASSUME ProductsTypeOK, NEW h \in Gestores
  PROVE  /\ Libreta \notin Libretas /\ Libreta.paso = "nada"
         /\ form[h].paso # "nada" => form[h] \in Libretas
         /\ form[h].paso = "nada" => form[h] = Libreta
<1>1. form[h] \in Libretas \/ form[h] = Libreta BY DEF ProductsTypeOK
<1>2. Libreta.paso = "nada" BY DEF Libreta
<1>3. ASSUME NEW l \in Libretas PROVE l.paso # "nada" BY DEF Libretas, Pasos
<1> QED  BY <1>1, <1>2, <1>3

\* Every field of a request on a product is of its type.
LEMMA FieldsTyped ==
  ASSUME ProductsTypeOK, NEW h \in Gestores
  PROVE  /\ form[h].archivos \in SUBSET Archivos /\ form[h].borrados \in SUBSET Archivos
         /\ form[h].subidas \in SUBSET ImagenRows
         /\ form[h].baja \in Nat /\ form[h].uso \in Nat
         /\ form[h].crea \in BOOLEAN /\ form[h].vieja \in BOOLEAN /\ form[h].choca \in BOOLEAN
         /\ form[h].cruzada \in BOOLEAN
         /\ form[h].paso # "nada" => form[h].producto \in Productos
         /\ form[h].forma \in Formas \cup {Cero}
<1>1. CASE form[h] \in Libretas BY <1>1 DEF Libretas
<1>2. CASE form[h] = Libreta BY <1>2 DEF Libreta
<1> QED  BY <1>1, <1>2 DEF ProductsTypeOK

\* What a form says is of its type.
LEMMA FormIsTyped ==
  ASSUME NEW f \in Formas \cup {Cero}
  PROVE  /\ f.nuevas \in Nat /\ f.colores \in SUBSET Fichas /\ f.celdas \in SUBSET Celdas
         /\ f.nombre \in Nombres \cup {0} /\ f.normal \in BOOLEAN /\ f.stock \in BOOLEAN
<1>1. CASE f \in Formas
  <2>1. f \in FormaType BY <1>1, ProductsAssumption
  <2> QED  BY <2>1 DEF FormaType
<1>2. CASE f = Cero BY <1>2 DEF Cero
<1> QED  BY <1>1, <1>2

\* A request that goes on to another step changes nothing else.
LEMMA PasoFields ==
  ASSUME NEW r \in Libretas, NEW p \in Pasos
  PROVE  \E l \in Libretas :
           /\ l = [r EXCEPT !.paso = p]
           /\ l.paso = p
           /\ l.crea = r.crea /\ l.producto = r.producto /\ l.forma = r.forma /\ l.archivos = r.archivos
           /\ l.baja = r.baja /\ l.uso = r.uso /\ l.vieja = r.vieja /\ l.choca = r.choca
           /\ l.cruzada = r.cruzada /\ l.borrados = r.borrados /\ l.subidas = r.subidas
<1>1. PICK v : v = [r EXCEPT !.paso = p] OBVIOUS
<1>2. v \in Libretas BY <1>1 DEF Libretas
<1>3. v.paso = p BY <1>1 DEF Libretas
<1>4. v.crea = r.crea /\ v.producto = r.producto /\ v.forma = r.forma /\ v.archivos = r.archivos
  BY <1>1 DEF Libretas
<1>5. v.baja = r.baja /\ v.uso = r.uso /\ v.vieja = r.vieja /\ v.choca = r.choca
  BY <1>1 DEF Libretas
<1>6. v.cruzada = r.cruzada /\ v.borrados = r.borrados /\ v.subidas = r.subidas BY <1>1 DEF Libretas
<1> QED  BY <1>1, <1>2, <1>3, <1>4, <1>5, <1>6

\* A request that deletes files changes nothing else.
LEMMA BorradosFields ==
  ASSUME NEW r \in Libretas, NEW b \in SUBSET Archivos
  PROVE  \E l \in Libretas :
           /\ l = [r EXCEPT !.borrados = b]
           /\ l.borrados = b
           /\ l.paso = r.paso /\ l.crea = r.crea /\ l.producto = r.producto /\ l.forma = r.forma
           /\ l.archivos = r.archivos /\ l.baja = r.baja /\ l.uso = r.uso /\ l.vieja = r.vieja
           /\ l.choca = r.choca /\ l.cruzada = r.cruzada /\ l.subidas = r.subidas
<1>1. PICK v : v = [r EXCEPT !.borrados = b] OBVIOUS
<1>2. v \in Libretas BY <1>1 DEF Libretas
<1>3. v.borrados = b BY <1>1 DEF Libretas
<1>4. v.paso = r.paso /\ v.crea = r.crea /\ v.producto = r.producto /\ v.forma = r.forma
  BY <1>1 DEF Libretas
<1>5. v.archivos = r.archivos /\ v.baja = r.baja /\ v.uso = r.uso /\ v.vieja = r.vieja
  BY <1>1 DEF Libretas
<1>6. v.choca = r.choca /\ v.cruzada = r.cruzada /\ v.subidas = r.subidas BY <1>1 DEF Libretas
<1> QED  BY <1>1, <1>2, <1>3, <1>4, <1>5, <1>6

\* A request that uploads photographs changes nothing else.
LEMMA SubidasFields ==
  ASSUME NEW r \in Libretas, NEW s \in SUBSET ImagenRows
  PROVE  \E l \in Libretas :
           /\ l = [r EXCEPT !.subidas = s]
           /\ l.subidas = s
           /\ l.paso = r.paso /\ l.crea = r.crea /\ l.producto = r.producto /\ l.forma = r.forma
           /\ l.archivos = r.archivos /\ l.baja = r.baja /\ l.uso = r.uso /\ l.vieja = r.vieja
           /\ l.choca = r.choca /\ l.cruzada = r.cruzada /\ l.borrados = r.borrados
<1>1. PICK v : v = [r EXCEPT !.subidas = s] OBVIOUS
<1>2. v \in Libretas BY <1>1 DEF Libretas
<1>3. v.subidas = s BY <1>1 DEF Libretas
<1>4. v.paso = r.paso /\ v.crea = r.crea /\ v.producto = r.producto /\ v.forma = r.forma
  BY <1>1 DEF Libretas
<1>5. v.archivos = r.archivos /\ v.baja = r.baja /\ v.uso = r.uso /\ v.vieja = r.vieja
  BY <1>1 DEF Libretas
<1>6. v.choca = r.choca /\ v.cruzada = r.cruzada /\ v.borrados = r.borrados BY <1>1 DEF Libretas
<1> QED  BY <1>1, <1>2, <1>3, <1>4, <1>5, <1>6

\* A transaction that begins sees the usage, and no write since.
LEMMA EsperaFields ==
  ASSUME NEW r \in Libretas, NEW u \in Nat
  PROVE  \E l \in Libretas :
           /\ l = [r EXCEPT !.paso = "espera", !.uso = u, !.choca = FALSE, !.cruzada = FALSE]
           /\ l.paso = "espera" /\ l.uso = u /\ l.choca = FALSE /\ l.cruzada = FALSE
           /\ l.crea = r.crea /\ l.producto = r.producto /\ l.forma = r.forma /\ l.archivos = r.archivos
           /\ l.baja = r.baja /\ l.vieja = r.vieja /\ l.borrados = r.borrados /\ l.subidas = r.subidas
<1>1. PICK v : v = [r EXCEPT !.paso = "espera", !.uso = u, !.choca = FALSE, !.cruzada = FALSE]
  OBVIOUS
<1>2. v \in Libretas BY <1>1 DEF Libretas, Pasos
<1>3. v.paso = "espera" /\ v.uso = u /\ v.choca = FALSE /\ v.cruzada = FALSE BY <1>1 DEF Libretas
<1>4. v.crea = r.crea /\ v.producto = r.producto /\ v.forma = r.forma /\ v.archivos = r.archivos
  BY <1>1 DEF Libretas
<1>5. v.baja = r.baja /\ v.vieja = r.vieja /\ v.borrados = r.borrados /\ v.subidas = r.subidas
  BY <1>1 DEF Libretas
<1> QED  BY <1>1, <1>2, <1>3, <1>4, <1>5

\* What was created is to be read, with nothing deleted.
LEMMA LeerFields ==
  ASSUME NEW r \in Libretas
  PROVE  \E l \in Libretas :
           /\ l = [r EXCEPT !.paso = "leer", !.borrados = {}]
           /\ l.paso = "leer" /\ l.borrados = {}
           /\ l.crea = r.crea /\ l.producto = r.producto /\ l.forma = r.forma /\ l.archivos = r.archivos
           /\ l.baja = r.baja /\ l.uso = r.uso /\ l.vieja = r.vieja /\ l.choca = r.choca
           /\ l.cruzada = r.cruzada /\ l.subidas = r.subidas
<1>1. PICK v : v = [r EXCEPT !.paso = "leer", !.borrados = {}] OBVIOUS
<1>2. v \in Libretas BY <1>1 DEF Libretas, Pasos
<1>3. v.paso = "leer" /\ v.borrados = {} BY <1>1 DEF Libretas
<1>4. v.crea = r.crea /\ v.producto = r.producto /\ v.forma = r.forma /\ v.archivos = r.archivos
  BY <1>1 DEF Libretas
<1>5. v.baja = r.baja /\ v.uso = r.uso /\ v.vieja = r.vieja /\ v.choca = r.choca
  BY <1>1 DEF Libretas
<1>6. v.cruzada = r.cruzada /\ v.subidas = r.subidas BY <1>1 DEF Libretas
<1> QED  BY <1>1, <1>2, <1>3, <1>4, <1>5, <1>6

----------------------------------------
(* The products: the invariant.                                            *)

\* A file belongs to one photograph, and was uploaded.
ImagesApart ==
  /\ \A i, j \in imagenes : i.archivo = j.archivo => i = j
  /\ \A i \in imagenes : i.archivo <= subidos
\* The files a request has read or deleted are of its product.
Own(l) ==
  \A a \in l.archivos \cup l.borrados :
    a <= subidos /\ \A i \in imagenes : i.archivo = a => i.producto = l.producto
\* What a request has deleted and uploaded by its step; a form deletes nothing that it keeps.
InStep(l) ==
  /\ l.paso # "quitar" => l.borrados \cap l.archivos = {}
  /\ l.paso \notin {"dentro", "quitar"} => l.borrados = {}
  /\ l.paso \in {"abierta", "espera", "quitar"} => l.subidas = {}
\* What a form uploads is there, and is nobody's photograph yet.
Uploading(l) ==
  l.paso = "dentro" =>
    /\ \A u \in l.subidas : /\ u.producto = l.producto /\ u.archivo \in almacen /\ u.archivo <= subidos
                            /\ \A i \in imagenes : i.archivo # u.archivo
    /\ \A u, v \in l.subidas : u.archivo = v.archivo => u = v
UploadsApart ==
  \A h, x \in Gestores :
    form[h].paso = "dentro" =>
      \A u \in form[h].subidas : u.archivo \notin form[x].archivos \cup form[x].borrados
FilesKept ==
  \A i \in imagenes : \/ i.archivo \in almacen \cup cortadas
                      \/ \E x \in Gestores : i.archivo \in form[x].borrados
OneInside ==
  \A h, x \in Gestores : form[h].paso = "dentro" /\ form[x].paso = "dentro" => h = x
Books ==
  /\ IsFiniteSet(imagenes)
  /\ \A p \in Productos : producto[p].estado = "no" => Fotos(p) = {}
  /\ ~pasada => Cardinality(imagenes) <= Espacio
\* What a form counted is still so, unless somebody wrote meanwhile.
Dropped(l) == {i \in Fotos(l.producto) : i.archivo \notin l.archivos}
Counted(l) ==
  /\ IsFiniteSet(l.subidas)
  /\ l.paso = "dentro" /\ ~l.crea => producto[l.producto].estado # "no"
  /\ l.paso = "dentro" =>
       l.forma.nuevas - l.baja <= 0 \/ l.uso + (l.forma.nuevas - l.baja) <= Espacio
  /\ ~pasada =>
       /\ l.paso \in {"espera", "dentro"} /\ ~l.cruzada => Cardinality(imagenes) <= l.uso
       /\ l.paso \in {"abierta", "espera", "dentro"} /\ ~l.vieja => l.baja = Cardinality(Dropped(l))

Each(l) == Own(l) /\ InStep(l) /\ Uploading(l) /\ Counted(l)
ProductsInv ==
  /\ ProductsTypeOK
  /\ ImagesApart /\ UploadsApart /\ OneInside /\ FilesKept /\ Books
  /\ \A h \in Gestores : Each(form[h])

\* A step of a request leaves the others.
LEMMA FormUpdated ==
  ASSUME ProductsTypeOK, NEW h \in Gestores, NEW l \in Libretas \cup {Libreta},
         form' = [form EXCEPT ![h] = l]
  PROVE  /\ form'[h] = l /\ \A x \in Gestores \ {h} : form'[x] = form[x]
         /\ form' \in [Gestores -> Libretas \cup {Libreta}]
  BY DEF ProductsTypeOK

\* A request that is over knows nothing that could be wrong.
LEMMA IdleIsEach == Each(Libreta)
<1>1. /\ Libreta.paso = "nada" /\ Libreta.archivos = {} /\ Libreta.borrados = {} /\ Libreta.subidas = {}
  BY DEF Libreta
<1>2. IsFiniteSet({}) BY FS_EmptySet
<1> QED  BY <1>1, <1>2 DEF Each, Own, InStep, Uploading, Counted

\* A request moves on and writes nothing.
LEMMA FormStep ==
  ASSUME ProductsInv, NEW h \in Gestores, NEW l \in Libretas \cup {Libreta},
         form' = [form EXCEPT ![h] = l],
         UNCHANGED <<producto, imagenes, almacen, subidos, pasada>>,
         cortadas \subseteq cortadas', cortadas' \in SUBSET Archivos,
         form[h].borrados \subseteq l.borrados \cup cortadas',
         Each(l), l.paso = "dentro" => l.subidas = {},
         l.paso = "dentro" => \A x \in Gestores \ {h} : form[x].paso # "dentro",
         \A x \in Gestores \ {h} : form[x].paso = "dentro" =>
           \A u \in form[x].subidas : u.archivo \notin l.archivos \cup l.borrados
  PROVE  ProductsInv'
<1> USE DEF ProductsInv
<1>1. /\ form'[h] = l /\ \A x \in Gestores \ {h} : form'[x] = form[x]
      /\ form' \in [Gestores -> Libretas \cup {Libreta}]
  BY FormUpdated
<1>2. ProductsTypeOK' BY <1>1 DEF ProductsTypeOK
<1>3. ImagesApart' /\ Books' BY DEF ImagesApart, Books, Fotos
<1>4. OneInside' BY <1>1 DEF OneInside
<1>5. UploadsApart' BY <1>1 DEF UploadsApart
<1>6. FilesKept'
  <2>1. \A x \in Gestores : form[x].borrados \subseteq form'[x].borrados \cup cortadas' BY <1>1
  <2> QED  BY <2>1 DEF FilesKept
<1>7. ASSUME NEW x \in Gestores PROVE Each(form[x])'
  <2>1. CASE x = h BY <1>1, <2>1 DEF Each, Own, InStep, Uploading, Counted, Dropped, Fotos
  <2>2. CASE x # h
    <3>1. Each(form[x]) /\ form'[x] = form[x] BY <1>1, <2>2
    <3> QED  BY <3>1 DEF Each, Own, InStep, Uploading, Counted, Dropped, Fotos
  <2> QED  BY <2>1, <2>2
<1> QED  BY <1>2, <1>3, <1>4, <1>5, <1>6, <1>7

\* The parts of the invariant.
LEMMA InvFields ==
  ASSUME ProductsInv, NEW h \in Gestores
  PROVE  /\ ProductsTypeOK /\ Own(form[h]) /\ InStep(form[h]) /\ Uploading(form[h]) /\ Counted(form[h])
         /\ IsFiniteSet(imagenes) /\ ImagesApart /\ UploadsApart /\ OneInside /\ FilesKept
         /\ subidos \in 0..MaxSubidas /\ cortadas \in SUBSET Archivos
  BY DEF ProductsInv, Each, Books, ProductsTypeOK

\* The row of a photograph is of its type.
LEMMA ImagesTyped ==
  ASSUME ProductsTypeOK, NEW i \in imagenes
  PROVE  i.producto \in Productos /\ i.color \in Fichas /\ i.archivo \in Archivos /\ i.archivo \in Nat
  BY ProductsAssumption DEF ProductsTypeOK, ImagenRows, Archivos

\* A request that reads a product, and its photographs, begins.
LEMMA Opened ==
  ASSUME ProductsInv, NEW h \in Gestores, NEW p \in Productos, NEW f \in Formas \cup {Cero},
         NEW s \in SUBSET ArchivosDe(p), NEW b \in Nat, NEW e \in {"abierta", "quitar"}, NEW c \in BOOLEAN,
         ~EnUso(h),
         b = Cardinality({i \in Fotos(p) : i.archivo \notin s}) \/ e = "quitar",
         NEW l, form' = [form EXCEPT ![h] = l],
         l = [paso |-> e, crea |-> c, producto |-> p, forma |-> f, archivos |-> s, baja |-> b, uso |-> 0,
              vieja |-> FALSE, choca |-> FALSE, cruzada |-> FALSE, borrados |-> {}, subidas |-> {}],
         UNCHANGED <<producto, imagenes, almacen, subidos, cortadas, pasada>>
  PROVE  ProductsInv'
<1>2. /\ l.paso = e /\ l.crea = c /\ l.producto = p /\ l.forma = f /\ l.archivos = s /\ l.baja = b
      /\ l.uso = 0 /\ l.borrados = {} /\ l.subidas = {}
  OBVIOUS
<1>3. s \subseteq Archivos /\ \A a \in s : \E i \in imagenes : i.archivo = a /\ i.producto = p
  BY InvFields, ImagesTyped DEF ArchivosDe, Fotos
<1>4. l \in Libretas BY <1>3 DEF Libretas, Pasos
<1>5. Own(l) BY <1>2, <1>3, InvFields DEF Own, ImagesApart
<1>6. InStep(l) /\ Uploading(l) BY <1>2 DEF InStep, Uploading
<1>7. Counted(l)
  <2>1. IsFiniteSet({}) BY FS_EmptySet
  <2>2. Dropped(l) = {i \in Fotos(p) : i.archivo \notin s} BY <1>2 DEF Dropped
  <2> QED  BY <1>2, <2>1, <2>2 DEF Counted
<1>8. form[h].borrados = {} BY LedgerTyped, InvFields DEF EnUso, Libreta
<1>9. \A x \in Gestores : form[x].paso = "dentro" =>
        \A u \in form[x].subidas : u.archivo \notin l.archivos \cup l.borrados
  BY <1>2, <1>3, InvFields DEF Uploading
<1> HIDE DEF Each
<1>10. Each(l) BY <1>5, <1>6, <1>7 DEF Each
<1>11. cortadas \in SUBSET Archivos BY InvFields
<1> QED  BY <1>2, <1>4, <1>8, <1>9, <1>10, <1>11, FormStep

\* A form that creates a product reads no photograph.
LEMMA OpenCreateKeeps ==
  ASSUME ProductsInv, NEW h \in Gestores, NEW p \in Productos, NEW f \in Formas, OpenCreate(h, p, f)
  PROVE  ProductsInv'
<1>1. producto[p].estado = "no" BY DEF OpenCreate, SinProducto
<1>2. Fotos(p) = {} BY <1>1 DEF ProductsInv, Books
<1>3. {i \in Fotos(p) : i.archivo \notin {}} = {} /\ Cardinality({}) = 0 BY <1>2, FS_EmptySet
<1>4. PICK l : l = [Libreta EXCEPT !.paso = "abierta", !.crea = TRUE, !.producto = p, !.forma = f]
  OBVIOUS
<1>5. l = [paso |-> "abierta", crea |-> TRUE, producto |-> p, forma |-> f, archivos |-> {}, baja |-> 0, uso |-> 0,
           vieja |-> FALSE, choca |-> FALSE, cruzada |-> FALSE, borrados |-> {}, subidas |-> {}]
  BY <1>4 DEF Libreta
<1>7. /\ form' = [form EXCEPT ![h] = l] /\ ~EnUso(h)
      /\ UNCHANGED <<producto, imagenes, almacen, subidos, cortadas, pasada>>
  BY <1>4 DEF OpenCreate, Opens
<1>8. PICK s \in SUBSET ArchivosDe(p) : s = {} OBVIOUS
<1>9. PICK b \in Nat : b = 0 OBVIOUS
<1>10. PICK e \in {"abierta", "quitar"} : e = "abierta" OBVIOUS
<1>11. PICK c \in BOOLEAN : c = TRUE OBVIOUS
<1>12. b = Cardinality({i \in Fotos(p) : i.archivo \notin s}) \/ e = "quitar" BY <1>3, <1>8, <1>9
<1>13. l = [paso |-> e, crea |-> c, producto |-> p, forma |-> f, archivos |-> s, baja |-> b, uso |-> 0,
           vieja |-> FALSE, choca |-> FALSE, cruzada |-> FALSE, borrados |-> {}, subidas |-> {}]
  BY <1>5, <1>8, <1>9, <1>10, <1>11
<1>14. f \in Formas \cup {Cero} OBVIOUS
<1> QED  BY <1>7, <1>12, <1>13, <1>14, Opened

\* The photographs of a product can be counted.
LEMMA FotosFinite ==
  ASSUME ProductsInv, NEW p, NEW S, S \subseteq Fotos(p)
  PROVE  IsFiniteSet(S) /\ Cardinality(S) \in Nat
  BY FS_Subset, FS_CardinalityType DEF ProductsInv, Books, Fotos

\* A form that updates a product drops those it does not keep.
LEMMA OpenUpdateKeeps ==
  ASSUME ProductsInv, NEW h \in Gestores, NEW p \in Productos, NEW f \in Formas, OpenUpdate(h, p, f)
  PROVE  ProductsInv'
<1>1. PICK s \in SUBSET ArchivosDe(p) :
        Opens(h, [Libreta EXCEPT !.paso = "abierta", !.producto = p, !.forma = f, !.archivos = s,
                                 !.baja = Cardinality({i \in Fotos(p) : i.archivo \notin s})])
  BY DEF OpenUpdate
<1>2. PICK b : b = Cardinality({i \in Fotos(p) : i.archivo \notin s}) OBVIOUS
<1>3. b \in Nat BY <1>2, FotosFinite
<1>4. PICK l : l = [Libreta EXCEPT !.paso = "abierta", !.producto = p, !.forma = f, !.archivos = s, !.baja = b]
  OBVIOUS
<1>5. l = [paso |-> "abierta", crea |-> FALSE, producto |-> p, forma |-> f, archivos |-> s, baja |-> b, uso |-> 0,
           vieja |-> FALSE, choca |-> FALSE, cruzada |-> FALSE, borrados |-> {}, subidas |-> {}]
  BY <1>4 DEF Libreta
<1>7. /\ form' = [form EXCEPT ![h] = l] /\ ~EnUso(h)
      /\ UNCHANGED <<producto, imagenes, almacen, subidos, cortadas, pasada>>
  BY <1>1, <1>2, <1>4 DEF OpenUpdate, Opens
<1>10. PICK e \in {"abierta", "quitar"} : e = "abierta" OBVIOUS
<1>11. PICK c \in BOOLEAN : c = FALSE OBVIOUS
<1>12. b = Cardinality({i \in Fotos(p) : i.archivo \notin s}) \/ e = "quitar" BY <1>2
<1>13. l = [paso |-> e, crea |-> c, producto |-> p, forma |-> f, archivos |-> s, baja |-> b, uso |-> 0,
           vieja |-> FALSE, choca |-> FALSE, cruzada |-> FALSE, borrados |-> {}, subidas |-> {}]
  BY <1>5, <1>10, <1>11
<1>14. f \in Formas \cup {Cero} OBVIOUS
<1> QED  BY <1>3, <1>7, <1>12, <1>13, <1>14, Opened

\* A removal reads them all.
LEMMA BeginRemoveKeeps ==
  ASSUME ProductsInv, NEW h \in Gestores, NEW p \in Productos, BeginRemove(h, p)
  PROVE  ProductsInv'
<1>1. PICK s \in SUBSET ArchivosDe(p) : s = ArchivosDe(p) OBVIOUS
<1>4. PICK l : l = [Libreta EXCEPT !.paso = "quitar", !.producto = p, !.archivos = s] OBVIOUS
<1>5. l = [paso |-> "quitar", crea |-> FALSE, producto |-> p, forma |-> Cero, archivos |-> s, baja |-> 0, uso |-> 0,
           vieja |-> FALSE, choca |-> FALSE, cruzada |-> FALSE, borrados |-> {}, subidas |-> {}]
  BY <1>4 DEF Libreta
<1>7. /\ form' = [form EXCEPT ![h] = l] /\ ~EnUso(h)
      /\ UNCHANGED <<producto, imagenes, almacen, subidos, cortadas, pasada>>
  BY <1>1, <1>4 DEF BeginRemove, Opens
<1>9. PICK b \in Nat : b = 0 OBVIOUS
<1>10. PICK e \in {"abierta", "quitar"} : e = "quitar" OBVIOUS
<1>11. PICK c \in BOOLEAN : c = FALSE OBVIOUS
<1>8. PICK f \in Formas \cup {Cero} : f = Cero OBVIOUS
<1>12. b = Cardinality({i \in Fotos(p) : i.archivo \notin s}) \/ e = "quitar" BY <1>10
<1>13. l = [paso |-> e, crea |-> c, producto |-> p, forma |-> f, archivos |-> s, baja |-> b, uso |-> 0,
           vieja |-> FALSE, choca |-> FALSE, cruzada |-> FALSE, borrados |-> {}, subidas |-> {}]
  BY <1>5, <1>8, <1>9, <1>10, <1>11
<1> QED  BY <1>7, <1>12, <1>13, Opened

\* The transaction begins with the usage there is.
LEMMA BeginFormKeeps ==
  ASSUME ProductsInv, NEW h \in Gestores, BeginForm(h)
  PROVE  ProductsInv'
<1>1. form[h] \in Libretas BY LedgerTyped, InvFields DEF BeginForm
<1>2. PICK n \in Nat : n = Cardinality(imagenes) BY InvFields, FS_CardinalityType
<1>3. PICK l \in Libretas :
        /\ l = [form[h] EXCEPT !.paso = "espera", !.uso = n, !.choca = FALSE, !.cruzada = FALSE]
        /\ l.paso = "espera" /\ l.uso = n /\ l.choca = FALSE /\ l.cruzada = FALSE
        /\ l.crea = form[h].crea /\ l.producto = form[h].producto /\ l.forma = form[h].forma
        /\ l.archivos = form[h].archivos /\ l.baja = form[h].baja /\ l.vieja = form[h].vieja
        /\ l.borrados = form[h].borrados /\ l.subidas = form[h].subidas
  <2>1. PICK r \in Libretas : r = form[h] BY <1>1
  <2>2. \E l \in Libretas :
        /\ l = [r EXCEPT !.paso = "espera", !.uso = n, !.choca = FALSE, !.cruzada = FALSE]
        /\ l.paso = "espera" /\ l.uso = n /\ l.choca = FALSE /\ l.cruzada = FALSE
        /\ l.crea = r.crea /\ l.producto = r.producto /\ l.forma = r.forma /\ l.archivos = r.archivos
        /\ l.baja = r.baja /\ l.vieja = r.vieja /\ l.borrados = r.borrados /\ l.subidas = r.subidas
    BY <1>2, EsperaFields
  <2> QED  BY <2>1, <2>2
<1>4. form' = [form EXCEPT ![h] = l] BY <1>2, <1>3, InvFields DEF BeginForm, ProductsTypeOK
<1>5. Each(l)
  BY SMTT(20), <1>2, <1>3, InvFields DEF BeginForm, Each, Own, InStep, Uploading, Counted, Dropped
<1>6. \A x \in Gestores : form[x].paso = "dentro" =>
        \A u \in form[x].subidas : u.archivo \notin l.archivos \cup l.borrados
  BY <1>3, InvFields DEF UploadsApart
<1> QED  BY <1>3, <1>4, <1>5, <1>6, InvFields, FormStep DEF BeginForm

\* A request is over, having deleted no file, or handing over those it deleted.
LEMMA LeavesKeeps ==
  ASSUME ProductsInv, NEW h \in Gestores, Leaves(h),
         UNCHANGED <<producto, imagenes, almacen, subidos, pasada>>,
         cortadas' = cortadas \cup form[h].borrados
  PROVE  ProductsInv'
<1>1. Libreta.borrados = {} /\ Libreta.archivos = {} /\ Libreta.paso = "nada" BY DEF Libreta
<1>2. form[h].borrados \in SUBSET Archivos /\ cortadas \in SUBSET Archivos BY FieldsTyped, InvFields
<1> QED  BY <1>1, <1>2, IdleIsEach, FormStep DEF Leaves

\* Who gets the row of the company is alone, and within the plan.
LEMMA EnterFormKeeps ==
  ASSUME ProductsInv, NEW h \in Gestores, EnterForm(h)
  PROVE  ProductsInv'
<1>0. form[h].borrados = {} /\ form[h].subidas = {} BY InvFields DEF InStep, EnterForm
<1>1. CASE Leaves(h) BY <1>0, <1>1, LeavesKeeps DEF EnterForm
<1>2. CASE WithinLimit(h) /\ RowsAccept(h) /\ form' = [form EXCEPT ![h].paso = "dentro"]
  <2>1. form[h] \in Libretas BY LedgerTyped, InvFields DEF EnterForm
  <2>2. PICK l \in Libretas :
          /\ l = [form[h] EXCEPT !.paso = "dentro"] /\ l.paso = "dentro"
          /\ l.crea = form[h].crea /\ l.producto = form[h].producto /\ l.forma = form[h].forma
          /\ l.archivos = form[h].archivos /\ l.baja = form[h].baja /\ l.uso = form[h].uso /\ l.vieja = form[h].vieja
          /\ l.choca = form[h].choca /\ l.cruzada = form[h].cruzada /\ l.borrados = form[h].borrados
          /\ l.subidas = form[h].subidas
    <3>1. PICK r \in Libretas : r = form[h] BY <2>1
    <3>2. "dentro" \in Pasos BY DEF Pasos
    <3> QED  BY <3>1, <3>2, PasoFields
  <2>3. form' = [form EXCEPT ![h] = l] BY <1>2, <2>2, InvFields DEF ProductsTypeOK
  <2>4. Own(l) /\ InStep(l) BY <1>0, <2>2, InvFields DEF Own, InStep, EnterForm
  <2>5. Uploading(l) BY <1>0, <2>2 DEF Uploading
  <2>6. Counted(l)
    BY <1>2, <2>2, InvFields DEF Counted, EnterForm, WithinLimit, RowsAccept, Toma, Dropped
  <2>7. \A x \in Gestores : form[x].paso = "dentro" =>
          \A u \in form[x].subidas : u.archivo \notin l.archivos \cup l.borrados
    BY <2>2, InvFields DEF UploadsApart
  <2>8. UNCHANGED <<producto, imagenes, almacen, subidos, pasada, cortadas>> /\ CompanyFree
    BY DEF EnterForm
  <2> QED  BY <1>0, <2>2, <2>3, <2>4, <2>5, <2>6, <2>7, <2>8, InvFields, FormStep DEF Each, CompanyFree
<1> QED  BY <1>1, <1>2 DEF EnterForm

\* What fails leaves the files it deleted as cut.
LEMMA AbortFormKeeps ==
  ASSUME ProductsInv, NEW h \in Gestores, AbortForm(h)
  PROVE  ProductsInv'
  BY LeavesKeeps DEF AbortForm

\* What only has to answer has nothing in hand.
LEMMA AnswerCreatedKeeps ==
  ASSUME ProductsInv, NEW h \in Gestores, AnswerCreated(h)
  PROVE  ProductsInv'
<1>1. form[h].borrados = {} BY InvFields DEF InStep, AnswerCreated
<1> QED  BY <1>1, LeavesKeeps DEF AnswerCreated

\* A request deletes a file that is its product's.
LEMMA FileDeleted ==
  ASSUME ProductsInv, NEW h \in Gestores, NEW a \in Archivos, NEW l \in Libretas,
         form' = [form EXCEPT ![h] = l], almacen' = almacen \ {a},
         UNCHANGED <<producto, imagenes, subidos, cortadas, pasada>>,
         l.paso = form[h].paso, l.crea = form[h].crea, l.producto = form[h].producto,
         l.forma = form[h].forma, l.archivos = form[h].archivos, l.baja = form[h].baja, l.uso = form[h].uso,
         l.vieja = form[h].vieja, l.cruzada = form[h].cruzada, l.subidas = form[h].subidas,
         l.borrados = form[h].borrados \cup {a},
         form[h].paso \in {"dentro", "quitar"}, form[h].paso = "dentro" => a \notin form[h].archivos,
         a <= subidos, \A i \in imagenes : i.archivo = a => i.producto = form[h].producto,
         \A x \in Gestores : form[x].paso = "dentro" => \A u \in form[x].subidas : u.archivo # a
  PROVE  ProductsInv'
<1> USE DEF ProductsInv
<1>1. /\ form'[h] = l /\ \A x \in Gestores \ {h} : form'[x] = form[x]
      /\ form' \in [Gestores -> Libretas \cup {Libreta}]
  BY FormUpdated
<1>2. ProductsTypeOK' BY <1>1 DEF ProductsTypeOK
<1>3. ImagesApart' /\ Books' BY DEF ImagesApart, Books, Fotos
<1>4. \A x \in Gestores :
        /\ form'[x].paso = form[x].paso /\ form'[x].archivos = form[x].archivos
        /\ form'[x].subidas = form[x].subidas
        /\ form[x].borrados \subseteq form'[x].borrados
        /\ form'[x].borrados \subseteq form[x].borrados \cup {a}
  BY <1>1
<1>5. OneInside' BY <1>4 DEF OneInside
<1>6. UploadsApart' BY <1>4 DEF UploadsApart
<1>7. FilesKept'
  <2>1. a \in form'[h].borrados BY <1>1
  <2> QED  BY <1>4, <2>1 DEF FilesKept
<1>8. ASSUME NEW x \in Gestores PROVE Each(form[x])'
  <2>1. CASE x = h
    <3>1. Own(form[h]) /\ InStep(form[h]) /\ Uploading(form[h]) /\ Counted(form[h]) BY InvFields
    <3>2. Own(form[h])' BY <1>1, <3>1 DEF Own
    <3>3. InStep(form[h])' BY <1>1, <3>1 DEF InStep
    <3>4. Uploading(form[h])' BY <1>1, <3>1 DEF Uploading
    <3>6. Dropped(form[h])' = Dropped(form[h]) BY <1>1 DEF Dropped, Fotos
    <3>5. Counted(form[h])' BY <1>1, <3>1, <3>6 DEF Counted
    <3> QED  BY <2>1, <3>2, <3>3, <3>4, <3>5 DEF Each
  <2>2. CASE x # h
    <3>1. Each(form[x]) /\ form'[x] = form[x] BY <1>1, <2>2
    <3> QED  BY <3>1 DEF Each, Own, InStep, Uploading, Counted, Dropped, Fotos
  <2> QED  BY <2>1, <2>2
<1> QED  BY <1>2, <1>3, <1>5, <1>6, <1>7, <1>8

\* A request that deletes a file, field by field.
LEMMA DeletedFields ==
  ASSUME ProductsTypeOK, NEW h \in Gestores, NEW a \in Archivos, form[h].paso # "nada",
         form' = [form EXCEPT ![h].borrados = @ \cup {a}]
  PROVE  \E l \in Libretas :
           /\ form' = [form EXCEPT ![h] = l] /\ l.borrados = form[h].borrados \cup {a}
           /\ l.paso = form[h].paso /\ l.crea = form[h].crea /\ l.producto = form[h].producto
           /\ l.forma = form[h].forma /\ l.archivos = form[h].archivos /\ l.baja = form[h].baja
           /\ l.uso = form[h].uso /\ l.vieja = form[h].vieja /\ l.cruzada = form[h].cruzada
           /\ l.subidas = form[h].subidas
<1>1. PICK r \in Libretas : r = form[h] BY LedgerTyped
<1>2. PICK b \in SUBSET Archivos : b = form[h].borrados \cup {a} BY FieldsTyped
<1>3. PICK l \in Libretas :
        /\ l = [r EXCEPT !.borrados = b]
        /\ l.borrados = b
        /\ l.paso = r.paso /\ l.crea = r.crea /\ l.producto = r.producto /\ l.forma = r.forma
        /\ l.archivos = r.archivos /\ l.baja = r.baja /\ l.uso = r.uso /\ l.vieja = r.vieja
        /\ l.choca = r.choca /\ l.cruzada = r.cruzada /\ l.subidas = r.subidas
  BY BorradosFields
<1>4. form' = [form EXCEPT ![h] = l] BY <1>1, <1>2, <1>3 DEF ProductsTypeOK
<1>5. /\ l.borrados = form[h].borrados \cup {a}
      /\ l.paso = form[h].paso /\ l.crea = form[h].crea /\ l.producto = form[h].producto
      /\ l.forma = form[h].forma /\ l.archivos = form[h].archivos /\ l.baja = form[h].baja
      /\ l.uso = form[h].uso /\ l.vieja = form[h].vieja /\ l.cruzada = form[h].cruzada
      /\ l.subidas = form[h].subidas
  BY <1>1, <1>2, <1>3
<1> QED  BY <1>4, <1>5

\* A form deletes files of photographs it does not keep, and nobody else's.
LEMMA DeleteProductImageKeeps ==
  ASSUME ProductsInv, NEW h \in Gestores, NEW a \in Archivos, DeleteProductImage(h, a)
  PROVE  ProductsInv'
<1>1. PICK l \in Libretas :
        /\ form' = [form EXCEPT ![h] = l] /\ l.borrados = form[h].borrados \cup {a}
        /\ l.paso = form[h].paso /\ l.crea = form[h].crea /\ l.producto = form[h].producto
        /\ l.forma = form[h].forma /\ l.archivos = form[h].archivos /\ l.baja = form[h].baja
        /\ l.uso = form[h].uso /\ l.vieja = form[h].vieja /\ l.cruzada = form[h].cruzada
        /\ l.subidas = form[h].subidas
  BY DeletedFields, InvFields DEF DeleteProductImage
<1>2. form[h].paso = "dentro" /\ a \notin form[h].archivos /\ almacen' = almacen \ {a}
  BY DEF DeleteProductImage, ToDelete
<1>3. UNCHANGED <<producto, imagenes, subidos, cortadas, pasada>> BY DEF DeleteProductImage
<1>4. PICK j \in imagenes : j.producto = form[h].producto /\ j.archivo = a
  BY DEF DeleteProductImage, ToDelete, Fotos
<1>5. a <= subidos /\ \A i \in imagenes : i.archivo = a => i.producto = form[h].producto
  BY <1>4, InvFields DEF ImagesApart
<1>6. \A x \in Gestores : form[x].paso = "dentro" => \A u \in form[x].subidas : u.archivo # a
  BY <1>4, InvFields DEF Uploading
<1> QED  BY <1>1, <1>2, <1>3, <1>5, <1>6, FileDeleted

\* A removal deletes files of its product, and no upload.
LEMMA DeleteRemovedImageKeeps ==
  ASSUME ProductsInv, NEW h \in Gestores, NEW a \in Archivos, DeleteRemovedImage(h, a)
  PROVE  ProductsInv'
<1>1. PICK l \in Libretas :
        /\ form' = [form EXCEPT ![h] = l] /\ l.borrados = form[h].borrados \cup {a}
        /\ l.paso = form[h].paso /\ l.crea = form[h].crea /\ l.producto = form[h].producto
        /\ l.forma = form[h].forma /\ l.archivos = form[h].archivos /\ l.baja = form[h].baja
        /\ l.uso = form[h].uso /\ l.vieja = form[h].vieja /\ l.cruzada = form[h].cruzada
        /\ l.subidas = form[h].subidas
  BY DeletedFields, InvFields DEF DeleteRemovedImage
<1>2. form[h].paso = "quitar" /\ a \in form[h].archivos /\ almacen' = almacen \ {a}
  BY DEF DeleteRemovedImage
<1>3. UNCHANGED <<producto, imagenes, subidos, cortadas, pasada>> BY DEF DeleteRemovedImage
<1>5. a <= subidos /\ \A i \in imagenes : i.archivo = a => i.producto = form[h].producto
  BY <1>2, InvFields DEF Own
<1>6. \A x \in Gestores : form[x].paso = "dentro" => \A u \in form[x].subidas : u.archivo # a
  BY <1>2, InvFields DEF UploadsApart
<1> QED  BY <1>1, <1>2, <1>3, <1>5, <1>6, FileDeleted

\* A form uploads a photograph: its name is fresh.
LEMMA UploadKeeps ==
  ASSUME ProductsInv, NEW h \in Gestores, NEW c \in Fichas, UploadProductColorImage(h, c)
  PROVE  ProductsInv'
<1> DEFINE n == subidos + 1
<1>0. subidos \in Nat /\ n \in Archivos /\ subidos' = n /\ n \in 0..MaxSubidas
  BY InvFields, ProductsAssumption DEF UploadProductColorImage, Archivos
<1>1. PICK r \in Libretas : r = form[h] BY LedgerTyped, InvFields DEF UploadProductColorImage, Ready
<1>2. PICK u \in ImagenRows : u = [producto |-> form[h].producto, color |-> c, archivo |-> n]
  BY <1>0, <1>1, FieldsTyped, InvFields DEF ImagenRows, Libretas
<1>3. PICK s \in SUBSET ImagenRows : s = form[h].subidas \cup {u} BY FieldsTyped, InvFields
<1>4. PICK l \in Libretas :
        /\ l = [r EXCEPT !.subidas = s]
        /\ l.subidas = s
        /\ l.paso = r.paso /\ l.crea = r.crea /\ l.producto = r.producto /\ l.forma = r.forma
        /\ l.archivos = r.archivos /\ l.baja = r.baja /\ l.uso = r.uso /\ l.vieja = r.vieja
        /\ l.choca = r.choca /\ l.cruzada = r.cruzada /\ l.borrados = r.borrados
  BY SubidasFields
<1>5. form' = [form EXCEPT ![h] = l]
  BY <1>1, <1>2, <1>3, <1>4, InvFields DEF UploadProductColorImage, ProductsTypeOK
<1>6. /\ form'[h] = l /\ \A x \in Gestores \ {h} : form'[x] = form[x]
      /\ form' \in [Gestores -> Libretas \cup {Libreta}]
  BY <1>5, FormUpdated, InvFields
<1>7. almacen' = almacen \cup {n} /\ UNCHANGED <<producto, imagenes, cortadas, pasada>> /\ r.paso = "dentro"
  BY <1>1 DEF UploadProductColorImage, Ready
<1>8. u.archivo = n /\ u.producto = r.producto BY <1>1, <1>2
<1> HIDE DEF n
<1>9. \A x \in Gestores : /\ \A a \in form[x].archivos \cup form[x].borrados : a # n
                          /\ form[x].paso = "dentro" => \A v \in form[x].subidas : v.archivo # n
  <2>1. ASSUME NEW x \in Gestores, NEW a \in form[x].archivos \cup form[x].borrados PROVE a # n
    BY <1>0, InvFields DEF Own, n
  <2>2. ASSUME NEW x \in Gestores, form[x].paso = "dentro", NEW v \in form[x].subidas PROVE v.archivo # n
    <3>1. v.archivo <= subidos BY <2>2, InvFields DEF Uploading
    <3> QED  BY <1>0, <3>1 DEF n
  <2> QED  BY <2>1, <2>2
<1>10. \A i \in imagenes : i.archivo # n /\ i.archivo \in Nat /\ i.archivo <= subidos
  BY <1>0, ImagesTyped, InvFields DEF ImagesApart, n
<1>11. \A k \in Nat : k <= subidos => k <= n BY <1>0 DEF n
<1>12. ProductsTypeOK' BY <1>0, <1>6, <1>7, InvFields DEF ProductsTypeOK
<1>13. ImagesApart' BY <1>0, <1>7, <1>10, <1>11, InvFields DEF ImagesApart
<1>14. Books' BY <1>7 DEF ProductsInv, Books, Fotos
<1>15. \A x \in Gestores :
        /\ form'[x].paso = form[x].paso /\ form'[x].archivos = form[x].archivos
        /\ form'[x].borrados = form[x].borrados
  BY <1>1, <1>4, <1>6
<1>16. OneInside' BY <1>15, InvFields DEF OneInside
<1>17. UploadsApart'
  <2>1. \A x \in Gestores : \A v \in form'[x].subidas : v \in form[x].subidas \/ v.archivo = n
    <3>1. form'[h].subidas = form[h].subidas \cup {u} BY <1>3, <1>4, <1>6
    <3>2. \A x \in Gestores \ {h} : form'[x].subidas = form[x].subidas BY <1>6
    <3> QED  BY <1>8, <3>1, <3>2
  <2>2. UploadsApart BY InvFields
  <2> QED  BY <1>9, <1>15, <2>1, <2>2 DEF UploadsApart
<1>18. FilesKept' BY <1>7, <1>15, InvFields DEF FilesKept
<1>19. ASSUME NEW x \in Gestores PROVE Own(form[x])'
  <2>1. Own(form[x]) BY InvFields
  <2>2. form'[x].archivos = form[x].archivos /\ form'[x].borrados = form[x].borrados BY <1>15
  <2>3. form'[x].producto = form[x].producto BY <1>1, <1>4, <1>6
  <2>4. form[x].archivos \cup form[x].borrados \subseteq Nat BY FieldsTyped, InvFields DEF Archivos
  <2> QED  BY <1>0, <1>7, <1>11, <2>1, <2>2, <2>3, <2>4 DEF Own
<1>20. ASSUME NEW x \in Gestores PROVE InStep(form[x])'
  <2>1. InStep(form[x]) BY InvFields
  <2> QED  BY <1>1, <1>4, <1>6, <1>7, <1>15, <2>1 DEF InStep
<1>21. ASSUME NEW x \in Gestores PROVE Uploading(form[x])'
  <2>1. Uploading(form[x]) /\ form[x].subidas \in SUBSET ImagenRows BY InvFields, FieldsTyped
  <2>2. \A v \in form[x].subidas : v.archivo \in Nat BY <2>1 DEF ImagenRows, Archivos
  <2>3. CASE x # h BY <1>0, <1>6, <1>7, <1>11, <2>1, <2>2, <2>3 DEF Uploading
  <2>4. CASE x = h
    <3>1. form'[h].subidas = form[h].subidas \cup {u} /\ form'[h].producto = form[h].producto
      BY <1>1, <1>3, <1>4, <1>6
    <3>2. \A v \in form[h].subidas : v.archivo # n BY <1>1, <1>7, <1>9
    <3>3. n <= n BY <1>0
    <3>4. form[h].paso = "dentro" BY <1>1, <1>7
    <3> QED  BY <1>0, <1>1, <1>7, <1>8, <1>10, <1>11, <2>1, <2>2, <2>4, <3>1, <3>2, <3>3, <3>4 DEF Uploading
  <2> QED  BY <2>3, <2>4
<1>22. ASSUME NEW x \in Gestores PROVE Counted(form[x])'
  <2>1. Counted(form[x]) BY InvFields
  <2>2. CASE x # h BY <1>6, <1>7, <2>1, <2>2 DEF Counted, Dropped, Fotos
  <2>3. CASE x = h
    <3>1. IsFiniteSet(s) BY <1>3, <2>1, <2>3, FS_AddElement DEF Counted
    <3>2. Dropped(form[h])' = Dropped(form[h]) BY <1>1, <1>4, <1>6, <1>7 DEF Dropped, Fotos
    <3> QED  BY ZenonT(40), <1>1, <1>4, <1>6, <1>7, <2>1, <2>3, <3>1, <3>2 DEF Counted
  <2> QED  BY <2>2, <2>3
<1>23. \A x \in Gestores : Each(form[x])' BY <1>19, <1>20, <1>21, <1>22 DEF Each
<1> QED  BY <1>12, <1>13, <1>14, <1>16, <1>17, <1>18, <1>23 DEF ProductsInv

\* What a write leaves of the requests.
LEMMA NotesFields ==
  ASSUME ProductsTypeOK, NEW h \in Gestores, NEW p \in Productos, NEW l \in Libretas \cup {Libreta},
         NEW n \in Int, Notes(h, p, l, n > 0)
  PROVE  /\ form'[h] = l /\ form' \in [Gestores -> Libretas \cup {Libreta}]
         /\ \A x \in Gestores \ {h} :
              /\ form'[x].paso = form[x].paso /\ form'[x].crea = form[x].crea
              /\ form'[x].producto = form[x].producto /\ form'[x].forma = form[x].forma
              /\ form'[x].archivos = form[x].archivos /\ form'[x].baja = form[x].baja
              /\ form'[x].uso = form[x].uso /\ form'[x].borrados = form[x].borrados
              /\ form'[x].subidas = form[x].subidas
              /\ form[x].paso # "nada" =>
                   /\ ~form'[x].vieja => ~form[x].vieja /\ form[x].producto # p
                   /\ ~form'[x].cruzada => ~form[x].cruzada /\ ~(n > 0)
<1> DEFINE F(x) == IF x = h THEN l
                   ELSE IF ~EnUso(x) THEN form[x]
                   ELSE [form[x] EXCEPT !.vieja = @ \/ form[x].producto = p,
                                        !.choca = @ \/ form[x].producto = p, !.cruzada = @ \/ n > 0]
<1>1. form' = [x \in Gestores |-> F(x)] BY DEF Notes
<1> HIDE DEF F
<1>2. \A x \in Gestores : form'[x] = F(x) BY <1>1
<1>3. F(h) = l BY DEF F
<1>4. ASSUME NEW x \in Gestores \ {h}
      PROVE  /\ F(x) \in Libretas \cup {Libreta}
             /\ F(x).paso = form[x].paso /\ F(x).crea = form[x].crea
             /\ F(x).producto = form[x].producto /\ F(x).forma = form[x].forma
             /\ F(x).archivos = form[x].archivos /\ F(x).baja = form[x].baja
             /\ F(x).uso = form[x].uso /\ F(x).borrados = form[x].borrados
             /\ F(x).subidas = form[x].subidas
             /\ form[x].paso # "nada" =>
                   /\ ~F(x).vieja => ~form[x].vieja /\ form[x].producto # p
                   /\ ~F(x).cruzada => ~form[x].cruzada /\ ~(n > 0)
  <2>1. CASE ~EnUso(x)
    <3>1. F(x) = form[x] /\ form[x].paso = "nada" BY <1>4, <2>1 DEF F, EnUso
    <3>2. form[x] \in Libretas \cup {Libreta} BY DEF ProductsTypeOK
    <3> QED  BY <3>1, <3>2
  <2>2. CASE EnUso(x)
    <3>1. PICK r \in Libretas : r = form[x] BY <2>2, LedgerTyped DEF EnUso
    <3>2. PICK a \in BOOLEAN : a = (r.vieja \/ form[x].producto = p) OBVIOUS
    <3>3. PICK b \in BOOLEAN : b = (r.choca \/ form[x].producto = p) OBVIOUS
    <3>4. PICK c \in BOOLEAN : c = (r.cruzada \/ n > 0) OBVIOUS
    <3>11. PICK m : m = [r EXCEPT !.vieja = a, !.choca = b, !.cruzada = c] OBVIOUS
    <3>12. m \in Libretas BY ZenonT(40), <3>1, <3>2, <3>3, <3>4, <3>11 DEF Libretas
    <3>13. m.vieja = a /\ m.choca = b /\ m.cruzada = c BY <3>1, <3>11 DEF Libretas
    <3>14. m.paso = r.paso /\ m.crea = r.crea /\ m.producto = r.producto /\ m.forma = r.forma
      BY <3>1, <3>11 DEF Libretas
    <3>15. m.archivos = r.archivos /\ m.baja = r.baja /\ m.uso = r.uso /\ m.borrados = r.borrados
      BY <3>1, <3>11 DEF Libretas
    <3>16. m.subidas = r.subidas BY <3>1, <3>11 DEF Libretas
    <3>5. /\ m \in Libretas /\ m = [r EXCEPT !.vieja = a, !.choca = b, !.cruzada = c]
          /\ m.vieja = a /\ m.choca = b /\ m.cruzada = c
          /\ m.paso = r.paso /\ m.crea = r.crea /\ m.producto = r.producto /\ m.forma = r.forma
          /\ m.archivos = r.archivos /\ m.baja = r.baja /\ m.uso = r.uso /\ m.borrados = r.borrados
          /\ m.subidas = r.subidas
      BY <3>11, <3>12, <3>13, <3>14, <3>15, <3>16
    <3>6. F(x) = [r EXCEPT !.vieja = r.vieja \/ form[x].producto = p,
                           !.choca = r.choca \/ form[x].producto = p, !.cruzada = r.cruzada \/ n > 0]
      BY <1>4, <2>2, <3>1 DEF F, Libretas
    <3>7. F(x) = [r EXCEPT !.vieja = a, !.choca = b, !.cruzada = c] BY <3>2, <3>3, <3>4, <3>6
    <3>8. F(x) = m BY <3>5, <3>7
    <3>9. form[x].vieja = r.vieja /\ form[x].cruzada = r.cruzada BY <3>1
    <3>10. /\ ~m.vieja => ~form[x].vieja /\ form[x].producto # p
           /\ ~m.cruzada => ~form[x].cruzada /\ ~(n > 0)
      BY <3>2, <3>4, <3>5, <3>9
    <3> QED  BY <3>1, <3>5, <3>8, <3>10
  <2> QED  BY <2>1, <2>2
<1>5. \A x \in Gestores : F(x) \in Libretas \cup {Libreta} BY <1>3, <1>4
<1>6. form' \in [Gestores -> Libretas \cup {Libreta}] BY <1>1, <1>5
<1>7. ASSUME NEW x \in Gestores \ {h}
      PROVE  /\ form'[x].paso = form[x].paso /\ form'[x].crea = form[x].crea
             /\ form'[x].producto = form[x].producto /\ form'[x].forma = form[x].forma
             /\ form'[x].archivos = form[x].archivos /\ form'[x].baja = form[x].baja
             /\ form'[x].uso = form[x].uso /\ form'[x].borrados = form[x].borrados
             /\ form'[x].subidas = form[x].subidas
             /\ form[x].paso # "nada" =>
                   /\ ~form'[x].vieja => ~form[x].vieja /\ form[x].producto # p
                   /\ ~form'[x].cruzada => ~form[x].cruzada /\ ~(n > 0)
  <2>1. form'[x] = F(x) BY <1>2
  <2> QED  BY <1>4, <2>1
<1> QED  BY <1>2, <1>3, <1>6, <1>7

\* A product is written or erased, with its photographs, by a request that ends or only has to answer.
LEMMA Written ==
  ASSUME ProductsInv, NEW h \in Gestores, NEW p \in Productos, NEW l \in Libretas \cup {Libreta},
         NEW n \in Int, Notes(h, p, l, n > 0), p = form[h].producto,
         UNCHANGED <<almacen, subidos, cortadas>>,
         producto' \in [Productos -> ProductoRows],
         \A q \in Productos \ {p} : producto'[q] = producto[q],
         producto'[p].estado = "no" => \A i \in imagenes' : i.producto # p,
         \A i \in imagenes' : i \in imagenes \/ (form[h].paso = "dentro" /\ i \in form[h].subidas),
         \A i \in imagenes : i.producto # p => i \in imagenes',
         \A i \in imagenes' : i \in imagenes => i.archivo \notin form[h].borrados,
         IsFiniteSet(imagenes'),
         pasada' \in BOOLEAN, ~pasada' => ~pasada /\ Cardinality(imagenes') <= Espacio,
         ~pasada' /\ ~(n > 0) => Cardinality(imagenes') <= Cardinality(imagenes),
         \A x \in Gestores \ {h} : form[x].paso = "dentro" => form[x].producto # p,
         l.paso \in {"nada", "leer"},
         l.archivos \cup l.borrados \subseteq form[h].archivos \cup form[h].borrados,
         l.borrados = {}, IsFiniteSet(l.subidas), l # Libreta => l.producto = p
  PROVE  ProductsInv'
<1>1. /\ form'[h] = l /\ form' \in [Gestores -> Libretas \cup {Libreta}]
      /\ \A x \in Gestores \ {h} :
           /\ form'[x].paso = form[x].paso /\ form'[x].crea = form[x].crea
           /\ form'[x].producto = form[x].producto /\ form'[x].forma = form[x].forma
           /\ form'[x].archivos = form[x].archivos /\ form'[x].baja = form[x].baja
           /\ form'[x].uso = form[x].uso /\ form'[x].borrados = form[x].borrados
           /\ form'[x].subidas = form[x].subidas
           /\ form[x].paso # "nada" =>
                /\ ~form'[x].vieja => ~form[x].vieja /\ form[x].producto # p
                /\ ~form'[x].cruzada => ~form[x].cruzada /\ ~(n > 0)
  BY NotesFields, InvFields
<1>2. \A u \in form[h].subidas : form[h].paso = "dentro" =>
        u.producto = p /\ u.archivo \in almacen /\ u.archivo <= subidos
  BY InvFields DEF Uploading
<1>3. \A i \in imagenes' : i \in imagenes \/ (i.producto = p /\ i.archivo \in almacen /\ i.archivo <= subidos)
  BY <1>2
<1>4. ProductsTypeOK'
  <2>1. imagenes' \in SUBSET ImagenRows BY FieldsTyped, InvFields DEF ProductsTypeOK
  <2> QED  BY <1>1, <2>1, InvFields DEF ProductsTypeOK
<1>5. ImagesApart'
  <2>1. ASSUME NEW i \in imagenes', NEW j \in imagenes', i.archivo = j.archivo PROVE i = j
    <3>1. CASE i \in imagenes /\ j \in imagenes BY <2>1, <3>1, InvFields DEF ImagesApart
    <3>2. CASE i \notin imagenes \/ j \notin imagenes BY <2>1, <3>2, InvFields DEF Uploading
    <3> QED  BY <3>1, <3>2
  <2>2. \A i \in imagenes' : i.archivo <= subidos BY <1>3, InvFields DEF ImagesApart
  <2>3. subidos' = subidos OBVIOUS
  <2> QED  BY <2>1, <2>2, <2>3 DEF ImagesApart
<1>6. OneInside' BY <1>1, InvFields DEF OneInside
<1>7. UploadsApart'
  <2>1. ASSUME NEW y \in Gestores, NEW x \in Gestores, form'[y].paso = "dentro", NEW u \in form'[y].subidas
        PROVE  u.archivo \notin form'[x].archivos \cup form'[x].borrados
    <3>1. y # h BY <1>1, <2>1
    <3>2. u.archivo \notin form[x].archivos \cup form[x].borrados
      BY <1>1, <2>1, <3>1, InvFields DEF UploadsApart
    <3>3. form'[x].archivos \cup form'[x].borrados \subseteq form[x].archivos \cup form[x].borrados
      BY <1>1
    <3> QED  BY <3>2, <3>3
  <2> QED  BY <2>1 DEF UploadsApart
<1>8. FilesKept'
  <2>1. ASSUME NEW i \in imagenes'
        PROVE  \/ i.archivo \in almacen \cup cortadas
               \/ \E x \in Gestores : i.archivo \in form'[x].borrados
    <3>1. CASE i \notin imagenes BY <1>3, <3>1
    <3>2. CASE i \in imagenes
      <4>1. i.archivo \notin form[h].borrados BY <3>2
      <4>2. \/ i.archivo \in almacen \cup cortadas
            \/ \E x \in Gestores : i.archivo \in form[x].borrados
        BY <3>2, InvFields DEF FilesKept
      <4> QED  BY <1>1, <4>1, <4>2
    <3> QED  BY <3>1, <3>2
  <2>2. almacen' = almacen /\ cortadas' = cortadas OBVIOUS
  <2> QED  BY <2>1, <2>2 DEF FilesKept
<1>9. Books'
  <2>1. ASSUME NEW q \in Productos, producto'[q].estado = "no" PROVE \A i \in imagenes' : i.producto # q
    BY <1>3, <2>1 DEF ProductsInv, Books, Fotos
  <2> QED  BY <2>1 DEF Books, Fotos
<1>10. ASSUME NEW x \in Gestores, x # h PROVE Each(form[x])'
  <2>1. Own(form[x])'
    <3>1. ASSUME NEW a \in form[x].archivos \cup form[x].borrados
          PROVE  a <= subidos /\ \A i \in imagenes' : i.archivo = a => i.producto = form[x].producto
      <4>1. a <= subidos /\ \A i \in imagenes : i.archivo = a => i.producto = form[x].producto
        BY InvFields DEF Own
      <4>2. form[h].paso = "dentro" => \A u \in form[h].subidas : u.archivo # a
        BY InvFields DEF UploadsApart
      <4> QED  BY <4>1, <4>2
    <3>2. /\ form'[x].archivos = form[x].archivos /\ form'[x].borrados = form[x].borrados
          /\ form'[x].producto = form[x].producto /\ subidos' = subidos
      BY <1>1, <1>10
    <3> QED  BY <3>1, <3>2 DEF Own
  <2>2. InStep(form[x])' BY <1>1, <1>10, InvFields DEF InStep
  <2>3. Uploading(form[x])'
    <3>1. CASE form[x].paso # "dentro" BY <1>1, <1>10, <3>1 DEF Uploading
    <3>2. CASE form[x].paso = "dentro"
      <4>1. form[h].paso # "dentro" BY <1>10, <3>2, InvFields DEF OneInside
      <4>2. \A i \in imagenes' : i \in imagenes BY <4>1
      <4> QED  BY <1>1, <1>10, <4>2, InvFields DEF Uploading
    <3> QED  BY <3>1, <3>2
  <2>4. Counted(form[x])'
    <3>1. /\ IsFiniteSet(form'[x].subidas)
          /\ form'[x].paso = "dentro" => form'[x].forma.nuevas - form'[x].baja <= 0
                                         \/ form'[x].uso + (form'[x].forma.nuevas - form'[x].baja) <= Espacio
      BY <1>1, <1>10, InvFields DEF Counted
    <3>2. form'[x].paso = "dentro" /\ ~form'[x].crea => producto'[form'[x].producto].estado # "no"
      <4>1. form[x].paso # "nada" => form[x].producto \in Productos BY FieldsTyped, InvFields
      <4> QED  BY <1>1, <1>10, <4>1, InvFields DEF Counted
    <3>3. ~pasada' /\ form'[x].paso \in {"espera", "dentro"} /\ ~form'[x].cruzada
            => Cardinality(imagenes') <= form'[x].uso
      <4>1. SUFFICES ASSUME ~pasada', form'[x].paso \in {"espera", "dentro"}, ~form'[x].cruzada
                     PROVE  Cardinality(imagenes') <= form'[x].uso
        OBVIOUS
      <4>2. form[x].paso \in {"espera", "dentro"} /\ ~form[x].cruzada /\ ~(n > 0) /\ form'[x].uso = form[x].uso
        BY <1>1, <1>10, <4>1
      <4>3. Cardinality(imagenes) <= form[x].uso /\ Cardinality(imagenes') <= Cardinality(imagenes)
        BY <4>1, <4>2, InvFields DEF Counted
      <4>4. Cardinality(imagenes) \in Nat /\ Cardinality(imagenes') \in Nat /\ form[x].uso \in Nat
        BY InvFields, FieldsTyped, FS_CardinalityType
      <4> QED  BY <4>2, <4>3, <4>4
    <3>4. ~pasada' /\ form'[x].paso \in {"abierta", "espera", "dentro"} /\ ~form'[x].vieja
            => form'[x].baja = Cardinality(Dropped(form[x])')
      <4>1. SUFFICES ASSUME ~pasada', form'[x].paso \in {"abierta", "espera", "dentro"}, ~form'[x].vieja
                     PROVE  form'[x].baja = Cardinality(Dropped(form[x])')
        OBVIOUS
      <4>2. /\ form[x].paso \in {"abierta", "espera", "dentro"} /\ ~form[x].vieja /\ form[x].producto # p
            /\ form'[x].baja = form[x].baja /\ form'[x].producto = form[x].producto
            /\ form'[x].archivos = form[x].archivos
        BY <1>1, <1>10, <4>1
      <4>3. Dropped(form[x])' = Dropped(form[x]) BY <1>3, <4>2 DEF Dropped, Fotos
      <4> QED  BY <4>1, <4>2, <4>3, InvFields DEF Counted
    <3> QED  BY <3>1, <3>2, <3>3, <3>4 DEF Counted
  <2> QED  BY <2>1, <2>2, <2>3, <2>4 DEF Each
<1>11. Each(form[h])'
  <2>1. Libreta.archivos = {} /\ Libreta.borrados = {} BY DEF Libreta
  <2>2. Own(form[h])'
    <3>1. ASSUME NEW a \in l.archivos PROVE a <= subidos /\ \A i \in imagenes' : i.archivo = a => i.producto = l.producto
      <4>1. l.producto = p /\ a \in form[h].archivos \cup form[h].borrados BY <2>1
      <4> QED  BY <1>3, <4>1, InvFields DEF Own
    <3> QED  BY <1>1, <3>1 DEF Own
  <2>3. InStep(form[h])' /\ Uploading(form[h])' /\ Counted(form[h])'
    BY <1>1 DEF InStep, Uploading, Counted
  <2> QED  BY <2>2, <2>3 DEF Each
<1>12. \A x \in Gestores : Each(form[x])' BY <1>10, <1>11
<1> QED  BY <1>4, <1>5, <1>6, <1>7, <1>8, <1>9, <1>12 DEF ProductsInv

\* The photographs of a product that is written: no more than were there, what the form does not
\* keep, and what it adds.
LEMMA Replaced ==
  ASSUME NEW S, NEW D, NEW U, NEW N, IsFiniteSet(S), IsFiniteSet(U), D \subseteq S,
         N \subseteq (S \ D) \cup U
  PROVE  /\ IsFiniteSet(N) /\ Cardinality(N) \in Nat /\ Cardinality(D) \in Nat
         /\ Cardinality(N) <= Cardinality(S) - Cardinality(D) + Cardinality(U)
<1>1. IsFiniteSet(D) /\ S \cap D = D BY FS_Subset
<1>2. IsFiniteSet(S \ D) /\ Cardinality(S \ D) = Cardinality(S) - Cardinality(D)
  BY <1>1, FS_Difference
<1>3. IsFiniteSet((S \ D) \cup U) /\ IsFiniteSet((S \ D) \cap U)
      /\ Cardinality((S \ D) \cup U) = Cardinality(S \ D) + Cardinality(U) - Cardinality((S \ D) \cap U)
  BY <1>2, FS_Union, FS_Intersection
<1>4. IsFiniteSet(N) /\ Cardinality(N) <= Cardinality((S \ D) \cup U) BY <1>3, FS_Subset
<1>5. /\ Cardinality(N) \in Nat /\ Cardinality(S) \in Nat /\ Cardinality(U) \in Nat
      /\ Cardinality(D) \in Nat /\ Cardinality((S \ D) \cap U) \in Nat
  BY <1>1, <1>3, <1>4, FS_CardinalityType
<1> QED  BY <1>2, <1>3, <1>4, <1>5

\* A form that commits leaves no photograph without its file, and within the plan.
LEMMA CommitFormKeeps ==
  ASSUME ProductsInv, NEW h \in Gestores, CommitForm(h)
  PROVE  ProductsInv'
<1> DEFINE p == form[h].producto
           f == form[h].forma
           r == producto[p]
           U == form[h].subidas
<1>0. form[h].paso = "dentro" /\ form[h] \in Libretas /\ p \in Productos
  BY LedgerTyped, FieldsTyped, InvFields DEF CommitForm, Ready
<1>15. Toma(h) \in Int /\ Cardinality(imagenes) \in Nat /\ form[h].uso \in Nat /\ Espacio \in Nat
  BY FS_CardinalityType, InvFields, FieldsTyped, FormIsTyped, ProductsAssumption DEF Toma
<1>1. PICK n \in Int : n = Toma(h) BY <1>15
<1>2. PICK b \in Libretas :
        /\ b = [form[h] EXCEPT !.paso = "leer", !.borrados = {}]
        /\ b.paso = "leer" /\ b.borrados = {} /\ b.producto = p
        /\ b.archivos = form[h].archivos /\ b.subidas = U
  <2>1. PICK g \in Libretas : g = form[h] BY <1>0
  <2>2. \E l \in Libretas :
           /\ l = [g EXCEPT !.paso = "leer", !.borrados = {}]
           /\ l.paso = "leer" /\ l.borrados = {}
           /\ l.crea = g.crea /\ l.producto = g.producto /\ l.forma = g.forma /\ l.archivos = g.archivos
           /\ l.baja = g.baja /\ l.uso = g.uso /\ l.vieja = g.vieja /\ l.choca = g.choca
           /\ l.cruzada = g.cruzada /\ l.subidas = g.subidas
    BY LeerFields
  <2> QED  BY <2>1, <2>2
<1>3. PICK l \in Libretas \cup {Libreta} : l = IF form[h].crea THEN b ELSE Libreta OBVIOUS
<1>4. Notes(h, p, l, n > 0) BY <1>1, <1>2, <1>3 DEF CommitForm
<1>5. /\ UNCHANGED <<almacen, subidos, cortadas>> /\ pasada' = (pasada \/ form[h].vieja)
      /\ imagenes' = (imagenes \ Fotos(p)) \cup Kept(h) \cup U
      /\ Cardinality(U) = f.nuevas /\ (n > 0 => ~form[h].cruzada)
  BY <1>1 DEF CommitForm
<1>6. /\ l.paso \in {"nada", "leer"} /\ l.borrados = {} /\ (l # Libreta => l.producto = p)
      /\ l.archivos \cup l.borrados \subseteq form[h].archivos \cup form[h].borrados
      /\ IsFiniteSet(l.subidas)
  <2>1. Libreta.paso = "nada" /\ Libreta.borrados = {} /\ Libreta.archivos = {} /\ Libreta.subidas = {}
    BY DEF Libreta
  <2>2. IsFiniteSet({}) /\ IsFiniteSet(U) BY FS_EmptySet, InvFields DEF Counted
  <2> QED  BY <1>2, <1>3, <2>1, <2>2
<1> DEFINE w == [estado |-> IF form[h].crea THEN "vivo" ELSE r.estado, normal |-> f.normal,
                 nombre |-> f.nombre, colores |-> f.colores, vivas |-> f.celdas,
                 quitadas |-> {v \in r.quitadas \cup r.vivas : v[1] \in f.colores} \ f.celdas,
                 movidas |-> r.movidas \cup (IF f.stock THEN f.celdas ELSE {})]
<1>7. w = [estado |-> IF form[h].crea THEN "vivo" ELSE r.estado, normal |-> f.normal,
             nombre |-> f.nombre, colores |-> f.colores, vivas |-> f.celdas,
             quitadas |-> {v \in r.quitadas \cup r.vivas : v[1] \in f.colores} \ f.celdas,
             movidas |-> r.movidas \cup (IF f.stock THEN f.celdas ELSE {})]
  OBVIOUS
<1> HIDE DEF w
<1>8. w \in ProductoRows /\ w.estado # "no"
  <2>1. r \in ProductoRows BY <1>0, InvFields DEF ProductsTypeOK
  <2>2. /\ r.estado \in {"no", "vivo", "borrado"} /\ r.vivas \in SUBSET Celdas
        /\ r.quitadas \in SUBSET Celdas /\ r.movidas \in SUBSET Celdas
    BY <2>1 DEF ProductoRows
  <2>3. /\ f.colores \in SUBSET Fichas /\ f.celdas \in SUBSET Celdas
        /\ f.nombre \in Nombres \cup {0} /\ f.normal \in BOOLEAN
    BY FieldsTyped, InvFields, FormIsTyped
  <2>4. form[h].crea \in BOOLEAN /\ (~form[h].crea => r.estado # "no")
    BY <1>0, FieldsTyped, InvFields DEF Counted
  <2>5. {v \in r.quitadas \cup r.vivas : v[1] \in f.colores} \ f.celdas \in SUBSET Celdas BY <2>2
  <2>6. r.movidas \cup (IF f.stock THEN f.celdas ELSE {}) \in SUBSET Celdas BY <2>2, <2>3
  <2>7. w.estado = IF form[h].crea THEN "vivo" ELSE r.estado BY <1>7
  <2>8. w.estado \in {"no", "vivo", "borrado"} /\ w.estado # "no" BY <2>2, <2>4, <2>7
  <2> HIDE DEF r, f
  <2> QED  BY <1>7, <2>2, <2>3, <2>5, <2>6, <2>7, <2>8 DEF ProductoRows
<1>9. producto' = [producto EXCEPT ![p] = w] BY <1>7 DEF CommitForm
<1>10. /\ producto' \in [Productos -> ProductoRows] /\ producto'[p] = w
       /\ \A q \in Productos \ {p} : producto'[q] = producto[q]
  BY <1>0, <1>8, <1>9, InvFields DEF ProductsTypeOK
<1>11. /\ \A i \in imagenes' : i \in imagenes \/ (form[h].paso = "dentro" /\ i \in U)
       /\ \A i \in imagenes : i.producto # p => i \in imagenes'
  BY <1>0, <1>5 DEF Fotos, Kept
<1>12. \A i \in imagenes' : i \in imagenes => i.archivo \notin form[h].borrados
  <2>1. \A i \in imagenes : i \notin U BY <1>0, InvFields DEF Uploading
  <2>2. \A i \in imagenes' : i \in imagenes => i.producto # p \/ i.archivo \in form[h].archivos
    BY <1>5, <2>1 DEF Fotos, Kept
  <2> QED  BY <1>0, <2>2, InvFields DEF Own, InStep
<1>13. /\ IsFiniteSet(imagenes') /\ Cardinality(imagenes') \in Nat /\ Cardinality(Dropped(form[h])) \in Nat
       /\ Cardinality(imagenes') <= Cardinality(imagenes) - Cardinality(Dropped(form[h])) + Cardinality(U)
  <2>1. Dropped(form[h]) \subseteq imagenes BY DEF Dropped, Fotos
  <2>2. imagenes' \subseteq (imagenes \ Dropped(form[h])) \cup U BY <1>5 DEF Dropped, Fotos, Kept
  <2>3. IsFiniteSet(imagenes) /\ IsFiniteSet(U) BY InvFields DEF Counted
  <2> HIDE DEF U
  <2> QED  BY <2>1, <2>2, <2>3, Replaced
<1>14. ~pasada' => Cardinality(imagenes') <= Cardinality(imagenes) + Toma(h)
  <2>1. SUFFICES ASSUME ~pasada' PROVE Cardinality(imagenes') <= Cardinality(imagenes) + Toma(h)
    OBVIOUS
  <2>2. form[h].baja = Cardinality(Dropped(form[h])) BY <1>0, <1>5, <2>1, InvFields DEF Counted
  <2>3. Cardinality(imagenes) \in Nat /\ f.nuevas \in Nat /\ form[h].baja \in Nat
    BY FS_CardinalityType, InvFields, FieldsTyped, FormIsTyped
  <2> QED  BY <1>5, <1>13, <2>2, <2>3 DEF Toma
<1>16. ~pasada' /\ ~(n > 0) => Cardinality(imagenes') <= Cardinality(imagenes)
  BY <1>1, <1>13, <1>14, <1>15
<1>17. ~pasada' => ~pasada /\ Cardinality(imagenes') <= Espacio
  <2>1. SUFFICES ASSUME ~pasada' PROVE ~pasada /\ Cardinality(imagenes') <= Espacio OBVIOUS
  <2>2. ~pasada /\ Cardinality(imagenes) <= Espacio BY <1>5, <2>1 DEF ProductsInv, Books
  <2>3. CASE ~(n > 0) BY <1>13, <1>15, <1>16, <2>1, <2>2, <2>3
  <2>4. CASE n > 0
    <3>1. Cardinality(imagenes) <= form[h].uso BY <1>0, <1>5, <2>2, <2>4, InvFields DEF Counted
    <3>2. form[h].uso + Toma(h) <= Espacio BY <1>0, <1>1, <1>15, <2>4, InvFields DEF Counted, Toma
    <3> QED  BY <1>13, <1>14, <1>15, <2>1, <2>2, <3>1, <3>2
  <2> QED  BY <2>3, <2>4
<1>18. pasada' \in BOOLEAN BY <1>5, FieldsTyped, InvFields DEF ProductsTypeOK
<1>19. \A x \in Gestores \ {h} : form[x].paso = "dentro" => form[x].producto # p
  BY <1>0, InvFields DEF OneInside
<1>20. PICK q \in Productos : q = form[h].producto BY <1>0
<1>21. producto'[q].estado = "no" => \A i \in imagenes' : i.producto # q BY <1>8, <1>10, <1>20
<1>22. /\ Notes(h, q, l, n > 0) /\ producto' \in [Productos -> ProductoRows]
       /\ \A o \in Productos \ {q} : producto'[o] = producto[o]
       /\ \A i \in imagenes : i.producto # q => i \in imagenes'
       /\ \A x \in Gestores \ {h} : form[x].paso = "dentro" => form[x].producto # q
       /\ l # Libreta => l.producto = q
  BY <1>4, <1>6, <1>10, <1>11, <1>19, <1>20
<1> HIDE DEF p, f, r
<1> QED  BY <1>5, <1>6, <1>11, <1>12, <1>13, <1>16, <1>17, <1>18, <1>20, <1>21, <1>22, Written

\* Who erases a product, or removes it, takes its photographs with it.
LEMMA Cleared ==
  ASSUME ProductsInv, NEW h \in Gestores, NEW p \in Productos, p = form[h].producto,
         Notes(h, p, Libreta, FALSE), UNCHANGED <<almacen, subidos, cortadas, pasada>>,
         producto' \in [Productos -> ProductoRows],
         \A q \in Productos \ {p} : producto'[q] = producto[q],
         imagenes' = imagenes \ Fotos(p),
         \A i \in imagenes : i.producto # p => i.archivo \notin form[h].borrados,
         \A x \in Gestores \ {h} : form[x].paso = "dentro" => form[x].producto # p
  PROVE  ProductsInv'
<1>1. Libreta.paso = "nada" /\ Libreta.borrados = {} /\ Libreta.archivos = {} /\ IsFiniteSet(Libreta.subidas)
  BY FS_EmptySet DEF Libreta
<1>2. /\ \A i \in imagenes' : i \in imagenes /\ i.producto # p
      /\ \A i \in imagenes : i.producto # p => i \in imagenes'
  BY DEF Fotos
<1>3. IsFiniteSet(imagenes) /\ imagenes' \subseteq imagenes BY <1>2, InvFields
<1>4. IsFiniteSet(imagenes') /\ Cardinality(imagenes') <= Cardinality(imagenes) BY <1>3, FS_Subset
<1>5. Cardinality(imagenes') \in Nat /\ Cardinality(imagenes) \in Nat
  BY <1>3, <1>4, FS_CardinalityType
<1>6. ~pasada' => ~pasada /\ Cardinality(imagenes') <= Espacio
  <2>1. ~pasada => Cardinality(imagenes) <= Espacio BY DEF ProductsInv, Books
  <2> QED  BY <1>4, <1>5, <2>1, ProductsAssumption
<1>7. PICK l \in Libretas \cup {Libreta} : l = Libreta OBVIOUS
<1>8. PICK n \in Int : n = 0 OBVIOUS
<1>9. /\ Notes(h, p, l, n > 0) /\ l.paso \in {"nada", "leer"} /\ l.borrados = {} /\ IsFiniteSet(l.subidas)
      /\ l.archivos \cup l.borrados \subseteq form[h].archivos \cup form[h].borrados
      /\ l # Libreta => l.producto = p
  <2>1. Notes(h, p, l, n > 0)
    <3>1. (n > 0) = FALSE BY <1>8
    <3>2. Notes(h, p, Libreta, FALSE) OBVIOUS
    <3> QED  BY <1>7, <3>1, <3>2, Zenon
  <2> QED  BY <1>1, <1>7, <2>1
<1>10. /\ pasada' \in BOOLEAN
       /\ \A i \in imagenes' : i \in imagenes \/ (form[h].paso = "dentro" /\ i \in form[h].subidas)
       /\ \A i \in imagenes' : i \in imagenes => i.archivo \notin form[h].borrados
       /\ producto'[p].estado = "no" => \A i \in imagenes' : i.producto # p
       /\ ~pasada' /\ ~(n > 0) => Cardinality(imagenes') <= Cardinality(imagenes)
  BY <1>2, <1>4, InvFields DEF ProductsTypeOK
<1> QED  BY <1>2, <1>4, <1>6, <1>9, <1>10, Written

\* What is removed had only its own files deleted.
LEMMA CommitRemoveKeeps ==
  ASSUME ProductsInv, NEW h \in Gestores, CommitRemove(h)
  PROVE  ProductsInv'
<1>1. form[h].producto \in Productos /\ form[h].paso = "quitar"
  BY InvFields, FieldsTyped DEF CommitRemove
<1>2. PICK p \in Productos : p = form[h].producto BY <1>1
<1>3. PICK r \in ProductoRows : r = producto[p] BY <1>2, InvFields DEF ProductsTypeOK
<1>4. PICK w : w = [r EXCEPT !.estado = "borrado", !.vivas = {}, !.quitadas = r.quitadas \cup r.vivas]
  OBVIOUS
<1>5. w \in ProductoRows BY <1>4 DEF ProductoRows
<1>6. producto' = [producto EXCEPT ![p] = w]
  <2>1. producto \in [Productos -> ProductoRows] BY InvFields DEF ProductsTypeOK
  <2>2. producto' = [producto EXCEPT ![p] = [producto[p] EXCEPT !.estado = "borrado", !.vivas = {},
                                                 !.quitadas = producto[p].quitadas \cup producto[p].vivas]]
    BY <1>2 DEF CommitRemove
  <2> QED  BY <1>3, <1>4, <2>2
<1>7. producto' \in [Productos -> ProductoRows] /\ \A q \in Productos \ {p} : producto'[q] = producto[q]
  BY <1>5, <1>6, InvFields DEF ProductsTypeOK
<1>8. /\ Notes(h, p, Libreta, FALSE) /\ UNCHANGED <<almacen, subidos, cortadas, pasada>>
      /\ imagenes' = imagenes \ Fotos(p)
  BY <1>2 DEF CommitRemove
<1>9. \A i \in imagenes : i.producto # p => i.archivo \notin form[h].borrados
  BY <1>2, InvFields DEF Own
<1>10. \A x \in Gestores \ {h} : form[x].paso = "dentro" => form[x].producto # p
  BY <1>2 DEF CommitRemove
<1> QED  BY <1>2, <1>7, <1>8, <1>9, <1>10, Cleared

\* A variant that moves changes no photograph.
LEMMA MovesKeeps ==
  ASSUME ProductsInv, NEW p \in Productos, NEW v \in Celdas, Moves(p, v)
  PROVE  ProductsInv'
<1>1. PICK r \in ProductoRows : r = producto[p] BY InvFields DEF ProductsInv, ProductsTypeOK
<1>2. PICK w : w = [r EXCEPT !.movidas = r.movidas \cup {v}] OBVIOUS
<1>3. w \in ProductoRows BY <1>2 DEF ProductoRows
<1>4. w.estado = r.estado BY <1>2 DEF ProductoRows
<1>5. producto' = [producto EXCEPT ![p] = w] BY <1>1, <1>2 DEF Moves, ProductsInv, ProductsTypeOK
<1>6. UNCHANGED <<imagenes, almacen, subidos, form, cortadas, pasada>> BY DEF Moves
<1>7. \A q \in Productos : producto'[q].estado = producto[q].estado
  BY <1>1, <1>4, <1>5 DEF ProductsInv, ProductsTypeOK
<1>8. ProductsTypeOK' BY <1>3, <1>5, <1>6 DEF ProductsInv, ProductsTypeOK
<1>9. ImagesApart' /\ UploadsApart' /\ OneInside' /\ FilesKept'
  BY <1>6 DEF ProductsInv, ImagesApart, UploadsApart, OneInside, FilesKept
<1>10. Books' BY <1>6, <1>7 DEF ProductsInv, Books, Fotos
<1>11. ASSUME NEW x \in Gestores PROVE Each(form[x])'
  <2>1. Own(form[x])' /\ InStep(form[x])' /\ Uploading(form[x])'
    BY <1>6, InvFields DEF Own, InStep, Uploading
  <2>2. Dropped(form[x])' = Dropped(form[x]) BY <1>6 DEF Dropped, Fotos
  <2>3. form[x].paso # "nada" => form[x].producto \in Productos BY FieldsTyped, InvFields
  <2>4. Counted(form[x])' BY <1>6, <1>7, <2>2, <2>3, InvFields DEF Counted
  <2> QED  BY <2>1, <2>4 DEF Each
<1> QED  BY <1>8, <1>9, <1>10, <1>11 DEF ProductsInv

\* The process restarts: the files that were deleted are gone, whoever deleted them.
LEMMA RestartKeeps ==
  ASSUME ProductsInv, Restart
  PROVE  ProductsInv'
<1>1. /\ form' = [h \in Gestores |-> Libreta]
      /\ UNCHANGED <<producto, imagenes, almacen, subidos, pasada>>
      /\ cortadas' = cortadas \cup UNION {form[h].borrados : h \in Gestores}
  BY DEF Restart
<1>2. \A h \in Gestores : form'[h] = Libreta BY <1>1
<1>3. Libreta.paso = "nada" BY DEF Libreta
<1>4. cortadas' \in SUBSET Archivos
  <2>1. cortadas \subseteq Archivos BY InvFields DEF ProductsInv, ProductsTypeOK
  <2>2. \A h \in Gestores : form[h].borrados \subseteq Archivos BY FieldsTyped DEF ProductsInv
  <2>3. \A a \in UNION {form[h].borrados : h \in Gestores} : a \in Archivos BY <2>2
  <2> QED  BY <1>1, <2>1, <2>3
<1>5. ProductsTypeOK' BY <1>1, <1>4 DEF ProductsInv, ProductsTypeOK
<1>6. FilesKept'
  <2>1. \A h \in Gestores : form[h].borrados \subseteq cortadas' BY <1>1
  <2>2. \A a \in cortadas : a \in cortadas' BY <1>1
  <2> QED  BY <1>1, <2>1, <2>2 DEF ProductsInv, FilesKept
<1>7. ImagesApart' /\ UploadsApart' /\ OneInside'
  BY <1>1, <1>2, <1>3 DEF ProductsInv, ImagesApart, UploadsApart, OneInside
<1>8. Books' BY <1>1 DEF ProductsInv, Books, Fotos
<1>9. ASSUME NEW x \in Gestores PROVE Each(form[x])'
  <2>1. /\ Libreta.archivos = {} /\ Libreta.borrados = {} /\ Libreta.subidas = {} BY DEF Libreta
  <2>2. IsFiniteSet({}) BY FS_EmptySet
  <2>3. form'[x] = Libreta BY <1>2
  <2> QED  BY <1>3, <2>1, <2>2, <2>3 DEF Each, Own, InStep, Uploading, Counted
<1> QED  BY <1>5, <1>6, <1>7, <1>8, <1>9 DEF ProductsInv

\* What writes nothing of the products keeps their invariant.
LEMMA ProductsFrame ==
  ASSUME ProductsInv, UNCHANGED productVars
  PROVE  ProductsInv'
<1> USE DEF productVars
<1>1. ProductsTypeOK' /\ ImagesApart' /\ UploadsApart' /\ OneInside' /\ FilesKept' /\ Books'
  BY DEF ProductsInv, ProductsTypeOK, ImagesApart, UploadsApart, OneInside, FilesKept, Books, Fotos
<1>2. ASSUME NEW x \in Gestores PROVE Each(form[x])'
  <2>1. Dropped(form[x])' = Dropped(form[x]) BY DEF Dropped, Fotos
  <2> QED  BY <2>1, InvFields DEF Each, Own, InStep, Uploading, Counted
<1> QED  BY <1>1, <1>2 DEF ProductsInv

\* The photographs a product starts with, one for each of the first files.
LEMMA FirstImages ==
  ASSUME NEW p, NEW n \in Nat
  PROVE  LET S == {[producto |-> p, color |-> 1, archivo |-> a] : a \in 1..n} IN
         IsFiniteSet(S) /\ Cardinality(S) <= n /\ Cardinality(S) \in Nat
<1> DEFINE row(a) == [producto |-> p, color |-> 1, archivo |-> a]
           S == {row(a) : a \in 1..n}
<1>1. IsFiniteSet(1..n) /\ Cardinality(1..n) = n BY FS_Interval
<1>2. PICK F : F = [a \in 1..n |-> row(a)] OBVIOUS
<1>3. F \in [1..n -> S] /\ \A y \in S : \E a \in 1..n : F[a] = y BY <1>2
<1>4. F \in Surjection(1..n, S) BY <1>3 DEF Surjection
<1> HIDE DEF S, row
<1>5. IsFiniteSet(S) /\ Cardinality(S) <= Cardinality(1..n) BY <1>1, <1>4, FS_Surjection
<1>6. Cardinality(S) \in Nat BY <1>5, FS_CardinalityType
<1> QED  BY <1>1, <1>5, <1>6 DEF S, row

\* It holds at the start.
LEMMA ProductsStart == ProductsInit => ProductsInv
<1> SUFFICES ASSUME ProductsInit PROVE ProductsInv OBVIOUS
<1>1. form = [h \in Gestores |-> Libreta] /\ \A h \in Gestores : form[h] = Libreta
  BY DEF ProductsInit
<1>2. PICK n \in Nat : /\ n = rutina.fotos /\ subidos = n /\ almacen = 1..n
                       /\ n <= MaxSubidas /\ n <= Espacio
  <2>1. rutina \in Rutinas BY DEF ProductsInit, ListsInit
  <2>2. rutina.fotos \in Nat BY <2>1, CataloguesAssumption DEF RutinaType
  <2> QED  BY <2>1, <2>2, ProductsAssumption DEF ProductsInit
<1>3. almacen \subseteq Archivos /\ subidos \in 0..MaxSubidas
  BY <1>2, ProductsAssumption DEF Archivos
<1>4. SinProducto \in ProductoRows /\ SinProducto.estado = "no" BY DEF SinProducto, ProductoRows
<1>5. cortadas = {} /\ pasada = FALSE BY DEF ProductsInit
<1>6. /\ producto \in [Productos -> ProductoRows] /\ imagenes \in SUBSET ImagenRows
      /\ IsFiniteSet(imagenes) /\ Cardinality(imagenes) <= Espacio
      /\ \A i \in imagenes : producto[i.producto].estado # "no" /\ i.archivo \in 1..n
      /\ \A i, j \in imagenes : i.archivo = j.archivo => i = j
  <2>1. CASE rutina.que = "productos"
    <3>1. PICK p \in Productos :
            /\ producto = [o \in Productos |-> IF o = p THEN PrimerProducto ELSE SinProducto]
            /\ imagenes = {[producto |-> p, color |-> 1, archivo |-> a] : a \in 1..n}
      BY <1>2, <2>1 DEF ProductsInit
    <3>2. 1 \in Fichas /\ 2 \in Fichas /\ 1 \in Nombres
      BY <2>1, CataloguesAssumption, ProductsAssumption DEF ProductsInit, ListsInit
    <3>3. PrimerProducto \in ProductoRows /\ PrimerProducto.estado = "vivo"
      BY <3>2 DEF PrimerProducto, ProductoRows, Celdas
    <3>4. producto \in [Productos -> ProductoRows] /\ producto[p].estado = "vivo"
      BY <1>4, <3>1, <3>3
    <3>5. \A i \in imagenes : i.producto = p /\ i.archivo \in 1..n /\ i \in ImagenRows
      BY <1>2, <1>3, <3>1, <3>2 DEF ImagenRows
    <3>6. \A i, j \in imagenes : i.archivo = j.archivo => i = j BY <3>1
    <3>7. IsFiniteSet(imagenes) /\ Cardinality(imagenes) <= n /\ Cardinality(imagenes) \in Nat
      BY <3>1, FirstImages
    <3>8. Cardinality(imagenes) <= Espacio BY <1>2, <3>7, ProductsAssumption
    <3> QED  BY <3>4, <3>5, <3>6, <3>7, <3>8
  <2>2. CASE rutina.que # "productos"
    <3>1. producto = [o \in Productos |-> SinProducto] /\ imagenes = {} BY <2>2 DEF ProductsInit
    <3> QED  BY <1>4, <3>1, FS_EmptySet, ProductsAssumption
  <2> QED  BY <2>1, <2>2
<1>7. ProductsTypeOK BY <1>1, <1>3, <1>5, <1>6 DEF ProductsTypeOK
<1>8. Libreta.paso = "nada" BY DEF Libreta
<1>9. ImagesApart /\ UploadsApart /\ OneInside /\ FilesKept
  BY <1>1, <1>2, <1>6, <1>8 DEF ImagesApart, UploadsApart, OneInside, FilesKept
<1>10. Books BY <1>6 DEF Books, Fotos
<1>11. \A h \in Gestores : Each(form[h]) BY <1>1, IdleIsEach
<1> QED  BY <1>7, <1>9, <1>10, <1>11 DEF ProductsInv

----------------------------------------
(* The theorems.                                                           *)

\* What a product is written with makes its colour and its size of the system, or puts them back in
\* use: rows that no listing shows.
LEMMA InputsKeepLists ==
  ASSUME ListsTypeOK, ListsInv, NEW f \in Formas, ResolveInputs(f), gestiones' \in Nat,
         UNCHANGED <<rutina, respuestas, gestion>>
  PROVE  ListsTypeOK' /\ ListsInv'
<1>1. \A r \in FichaRows : [r EXCEPT !.estado = "viva", !.activo = TRUE] \in FichaRows
  BY DEF FichaRows
<1>2. PICK c \in FichaRows : c = [fichas["color"][0] EXCEPT !.estado = "viva", !.activo = TRUE]
  BY <1>1, CataloguesAssumption DEF ListsTypeOK, Listas
<1>3. PICK t \in FichaRows : t = [fichas["talla"][0] EXCEPT !.estado = "viva", !.activo = TRUE]
  BY <1>1, CataloguesAssumption DEF ListsTypeOK, Listas
<1>4. \/ UNCHANGED fichas
      \/ fichas' = [fichas EXCEPT !["color"][0] = c, !["talla"][0] = t]
  BY <1>2, <1>3 DEF ResolveInputs
<1>5. /\ fichas' \in [Listas -> [Fichas -> FichaRows]]
      /\ \A k \in Listas : \A i \in Fichas : ~(i = 0 /\ k \in Escondidas) => fichas'[k][i] = fichas[k][i]
  BY <1>4 DEF ListsTypeOK, Listas, Escondidas
<1>6. ListsTypeOK' BY <1>5 DEF ListsTypeOK
<1> QED  BY <1>5, <1>6, ListsFrame

\* Requests are counted.
LEMMA CountsTyped ==
  ASSUME ListsTypeOK, Counts
  PROVE  gestiones' \in Nat
  BY DEF ListsTypeOK, Counts

\* What writes nothing of the lists keeps what agrees with them.
LEMMA ListsKeep ==
  ASSUME ListsTypeOK, ListsInv, UNCHANGED <<rutina, fichas, respuestas, gestion>>, gestiones' \in Nat
  PROVE  ListsTypeOK' /\ ListsInv'
<1>1. ListsTypeOK' BY DEF ListsTypeOK
<1> QED  BY <1>1, ListsFrame

\* What a request on a product does.
LEMMA FormNextKeeps ==
  ASSUME ListsTypeOK, ListsInv, ProductsInv, NEW h \in Gestores, FormNext(h)
  PROVE  ListsTypeOK' /\ ListsInv' /\ ProductsInv'
<1>1. ASSUME NEW p \in Productos, NEW f \in Formas, OpenCreate(h, p, f) \/ OpenUpdate(h, p, f)
      PROVE  ListsTypeOK' /\ ListsInv' /\ ProductsInv'
  <2>1. /\ ResolveInputs(f) /\ Counts /\ UNCHANGED <<rutina, respuestas, gestion>>
    BY <1>1 DEF OpenCreate, OpenUpdate, Opens
  <2>2. ListsTypeOK' /\ ListsInv' BY <2>1, CountsTyped, InputsKeepLists
  <2> QED  BY <1>1, <2>2, OpenCreateKeeps, OpenUpdateKeeps
<1>2. ASSUME NEW p \in Productos, BeginRemove(h, p) PROVE ListsTypeOK' /\ ListsInv' /\ ProductsInv'
  <2>1. Counts /\ UNCHANGED <<rutina, fichas, respuestas, gestion>> BY <1>2 DEF BeginRemove, Opens
  <2> QED  BY <1>2, <2>1, CountsTyped, ListsKeep, BeginRemoveKeeps
<1>3. ASSUME UNCHANGED listVars PROVE ListsTypeOK' /\ ListsInv'
  <2>1. UNCHANGED <<rutina, fichas, respuestas, gestion>> /\ gestiones' \in Nat
    BY <1>3 DEF listVars, ListsTypeOK
  <2> QED  BY <2>1, ListsKeep
<1>4. CASE BeginForm(h) BY <1>3, <1>4, BeginFormKeeps DEF BeginForm
<1>5. CASE EnterForm(h) BY <1>3, <1>5, EnterFormKeeps DEF EnterForm
<1>6. CASE CommitForm(h)
  <2>1. UNCHANGED listVars BY <1>6 DEF CommitForm
  <2> QED  BY <1>3, <1>6, <2>1, CommitFormKeeps
<1>7. CASE AbortForm(h) BY <1>3, <1>7, AbortFormKeeps DEF AbortForm
<1>8. CASE AnswerCreated(h) BY <1>3, <1>8, AnswerCreatedKeeps DEF AnswerCreated
<1>10. CASE CommitRemove(h)
  <2>1. UNCHANGED listVars BY <1>10 DEF CommitRemove
  <2> QED  BY <1>3, <1>10, <2>1, CommitRemoveKeeps
<1>11. ASSUME NEW a \in Archivos, DeleteProductImage(h, a) \/ DeleteRemovedImage(h, a)
       PROVE  ListsTypeOK' /\ ListsInv' /\ ProductsInv'
  <2>1. UNCHANGED listVars BY <1>11 DEF DeleteProductImage, DeleteRemovedImage
  <2> QED  BY <1>3, <1>11, <2>1, DeleteProductImageKeeps, DeleteRemovedImageKeeps
<1>12. ASSUME NEW c \in Fichas, UploadProductColorImage(h, c) PROVE ListsTypeOK' /\ ListsInv' /\ ProductsInv'
  <2>1. UNCHANGED listVars BY <1>12 DEF UploadProductColorImage
  <2> QED  BY <1>3, <1>12, <2>1, UploadKeeps
<1> QED  BY <1>1, <1>2, <1>4, <1>5, <1>6, <1>7, <1>8, <1>10, <1>11, <1>12 DEF FormNext

\* The process restarts: no answer is kept and no listing is being read.
LEMMA ListsCut ==
  ASSUME ListsTypeOK, Restarts
  PROVE  ListsTypeOK' /\ ListsInv'
<1>1. ListsTypeOK' BY EmptyTyped, IdleTyped DEF ListsTypeOK, Restarts
<1>2. \A k \in Listas, q \in Consultas : ~respuestas'[k][q].hay BY DEF Restarts, Vacia
<1>3. \A h \in Gestores : gestion'[h].op = "nada" BY DEF Restarts, SinGestion
<1> QED  BY <1>1, <1>2, <1>3 DEF ListsInv, ListsAgree, ReadsAgree

\* With no answer kept, every one agrees.
LEMMA ListsStart == ListsInit => ListsTypeOK /\ ListsInv
<1> SUFFICES ASSUME ListsInit PROVE ListsTypeOK /\ ListsInv OBVIOUS
<1>1. \A i \in Fichas : i \in Nombres \cup {0} BY CataloguesAssumption
<1>2. \A i \in Fichas : /\ [nombre |-> i, estado |-> "viva", activo |-> TRUE] \in FichaRows
                        /\ [nombre |-> 0, estado |-> "libre", activo |-> FALSE] \in FichaRows
  BY <1>1 DEF FichaRows
<1>3. fichas \in [Listas -> [Fichas -> FichaRows]] BY <1>2 DEF ListsInit
<1>4. ListsTypeOK BY <1>3, EmptyTyped, IdleTyped DEF ListsTypeOK, ListsInit
<1>5. \A k \in Listas, q \in Consultas : ~respuestas[k][q].hay BY DEF ListsInit, Vacia
<1>6. \A h \in Gestores : gestion[h].op = "nada" BY DEF ListsInit, SinGestion
<1> QED  BY <1>4, <1>5, <1>6 DEF ListsInv, ListsAgree, ReadsAgree

CatalogueInv == ListsTypeOK /\ ListsInv /\ AgenciesInv /\ ProductsInv

\* The invariant of the catalogues holds at the start.
LEMMA CatalogueStarts == ProductsInit => CatalogueInv
  BY ProductsStart, ListsStart, AgenciesStart DEF ProductsInit, CatalogueInv

\* Every step of the catalogues keeps it.
LEMMA CatalogueStays ==
  ASSUME CatalogueInv, [CatalogueNext]_catalogueVars
  PROVE  CatalogueInv'
<1> USE DEF CatalogueInv
<1>0. ASSUME UNCHANGED listVars PROVE ListsTypeOK' /\ ListsInv'
  <2>1. UNCHANGED <<rutina, fichas, respuestas, gestion>> /\ gestiones' \in Nat
    BY <1>0 DEF listVars, ListsTypeOK
  <2> QED  BY <2>1, ListsKeep
<1>1. CASE ListsNext /\ UNCHANGED <<agencyVars, productVars>>
  <2>1. UNCHANGED agencyVars /\ UNCHANGED productVars BY <1>1
  <2> QED  BY <1>1, <2>1, ListsTyped, ListsStayAgreed, AgenciesFrame, ProductsFrame
<1>2. CASE AgenciesNext /\ UNCHANGED <<listVars, productVars>>
  <2>1. UNCHANGED listVars /\ UNCHANGED productVars BY <1>2
  <2> QED  BY <1>0, <1>2, <2>1, AgenciesStay, ProductsFrame
<1>3. CASE (\E h \in Gestores : FormNext(h)) /\ UNCHANGED agencyVars
  BY <1>3, FormNextKeeps, AgenciesFrame
<1>4. ASSUME NEW p \in Productos, NEW v \in Celdas, Moves(p, v), UNCHANGED agencyVars PROVE CatalogueInv'
  <2>1. Counts /\ UNCHANGED <<rutina, fichas, respuestas, gestion>> BY <1>4 DEF Moves
  <2> QED  BY <1>4, <2>1, CountsTyped, ListsKeep, MovesKeeps, AgenciesFrame
<1>5. CASE Restart
  <2>1. Restarts /\ AgenciesRestart BY <1>5 DEF Restart
  <2> QED  BY <1>5, <2>1, ListsCut, AgenciesCut, RestartKeeps
<1>6. CASE UNCHANGED catalogueVars
  <2>1. UNCHANGED listVars /\ UNCHANGED agencyVars /\ UNCHANGED productVars
    BY <1>6 DEF catalogueVars
  <2> QED  BY <1>0, <2>1, AgenciesFrame, ProductsFrame
<1> QED  BY <1>1, <1>2, <1>3, <1>4, <1>5, <1>6 DEF CatalogueNext

\* The rows of the lists, the answers kept, the agencies, the products and every request on them
\* are of their types.
THEOREM CatalogueTypes == CatalogueSpec => [](ListsTypeOK /\ AgenciesTypeOK /\ ProductsTypeOK)
<1>1. CatalogueInv => ListsTypeOK /\ AgenciesTypeOK /\ ProductsTypeOK
  BY DEF CatalogueInv, AgenciesInv, ProductsInv
<1> QED  BY <1>1, CatalogueStarts, CatalogueStays, PTL DEF CatalogueSpec

\* What a company chooses from is what was last written: an answer kept shows the rows as they are,
\* save for a change that is still to clear it or that crossed it; the agencies in use after a
\* synchronisation that completed are those received (getOrSet, clearCache, sync).
THEOREM CataloguesAgreeAlways == CatalogueSpec => []CataloguesAgree
<1>1. CatalogueInv => CataloguesAgree BY DEF CatalogueInv, ListsInv, AgenciesInv, CataloguesAgree
<1> QED  BY <1>1, CatalogueStarts, CatalogueStays, PTL DEF CatalogueSpec

\* The row of a photograph points to its file, unless a request deleted it that is still to write
\* or that failed before it could; and the photographs are within the plan, unless a form was
\* written over a product that had changed (update, remove, assertResourceLimits).
THEOREM ProductsAreHeld == CatalogueSpec => []ProductsHold
<1>1. CatalogueInv => ProductsHold
  <2> SUFFICES ASSUME CatalogueInv PROVE ProductsHold OBVIOUS
  <2>1. FilesKept /\ Books BY DEF CatalogueInv, ProductsInv
  <2>2. ImagesStored
    <3>1. ASSUME NEW i \in imagenes
          PROVE  i.archivo \in almacen \cup cortadas \cup UNION {form[h].borrados : h \in Gestores}
      <4>1. \/ i.archivo \in almacen \cup cortadas
            \/ \E x \in Gestores : i.archivo \in form[x].borrados
        BY <2>1 DEF FilesKept
      <4> QED  BY <4>1
    <3> QED  BY <3>1 DEF ImagesStored
  <2>3. StorageWithinPlan BY <2>1 DEF Books, StorageWithinPlan
  <2> QED  BY <2>2, <2>3 DEF ProductsHold
<1> QED  BY <1>1, CatalogueStarts, CatalogueStays, PTL DEF CatalogueSpec
=============================================================================
