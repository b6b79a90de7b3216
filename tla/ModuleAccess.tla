----------------------------- MODULE ModuleAccess -----------------------------
(***************************************************************************)
(* What a user may open: the modules of the plan, the changes made to them *)
(* for one company, the keys the user was given and the branch and the     *)
(* operations it is limited to.  UsersService, PlansService and JwtStrategy *)
(* on the company's side; the catalogue of plans, updateCompanyModules and *)
(* the administrators of the platform on the other (src/src/modules).      *)
(*                                                                         *)
(* The keys a user was given are kept when the plan stops including them,  *)
(* so that they come back with it; what it may open is worked out anew at  *)
(* every request.                                                          *)
(***************************************************************************)
EXTENDS Attendance

CONSTANTS
  Administradores,  \* of the platform
  MaxEdiciones      \* bound: requests for an edit

ASSUME AccessAssumption == MaxEdiciones \in Nat /\ Administradores # {}   \* the first is set in the database

Modulos == {"usuarios", "stock", "marcajes"}
DeAlmacen == {"stock"}                \* warehouseUserModuleKeySet
DeAsistencias == {"marcajes"}         \* attendanceModuleKeys
Sucursales == {"todas", "tienda", "almacen"}
Visibilidades == {"todas", "propias"}
Dueno == 0

VARIABLES
  catalogo,    \* how often each row of the catalogue was saved: what updatedAt tells apart
  plan,        \* the modules of the company's plan
  ajustes,     \* empresaModuloPlan: what is switched on or off for the company
  ficha,       \* of every user: its keys, branch and visibility
  tramite,     \* what every request read
  ediciones,   \* how many edits were asked for
  admins,      \* the active administrators
  pedido,      \* history: the modules last asked for the company, and over what
  cruce        \* history: an administrator was switched by one already switched off

PlanModuloRows == SUBSET Modulos
EmpresaModuloRows == [Modulos -> {"plan", "si", "no"}]
UsuarioRows == [claves : SUBSET Modulos, sucursal : Sucursales, ve : Visibilidades]
AccessTypeOK ==
  /\ plan \in PlanModuloRows /\ ajustes \in EmpresaModuloRows /\ ficha \in [Objetos -> UsuarioRows]
  /\ admins \subseteq Administradores /\ cruce \in BOOLEAN

accessRows == <<catalogo, plan, ajustes, ficha, admins>>
accessVars == <<accessRows, tramite, ediciones, pedido, cruce>>
people == <<authVars, dayRows>>
OnlyUsers == UNCHANGED <<dia, limite, vigente, servicio, mes, hilo, people, pedido, cruce>>

----------------------------------------
(* What the company and a user may open.                                   *)

\* The modules of Asistencias go with the service, whatever was switched on.
Base == plan \ (IF servicio THEN {} ELSE DeAsistencias)
Available ==
  ((Base \cup {m \in Modulos : ajustes[m] = "si"}) \ {m \in Modulos : ajustes[m] = "no"})
    \ (IF servicio THEN {} ELSE DeAsistencias)

Effective(o) ==
  IF ~vigente THEN {}
  ELSE (ficha[o].claves \cap Available) \cap
         (IF ficha[o].sucursal = "almacen" THEN DeAlmacen ELSE Modulos)

\* Who asks is looked up when the request comes in.
IsUser(o) == filas[o].clase = "users" /\ filas[o].estado # "libre"
MayManage(q) ==
  IF q = Dueno THEN vigente /\ "usuarios" \in Available
  ELSE IsUser(q) /\ filas[q].estado = "activo" /\ "usuarios" \in Effective(q)
CommercialScope(q) ==
  IF q = Dueno THEN [sucursal |-> "todas", ve |-> "todas"]
  ELSE [sucursal |-> ficha[q].sucursal, ve |-> ficha[q].ve]
InReach(scope, o) == scope.sucursal \in {"todas", ficha[o].sucursal}

----------------------------------------
(* Users are created, changed and removed.                                 *)

Nada == [pc |-> "libre", por |-> [sucursal |-> "todas", ve |-> "todas"], o |-> 0, sabe |-> {},
         claves |-> {}, ver |-> 0]
OneEdit == ediciones < MaxEdiciones /\ ediciones' = ediciones + 1
Begins(t, pc, scope, o, claves) ==
  /\ tramite[t] = Nada /\ OneEdit
  /\ tramite' = [tramite EXCEPT ![t] =
       [Nada EXCEPT !.pc = pc, !.por = scope, !.o = o, !.claves = claves]]
  /\ OnlyUsers /\ UNCHANGED <<filas, accessRows>>

BeginCreate(t, q, o) ==
  /\ MayManage(q) /\ dia.clases[o] = "users" /\ filas[o].estado = "libre"
  /\ Begins(t, "crea", CommercialScope(q), o, {})

FindCompanyUser(t, q, o) ==
  /\ MayManage(q) /\ IsUser(o) /\ InReach(CommercialScope(q), o)
  /\ Begins(t, "edita", CommercialScope(q), o, ficha[o].claves)

Checked == [crea |-> "creando", edita |-> "editando"]
AssertModulesIncluded(t) ==
  /\ tramite[t].pc \in DOMAIN Checked
  /\ tramite' = IF vigente
                  THEN [tramite EXCEPT ![t].pc = Checked[@], ![t].sabe = Available]
                  ELSE [tramite EXCEPT ![t] = Nada]
  /\ OnlyUsers /\ UNCHANGED <<filas, accessRows, ediciones>>

ResolveGrantedBranch(scope, s) == scope.sucursal \in {"todas", s}
AssertGrantedVisibility(scope, v) == ~(scope.ve = "propias" /\ v = "todas")
AssertWarehouseModules(s, keys) == s = "almacen" => keys \subseteq DeAlmacen

\* The keys that the plan did not include when the user was looked up are kept.
StoredAsked(t, keys) == keys
StoredKeys(t, keys) == keys \cup (tramite[t].claves \ tramite[t].sabe)

Writes2(t, pc, keys, s, v) ==
  LET o == tramite[t].o IN
  /\ tramite[t].pc = pc
  /\ keys # {} /\ keys \subseteq tramite[t].sabe
  /\ ResolveGrantedBranch(tramite[t].por, s) /\ AssertWarehouseModules(s, keys)
  /\ AssertGrantedVisibility(tramite[t].por, v)
  /\ ficha' = [ficha EXCEPT ![o] = [claves |-> StoredKeys(t, keys), sucursal |-> s, ve |-> v]]
  /\ tramite' = [tramite EXCEPT ![t] = Nada]
  /\ OnlyUsers /\ UNCHANGED <<catalogo, plan, ajustes, admins, ediciones>>

WriteNewUser(t, keys, s, v) ==
  LET o == tramite[t].o IN
  /\ Writes2(t, "creando", keys, s, v)
  /\ filas[o].estado = "libre" /\ AssertResourceLimits("users", 1)
  /\ filas' = [filas EXCEPT ![o] = Fila("users", "activo")]

WriteUser(t, keys, s, v) ==
  /\ Writes2(t, "editando", keys, s, v)
  /\ IsUser(tramite[t].o) /\ UNCHANGED filas

\* A plan that ended meanwhile, no room, or a user that is gone.
UserRefused(t) ==
  /\ \/ tramite[t].pc = "creando"
        /\ ~(filas[tramite[t].o].estado = "libre" /\ AssertResourceLimits("users", 1))
     \/ tramite[t].pc = "editando" /\ ~IsUser(tramite[t].o)
  /\ tramite' = [tramite EXCEPT ![t] = Nada]
  /\ OnlyUsers /\ UNCHANGED <<filas, accessRows, ediciones>>

Remove(q, o) ==
  /\ MayManage(q) /\ IsUser(o) /\ InReach(CommercialScope(q), o)
  /\ OneEdit /\ RemoveUser(o) /\ UNCHANGED <<people, accessRows, tramite, pedido, cruce>>

----------------------------------------
(* The platform: the modules of the company and the catalogue.             *)

OnlyPlatform == UNCHANGED <<limitVars, people, ficha>>

\* What is asked is kept as its difference from the plan, so that the rest follows the plan.
OverridesOfEffective(S) ==
  [m \in Modulos |-> IF (m \in S) = (m \in Available) THEN "plan"
                     ELSE IF m \in S THEN "si" ELSE "no"]
Overrides(S) ==
  [m \in Modulos |-> IF (m \in S) = (m \in Base) THEN "plan"
                     ELSE IF m \in S THEN "si" ELSE "no"]

UpdateCompanyModules(S) ==
  /\ OneEdit
  /\ ajustes' = Overrides(S)
  /\ pedido' = [modulos |-> S, plan |-> plan, servicio |-> servicio]
  /\ OnlyPlatform /\ UNCHANGED <<catalogo, plan, admins, tramite, cruce>>

Tarifas == {"plan", "precio", "excedente", "limites"}
ReadCatalog(t, r) ==
  /\ tramite[t] = Nada /\ OneEdit
  /\ tramite' = [tramite EXCEPT ![t].pc = r, ![t].ver = catalogo[r]]
  /\ OnlyPlatform /\ UNCHANGED <<catalogo, plan, ajustes, admins, pedido, cruce>>

SaveOver(t, r) ==
  /\ tramite[t].pc = r
  /\ catalogo' = [catalogo EXCEPT ![r] = @ + 1]
  /\ tramite' = [tramite EXCEPT ![t] = Nada]
  /\ OnlyPlatform /\ UNCHANGED <<ajustes, admins, ediciones, pedido, cruce>>

\* The row is locked, and refused when it was saved since it was read.
Save(t, r) == tramite[t].ver = catalogo[r] /\ SaveOver(t, r)

UpdatePricing(t) == Save(t, "precio") /\ UNCHANGED plan
UpdateLimitRows(t) == Save(t, "limites") /\ UNCHANGED plan
UpdateOveragePricing(t) == Save(t, "excedente") /\ UNCHANGED plan

\* The days of the trial and the modules are of one row.
UpdateTrial(t) == Save(t, "plan") /\ UNCHANGED plan
UpdateModules(t, S) == Save(t, "plan") /\ plan' = S

\* The prices of Asistencias are written over whatever is there.
UpdateAttendancePricing(t) == SaveOver(t, "asistencias") /\ UNCHANGED plan

SaveRefused(t) ==
  /\ tramite[t].pc \in Tarifas /\ tramite[t].ver # catalogo[tramite[t].pc]
  /\ tramite' = [tramite EXCEPT ![t] = Nada]
  /\ OnlyPlatform /\ UNCHANGED <<catalogo, plan, ajustes, admins, ediciones, pedido, cruce>>

----------------------------------------
(* The administrators of the platform.                                     *)

CreateAdmin(a) ==
  /\ admins # {} /\ a \notin admins
  /\ admins' = admins \cup {a}
  /\ OnlyPlatform /\ UNCHANGED <<catalogo, plan, ajustes, tramite, ediciones, pedido, cruce>>

NotItself(by, a, e) == ~(by = a /\ e = "inactivo")

\* Who asks was active when the request came in.
BeginStatus(t, by, a, e) ==
  /\ tramite[t] = Nada /\ by \in admins /\ NotItself(by, a, e)
  /\ (e = "activo") # (a \in admins)
  /\ tramite' = [tramite EXCEPT ![t].pc = e, ![t].sabe = {by}, ![t].claves = {a}]
  /\ OnlyPlatform /\ UNCHANGED <<catalogo, plan, ajustes, admins, ediciones, pedido, cruce>>

UpdateAdminStatus(t) ==
  /\ tramite[t].pc \in {"activo", "inactivo"}
  /\ admins' = IF tramite[t].pc = "activo" THEN admins \cup tramite[t].claves
               ELSE admins \ tramite[t].claves
  /\ cruce' = (cruce \/ ~(tramite[t].sabe \subseteq admins))
  /\ tramite' = [tramite EXCEPT ![t] = Nada]
  /\ OnlyPlatform /\ UNCHANGED <<catalogo, plan, ajustes, ediciones, pedido>>

----------------------------------------

\* A company that registers for one of the products has the modules of the other switched off.
RegistrationOverrides(mode) ==
  [m \in Modulos |->
     IF \/ mode = "pos" /\ m \in DeAsistencias
        \/ mode = "attendance" /\ m \notin DeAsistencias
     THEN "no" ELSE "plan"]

AccessInit ==
  /\ catalogo = [r \in Tarifas \cup {"asistencias"} |-> 0] /\ plan = Modulos
  /\ \E mode \in IF dia.que = "modulos" THEN {"both", "pos", "attendance"} ELSE {"both"} :
       ajustes = RegistrationOverrides(mode)
  /\ ficha = [o \in Objetos |->
       [claves |-> Modulos, sucursal |-> "tienda", ve |-> IF o = 1 THEN "todas" ELSE "propias"]]
  /\ tramite = [t \in Hilos |-> Nada] /\ ediciones = 0
  /\ admins = Administradores
  /\ pedido = [modulos |-> Available, plan |-> plan, servicio |-> servicio]
  /\ cruce = FALSE

UsersNext ==
  \/ \E t \in Hilos :
       \/ AssertModulesIncluded(t) \/ UserRefused(t)
       \/ \E q \in Objetos \cup {Dueno}, o \in Objetos :
            BeginCreate(t, q, o) \/ FindCompanyUser(t, q, o)
       \/ \E s \in Sucursales, v \in Visibilidades :
            \E keys \in IF s = "almacen" THEN {DeAlmacen} ELSE {{"usuarios"}, {"usuarios", "marcajes"}} :
              WriteNewUser(t, keys, s, v) \/ WriteUser(t, keys, s, v)
  \/ \E q \in Objetos \cup {Dueno}, o \in Objetos : Remove(q, o)

PlatformNext ==
  \/ \E S \in SUBSET Modulos : UpdateCompanyModules(S)
  \/ \E t \in Hilos : \E r \in DOMAIN catalogo : ReadCatalog(t, r)
  \/ \E t \in Hilos : \/ UpdatePricing(t) \/ UpdateLimitRows(t) \/ UpdateOveragePricing(t)
                      \/ UpdateTrial(t) \/ UpdateAttendancePricing(t) \/ SaveRefused(t)
                      \/ \E S \in SUBSET Modulos : UpdateModules(t, S)

AdminsNext ==
  \/ \E a \in Administradores : CreateAdmin(a)
  \/ \E t \in Hilos : UpdateAdminStatus(t)
  \/ \E t \in Hilos, by \in Administradores, a \in Administradores, e \in Estados :
       BeginStatus(t, by, a, e)

AccessNext2 ==
  \/ dia.que = "permisos" /\ UsersNext
  \/ dia.que = "modulos" /\ PlatformNext
  \/ dia.que = "administradores" /\ AdminsNext
  \/ dia.que \in {"permisos", "modulos"} /\ AttendanceTurns /\ UNCHANGED <<people, accessVars>>

CompanyInit == Init /\ AccessInit
CompanyNext == (Next /\ UNCHANGED accessVars) \/ AccessNext2
companyVars == <<vars, accessVars>>
CompanySpec == CompanyInit /\ [][CompanyNext]_companyVars

----------------------------------------

\* A key given to a user goes only by an edit that found it among the modules of the company:
\* while the plan does not include it, editing the user leaves it where it is.  (An edit that
\* looked the user up before another changed it writes what it saw then.)
KeysSurvive ==
  [][\A o \in Objetos : \A m \in ficha[o].claves \ ficha'[o].claves :
       \E t \in Hilos : /\ tramite[t].pc \in {"creando", "editando"} /\ tramite[t].o = o
                        /\ m \in tramite[t].sabe \/ m \notin tramite[t].claves]_companyVars

\* A user is given a branch and a visibility only by one that had them when the request came
\* in, however users of users are made and whatever changed meanwhile.
GrantsWithinScope ==
  [][\A o \in Objetos : ficha'[o] # ficha[o] =>
       \E t \in Hilos : /\ tramite[t].o = o /\ tramite'[t] = Nada
                        /\ tramite[t].por.sucursal \in {"todas", ficha'[o].sucursal}
                        /\ tramite[t].por.ve \in {"todas", ficha'[o].ve}]_companyVars

\* What a user may do comes and goes only by one who saw it, and could give it.
GrantsHold == KeysSurvive /\ GrantsWithinScope

\* Whatever was switched on and off before, and whatever the plan and the service went through,
\* with the plan and the service as they were the company may open what was asked for it.
AsAsked ==
  pedido.plan = plan /\ pedido.servicio = servicio
    => Available = pedido.modulos \ (IF servicio THEN {} ELSE DeAsistencias)

\* The platform keeps an administrator, unless one was switched off by another that had been
\* switched off since it asked.
AdminRemains == admins # {} \/ cruce

\* What was granted can be used, by the company and by the platform itself.
AccessHolds == AsAsked /\ AdminRemains
=============================================================================
