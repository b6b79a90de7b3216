---------------------------- MODULE CourierAgencies ----------------------------
(***************************************************************************)
(* The agencies of the couriers a parcel can be sent to: taken every night,*)
(* or when an operator asks, from a service of each courier                *)
(* (src/src/modules/courier-agencies/courier-agencies.service.ts).         *)
(*                                                                         *)
(* What an agency is like is left out: it is there, in use or not.         *)
(***************************************************************************)
EXTENDS Catalogues

CONSTANTS
  Couriers,
  Agencias     \* what a courier may have

ASSUME AgenciesAssumption == IsFiniteSet(Couriers) /\ IsFiniteSet(Agencias)

VARIABLES
  activas,     \* the agencies in use of every courier: AgenciaCourier.activo
  running,     \* the couriers the process takes as being synchronised
  ejecucion,   \* the state of the last AgenciaCourierSincronizacion of a courier
  recibidas,   \* what its last completed synchronisation had received; not in the program
  sincro       \* the synchronisation of every request

agencyVars == <<activas, running, ejecucion, recibidas, sincro>>

Sincros   == [courier : Couriers, paso : {"pedir", "guardar", "retirar", "cerrar"},
              vistas : SUBSET Agencias]
Quieto    == [paso |-> "nada"]
AgenciesTypeOK ==
  /\ activas \in [Couriers -> SUBSET Agencias] /\ running \subseteq Couriers
  /\ ejecucion \in [Couriers -> {"ninguna", "procesando", "completada", "fallida"}]
  /\ recibidas \in [Couriers -> SUBSET Agencias]
  /\ sincro \in [Gestores -> Sincros \cup {Quieto}]

NotRunning(c) == c \notin running

\* sync marks the courier and opens a row for the execution.
Sync(h, c) ==
  /\ sincro[h] = Quieto /\ NotRunning(c)
  /\ running' = running \cup {c}
  /\ ejecucion' = [ejecucion EXCEPT ![c] = "procesando"]
  /\ sincro' = [sincro EXCEPT ![h] = [courier |-> c, paso |-> "pedir", vistas |-> {}]]
  /\ UNCHANGED <<activas, recibidas>>
\* The row could not be opened: that happens outside of the try, and the mark stays.
SyncStuck(h, c) ==
  /\ sincro[h] = Quieto /\ NotRunning(c)
  /\ running' = running \cup {c}
  /\ UNCHANGED <<activas, ejecucion, recibidas, sincro>>

\* The courier answers with its catalogue, all the pages of it; an empty one is a failure.
FetchAgencies(h) ==
  /\ sincro[h].paso = "pedir"
  /\ \E s \in (SUBSET Agencias) \ {{}} :
       sincro' = [sincro EXCEPT ![h].paso = "guardar", ![h].vistas = s]
  /\ UNCHANGED <<activas, running, ejecucion, recibidas>>
\* One transaction brings every agency received in use.
UpsertAgencies(h) ==
  LET c == sincro[h].courier IN
  /\ sincro[h].paso = "guardar"
  /\ activas' = [activas EXCEPT ![c] = @ \cup sincro[h].vistas]
  /\ sincro' = [sincro EXCEPT ![h].paso = "retirar"]
  /\ UNCHANGED <<running, ejecucion, recibidas>>
\* Outside of it, those that were not received are taken out of use.
Deactivate(h) ==
  LET c == sincro[h].courier IN
  /\ sincro[h].paso = "retirar"
  /\ activas' = [activas EXCEPT ![c] = @ \cap sincro[h].vistas]
  /\ sincro' = [sincro EXCEPT ![h].paso = "cerrar"]
  /\ UNCHANGED <<running, ejecucion, recibidas>>
\* The execution is closed; with its answer lost and the closing as failed lost too, it ends the same.
CompleteSync(h) ==
  LET c == sincro[h].courier IN
  /\ sincro[h].paso = "cerrar"
  /\ ejecucion' = [ejecucion EXCEPT ![c] = "completada"]
  /\ recibidas' = [recibidas EXCEPT ![c] = sincro[h].vistas]
  /\ running' = running \ {c}
  /\ sincro' = [sincro EXCEPT ![h] = Quieto]
  /\ UNCHANGED activas
\* Any of those calls fails: the execution is closed as failed, if that can be written.
SyncFails(h) ==
  LET c == sincro[h].courier IN
  /\ sincro[h] # Quieto
  /\ \E e \in {"fallida", "procesando"} : ejecucion' = [ejecucion EXCEPT ![c] = e]
  /\ running' = running \ {c}
  /\ sincro' = [sincro EXCEPT ![h] = Quieto]
  /\ UNCHANGED <<activas, recibidas>>

AgenciesRestart ==
  /\ running' = {} /\ sincro' = [h \in Gestores |-> Quieto]
  /\ UNCHANGED <<activas, ejecucion, recibidas>>

AgenciesInit ==
  /\ activas = [c \in Couriers |-> {}] /\ running = {}
  /\ ejecucion = [c \in Couriers |-> "ninguna"]
  /\ recibidas = [c \in Couriers |-> {}]
  /\ sincro = [h \in Gestores |-> Quieto]
AgenciesNext ==
  \E h \in Gestores :
    \/ \E c \in Couriers : Sync(h, c) \/ SyncStuck(h, c)
    \/ FetchAgencies(h) \/ UpsertAgencies(h) \/ Deactivate(h) \/ CompleteSync(h) \/ SyncFails(h)

----------------------------------------

\* After a synchronisation that completed, and until the next one begins, the agencies in use are
\* those the courier answered with, and there is one: an execution that fails or is cut, whatever
\* it had written, does not pass for complete, and no other writes beside it (sync).
AgenciesAsReceived ==
  \A c \in Couriers :
    ejecucion[c] = "completada" => activas[c] = recibidas[c] /\ activas[c] # {}

\* What a company and its clerks choose from is what was last written: the lists it keeps and the
\* agencies of the couriers.
CataloguesAgree == ListsAgree /\ AgenciesAsReceived
=============================================================================
