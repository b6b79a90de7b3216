--------------------------- MODULE PlatformReceipts ---------------------------
(***************************************************************************)
(* How the electronic receipt of a sale of the platform reaches SUNAT, and *)
(* how its void and its credit note come back as the reversal of the sale. *)
(* Two routes: through Nuvex Billing (an outbox of jobs, an asynchronous   *)
(* verdict, webhooks and a reconciliation that bring it) or directly (one  *)
(* job for each receipt, SUNAT answers the call, a void goes by ticket).   *)
(*                                                                         *)
(* The sales are those of Subscriptions; what becomes of an electronic     *)
(* receipt is here, over one boleta.                                       *)
(* An operation is the emission of the boleta, its void (baja) or its      *)
(* credit note; the note has a row and a job of its own.                   *)
(***************************************************************************)
EXTENDS Subscriptions

CONSTANTS
  OtraVenta,      \* bound: routes on which there are other sales
  Hilos,          \* jobs, webhooks and reconciliations that run at a time
  MaxIntentos,    \* attempts of a job (5 and 10 in the code)
  MaxHora,        \* bound: instants that are told apart
  MaxFallos,      \* bound: lost calls, failed and overtaken writes, deaths
  MaxReintentos   \* bound: retries of an administrator

ASSUME PlatformReceiptsAssumption ==
  /\ OtraVenta \subseteq {"billing", "sunat"}
  /\ MaxIntentos \in Nat \ {0}
  /\ MaxHora \in Nat /\ MaxFallos \in Nat /\ MaxReintentos \in Nat

Operaciones == {"emision", "baja", "nota"}
Horas       == 0..MaxHora
Verdicts    == {"aceptado", "rechazado"}
Remoto      == [estado : {"ninguno", "abierto", "aceptado", "rechazado",
                          "fallido"}, at : Horas]
SinRemoto   == [estado |-> "ninguno", at |-> 0]
Tarea       == [estado : {"ninguna", "pendiente", "procesando", "finalizada",
                          "muerta"}, intentos : 0..MaxIntentos]
SinTarea    == [estado |-> "ninguna", intentos |-> 0]
Nueva       == [estado |-> "pendiente", intentos |-> 0]

VARIABLES
  ruta,       \* billing, sunat; ninguna: only sales without SUNAT
  remoto,     \* external: what Billing, or SUNAT, has of each operation
  tarea,      \* platformBillingOutbox, comprobante_plataforma_sunat_job
  conocido,   \* operations whose id at Billing, or ticket, is stored
  abierto,    \* operations the rows show as open: billingStatus, sunatBajaEstado
  sello,      \* billingUpdatedAt of the boleta and of the note
  nota,       \* the state of the note's row
  avisos,     \* webhooks that Billing has to deliver
  hilos,      \* what each thread is doing
  hora, fallos, reintentos

rowVars == <<conocido, abierto, sello, nota>>
ownVars == <<ruta, remoto, tarea, rowVars, avisos, hilos, hora, fallos,
             reintentos>>
allVars == <<vars, ownVars>>

Libre == [paso |-> "libre", op |-> "emision", quien |-> "cola",
          foto |-> SinRemoto]

PlatformTypeOK ==
  /\ TypeOK
  /\ ruta \in {"billing", "sunat", "ninguna"}
  /\ remoto \in [Operaciones -> Remoto]
  /\ tarea \in [Operaciones -> Tarea]
  /\ conocido \subseteq Operaciones /\ abierto \subseteq Operaciones
  /\ sello \in [{"boleta", "nota"} -> Horas]
  /\ nota \in {"pendiente", "aceptado", "rechazado", "error"}
  /\ avisos \subseteq [op : Operaciones, foto : Remoto]
  /\ hilos \in [Hilos ->
       [paso : {"libre", "enviar", "aplicar", "escribir", "finalizar",
                "registrar", "cerrar", "fallar", "rechazada"},
        op : Operaciones, quien : {"cola", "aviso", "conciliacion"},
        foto : Remoto]]
  /\ hora \in Horas /\ fallos \in 0..MaxFallos
  /\ reintentos \in 0..MaxReintentos

PipelineInit ==
  /\ Init
  /\ ruta \in {"billing", "sunat", "ninguna"}
  /\ remoto = [o \in Operaciones |-> SinRemoto]
  /\ tarea = [o \in Operaciones |-> SinTarea]
  /\ conocido = {} /\ abierto = {}
  /\ sello = [f \in {"boleta", "nota"} |-> 0]
  /\ nota = "pendiente"
  /\ avisos = {}
  /\ hilos = [h \in Hilos |-> Libre]
  /\ hora = 0 /\ fallos = 0 /\ reintentos = 0

Boletas == {c \in DOMAIN comprobantes : comprobantes[c].tipo = "boleta"}
Fila(o) == IF o = "nota" THEN "nota" ELSE "boleta"

\* The row of an operation gets a state: the note's own, or the boleta's.
SetEstado(o, estado) ==
  IF o = "nota" THEN nota' = estado /\ UNCHANGED vars
  ELSE /\ UNCHANGED nota
       /\ \E c \in Boletas :
            IF comprobantes[c].estado = estado THEN UNCHANGED vars
                                               ELSE Processed(c, estado)

Now  == IF ruta = "billing" THEN hora < MaxHora /\ hora' = hora + 1
                            ELSE UNCHANGED hora
Go(h, paso) == hilos' = [hilos EXCEPT ![h].paso = paso]
Stop(h)     == hilos' = [hilos EXCEPT ![h] = Libre]
At(h, paso) == hilos[h].paso = paso
Idle        == \A h \in Hilos : At(h, "libre")
Fault       == fallos < MaxFallos /\ fallos' = fallos + 1
Set(o, r)   == remoto' = [remoto EXCEPT ![o] = r]
Job(o, estado) == tarea' = [tarea EXCEPT ![o].estado = estado]

----------------------------------------
(* The administrator.                                                      *)

\* createReceipt, createCreditNote: a row with its job.
Queue(o) ==
  /\ IF o = "emision" THEN UNCHANGED hora ELSE Now
  /\ tarea' = [tarea EXCEPT ![o] = Nueva]
  /\ abierto' = abierto \cup {o}
  /\ sello' = [sello EXCEPT ![Fila(o)] = hora']
  /\ UNCHANGED <<remoto, conocido>>

\* requestCancellation.  Billing takes one void of a receipt, its job being
\* unique; directly, the void takes the job of the emission and starts anew.
QueueVoid ==
  /\ Now
  /\ sello' = [sello EXCEPT !["boleta"] = hora']
  /\ abierto' = abierto \cup {"baja"}
  /\ \/ /\ ruta = "billing" /\ tarea["baja"] = SinTarea
        /\ tarea' = [tarea EXCEPT !["baja"] = Nueva]
        /\ UNCHANGED <<remoto, conocido>>
     \/ /\ ruta = "sunat"
        /\ tarea' = [tarea EXCEPT !["emision"] = SinTarea, !["baja"] = Nueva]
        /\ conocido' = conocido \ {"baja"}
        /\ Set("baja", SinRemoto)

NoJob == UNCHANGED <<remoto, tarea, conocido, abierto, sello, hora>>

\* requireElectronicConfig: the platform sends its boletas through Billing, when
\* that is ready, directly, with a certificate of its own, or has none.
ElectronicConfig == ruta \in {"billing", "sunat"}

Operate ==
  /\ ElectronicConfig
  /\ UNCHANGED <<ruta, nota, avisos, hilos, fallos, reintentos>>
  /\ \/ \E tipo \in Tipos :
          /\ CreateSale(CHOOSE codigo \in Planes : TRUE, FALSE, tipo)
          /\ \/ tipo = "boleta" /\ Boletas = {} /\ Queue("emision")
             \/ tipo = "nota_venta" /\ ruta \in OtraVenta /\ NoJob
     \/ (\E i \in DOMAIN pagos : CancelSale(i)) /\ NoJob
     \/ (\E c \in DOMAIN comprobantes \ Boletas : RequestCancellation(c))
          /\ NoJob
     \/ (\E c \in Boletas : RequestCancellation(c)) /\ QueueVoid
     \/ (\E c \in Boletas : CreateCreditNote(c)) /\ Queue("nota")

\* retry: whatever the row shows, and whether or not its job is being run.
Retry(o) ==
  /\ reintentos < MaxReintentos /\ reintentos' = reintentos + 1
  /\ \E c \in Boletas :
       CASE o = "emision" -> ~comprobantes[c].baja
         [] o = "baja"    -> comprobantes[c].baja
         [] o = "nota"    -> comprobantes[c].nota
  /\ Now
  /\ SetEstado(o, IF o = "baja" THEN "anulacion_pendiente" ELSE "pendiente")
  /\ tarea' = [tarea EXCEPT ![o] = Nueva]
  /\ abierto' = abierto \cup {o}
  /\ sello' = [sello EXCEPT ![Fila(o)] = hora']
  /\ UNCHANGED <<ruta, remoto, conocido, avisos, hilos, fallos>>

----------------------------------------
(* Threads.  quien is the processor of jobs (cola), a webhook (aviso) or   *)
(* the reconciliation.                                                     *)

\* process, and processPending, which runs one job at a time.
Claim(h, o) ==
  /\ At(h, "libre")
  /\ ruta = "sunat" => Idle
  /\ tarea[o].estado = "pendiente"
  /\ tarea' = [tarea EXCEPT
       ![o] = [estado |-> "procesando",
               intentos |-> IF @.intentos < MaxIntentos THEN @.intentos + 1
                                                        ELSE MaxIntentos]]
  /\ hilos' = [hilos EXCEPT ![h] = [Libre EXCEPT !.paso = "enviar", !.op = o]]
  /\ UNCHANGED <<vars, ruta, remoto, rowVars, avisos, hora, fallos, reintentos>>

\* What a thread does when its work is over, or when it throws.
Done(h) ==
  /\ IF hilos[h].quien = "cola" THEN Go(h, "cerrar") ELSE Stop(h)
  /\ UNCHANGED avisos
Throws(h) ==
  /\ IF hilos[h].quien = "cola" THEN Go(h, "fallar") ELSE Stop(h)
  /\ avisos' = IF hilos[h].quien = "aviso"
                 THEN avisos \cup {[op |-> hilos[h].op, foto |-> hilos[h].foto]}
                 ELSE avisos

\* finalizeAcceptedCreditNote, finalizeAcceptedCancellation.  On the route of Billing the
\* caller is done; on that of SUNAT its answer is registered next.
ToRegister(h) == Go(h, "registrar") /\ UNCHANGED avisos
Finalized(h) == IF ruta = "billing" THEN Done(h) ELSE ToRegister(h)
Finalize(h) ==
  /\ At(h, "finalizar")
  /\ \E c \in Boletas :
       \/ /\ comprobantes[c].estado = "anulado"
          /\ UNCHANGED vars /\ Finalized(h)
       \/ /\ comprobantes[c].estado # "anulado"
          /\ FinalizeAccepted(c) /\ Finalized(h)
       \/ /\ comprobantes[c].estado # "anulado" /\ ~Reversible(c)
          /\ UNCHANGED vars /\ Throws(h)
  /\ UNCHANGED <<ruta, remoto, tarea, rowVars, hora, fallos, reintentos>>

\* A write fails.
StepFails(h) ==
  /\ hilos[h].paso \in {"escribir", "finalizar", "registrar", "cerrar"}
  /\ Fault
  /\ Throws(h)
  /\ UNCHANGED <<vars, ruta, remoto, tarea, rowVars, hora, reintentos>>

\* The process dies: what it was doing is gone, its claims remain.
Die ==
  /\ ~Idle
  /\ Fault
  /\ hilos' = [h \in Hilos |-> Libre]
  /\ UNCHANGED <<vars, ruta, remoto, tarea, rowVars, avisos, hora, reintentos>>

----------------------------------------
(* Through Billing.                                                        *)

\* External: Billing answers with what it has of the operation.  A request
\* it knows is not made twice; a failed one is started again when the
\* caller names it.
BillingTakes(o) ==
  IF remoto[o].estado = "ninguno"
       \/ (o \in conocido /\ remoto[o].estado = "fallido")
    THEN Now /\ Set(o, [estado |-> "abierto", at |-> hora'])
    ELSE UNCHANGED <<remoto, hora>>

\* External: SUNAT's answer comes to Billing, which tells the application.
BillingDecides(o, estado) ==
  /\ ruta = "billing"
  /\ remoto[o].estado = "abierto"
  /\ Now
  /\ Set(o, [estado |-> estado, at |-> hora'])
  /\ avisos' = avisos \cup {[op |-> o, foto |-> remoto'[o]]}
  /\ UNCHANGED <<vars, ruta, tarea, rowVars, hilos, fallos, reintentos>>

Stored(o) == IF o = "baja" THEN conocido \cup {o} ELSE conocido

\* processIssue, processVoid.
Send(h) ==
  LET o == hilos[h].op
  IN  /\ ruta = "billing" /\ At(h, "enviar")
      /\ BillingTakes(o)
      /\ conocido' = Stored(o)
      /\ hilos' = [hilos EXCEPT ![h].paso = "aplicar", ![h].foto = remoto'[o]]
      /\ UNCHANGED <<vars, ruta, tarea, abierto, sello, nota, avisos, fallos,
                     reintentos>>

\* The call fails before or after Billing took it, or Billing refuses it for good.
SendLost(h) ==
  LET o == hilos[h].op
  IN  /\ ruta = "billing" /\ At(h, "enviar")
      /\ Fault
      /\ \/ /\ UNCHANGED <<remoto, hora, conocido>>
            /\ Go(h, "fallar") \/ Go(h, "rechazada")
         \/ /\ BillingTakes(o) /\ conocido' \in {conocido, Stored(o)}
            /\ Go(h, "fallar")
      /\ UNCHANGED <<vars, ruta, tarea, abierto, sello, nota, avisos,
                     reintentos>>

Webhook(h, a) ==
  /\ At(h, "libre")
  /\ avisos' = avisos \ {a}
  /\ hilos' = [hilos EXCEPT ![h] = [paso |-> "aplicar", op |-> a.op,
                                    quien |-> "aviso", foto |-> a.foto]]
  /\ UNCHANGED <<vars, ruta, remoto, tarea, rowVars, hora, fallos, reintentos>>

\* reconcile: a row that is open at Billing; of a boleta its void, if any.
Reconcilable(o) ==
  CASE o = "nota"    -> o \in conocido \cap abierto
    [] o = "baja"    -> o \in conocido /\ abierto \cap {"baja", "emision"} # {}
    [] o = "emision" -> o \in conocido \cap abierto /\ "baja" \notin conocido
Reconcile(h, o) ==
  /\ ruta = "billing" /\ At(h, "libre")
  /\ Reconcilable(o)
  /\ hilos' = [hilos EXCEPT ![h] = [paso |-> "aplicar", op |-> o,
                             quien |-> "conciliacion", foto |-> remoto[o]]]
  /\ UNCHANGED <<vars, ruta, remoto, tarea, rowVars, avisos, hora, fallos,
                 reintentos>>

\* applyDocument and applyVoid read when the row was last updated, ...
Apply(h) ==
  /\ At(h, "aplicar")
  /\ IF sello[Fila(hilos[h].op)] > hilos[h].foto.at
       THEN Done(h)
       ELSE Go(h, "escribir") /\ UNCHANGED avisos
  /\ UNCHANGED <<vars, ruta, remoto, tarea, rowVars, hora, fallos, reintentos>>

LocalStatus(estado) == CASE estado = "abierto" -> "pendiente"
                         [] estado = "fallido" -> "error"
                         [] OTHER -> estado

\* ... and then write it, whatever was written meanwhile (a failure, in the
\* count of this model).  A void leaves the state of the receipt alone.
WriteIf(h, finalizes) ==
  LET o == hilos[h].op  foto == hilos[h].foto
  IN  /\ At(h, "escribir")
      /\ IF o = "baja" THEN UNCHANGED <<vars, nota>>
                       ELSE SetEstado(o, LocalStatus(foto.estado))
      /\ conocido' = conocido \cup {o}
      /\ abierto' = IF foto.estado = "abierto" THEN abierto \cup {o}
                                               ELSE abierto \ {o}
      /\ sello' = [sello EXCEPT ![Fila(o)] = foto.at]
      /\ IF finalizes THEN Go(h, "finalizar") /\ UNCHANGED avisos ELSE Done(h)
      /\ IF sello[Fila(o)] > foto.at THEN Fault ELSE UNCHANGED fallos
      /\ UNCHANGED <<ruta, remoto, tarea, hora, reintentos>>
WriteAnyVerdict(h) ==   \* mutant: a rejected void is an end, too
  WriteIf(h, hilos[h].op # "emision" /\ hilos[h].foto.estado # "abierto")
WriteNotes(h) ==        \* mutant: the void is left to the direct route
  WriteIf(h, hilos[h].op = "nota" /\ hilos[h].foto.estado = "aceptado")
Write(h) ==
  WriteIf(h, hilos[h].op # "emision" /\ hilos[h].foto.estado = "aceptado")

Close(h) ==
  /\ At(h, "cerrar")
  /\ Job(hilos[h].op, "finalizada")
  /\ Stop(h)
  /\ UNCHANGED <<vars, ruta, remoto, rowVars, avisos, hora, fallos, reintentos>>

\* fail: writes the state of the row, whichever operation failed, and marks
\* the emission as what is to be retried, unless Billing refused for good.
Fail(h) ==
  LET o    == hilos[h].op
      flag == IF o = "nota" THEN o ELSE "emision"
      dead == At(h, "rechazada") \/ tarea[o].intentos >= MaxIntentos
  IN  /\ ruta = "billing" /\ (At(h, "fallar") \/ At(h, "rechazada"))
      /\ Now
      /\ Job(o, IF dead THEN "muerta" ELSE "pendiente")
      /\ SetEstado(o, IF dead THEN "error" ELSE "pendiente")
      /\ abierto' = IF dead THEN abierto \ {flag} ELSE abierto \cup {flag}
      /\ sello' = [sello EXCEPT ![Fila(o)] = hora']
      /\ Stop(h)
      /\ UNCHANGED <<ruta, remoto, conocido, avisos, fallos, reintentos>>

----------------------------------------
(* Directly to SUNAT.                                                      *)

\* Where an answer leads: an accepted void or note reverses the sale first.
Answered(h, o, r) ==
  hilos' = [hilos EXCEPT
    ![h].foto = r,
    ![h].paso = IF o # "emision" /\ r.estado = "aceptado" THEN "finalizar"
                                                          ELSE "registrar"]

\* emit.  External: SUNAT decides at once; the same document again gets the
\* same answer or is refused as a duplicate.
SendBill(h, estado) ==
  LET o == hilos[h].op
  IN  /\ ruta = "sunat" /\ At(h, "enviar") /\ o # "baja"
      /\ Set(o, [estado |-> IF remoto[o] = SinRemoto THEN estado
                                                     ELSE remoto[o].estado,
                 at |-> 0])
      /\ \/ Answered(h, o, remoto'[o]) /\ UNCHANGED fallos
         \/ Go(h, "fallar") /\ (IF remoto[o] = SinRemoto THEN Fault
                                                         ELSE UNCHANGED fallos)
      /\ UNCHANGED <<vars, ruta, tarea, rowVars, avisos, hora, reintentos>>

\* processCancellation without a ticket: sendSummary, and the ticket stored.
SendSummary(h) ==
  /\ ruta = "sunat" /\ At(h, "enviar") /\ hilos[h].op = "baja"
  /\ "baja" \notin conocido
  /\ Set("baja", IF remoto["baja"] = SinRemoto
                   THEN [estado |-> "abierto", at |-> 0] ELSE remoto["baja"])
  /\ \/ /\ conocido' = conocido \cup {"baja"}
        /\ tarea' = [tarea EXCEPT !["baja"] = Nueva]
        /\ Stop(h) /\ UNCHANGED fallos
     \/ /\ Fault /\ Go(h, "fallar")
        /\ UNCHANGED <<conocido, tarea>>
  /\ UNCHANGED <<vars, ruta, abierto, sello, nota, avisos, hora, reintentos>>

SunatDecides(estado) ==
  /\ ruta = "sunat" /\ remoto["baja"].estado = "abierto"
  /\ Set("baja", [estado |-> estado, at |-> 0])
  /\ UNCHANGED <<vars, ruta, tarea, rowVars, avisos, hilos, hora, fallos,
                 reintentos>>

\* processCancellation with a ticket: no CDR yet, an answer, or a failure.
GetStatus(h) ==
  /\ ruta = "sunat" /\ At(h, "enviar") /\ hilos[h].op = "baja"
  /\ "baja" \in conocido
  /\ \/ /\ remoto["baja"].estado = "abierto"
        /\ Job("baja", "pendiente") /\ Stop(h) /\ UNCHANGED fallos
     \/ /\ remoto["baja"].estado \in Verdicts
        /\ Answered(h, "baja", remoto["baja"]) /\ UNCHANGED <<tarea, fallos>>
     \/ Fault /\ Go(h, "fallar") /\ UNCHANGED tarea
  /\ UNCHANGED <<vars, ruta, remoto, rowVars, avisos, hora, reintentos>>


\* The row and its job, written together.
Register(h) ==
  LET o == hilos[h].op  v == hilos[h].foto.estado
  IN  /\ At(h, "registrar")
      /\ CASE o # "baja" -> SetEstado(o, v)
           [] o = "baja" /\ v = "aceptado" -> UNCHANGED <<vars, nota>>  \* anulado
           [] OTHER -> SetEstado(o, "aceptado")
      /\ abierto' = abierto \ {o}
      /\ Job(o, "finalizada")
      /\ Stop(h)
      /\ UNCHANGED <<ruta, remoto, conocido, sello, avisos, hora, fallos,
                     reintentos>>

\* The catch of emit and of processCancellation.
RegisterFailure(h) ==
  LET o     == hilos[h].op
      retry == tarea[o].intentos < MaxIntentos
  IN  /\ ruta = "sunat" /\ At(h, "fallar")
      /\ SetEstado(o, CASE o # "baja" -> "error"
                        [] o = "baja" /\ retry -> "anulacion_pendiente"
                        [] OTHER -> "aceptado")
      /\ Job(o, IF retry THEN "pendiente" ELSE "muerta")
      /\ Stop(h)
      /\ UNCHANGED <<ruta, remoto, conocido, abierto, sello, avisos, hora,
                     fallos, reintentos>>

----------------------------------------
Billing ==
  \/ \E o \in Operaciones, estado \in Verdicts \cup {"fallido"} :
       BillingDecides(o, estado)
  \/ \E h \in Hilos :
       \/ Send(h) \/ SendLost(h) \/ Apply(h) \/ Write(h) \/ Close(h) \/ Fail(h)
       \/ ruta = "billing" /\ Finalize(h)
       \/ \E a \in avisos : Webhook(h, a)
       \/ \E o \in Operaciones : Reconcile(h, o)

Sunat ==
  \/ \E estado \in Verdicts : SunatDecides(estado)
  \/ \E h \in Hilos :
       \/ \E estado \in Verdicts : SendBill(h, estado)
       \/ SendSummary(h) \/ GetStatus(h) \/ Register(h) \/ RegisterFailure(h)
       \/ ruta = "sunat" /\ Finalize(h)

PipelineNext ==
  \/ Operate \/ Billing \/ Sunat \/ Die
  \/ \E o \in Operaciones : Retry(o)
  \/ \E h \in Hilos : StepFails(h) \/ \E o \in Operaciones : Claim(h, o)
  \/ /\ ~ElectronicConfig
     /\ Commerce
     /\ \A c \in DOMAIN comprobantes' : comprobantes'[c].tipo = "nota_venta"
     /\ UNCHANGED ownVars
PipelineSpec == PipelineInit /\ [][PipelineNext]_allVars

----------------------------------------
Accepted(o) == remoto[o].estado = "aceptado"

(* A boleta is annulled, and its sale reversed, only when SUNAT accepted   *)
(* its void or its credit note: no lost answer, retry or stale webhook     *)
(* gives the sale back on its own.                                         *)
AnnulledWasAccepted ==
  \A c \in Boletas :
    comprobantes[c].estado = "anulado" => Accepted("baja") \/ Accepted("nota")

\* Nothing is left to do.
AtRest ==
  /\ Idle /\ avisos = {}
  /\ \A o \in Operaciones :
       /\ tarea[o].estado \notin {"pendiente", "procesando"}
       /\ ruta = "billing" => ~Reconcilable(o)

(* What SUNAT decided arrives: when nothing is left to do and nothing      *)
(* failed, an accepted boleta is not shown as pending, and one whose void  *)
(* or note was accepted is annulled.  Two exceptions.  A boleta that a     *)
(* later sale of a plan came after: its reversal is refused, and nothing   *)
(* tries again, not even when the later sale is annulled.  And one with a  *)
(* note, which may be reopened: the note does not stamp the row it annuls, *)
(* so that a late webhook of the emission is applied to it; and, directly, *)
(* a void that is rejected makes it aceptado.                              *)
VerdictsArrive ==
  AtRest /\ fallos = 0 /\ reintentos = 0 =>
    \A c \in Boletas :
      /\ Accepted("emision") => comprobantes[c].estado # "pendiente"
      /\ Accepted("baja") \/ Accepted("nota") =>
           \/ comprobantes[c].estado = "anulado"
           \/ comprobantes[c].nota /\ comprobantes[c].reabierto
           \/ comprobantes[c].pago < Len(pagos)
=============================================================================
