----------------------------- MODULE BillingOutbox -----------------------------
(***************************************************************************)
(* What the debit notes and the despatch guides share on their way through *)
(* Billing: the outbox row of a paper, the executions that work it, the    *)
(* webhooks, and the external document.  One paper is seen: a debit note,  *)
(* a guide, or a guide to be voided.  (src/src/modules:                    *)
(* billing-integration, guia-remision, debit-notes.)                       *)
(*                                                                         *)
(* sunatEstado is not a variable: every write sets it to a function of the *)
(* billingStatus written with it.  Billing and SUNAT are external.         *)
(***************************************************************************)
EXTENDS Naturals

CONSTANTS
  Hilos,        \* concurrent executions inside the backend process
  Clases,       \* the kinds of paper of this instance
  MaxIntentos,  \* max_attempts of the outbox row
  MaxReloj,     \* bound: the last stamp the clock hands out, again and again
  MaxFallas,    \* bound: database errors and crashes
  NoHilo        \* null value

ASSUME OutboxAssumption ==
  /\ Clases \subseteq {"debito", "guia", "baja"}
  /\ MaxIntentos \in Nat \ {0} /\ {MaxReloj, MaxFallas} \subseteq Nat
  /\ NoHilo \notin Hilos

Accepted  == {"ACCEPTED", "ACCEPTED_WITH_OBSERVATIONS"}
Verdicts  == Accepted \cup {"REJECTED"}
Polled    == {"QUEUED", "PROCESSING", "REGISTERED", "RETRY_SCHEDULED"}

VARIABLES
  clase,    \* the kind of the paper, chosen once
  papel,    \* its row: document known, billingStatus, billingUpdatedAt; of a guide its
            \*   estado, what it says and the status of its void
  cola,     \* its outbox row: status and attempts
  hilo,     \* what each execution is doing and the values it read
  billing,  \* external: the document, what it says and the status of its void
  avisos,   \* external: webhook events that are not recorded as received
  reloj,    \* the last stamp handed out, here or at Billing
  fallas    \* crashes and database errors so far

rows == <<papel, cola>>
outside == <<billing, avisos, reloj, fallas>>

Estados == {"NONE", "FAILED"} \cup {"RECEIVED", "VALIDATING"} \cup Polled \cup Verdicts
Bajas   == {"NONE", "PENDING", "ACCEPTED"}
PapelRows ==
  [doc : BOOLEAN, status : Estados, at : Nat, texto : Nat, baja : Bajas,
   estado : {"ausente", "borrador", "emitida", "aceptada", "rechazada", "anulada"}]
OutboxRows ==
  [status : {"ABSENT", "PENDING", "PROCESSING", "RETRY", "DONE", "DEAD"}, attempts : 0..MaxIntentos]
Documentos == [status : Estados, at : Nat, texto : Nat, baja : Bajas]      \* of Billing
Eventos    == Documentos
OutboxTypeOK ==
  /\ papel \in PapelRows /\ cola \in OutboxRows
  /\ billing \in Documentos /\ avisos \subseteq Eventos
  /\ reloj \in Nat /\ fallas \in Nat

Nada == [status |-> "NONE", at |-> 0, texto |-> 0, baja |-> "NONE"]
Nuevo == [doc |-> FALSE, status |-> "NONE", at |-> 0, estado |-> "ausente", texto |-> 0,
          baja |-> "NONE"]
\* visto is what was read of the paper, as far as it is used.
Idle == [task |-> "none", step |-> "idle", doc |-> Nada, visto |-> Nuevo, n |-> 0, dead |-> FALSE]
Tarea(task, step, doc, visto) ==
  [Idle EXCEPT !.task = task, !.step = step, !.doc = doc, !.visto = visto]

At(t, step) == hilo[t].step = step
Starts(t, task, step, doc, visto) ==
  hilo[t] = Idle /\ hilo' = [hilo EXCEPT ![t] = Tarea(task, step, doc, visto)]
Goto(t, step) == hilo' = [hilo EXCEPT ![t].step = step]
Answers(t, step, doc) == hilo' = [hilo EXCEPT ![t].step = step, ![t].doc = doc, ![t].visto = Nuevo]
\* The answer was stored; a webhook keeps its event until it is done.
Stored(t, step) ==
  hilo' = [hilo EXCEPT ![t].step = step, ![t].visto = Nuevo,
                       ![t].doc = IF hilo[t].task = "webhook" THEN @ ELSE Nada]
Return(t) == hilo' = [hilo EXCEPT ![t] = Idle]
FailWith(t, dead) == hilo' = [hilo EXCEPT ![t] = [Idle EXCEPT !.task = "process", !.step = "failing", !.dead = dead]]
OutOfAttempts(t) == hilo[t].n >= MaxIntentos
Now == IF reloj < MaxReloj THEN reloj + 1 ELSE reloj
Stamp == reloj' = Now
\* Attempts count up to the largest number they are compared with.
OneMore == IF cola.attempts < MaxIntentos THEN cola.attempts + 1 ELSE cola.attempts

----------------------------------------

\* Whoever finds the row due takes it: the one that turns it to PROCESSING works.
Claim(t) ==
  /\ hilo[t] = Idle
  /\ cola.status \in {"PENDING", "RETRY"}
  /\ cola' = [status |-> "PROCESSING", attempts |-> OneMore]
  /\ hilo' = [hilo EXCEPT ![t] =
       [Tarea("process", "claimed", Nada, [Nuevo EXCEPT !.doc = papel.doc, !.texto = papel.texto])
          EXCEPT !.n = OneMore]]
  /\ UNCHANGED <<clase, papel, outside>>

MarkDone(t) ==
  /\ At(t, "applied")
  /\ cola' = [cola EXCEPT !.status = "DONE"]
  /\ Return(t)
  /\ UNCHANGED <<clase, papel, outside>>

\* The catch block writes both rows in a transaction, whatever they say by now.
HandleFailure(t) ==
  /\ At(t, "failing") /\ Stamp
  /\ cola' = [cola EXCEPT !.status = IF hilo[t].dead THEN "DEAD" ELSE "RETRY"]
  /\ papel' = [papel EXCEPT !.status = IF hilo[t].dead THEN "FAILED" ELSE "RETRY_SCHEDULED",
                            !.at = Now]
  /\ Return(t)
  /\ UNCHANGED <<clase, billing, avisos, fallas>>

----------------------------------------
(* Webhooks: recorded, applied, and no longer recorded if that failed.     *)

WebhookBegin(t, e) ==
  /\ e \in avisos
  /\ Starts(t, IF e.baja = "NONE" THEN "webhook" ELSE "voidWebhook", "applying", e, Nuevo)
  /\ avisos' = avisos \ {e}
  /\ UNCHANGED <<clase, rows, billing, reloj, fallas>>

WebhookRelease(t) ==
  /\ At(t, "releasing")
  /\ avisos' = avisos \cup {hilo[t].doc}
  /\ Return(t)
  /\ UNCHANGED <<clase, rows, billing, reloj, fallas>>

----------------------------------------
(* External: the document moves on, and the event is emitted.              *)

BillingAdvances(status) ==
  /\ billing.status \in Polled \cup {"RECEIVED"} /\ billing.status # "REGISTERED"
  /\ status # billing.status
  /\ Stamp
  /\ billing' = [billing EXCEPT !.status = status, !.at = Now]
  /\ avisos' = avisos \cup {billing'}
  /\ UNCHANGED <<clase, rows, hilo, fallas>>

OutboxInit(doc) ==
  /\ hilo = [t \in Hilos |-> Idle]
  /\ billing = doc /\ avisos = {} /\ reloj = 0 /\ fallas = 0
=============================================================================
