----------------------------- MODULE BillingGuide -----------------------------
(***************************************************************************)
(* A despatch guide (GRE) through Billing: GuiaRemisionService and         *)
(* BillingDespatchGuideService.  It is written as a draft, emitted, posted *)
(* and submitted, refreshed by webhooks and polls, annulled before SUNAT   *)
(* accepts it and voided by hand in SUNAT's portal afterwards.  Answers    *)
(* are written whatever the guide says by then.                            *)
(***************************************************************************)
EXTENDS BillingDebitNote

CONSTANTS
  MaxEmisiones, \* bound: emissions of the guide, and what breaks with them
  MaxTextos     \* bound: how often it is edited

ASSUME GuideAssumption == {MaxEmisiones, MaxTextos} \subseteq Nat

VARIABLES
  emisiones,    \* emissions asked for
  viejas        \* history: handlers that wrote by what was no longer so

guideVars == <<emisiones, viejas>>
vars == <<clase, rows, hilo, outside, debitVars, guideVars>>

\* The estado of the guide for a status of Billing.
mapEstado(status) ==
  IF status \in Accepted THEN "aceptada" ELSE IF status = "REJECTED" THEN "rechazada" ELSE "emitida"

\* What was read of the guide is remembered as far as some property asks for it.
Reads(t, task, step, estados) ==
  /\ Starts(t, task, step, Nada,
            [Nuevo EXCEPT !.estado = IF papel.estado \in estados THEN papel.estado ELSE @])
  /\ UNCHANGED <<clase, rows, outside, debitVars, guideVars>>
\* The writer ends; old: the guide is not what it read.
Writes(t, old) ==
  /\ Return(t)
  /\ viejas' = IF old THEN viejas \cup {hilo[t].task} ELSE viejas
  /\ UNCHANGED <<clase, debitVars>>

----------------------------------------
(* The draft.                                                              *)

Create ==
  /\ papel.estado = "ausente"
  /\ papel' = [papel EXCEPT !.estado = "borrador"]
  /\ UNCHANGED <<clase, cola, hilo, outside, debitVars, guideVars>>

UpdateReadAny(t) ==
  /\ papel.texto < MaxTextos
  /\ papel.estado # "ausente"
  /\ Reads(t, "edita", "editing", {"borrador"})

UpdateRead(t) ==
  /\ papel.texto < MaxTextos
  /\ papel.estado = "borrador"
  /\ Reads(t, "edita", "editing", {"borrador"})

UpdateWrite(t) ==
  /\ At(t, "editing")
  /\ papel' = [papel EXCEPT !.texto = @ + 1]
  /\ Writes(t, hilo[t].visto.estado = "borrador" /\ papel.estado # "borrador")
  /\ UNCHANGED <<cola, outside, emisiones>>

----------------------------------------
(* emitir, whatever became of the emission before, and annul.              *)

Emit(t) ==
  /\ papel.estado # "ausente" /\ emisiones + fallas < MaxEmisiones
  /\ papel.estado # "anulada"
  /\ papel.status # "ACCEPTED"
  /\ Reads(t, "emite", "emitting", {"anulada"})

\* enqueue: the row is made, or is put back in the queue even if it is being worked.
Enqueue(t) ==
  /\ At(t, "emitting") /\ emisiones + fallas < MaxEmisiones /\ Stamp
  /\ cola' = [cola EXCEPT !.status = "PENDING"]
  /\ papel' = [papel EXCEPT !.estado = "emitida", !.status = "QUEUED", !.at = Now]
  /\ emisiones' = emisiones + 1
  /\ Writes(t, hilo[t].visto.estado # "anulada" /\ papel.estado = "anulada")
  /\ UNCHANGED <<billing, avisos, fallas>>

Annul(t) ==
  /\ papel.estado \notin {"ausente", "anulada"} /\ papel.status # "ACCEPTED"
  /\ Reads(t, "anula", "annulling", {})

AnnulWrite(t) ==
  /\ At(t, "annulling")
  /\ papel' = [papel EXCEPT !.estado = "anulada"]
  /\ Writes(t, FALSE)
  /\ UNCHANGED <<cola, outside, emisiones>>

----------------------------------------
(* process: post what the guide says, or get the document it has; submit.  *)

\* External: POST /despatch-guides creates the document once for the guide's key.  Only the
\* verdict is stamped: it is compared with what was written before it, and comes last.
Registers(texto) ==
  billing' = IF billing # Nada THEN billing
             ELSE [Nada EXCEPT !.status = "REGISTERED", !.texto = texto]

\* The row was read with its guide when it was claimed.  Only what Billing says may come
\* back is tried again: any other error is the end.
PostGuide(t) ==
  /\ At(t, "claimed") /\ ~hilo[t].visto.doc
  /\ Registers(hilo[t].visto.texto)
  /\ Answers(t, "registering", billing') \/ FailWith(t, OutOfAttempts(t))
  /\ UNCHANGED <<clase, rows, avisos, reloj, fallas, debitVars, guideVars>>

GetGuide(t) ==
  /\ At(t, "claimed") /\ hilo[t].visto.doc
  /\ Stored(t, "submitting")
  /\ UNCHANGED <<clase, rows, outside, debitVars, guideVars>>

\* External: a registered document goes to SUNAT; of any other the state is answered.
Submit(t) ==
  /\ At(t, "submitting")
  /\ billing' = IF billing.status = "REGISTERED"
                  THEN [billing EXCEPT !.status = "PROCESSING"] ELSE billing
  /\ Answers(t, "writing", billing') \/ FailWith(t, OutOfAttempts(t))
  /\ UNCHANGED <<clase, rows, avisos, reloj, fallas, debitVars, guideVars>>

CallFailed(t) ==
  /\ hilo[t].step \in {"claimed", "submitting"}
  /\ \E retryable \in BOOLEAN : FailWith(t, ~retryable \/ OutOfAttempts(t))
  /\ UNCHANGED <<clase, rows, outside, debitVars, guideVars>>

\* applyGuide: no look at what the guide is, nor at the age of the answer.
ApplyGuide(t, step) ==
  /\ At(t, step)
  /\ papel' = [papel EXCEPT !.doc = TRUE, !.status = hilo[t].doc.status, !.at = hilo[t].doc.at,
                            !.estado = mapEstado(hilo[t].doc.status)]
  /\ UNCHANGED <<clase, cola, outside, debitVars, guideVars>>

WriteRegistered(t) == ApplyGuide(t, "registering") /\ Stored(t, "submitting")
WriteGuide(t) == ApplyGuide(t, "writing") /\ Applied(t)

----------------------------------------
(* The poll and the operator's refresh; the webhook of the document.       *)

PollSubmitted == {"REGISTERED"}
PollStates == {"REGISTERED", "PROCESSING"}
ReconcileGuide(t) ==
  /\ papel.doc /\ papel.status \in PollStates
  /\ Starts(t, "get", "writing", billing, Nuevo)
  /\ UNCHANGED <<clase, rows, outside, debitVars, guideVars>>

Refresh(t) ==
  /\ papel.doc
  /\ Starts(t, "get", "writing", billing, Nuevo)
  /\ UNCHANGED <<clase, rows, outside, debitVars, guideVars>>

\* An event older than the last answer is left; the guide is read before it is written.
ApplyWebhook(t) ==
  /\ At(t, "applying") /\ hilo[t].task = "webhook"
  /\ IF hilo[t].doc.at < papel.at THEN Return(t) ELSE Goto(t, "writing")
  /\ UNCHANGED <<clase, rows, outside, debitVars, guideVars>>

----------------------------------------
(* The void of an accepted guide, by hand in SUNAT's portal.               *)

Void(t) ==
  /\ papel.status \in Accepted
  /\ Reads(t, "baja", "asking", {})

\* External: the request is made once; whoever works at Billing may close it too.
VoidAsked(t) ==
  /\ At(t, "asking")
  /\ billing' = [billing EXCEPT !.baja = IF @ = "NONE" THEN "PENDING" ELSE @]
  /\ avisos' = avisos \cup {billing'}
  /\ Answers(t, "asked", billing')
  /\ UNCHANGED <<clase, rows, reloj, fallas, debitVars, guideVars>>

VoidWrite(t) ==
  /\ At(t, "asked")
  /\ papel' = [papel EXCEPT !.baja = hilo[t].doc.baja]
  /\ Writes(t, FALSE)
  /\ UNCHANGED <<cola, outside, emisiones>>

ConfirmVoid(t) ==
  /\ papel.baja # "NONE"
  /\ Reads(t, "confirma", "confirming", {})

ConfirmAsked(t) ==
  /\ At(t, "confirming")
  /\ billing' = [billing EXCEPT !.baja = "ACCEPTED"]
  /\ avisos' = avisos \cup {billing'}
  /\ Answers(t, "confirmed", billing')
  /\ UNCHANGED <<clase, rows, reloj, fallas, debitVars, guideVars>>

ConfirmWrite(t) ==
  /\ At(t, "confirmed")
  /\ papel' = [papel EXCEPT !.estado = "anulada", !.baja = hilo[t].doc.baja]
  /\ Writes(t, FALSE)
  /\ UNCHANGED <<cola, outside, emisiones>>

\* applyVoidWebhook: a request that is not accepted writes the estado that was read.
VoidWebhookRead(t) ==
  /\ At(t, "applying") /\ hilo[t].task = "voidWebhook"
  /\ hilo' = [hilo EXCEPT ![t].step = "voiding", ![t].visto = [Nuevo EXCEPT !.estado = papel.estado]]
  /\ UNCHANGED <<clase, rows, outside, debitVars, guideVars>>

VoidWebhookWrite(t) ==
  /\ At(t, "voiding")
  /\ papel' = [papel EXCEPT !.baja = hilo[t].doc.baja,
       !.estado = IF hilo[t].doc.baja = "ACCEPTED" THEN "anulada" ELSE hilo[t].visto.estado]
  /\ Writes(t, FALSE)
  /\ UNCHANGED <<cola, outside, emisiones>>

----------------------------------------

Falla ==
  fallas < MaxFallas /\ emisiones + fallas < MaxEmisiones /\ fallas' = fallas + 1

\* A database error, wherever the guide or its row is written: no attempt is left.
GuideError(t) ==
  /\ hilo[t].step \in {"registering", "writing", "applying", "applied", "voiding"}
  /\ Falla
  /\ CASE hilo[t].task = "process"                     -> FailWith(t, TRUE)
       [] hilo[t].task \in {"webhook", "voidWebhook"}  -> Goto(t, "releasing")
       [] OTHER                                        -> Return(t)
  /\ UNCHANGED <<clase, rows, billing, avisos, reloj, debitVars, guideVars>>

\* The process dies: what it was doing is forgotten, and a claimed row stays PROCESSING.
Crash ==
  /\ Falla
  /\ hilo' = [t \in Hilos |-> Idle] /\ candado' = NoHilo
  /\ UNCHANGED <<clase, rows, billing, avisos, reloj, cuenta, guideVars>>

\* A note is stored QUEUED with its row; a guide is written here, or is one that SUNAT
\* accepted and is to be voided.
Aceptada == [Nada EXCEPT !.status = "ACCEPTED_WITH_OBSERVATIONS"]
Init ==
  /\ clase \in Clases
  /\ papel = [doc |-> clase = "baja", at |-> 0, texto |-> 0, baja |-> "NONE",
              status |-> CASE clase = "debito" -> "QUEUED" [] clase = "guia" -> "NONE"
                           [] OTHER -> Aceptada.status,
              estado |-> IF clase = "baja" THEN "aceptada" ELSE "ausente"]
  /\ cola = [status |-> CASE clase = "debito" -> "PENDING" [] clase = "guia" -> "ABSENT"
                          [] OTHER -> "DONE", attempts |-> 0]
  /\ OutboxInit(IF clase = "baja" THEN Aceptada ELSE Nada)
  /\ DebitInit
  /\ emisiones = 0 /\ viejas = {}

GuideStep(t) ==
  \/ UpdateWrite(t) \/ Enqueue(t) \/ AnnulWrite(t)
  \/ PostGuide(t) \/ GetGuide(t) \/ Submit(t) \/ CallFailed(t)
  \/ WriteRegistered(t) \/ WriteGuide(t) \/ ApplyWebhook(t)
  \/ VoidAsked(t) \/ VoidWrite(t) \/ ConfirmAsked(t) \/ ConfirmWrite(t)
  \/ VoidWebhookRead(t) \/ VoidWebhookWrite(t)

GuideNext(t) ==
  \/ GuideStep(t) \/ GuideError(t)
  \/ Annul(t) \/ Refresh(t)
  \/ clase = "guia" /\ (UpdateRead(t) \/ Emit(t) \/ ReconcileGuide(t))
  \/ clase = "baja" /\ (Void(t) \/ ConfirmVoid(t))

Queue(t) == Claim(t) \/ MarkDone(t) \/ HandleFailure(t) \/ WebhookRelease(t)

Next ==
  \/ \E t \in Hilos :
       \/ Queue(t) /\ UNCHANGED <<debitVars, guideVars>>
       \/ (\E e \in avisos : WebhookBegin(t, e)) /\ UNCHANGED <<debitVars, guideVars>>
       \/ clase = "debito" /\ DebitNext(t) /\ UNCHANGED guideVars
       \/ clase # "debito" /\ GuideNext(t)
  \/ clase = "guia" /\ Create
  \/ (\E status \in {"ACCEPTED", "REJECTED"} : BillingAdvances(status))
       /\ UNCHANGED <<debitVars, guideVars>>
  \/ Crash

Spec == Init /\ [][Next]_vars

\* What works a guide goes on; the crons take a row that is due, and poll, again and again.
Works(t) ==
  /\ clase = "guia"
  /\ \/ (MarkDone(t) \/ HandleFailure(t) \/ WebhookRelease(t)) /\ UNCHANGED <<debitVars, guideVars>>
     \/ GuideStep(t)
Fairness ==
  /\ \A t \in Hilos : WF_vars(Works(t))
  /\ SF_vars(\E t \in Hilos : clase = "guia" /\ Claim(t) /\ UNCHANGED <<debitVars, guideVars>>)
  /\ SF_vars(\E t \in Hilos : clase = "guia" /\ ReconcileGuide(t))
FairSpec == Spec /\ Fairness

----------------------------------------

\* What Billing and SUNAT were sent is what the guide says, unless it was edited by a request
\* that read it as a draft before it was emitted.
IssuedAsWritten ==
  clase = "guia" /\ billing # Nada => billing.texto = papel.texto \/ "edita" \in viejas

\* The verdict on a guide gets to it, unless a failure was written over the answers (and only
\* emitting it again helps), or something broke.
GuideCatchesUp ==
  clase = "guia" /\ billing.status \in Verdicts
    ~> \/ papel.status \in {billing.status, "FAILED"}
       \/ emisiones > 1 /\ papel.status \notin PollStates /\ cola.status = "DONE"
       \/ fallas > 0
=============================================================================
