----------------------------- MODULE BillingVoid -----------------------------
(***************************************************************************)
(* The void (baja) of one accepted sale on credit: the request, its VOID   *)
(* row in the emission outbox, the copying of Billing's answers, and the   *)
(* annulment of the sale or the release of its account that follow.        *)
(*                                                                         *)
(* Billing's procedure has two calls, void and submit.  PROCESSING is      *)
(* stored as SUBMITTED is and left out.  Billing and SUNAT are external.   *)
(***************************************************************************)
EXTENDS Naturals

CONSTANTS
  Threads,      \* concurrent executions inside the backend process
  Answers,      \* the final statuses Billing gives in this instance
  FaultKinds,   \* the faults of this instance
  MaxAttempts,  \* billing_outbox.max_attempts
  AttemptCap,   \* bound: claims of the row since it was queued
  MaxClock,     \* bound: stamps handed out by the clock
  MaxFaults     \* bound: faults

ASSUME VoidAssumption ==
  /\ Answers \subseteq {"ACCEPTED", "REJECTED", "FAILED"}
  /\ FaultKinds \subseteq {"lost", "refused", "store", "crash"}
  /\ MaxAttempts \in Nat \ {0}
  /\ AttemptCap \in Nat
  /\ MaxAttempts <= AttemptCap
  /\ MaxClock \in Nat
  /\ MaxFaults \in Nat

VoidStatuses == {"NONE", "PENDING", "SUBMITTED", "ACCEPTED", "REJECTED", "FAILED"}
Bajas == {"none", "pendiente_envio", "pendiente_cdr", "aceptado", "rechazado",
          "error_transitorio", "error_definitivo"}

voidState(status) ==
  CASE status = "PENDING"   -> "pendiente_envio"
    [] status = "SUBMITTED" -> "pendiente_cdr"
    [] status = "ACCEPTED"  -> "aceptado"
    [] status = "REJECTED"  -> "rechazado"
    [] OTHER                -> "error_definitivo"

BlockingBajas    == {"pendiente_envio", "pendiente_cdr", "aceptado"}
ReconciledBajas  == {"pendiente_envio", "pendiente_cdr", "error_transitorio"}
RetryableBajas   == {"error_definitivo", "rechazado"}

\* A final answer of Billing is not submitted again.
IsSettled(status) == status \in {"ACCEPTED", "REJECTED"}

Stamps     == 0..MaxClock
Requests   == [status : VoidStatuses, at : Stamps]
Accounts   == {"viva", "anulacion_pendiente", "anulada"}
JobStates  == {"ABSENT", "PENDING", "PROCESSING", "RETRY", "DONE", "DEAD"}
Tasks      == {"none", "request", "process", "webhook", "reconcile", "consult",
               "retry"}
Steps      == {"idle", "requesting", "claimed", "submitting", "applying",
               "writing", "finalizing", "annulling", "restoring", "releasing",
               "applied", "failing", "unrecording", "requeue"}

NoRequest  == [status |-> "NONE", at |-> 0]
VentaRows  == [anulada : BOOLEAN, baja : Bajas, req : BOOLEAN, at : Stamps]
OutboxRows == [status : JobStates, attempts : 0..AttemptCap]

VARIABLES
  venta,     \* the sale: annulled, sunatBajaEstado, void request known,
             \*   billingVoidUpdatedAt
  cuenta,    \* the state of its account receivable
  outbox,    \* the VOID row
  thread,    \* what each thread is doing and the values it read
  billing,   \* external: the void request Billing holds for the key
  events,    \* external: webhook events that are not recorded as received
  returned,  \* how many times the goods of the sale were put back in stock
  clock,     \* the last stamp handed out, here or at Billing
  faults,    \* faults so far
  overtaken, \* history: threads whose reads another thread's write made old
  repeats,   \* history: annulments committed by overtaken threads
  late       \* history: the other writes that overtaken threads made

vars == <<venta, cuenta, outbox, thread, billing, events, returned, clock,
          faults, overtaken, repeats, late>>
history == <<overtaken, repeats, late>>

ThreadStates ==
  [task : Tasks, step : Steps, after : {"return", "submitting", "applied"},
   doc : Requests, attempts : 0..AttemptCap, dead : BOOLEAN]

Task(task, step, doc) ==
  [task |-> task, step |-> step, after |-> "return", doc |-> doc,
   attempts |-> 0, dead |-> FALSE]

Idle == Task("none", "idle", NoRequest)

At(t, task, step) == thread[t].task = task /\ thread[t].step = step
Goto(t, step)     == thread' = [thread EXCEPT ![t].step = step]
Return(t)         == thread' = [thread EXCEPT ![t] = Idle]
FailWith(t, dead) ==
  thread' = [thread EXCEPT ![t] = [@ EXCEPT !.step = "failing", !.dead = dead]]
OutOfAttempts(t)  == thread[t].attempts >= MaxAttempts

\* apply() returns to its caller, which in process() goes on.
Applied(t) ==
  IF thread[t].after = "return" THEN Return(t) ELSE Goto(t, thread[t].after)

Apply(t, doc, after) ==
  thread' = [thread EXCEPT ![t] = [@ EXCEPT !.step = "applying", !.doc = doc,
                                           !.after = after]]

\* Steps that are to write the sale, by what the thread read of it before, and
\* those that are to write what an annulment writes.
SaleWriters  == {"requesting", "requeue", "writing"}
AnnulWriters == SaleWriters \cup {"annulling", "releasing"}

\* History: t writes, and other threads that are to write read before it; t
\* itself may have been overtaken, and then its write is one of that kind.
Overtakes(t, steps) ==
  overtaken' = {u \in Threads \ {t} : u \in overtaken \/ thread[u].step \in steps}
WritesLate(t, write) ==
  late' = IF t \in overtaken THEN late \cup {write} ELSE late

\* One more fault of an enabled kind.
Fault(kind) ==
  /\ kind \in FaultKinds
  /\ faults < MaxFaults
  /\ faults' = faults + 1

\* A completed sale on credit whose document Billing accepted.
Init ==
  /\ venta    = [anulada |-> FALSE, baja |-> "none", req |-> FALSE, at |-> 0]
  /\ cuenta   = "viva"
  /\ outbox   = [status |-> "ABSENT", attempts |-> 0]
  /\ thread   = [t \in Threads |-> Idle]
  /\ billing  = NoRequest
  /\ events   = {}
  /\ returned = 0
  /\ clock    = 0
  /\ faults   = 0
  /\ overtaken = {}
  /\ repeats   = 0
  /\ late      = {}

----------------------------------------
(* request: the guards are read before the transaction.                    *)

Request(t) ==
  /\ thread[t] = Idle
  /\ ~venta.anulada
  /\ ~venta.req
  /\ venta.baja \notin BlockingBajas
  /\ thread' = [thread EXCEPT ![t] = Task("request", "requesting", NoRequest)]
  /\ UNCHANGED <<venta, cuenta, outbox, billing, events, returned, clock,
                 faults, history>>

Queue(now, known) ==
  /\ venta'  = [venta EXCEPT !.baja = "pendiente_envio", !.req = known,
                             !.at = now]
  /\ cuenta' = "anulacion_pendiente"
  /\ outbox' = [status |-> "PENDING", attempts |-> 0]

RequestCommit(t) ==
  /\ At(t, "request", "requesting")
  /\ clock < MaxClock
  /\ clock' = clock + 1
  /\ Queue(clock + 1, FALSE)
  /\ Return(t)
  /\ Overtakes(t, SaleWriters)
  /\ WritesLate(t, "queue")
  /\ UNCHANGED <<billing, events, returned, faults, repeats>>

----------------------------------------
(* processOutboxJob, from the cron or a print request.                     *)

Claim(t) ==
  /\ thread[t] = Idle
  /\ outbox.status \in {"PENDING", "RETRY"}
  /\ outbox.attempts < AttemptCap
  /\ outbox' = [status |-> "PROCESSING", attempts |-> outbox.attempts + 1]
  /\ thread' = [thread EXCEPT ![t] =
       [Task("process", "claimed", NoRequest)
          EXCEPT !.attempts = outbox.attempts + 1]]
  /\ UNCHANGED <<venta, cuenta, billing, events, returned, clock,
                 faults, history>>

\* A known request is read again; the answer is not applied.
GetKnown(t) ==
  /\ At(t, "process", "claimed")
  /\ venta.req
  /\ thread' = [thread EXCEPT ![t] = [@ EXCEPT !.step = "submitting",
                                              !.doc = billing]]
  /\ UNCHANGED <<venta, cuenta, outbox, billing, events, returned, clock,
                 faults, history>>

\* External: POST /void creates the request once, POST /submit sends it once.
BillingMoves(from, to) ==
  \/ /\ billing.status # from
     /\ UNCHANGED <<billing, clock>>
  \/ /\ billing.status = from
     /\ clock < MaxClock
     /\ clock'   = clock + 1
     /\ billing' = [status |-> to, at |-> clock + 1]

Posting(t)    == At(t, "process", "claimed") /\ ~venta.req
Submitting(t) == At(t, "process", "submitting") /\ ~IsSettled(thread[t].doc.status)

PostAnswered(t) ==
  /\ Posting(t)
  /\ BillingMoves("NONE", "PENDING")
  /\ Apply(t, billing', "submitting")
  /\ UNCHANGED <<venta, cuenta, outbox, events, returned, faults, history>>

SubmitAnswered(t) ==
  /\ Submitting(t)
  /\ BillingMoves("PENDING", "SUBMITTED")
  /\ Apply(t, billing', "applied")
  /\ UNCHANGED <<venta, cuenta, outbox, events, returned, faults, history>>

\* Billing did it and the answer is lost to the request timeout.
AnswerLost(t) ==
  /\ Fault("lost")
  /\ \/ Posting(t) /\ BillingMoves("NONE", "PENDING")
     \/ Submitting(t) /\ BillingMoves("PENDING", "SUBMITTED")
  /\ FailWith(t, OutOfAttempts(t))
  /\ UNCHANGED <<venta, cuenta, outbox, events, returned, history>>

\* Billing was not reached, or refused.
CallFailed(t, retryable) ==
  /\ Fault("refused")
  /\ At(t, "process", "claimed") \/ Submitting(t)
  /\ FailWith(t, ~retryable \/ OutOfAttempts(t))
  /\ UNCHANGED <<venta, cuenta, outbox, billing, events, returned,
                 clock, history>>

MarkDone(t) ==
  /\ \/ At(t, "process", "applied")
     \/ At(t, "process", "submitting") /\ IsSettled(thread[t].doc.status)
  /\ outbox' = [outbox EXCEPT !.status = "DONE"]
  /\ Return(t)
  /\ UNCHANGED <<venta, cuenta, billing, events, returned, clock,
                 faults, history>>

\* handleOutboxFailure: a void that is given up releases the account.
HandleFailure(t) ==
  /\ At(t, "process", "failing")
  /\ clock < MaxClock
  /\ clock' = clock + 1
  /\ LET dead == thread[t].dead
     IN  /\ outbox' = [outbox EXCEPT !.status = IF dead THEN "DEAD" ELSE "RETRY"]
         /\ venta' = [venta EXCEPT !.baja = IF dead THEN "error_definitivo"
                                                    ELSE "error_transitorio",
                                   !.at = clock + 1]
         /\ IF dead
              THEN thread' = [thread EXCEPT ![t] =
                     [@ EXCEPT !.step = "restoring", !.after = "return"]]
              ELSE Return(t)
  /\ Overtakes(t, SaleWriters)
  /\ UNCHANGED <<cuenta, billing, events, returned, faults, repeats, late>>

----------------------------------------
(* apply, finalizeCommercialAnnul, restoreAccount.                         *)

ApplyRead(t) ==
  /\ thread[t].step = "applying"
  /\ IF venta.at > thread[t].doc.at THEN Applied(t) ELSE Goto(t, "writing")
  /\ UNCHANGED <<venta, cuenta, outbox, billing, events, returned, clock,
                 faults, history>>

ApplyWrite(t) ==
  /\ thread[t].step = "writing"
  /\ venta' = [venta EXCEPT !.req  = TRUE,
                            !.baja = voidState(thread[t].doc.status),
                            !.at   = thread[t].doc.at]
  /\ CASE thread[t].doc.status = "ACCEPTED" -> Goto(t, "finalizing")
       [] thread[t].doc.status \in {"REJECTED", "FAILED"} -> Goto(t, "restoring")
       [] OTHER -> Applied(t)
  /\ Overtakes(t, SaleWriters)
  /\ WritesLate(t, "answer")
  /\ UNCHANGED <<cuenta, outbox, billing, events, returned, clock, faults,
                 repeats>>

\* The transaction reads the sale without locking it.
FinalizeReadUnchecked(t) ==  \* mutant
  /\ thread[t].step = "finalizing"
  /\ Goto(t, "annulling")
  /\ UNCHANGED <<venta, cuenta, outbox, billing, events, returned, clock,
                 faults, history>>

FinalizeRead(t) ==
  /\ thread[t].step = "finalizing"
  /\ IF venta.anulada THEN Applied(t) ELSE Goto(t, "annulling")
  /\ UNCHANGED <<venta, cuenta, outbox, billing, events, returned, clock,
                 faults, history>>

\* Cash, stock, payments, account and sale are written at the commit.
FinalizeCommit(t) ==
  /\ thread[t].step = "annulling"
  /\ venta'    = [venta EXCEPT !.anulada = TRUE]
  /\ cuenta'   = "anulada"
  /\ returned' = returned + 1
  /\ Applied(t)
  /\ Overtakes(t, AnnulWriters)
  /\ repeats' = IF t \in overtaken THEN repeats + 1 ELSE repeats
  /\ UNCHANGED <<outbox, billing, events, clock, faults, late>>

RestoreRead(t) ==
  /\ thread[t].step = "restoring"
  /\ IF cuenta = "anulacion_pendiente" THEN Goto(t, "releasing") ELSE Applied(t)
  /\ UNCHANGED <<venta, cuenta, outbox, billing, events, returned, clock,
                 faults, history>>

RestoreWrite(t) ==
  /\ thread[t].step = "releasing"
  /\ cuenta' = "viva"
  /\ Applied(t)
  /\ Overtakes(t, {})
  /\ WritesLate(t, "release")
  /\ UNCHANGED <<venta, outbox, billing, events, returned, clock, faults,
                 repeats>>

\* A database error in an await above lands in the caller's catch block; an
\* error inside that block ends the call.
StoreError(t) ==
  /\ thread[t].step \in {"applying", "writing", "finalizing", "annulling",
                         "restoring", "releasing", "applied"}
  /\ Fault("store")
  /\ CASE thread[t].task = "process" /\ thread[t].after # "return"
                                        -> FailWith(t, OutOfAttempts(t))
       [] thread[t].task = "webhook"    -> Goto(t, "unrecording")
       [] OTHER                         -> Return(t)
  /\ Overtakes(t, {})
  /\ UNCHANGED <<venta, cuenta, outbox, billing, events, returned, clock,
                 repeats, late>>

----------------------------------------
(* Webhooks, reconciliation, and the operator's consult and retry.         *)

WebhookBegin(t, e) ==
  /\ thread[t] = Idle
  /\ e \in events
  /\ events' = events \ {e}
  /\ thread' = [thread EXCEPT ![t] = Task("webhook", "applying", e)]
  /\ UNCHANGED <<venta, cuenta, outbox, billing, returned, clock,
                 faults, history>>

\* An event that could not be applied is no longer recorded as received.
WebhookRelease(t) ==
  /\ At(t, "webhook", "unrecording")
  /\ events' = events \cup {thread[t].doc}
  /\ Return(t)
  /\ UNCHANGED <<venta, cuenta, outbox, billing, returned, clock,
                 faults, history>>

Poll(t, task) ==
  /\ thread[t] = Idle
  /\ venta.req
  /\ thread' = [thread EXCEPT ![t] = Task(task, "applying", billing)]
  /\ UNCHANGED <<venta, cuenta, outbox, billing, events, returned, clock,
                 faults, history>>

ReconcileNever(t) == FALSE /\ Poll(t, "reconcile")     \* mutant
Reconcile(t) == venta.baja \in ReconciledBajas /\ Poll(t, "reconcile")
Consult(t)   == Poll(t, "consult")

\* A known request is sent again by Billing; the account is left as it is.
RetryDocument(t) ==
  /\ thread[t] = Idle
  /\ venta.req
  /\ venta.baja \in RetryableBajas
  /\ IF billing.status \in {"REJECTED", "FAILED"}
       THEN /\ clock < MaxClock
            /\ clock'   = clock + 1
            /\ billing' = [status |-> "SUBMITTED", at |-> clock + 1]
       ELSE UNCHANGED <<billing, clock>>
  /\ thread' = [thread EXCEPT ![t] = Task("retry", "applying", billing')]
  /\ UNCHANGED <<venta, cuenta, outbox, events, returned, faults, history>>

RetryRead(t) ==
  /\ thread[t] = Idle
  /\ ~venta.req
  /\ venta.baja \in RetryableBajas
  /\ thread' = [thread EXCEPT ![t] = Task("retry", "requeue", NoRequest)]
  /\ UNCHANGED <<venta, cuenta, outbox, billing, events, returned, clock,
                 faults, history>>

RetryRequeue(t) ==
  /\ At(t, "retry", "requeue")
  /\ clock < MaxClock
  /\ clock' = clock + 1
  /\ Queue(clock + 1, venta.req)
  /\ Return(t)
  /\ Overtakes(t, SaleWriters)
  /\ WritesLate(t, "queue")
  /\ UNCHANGED <<billing, events, returned, faults, repeats>>

----------------------------------------
(* The environment.                                                        *)

\* External: SUNAT's answer, and the event Billing emits for it.
BillingSettles(status) ==
  /\ billing.status = "SUBMITTED"
  /\ clock < MaxClock
  /\ clock'   = clock + 1
  /\ billing' = [status |-> status, at |-> clock + 1]
  /\ events'  = events \cup {billing'}
  /\ UNCHANGED <<venta, cuenta, outbox, thread, returned, faults, history>>

\* The process dies: open transactions are rolled back.
Crash ==
  /\ Fault("crash")
  /\ thread' = [t \in Threads |-> Idle]
  /\ overtaken' = {}
  /\ UNCHANGED <<venta, cuenta, outbox, billing, events, returned, clock,
                 repeats, late>>

ThreadStep(t) ==
  \/ RequestCommit(t)
  \/ GetKnown(t) \/ PostAnswered(t) \/ SubmitAnswered(t) \/ MarkDone(t)
  \/ HandleFailure(t)
  \/ ApplyRead(t) \/ ApplyWrite(t)
  \/ FinalizeRead(t) \/ FinalizeCommit(t) \/ RestoreRead(t) \/ RestoreWrite(t)
  \/ WebhookRelease(t) \/ RetryRequeue(t)

ThreadFault(t) ==
  \/ AnswerLost(t) \/ StoreError(t)
  \/ \E retryable \in BOOLEAN : CallFailed(t, retryable)

Cron(t) == Claim(t) \/ Reconcile(t)

Operator(t) ==
  Request(t) \/ Consult(t) \/ RetryDocument(t) \/ RetryRead(t)

Next ==
  \/ \E t \in Threads :
       \/ ThreadStep(t) \/ ThreadFault(t) \/ Cron(t) \/ Operator(t)
       \/ \E e \in events : WebhookBegin(t, e)
  \/ \E status \in Answers : BillingSettles(status)
  \/ Crash

Spec == Init /\ [][Next]_vars

----------------------------------------
TypeOK ==
  /\ venta \in VentaRows
  /\ cuenta \in Accounts
  /\ outbox \in OutboxRows
  /\ thread \in [Threads -> ThreadStates]
  /\ billing \in Requests
  /\ events \subseteq Requests
  /\ returned \in Nat
  /\ clock \in Stamps
  /\ faults \in 0..MaxFaults
  /\ overtaken \subseteq Threads
  /\ repeats \in Nat
  /\ late \subseteq {"queue", "answer", "release"}

\* Stock and payments are not touched until SUNAT has accepted the void
\* (docs/billing-integration.md:74), whatever threads, retries and faults.
NoAnnulBeforeAcceptance ==
  (venta.anulada \/ returned > 0 \/ cuenta = "anulada")
    => billing.status = "ACCEPTED"

\* The sale shows the void accepted only when SUNAT accepted it.
NoFalseAcceptance == venta.baja = "aceptado" => billing.status = "ACCEPTED"

\* However many webhooks, polls, consults and retries bring the acceptance, at
\* once or one after the other, and whatever fails between, the goods come back
\* with the annulment and once.  Only a transaction that was already past its
\* unlocked read of the sale when another annulled it returns them again.
ReturnedOnce == returned = repeats + (IF venta.anulada THEN 1 ELSE 0)

\* Nothing can be collected for a sale that is annulled, unless a request or a
\* release that another thread overtook wrote the account after it.
AnnulledOwesNothing ==
  venta.anulada => cuenta = "anulada" \/ late \cap {"queue", "release"} # {}

Verdict ==
  CASE billing.status = "ACCEPTED"             -> "accepted"
    [] billing.status \in {"REJECTED", "FAILED"} -> "rejected"
    [] OTHER                                   -> "pending"

\* The void implements the abstract reversal, whatever overlaps: but for the
\* annulments of overtaken threads the goods come back once, after an acceptance
\* of SUNAT.
Reversal == INSTANCE CommercialEffects WITH verdict <- Verdict,
                                            effects <- returned - repeats
ImplementsReversal == Reversal!Spec

\* A void SUNAT accepted ends with the sale annulled, by the crons alone and
\* whatever calls and writes failed, but for what a fault or an overlap leaves
\* behind: a failure or a request stamped after the acceptance, which then is never
\* taken; a sale no cron asks about, for it shows a final answer (an old one, or
\* one whose effects failed) or its request is not known and its row is not due; a
\* write by an overtaken thread.  (A run that is out of stamps shows nothing.)
Forgotten == /\ faults > 0
             /\ \A t \in Threads : thread[t] = Idle
             /\ \/ venta.baja \notin ReconciledBajas
                \/ ~venta.req /\ outbox.status \notin {"PENDING", "RETRY"}
AcceptedVoidAnnuls ==
  billing.status = "ACCEPTED"
    ~> \/ venta.anulada \/ venta.at > billing.at \/ Forgotten
       \/ late # {} \/ clock = MaxClock

=============================================================================
