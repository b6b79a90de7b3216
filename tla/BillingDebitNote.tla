--------------------------- MODULE BillingDebitNote ---------------------------
(***************************************************************************)
(* A debit note issued through Billing and the charge it makes to the      *)
(* account of its sale: BillingDebitNoteService.  The acceptance is stored *)
(* in one transaction and the account charged in another.                  *)
(***************************************************************************)
EXTENDS BillingOutbox

VARIABLES
  cuenta,   \* the account of the sale: there or not, how many times it was charged, whether
            \*   the note says it was
  candado   \* the execution whose transaction locked the note FOR UPDATE

debitVars == <<cuenta, candado>>

CuentaRows == [hay : BOOLEAN, cargos : Nat, aplicada : BOOLEAN]
DebitTypeOK == cuenta \in CuentaRows /\ candado \in Hilos \cup {NoHilo}

Unlocked == candado = NoHilo
normalizeStatus(status) == IF status \in {"RECEIVED", "VALIDATING"} THEN "QUEUED" ELSE status
TriggersFirstTime(status, before) == status \in Accepted /\ before \notin Verdicts
TriggersEffects(status, before) == status \in Accepted /\ before \notin Accepted

\* applyDocument returns to its caller: process() goes on to close the row.
Applied(t) == IF hilo[t].task = "process" THEN Stored(t, "applied") ELSE Return(t)

----------------------------------------

\* External: POST /debit-notes creates the document once for the note's key.
Stores ==
  IF billing # Nada THEN UNCHANGED <<billing, reloj>>
  ELSE Stamp /\ billing' = [Nada EXCEPT !.status = "RECEIVED", !.at = Now]

Post(t) ==
  /\ At(t, "claimed")
  /\ \/ Stores /\ Answers(t, "applying", billing')
     \/ Stores /\ FailWith(t, OutOfAttempts(t))     \* the answer is lost
  /\ UNCHANGED <<clase, rows, avisos, fallas, debitVars>>

\* Billing was not reached, or refused the note.
PostFailed(t) ==
  /\ At(t, "claimed")
  /\ \E retryable \in BOOLEAN : FailWith(t, ~retryable \/ OutOfAttempts(t))
  /\ UNCHANGED <<clase, rows, outside, debitVars>>

ApplyRead(t) ==
  /\ At(t, "applying")
  /\ IF papel.at > hilo[t].doc.at THEN Applied(t)
     ELSE hilo' = [hilo EXCEPT ![t].step = "writing", ![t].visto = [Nuevo EXCEPT !.status = papel.status]]
  /\ UNCHANGED <<clase, rows, outside, debitVars>>

ApplyWrite(t) ==
  /\ At(t, "writing") /\ Unlocked
  /\ papel' = [papel EXCEPT !.doc = TRUE, !.status = normalizeStatus(hilo[t].doc.status),
                            !.at = hilo[t].doc.at]
  /\ IF TriggersEffects(hilo[t].doc.status, hilo[t].visto.status)
       THEN Stored(t, "effects") ELSE Applied(t)
  /\ UNCHANGED <<clase, cola, outside, debitVars>>

\* SELECT ... FOR UPDATE on the note, then the check that it is still due.

EffectsBegin(t) ==
  /\ At(t, "effects") /\ Unlocked
  /\ IF cuenta.aplicada THEN Applied(t) /\ UNCHANGED candado
     ELSE Goto(t, "charging") /\ candado' = t
  /\ UNCHANGED <<clase, rows, outside, cuenta>>

\* A sale paid at once gets an account; an account gets one more installment.
EffectsCommit(t) ==
  /\ At(t, "charging")
  /\ cuenta' = [hay |-> TRUE, cargos |-> cuenta.cargos + 1, aplicada |-> TRUE]
  /\ candado' = NoHilo
  /\ Applied(t)
  /\ UNCHANGED <<clase, rows, outside>>

----------------------------------------
(* The five-minute poll and the operator's retry.                          *)

ReconcilePending(t) ==
  /\ papel.doc /\ papel.status \in {"QUEUED", "PROCESSING", "RETRY_SCHEDULED"}
  /\ Starts(t, "get", "applying", billing, Nuevo)
  /\ UNCHANGED <<clase, rows, outside, debitVars>>

\* With a document the retry is forwarded: Billing queues a failed one again.
RetryDocument(t) ==
  /\ papel.doc
  /\ IF billing.status = "REJECTED"
       THEN /\ Stamp
            /\ billing' = [billing EXCEPT !.status = "RECEIVED", !.at = Now]
       ELSE UNCHANGED <<billing, reloj>>
  /\ Starts(t, "get", "applying", billing', Nuevo)
  /\ UNCHANGED <<clase, rows, avisos, fallas, debitVars>>

\* Without one the row is put back in the queue, whatever its status.
RetryRead(t) ==
  /\ ~papel.doc
  /\ Starts(t, "get", "requeue", Nada, Nuevo)
  /\ UNCHANGED <<clase, rows, outside, debitVars>>

RetryRequeue(t) ==
  /\ At(t, "requeue") /\ Unlocked
  /\ Stamp
  /\ cola' = [cola EXCEPT !.status = "PENDING"]
  /\ papel' = [papel EXCEPT !.status = "QUEUED", !.at = Now]
  /\ Return(t)
  /\ UNCHANGED <<clase, billing, avisos, fallas, debitVars>>

----------------------------------------
(* A database error rolls the transaction back and lands in the catch of   *)
(* the caller, where it counts as one more attempt.                        *)

StoreError(t) ==
  /\ hilo[t].step \in {"applying", "writing", "effects", "charging", "applied"}
  /\ fallas < MaxFallas /\ fallas' = fallas + 1
  /\ candado' = IF candado = t THEN NoHilo ELSE candado
  /\ CASE hilo[t].task = "process" -> FailWith(t, OutOfAttempts(t))
       [] hilo[t].task = "webhook" -> Goto(t, "releasing")
       [] OTHER                    -> Return(t)
  /\ UNCHANGED <<clase, rows, billing, avisos, reloj, cuenta>>

\* The transaction that creates the note stores it QUEUED, with its row.
DebitInit ==
  /\ cuenta = [hay |-> FALSE, cargos |-> 0, aplicada |-> FALSE]
  /\ candado = NoHilo

DebitStep(t) ==
  \/ Post(t) \/ PostFailed(t) \/ ApplyRead(t) \/ ApplyWrite(t)
  \/ EffectsBegin(t) \/ EffectsCommit(t) \/ RetryRequeue(t)

DebitNext(t) ==
  \/ DebitStep(t) \/ StoreError(t)
  \/ ReconcilePending(t) \/ RetryDocument(t) \/ RetryRead(t)

----------------------------------------

\* The account of a sale is charged a debit note once, and only when SUNAT accepted it,
\* although several executions may learn of it at once and any may be interrupted.
ChargedOnce ==
  /\ cuenta.cargos <= 1
  /\ cuenta.cargos = 1 => billing.status \in Accepted

\* The charge of an accepted note is made, or on its way: only a fault between the two
\* transactions loses it, and nothing makes it up.
AcceptedIsCharged ==
  clase = "debito" /\ papel.status \in Accepted /\ fallas = 0
    => cuenta.cargos = 1 \/ \E t \in Hilos : hilo[t].step \in {"effects", "charging"}

\* The charge of a note follows its acceptance, once.
ChargedAsAccepted == ChargedOnce /\ AcceptedIsCharged
=============================================================================
