--------------------------- MODULE BillingEmission ---------------------------
(***************************************************************************)
(* Issuing a sale's fiscal document through the Billing service: the       *)
(* outbox row a sale creates, the threads that process it (the cron of     *)
(* every second and the print request), the webhooks and the five-minute   *)
(* reconciliation that copy Billing's answer back, the operator's retry,   *)
(* and the crash of the process between any two awaits.                    *)
(*                                                                         *)
(* Billing and SUNAT are external: a document they hold only moves         *)
(* forward, each change is stamped by the clock and announced by a         *)
(* webhook that may be delivered late, twice, out of order or never.       *)
(***************************************************************************)
EXTENDS Naturals, FiniteSets

CONSTANTS
  Sales,        \* the sales that are issued through Billing
  Threads,      \* concurrent executions inside the backend process
  DocStatuses,  \* the document statuses Billing uses in this instance
  MaxAttempts,  \* billing_outbox.max_attempts
  AttemptCap,   \* bound: claims of one outbox row
  MaxClock,     \* bound: stamps handed out by the clock
  MaxFaults,    \* bound: crashes, and database errors nothing catches
  OperatorRetries, \* whether operators use POST /sales/:id/billing/retry
  NoDoc, NoSale    \* null values

OpenStatuses     == {"QUEUED", "PROCESSING", "RETRY_SCHEDULED"}
AcceptedStatuses == {"ACCEPTED", "ACCEPTED_WITH_OBSERVATIONS"}
FailedStatuses   == {"REJECTED", "FAILED"}
Statuses         == OpenStatuses \cup AcceptedStatuses \cup FailedStatuses
NewStatuses      == {"RECEIVED", "VALIDATING"}  \* Billing's, before its queue

ASSUME EmissionAssumption ==
  /\ DocStatuses \subseteq Statuses \cup NewStatuses
  /\ "RECEIVED" \in DocStatuses
  /\ MaxAttempts \in Nat \ {0}
  /\ AttemptCap \in Nat
  /\ MaxAttempts <= AttemptCap
  /\ MaxClock \in Nat
  /\ MaxFaults \in Nat
  /\ OperatorRetries \in BOOLEAN
  /\ NoSale \notin Sales

\* Billing's status as the backend stores it.
normalizeStatus(status) == IF status \in NewStatuses THEN "QUEUED" ELSE status

\* An idempotency key is made from the sale; the second component is what it
\* would be distinguished by if it were made from the attempt as well.
Keys == Sales \X (0..AttemptCap)
KeyPerAttempt(s, attempt)  == <<s, attempt>>   \* mutant
IdempotencyKey(s, attempt) == <<s, 0>>

Stamps    == 0..MaxClock
Docs      == [key : Keys, status : DocStatuses, at : Stamps]
JobStates == {"PENDING", "PROCESSING", "RETRY", "DONE", "DEAD"}
Tasks     == {"none", "process", "webhook", "reconcile", "retry"}
Steps     == {"idle", "claimed", "answered", "applying", "writing",
              "failing", "releasing", "requeue"}

VentaRows   == [doc : Keys \cup {NoDoc}, status : Statuses \cup {"NONE"},
                at : Stamps]
OutboxRows  == [status : JobStates \cup {"ABSENT"}, attempts : 0..AttemptCap]
BillingRows == [status : DocStatuses \cup {"NONE"}, at : Stamps]

ASSUME NullAssumption == NoDoc \notin Docs /\ NoDoc \notin Keys

VARIABLES
  venta,     \* the sale's billing columns: document, status, billingUpdatedAt
  outbox,    \* its billing_outbox row: status and attempts
  thread,    \* what each thread is doing and the values it read
  billing,   \* external: the documents Billing holds, by idempotency key
  sent,      \* external: the webhook events Billing has emitted
  consumed,  \* billing_webhook_event: the events recorded as received
  clock,     \* the last stamp handed out, here or at Billing
  faults,    \* crashes and uncaught database errors so far
  retried    \* history: the sales whose emission an operator retried

vars == <<venta, outbox, thread, billing, sent, consumed, clock, faults,
          retried>>

Task(task, step, s, doc) ==
  [task |-> task, step |-> step, sale |-> s, doc |-> doc,
   attempts |-> 0, retryable |-> FALSE]

Idle == Task("none", "idle", NoSale, NoDoc)

ThreadStates ==
  [task : Tasks, step : Steps, sale : Sales \cup {NoSale},
   doc : Docs \cup {NoDoc}, attempts : 0..AttemptCap, retryable : BOOLEAN]

Snapshot(k) == [key |-> k, status |-> billing[k].status, at |-> billing[k].at]
Exists(k)   == billing[k].status # "NONE"

Goto(t, step) == thread' = [thread EXCEPT ![t].step = step]
Return(t)     == thread' = [thread EXCEPT ![t] = Idle]
FailWith(t, retryable) ==
  thread' = [thread EXCEPT ![t] = [@ EXCEPT !.step = "failing",
                                            !.retryable = retryable]]

At(t, task, step) == thread[t].task = task /\ thread[t].step = step

Init ==
  /\ venta    = [s \in Sales |-> [doc |-> NoDoc, status |-> "NONE", at |-> 0]]
  /\ outbox   = [s \in Sales |-> [status |-> "ABSENT", attempts |-> 0]]
  /\ thread   = [t \in Threads |-> Idle]
  /\ billing  = [k \in Keys |-> [status |-> "NONE", at |-> 0]]
  /\ sent     = {}
  /\ consumed = {}
  /\ clock    = 0
  /\ faults  = 0
  /\ retried  = {}

----------------------------------------
(* The sale's transaction: the sale is stored QUEUED with its outbox row.  *)

Enqueue(s) ==
  /\ outbox[s].status = "ABSENT"
  /\ clock < MaxClock
  /\ clock'  = clock + 1
  /\ outbox' = [outbox EXCEPT ![s].status = "PENDING"]
  /\ venta'  = [venta EXCEPT ![s] = [@ EXCEPT !.status = "QUEUED",
                                            !.at = clock + 1]]
  /\ UNCHANGED <<thread, billing, sent, consumed, faults, retried>>

----------------------------------------
(* Processing an outbox row.                                               *)

\* The row is claimed by a conditional update; the job is then read again.
ClaimFrom(t, s, states) ==
  /\ thread[t] = Idle
  /\ outbox[s].status \in states
  /\ outbox[s].attempts < AttemptCap
  /\ outbox' = [outbox EXCEPT ![s] = [status   |-> "PROCESSING",
                                      attempts |-> @.attempts + 1]]
  /\ thread' = [thread EXCEPT ![t] =
       [Task("process", "claimed", s, NoDoc)
          EXCEPT !.attempts = outbox[s].attempts + 1]]
  /\ UNCHANGED <<venta, billing, sent, consumed, clock, faults, retried>>

Claim(t, s)          == ClaimFrom(t, s, {"PENDING", "RETRY"})

\* Asking for the printable PDF of a sale without a document processes its
\* due row at once, beside the cron.
ClaimForPrint(t, s) == venta[s].doc = NoDoc /\ Claim(t, s)

\* External: POST /documents creates the document of a key once and answers
\* with it from then on.
BillingStores(k) ==
  \/ /\ Exists(k)
     /\ UNCHANGED <<billing, clock>>
  \/ /\ ~Exists(k)
     /\ clock < MaxClock
     /\ clock'   = clock + 1
     /\ billing' = [billing EXCEPT ![k] = [status |-> "RECEIVED",
                                           at |-> clock + 1]]

PostAnswered(t) ==
  /\ At(t, "process", "claimed")
  /\ LET k == IdempotencyKey(thread[t].sale, thread[t].attempts)
     IN  /\ BillingStores(k)
         /\ thread' = [thread EXCEPT ![t] =
              [@ EXCEPT !.step = "answered",
                        !.doc  = [key |-> k, status |-> billing'[k].status,
                                  at |-> billing'[k].at]]]
  /\ UNCHANGED <<venta, outbox, sent, consumed, faults, retried>>

\* The document is stored but the answer is lost to the request timeout.
PostAnswerLost(t) ==
  /\ At(t, "process", "claimed")
  /\ BillingStores(IdempotencyKey(thread[t].sale, thread[t].attempts))
  /\ FailWith(t, TRUE)
  /\ UNCHANGED <<venta, outbox, sent, consumed, faults, retried>>

\* Billing was not reached, or it (or the invoice's deadline) refused.
PostFailed(t, retryable) ==
  /\ At(t, "process", "claimed")
  /\ FailWith(t, retryable)
  /\ UNCHANGED <<venta, outbox, billing, sent, consumed, clock, faults,
                 retried>>

MarkDone(t) ==
  /\ At(t, "process", "answered")
  /\ outbox' = [outbox EXCEPT ![thread[t].sale].status = "DONE"]
  /\ Goto(t, "applying")
  /\ UNCHANGED <<venta, billing, sent, consumed, clock, faults, retried>>

\* The catch block: the row and the sale are written in one transaction.
IsDead(t) ==
  ~thread[t].retryable \/ thread[t].attempts >= MaxAttempts

JobAfterFailureStuck(dead) == IF dead THEN "DEAD" ELSE "PROCESSING" \* mutant
JobAfterFailure(dead)      == IF dead THEN "DEAD" ELSE "RETRY"

HandleFailure(t) ==
  /\ At(t, "process", "failing")
  /\ clock < MaxClock
  /\ LET s == thread[t].sale
     IN  /\ outbox' = [outbox EXCEPT ![s].status = JobAfterFailure(IsDead(t))]
         /\ venta'  = [venta EXCEPT ![s] =
              [@ EXCEPT !.status = IF IsDead(t) THEN "FAILED"
                                                ELSE "RETRY_SCHEDULED",
                        !.at     = clock + 1]]
  /\ clock' = clock + 1
  /\ Return(t)
  /\ UNCHANGED <<billing, sent, consumed, faults, retried>>

----------------------------------------
(* applyDocument: read billingUpdatedAt, then write unless it is newer.    *)

ApplyRead(t) ==
  /\ thread[t].step = "applying"
  /\ IF venta[thread[t].sale].at > thread[t].doc.at
       THEN Return(t)
       ELSE Goto(t, "writing")
  /\ UNCHANGED <<venta, outbox, billing, sent, consumed, clock, faults,
                 retried>>

ApplyWrite(t) ==
  /\ thread[t].step = "writing"
  /\ LET d == thread[t].doc
     IN  venta' = [venta EXCEPT ![thread[t].sale] =
                     [doc |-> d.key, status |-> normalizeStatus(d.status),
                      at |-> d.at]]
  /\ Return(t)
  /\ UNCHANGED <<outbox, billing, sent, consumed, clock, faults, retried>>

\* A database error in one of the awaits above lands in the caller's catch.
StoreError(t) ==
  /\ thread[t].step \in {"answered", "applying", "writing"}
  /\ CASE thread[t].task = "process" -> FailWith(t, TRUE)
       [] thread[t].task = "webhook" -> Goto(t, "releasing")
       [] OTHER                      -> Return(t)
  /\ UNCHANGED <<venta, outbox, billing, sent, consumed, clock, faults,
                 retried>>

----------------------------------------
(* Webhooks, reconciliation and the operator's retry.                      *)

\* An event is recorded before it is applied; one already recorded is
\* answered as a duplicate and changes nothing.
WebhookBegin(t, e) ==
  /\ thread[t] = Idle
  /\ e \in sent \ consumed
  /\ consumed' = consumed \cup {e}
  /\ thread' = [thread EXCEPT ![t] = Task("webhook", "applying", e.key[1], e)]
  /\ UNCHANGED <<venta, outbox, billing, sent, clock, faults, retried>>

\* The record of an event that could not be applied is deleted.
WebhookRelease(t) ==
  /\ At(t, "webhook", "releasing")
  /\ consumed' = consumed \ {thread[t].doc}
  /\ Return(t)
  /\ UNCHANGED <<venta, outbox, billing, sent, clock, faults, retried>>

\* GET /documents/:id of a sale left in an open status.
ReconcileFrom(t, s, statuses) ==
  /\ thread[t] = Idle
  /\ venta[s].doc # NoDoc
  /\ venta[s].status \in statuses
  /\ thread' = [thread EXCEPT ![t] =
                  Task("reconcile", "applying", s, Snapshot(venta[s].doc))]
  /\ UNCHANGED <<venta, outbox, billing, sent, consumed, clock, faults,
                 retried>>

ReconcileStarted(t, s) ==   \* mutant: overlooks the documents still QUEUED
  ReconcileFrom(t, s, {"PROCESSING", "RETRY_SCHEDULED"})
Reconcile(t, s) == ReconcileFrom(t, s, OpenStatuses)

\* With a document, the retry is forwarded: Billing queues a failed document
\* again and answers with it.
RetryDocument(t, s) ==
  /\ OperatorRetries
  /\ thread[t] = Idle
  /\ venta[s].doc # NoDoc
  /\ LET k == venta[s].doc
     IN  /\ IF billing[k].status \in FailedStatuses
              THEN /\ clock < MaxClock
                   /\ clock'   = clock + 1
                   /\ billing' = [billing EXCEPT ![k] =
                                    [status |-> "RECEIVED", at |-> clock + 1]]
              ELSE UNCHANGED <<billing, clock>>
         /\ thread' = [thread EXCEPT ![t] =
              Task("retry", "applying", s,
                   [key |-> k, status |-> billing'[k].status,
                    at |-> billing'[k].at])]
  /\ retried' = retried \cup {s}
  /\ UNCHANGED <<venta, outbox, sent, consumed, faults>>

\* Without one, every outbox row of the sale is put back in the queue.
RetryRead(t, s) ==
  /\ OperatorRetries
  /\ thread[t] = Idle
  /\ outbox[s].status # "ABSENT"
  /\ venta[s].doc = NoDoc
  /\ thread' = [thread EXCEPT ![t] = Task("retry", "requeue", s, NoDoc)]
  /\ retried' = retried \cup {s}
  /\ UNCHANGED <<venta, outbox, billing, sent, consumed, clock, faults>>

RetryRequeue(t) ==
  /\ At(t, "retry", "requeue")
  /\ outbox' = [outbox EXCEPT ![thread[t].sale].status = "PENDING"]
  /\ Return(t)
  /\ UNCHANGED <<venta, billing, sent, consumed, clock, faults, retried>>

----------------------------------------
(* External: Billing moves a document on and emits the event.              *)

BillingAdvances(k, status) ==
  /\ billing[k].status \in OpenStatuses \cup NewStatuses
  /\ status \notin {billing[k].status, "RECEIVED"}
  /\ clock < MaxClock
  /\ clock'   = clock + 1
  /\ billing' = [billing EXCEPT ![k] = [status |-> status, at |-> clock + 1]]
  /\ sent'    = sent \cup {[key |-> k, status |-> status, at |-> clock + 1]}
  /\ UNCHANGED <<venta, outbox, thread, consumed, faults, retried>>

\* The process dies: what its threads knew is gone, the database stays.
Crash ==
  /\ faults < MaxFaults
  /\ faults' = faults + 1
  /\ thread' = [t \in Threads |-> Idle]
  /\ UNCHANGED <<venta, outbox, billing, sent, consumed, clock, retried>>

\* A database error outside the try blocks (re-reading the claimed job) or
\* inside a catch: the call ends there and what it had begun stays as it is.
UncaughtError(t) ==
  /\ thread[t].step \in {"claimed", "failing", "releasing"}
  /\ faults < MaxFaults
  /\ faults' = faults + 1
  /\ Return(t)
  /\ UNCHANGED <<venta, outbox, billing, sent, consumed, clock, retried>>

ProcessStep(t) ==
  \/ PostAnswered(t) \/ PostAnswerLost(t)
  \/ \E retryable \in BOOLEAN : PostFailed(t, retryable)
  \/ MarkDone(t) \/ HandleFailure(t)

ThreadStep(t) ==
  \/ ProcessStep(t)
  \/ ApplyRead(t) \/ ApplyWrite(t) \/ StoreError(t)
  \/ WebhookRelease(t) \/ RetryRequeue(t)

ThreadStart(t) ==
  \/ \E s \in Sales : \/ Claim(t, s) \/ ClaimForPrint(t, s) \/ Reconcile(t, s)
                      \/ RetryDocument(t, s) \/ RetryRead(t, s)
  \/ \E e \in sent : WebhookBegin(t, e)

Next ==
  \/ \E s \in Sales : Enqueue(s)
  \/ \E t \in Threads : ThreadStep(t) \/ ThreadStart(t)
  \/ \E k \in Keys, status \in DocStatuses : BillingAdvances(k, status)
  \/ Crash
  \/ \E t \in Threads : UncaughtError(t)

Spec == Init /\ [][Next]_vars

\* A running call goes on, and the database does not fail for ever; the crons
\* keep claiming due rows and asking for open documents. Claims and polls are
\* strongly fair because the real process never runs out of threads: Threads
\* is a bound of the model.
CronFairness ==
  /\ \A t \in Threads : /\ WF_vars(ThreadStep(t))
                        /\ SF_vars(ApplyRead(t))
                        /\ SF_vars(ApplyWrite(t))
  /\ \A s \in Sales : /\ SF_vars(\E t \in Threads : Claim(t, s))
                      /\ SF_vars(\E t \in Threads : Reconcile(t, s))

FairSpec == Spec /\ CronFairness

----------------------------------------
TypeOK ==
  /\ venta \in [Sales -> VentaRows]
  /\ outbox \in [Sales -> OutboxRows]
  /\ thread \in [Threads -> ThreadStates]
  /\ billing \in [Keys -> BillingRows]
  /\ sent \subseteq Docs
  /\ consumed \subseteq sent
  /\ clock \in Stamps
  /\ faults \in 0..MaxFaults
  /\ retried \subseteq Sales

\* However often a sale is posted (retries, lost answers, two workers, a
\* crash), Billing holds at most one fiscal document for it.
OneDocumentPerSale ==
  \A k1, k2 \in Keys :
    Exists(k1) /\ Exists(k2) /\ k1[1] = k2[1] => k1 = k2

\* A sale shows an acceptance only when its own document is accepted at
\* Billing, whatever order answers, webhooks and polls are applied in.
NoFalseAcceptance ==
  \A s \in Sales :
    venta[s].status \in AcceptedStatuses =>
      /\ venta[s].doc \in Keys
      /\ venta[s].doc[1] = s
      /\ billing[venta[s].doc].status \in AcceptedStatuses

\* A row leaves the queue as DONE only once Billing holds the document: no
\* sale is dropped from the queue without having been issued.
DoneHasDocument ==
  \A s \in Sales :
    outbox[s].status = "DONE" => \E k \in Keys : k[1] = s /\ Exists(k)

Processing(s) ==
  {t \in Threads : thread[t].task = "process" /\ thread[t].sale = s}

\* Until an operator retries it, a sale is processed by at most one thread,
\* and its row is PROCESSING without a thread behind it only after a fault.
OneWorkerPerSale ==
  \A s \in Sales : s \notin retried =>
    /\ \A t1, t2 \in Processing(s) : t1 = t2
    /\ outbox[s].status = "PROCESSING" /\ faults = 0 => Processing(s) # {}

\* Until an operator retries it, a sale is attempted at most MaxAttempts
\* times: the row that comes back for another attempt has one left.
RetryBudget ==
  \A s \in Sales : s \notin retried =>
    /\ outbox[s].attempts <= MaxAttempts
    /\ outbox[s].status \in {"PENDING", "RETRY"} =>
         outbox[s].attempts < MaxAttempts

\* A webhook event recorded as received has been applied, is being applied,
\* or was overtaken by something newer.
ConsumedEventsApplied ==
  \A e \in consumed :
    \/ \E t \in Threads : thread[t].task = "webhook" /\ thread[t].doc = e
    \/ venta[e.key[1]].at >= e.at

\* Every queued sale is issued or given up, unless a crash or an error outside
\* the try blocks strands its row, or an operator puts it back in the queue.
QueueDrains ==
  \A s \in Sales :
    outbox[s].status = "PENDING"
      ~> outbox[s].status \in {"DONE", "DEAD"} \/ faults > 0 \/ s \in retried

Behind(s) ==
  /\ venta[s].doc # NoDoc
  /\ venta[s].status \in OpenStatuses
  /\ venta[s].at <= billing[venta[s].doc].at
  /\ billing[venta[s].doc].status \notin OpenStatuses \cup NewStatuses

\* A sale left in an open status does not stay behind a document that Billing
\* has settled, even if every webhook is lost and the process crashes, unless
\* a local failure is stamped after it or an operator forwards a retry.
ReconcileConverges ==
  \A s \in Sales : Behind(s) ~> ~Behind(s) \/ s \in retried
=============================================================================
