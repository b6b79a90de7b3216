-------------------------- MODULE BillingCreditNote --------------------------
(***************************************************************************)
(* The life of one credit note issued through Billing: its outbox row, the *)
(* threads that post it and copy the answer back (cron, print request,     *)
(* webhook, reconciliation, operator), and the commercial effects, which   *)
(* run in a transaction of their own after the acceptance was stored.      *)
(*                                                                         *)
(* One note is modelled: notes share only the counter of their series.     *)
(* sunatEstado is not a variable: every write sets it to sunatStatus of    *)
(* the billingStatus written with it.  Billing and SUNAT are external.     *)
(***************************************************************************)
EXTENDS Naturals

CONSTANTS
  Threads,      \* concurrent executions inside the backend process
  DocStatuses,  \* the document statuses Billing uses in this instance
  MaxAttempts,  \* billing_credit_note_outbox.max_attempts
  AttemptCap,   \* bound: claims of the outbox row
  MaxClock,     \* bound: stamps handed out by the clock
  MaxFaults,    \* bound: database errors and crashes
  OperatorRequeues, \* whether operators retry a note that has no document
  NoThread      \* null value

OpenStatuses     == {"QUEUED", "PROCESSING", "RETRY_SCHEDULED"}
AcceptedStatuses == {"ACCEPTED", "ACCEPTED_WITH_OBSERVATIONS"}
FailedStatuses   == {"REJECTED", "FAILED"}
Statuses         == OpenStatuses \cup AcceptedStatuses \cup FailedStatuses
NewStatuses      == {"RECEIVED", "VALIDATING"}  \* Billing's, before its queue

ASSUME NoteAssumption ==
  /\ DocStatuses \subseteq Statuses \cup NewStatuses
  /\ "RECEIVED" \in DocStatuses
  /\ MaxAttempts \in Nat \ {0}
  /\ AttemptCap \in Nat
  /\ MaxAttempts <= AttemptCap
  /\ MaxClock \in Nat
  /\ MaxFaults \in Nat
  /\ OperatorRequeues \in BOOLEAN
  /\ NoThread \notin Threads

\* Billing's status as the backend stores it.
normalizeStatus(status) == IF status \in NewStatuses THEN "QUEUED" ELSE status

\* applyDocument runs the effects for an acceptance that the note, as it was
\* read before the write, did not show yet.
EffectsWhenUnchanged(status, before) == \* mutant: compares with what it wrote
  status \in AcceptedStatuses /\ status \notin AcceptedStatuses
TriggersEffects(status, before) ==
  status \in AcceptedStatuses /\ before \notin AcceptedStatuses

Stamps    == 0..MaxClock
Docs      == [status : DocStatuses, at : Stamps]
JobStates == {"PENDING", "PROCESSING", "RETRY", "DONE", "DEAD"}
Tasks     == {"none", "process", "webhook", "reconcile", "retry"}
Steps     == {"idle", "claimed", "applying", "writing", "effects", "returning",
              "applied", "failing", "releasing", "requeue"}

NoDocument  == [status |-> "NONE", at |-> 0]
NoteRows    == [doc : BOOLEAN, status : Statuses, at : Stamps,
                effectsApplied : BOOLEAN]
OutboxRows  == [status : JobStates, attempts : 0..AttemptCap]
BillingRows == Docs \cup {NoDocument}

VARIABLES
  note,      \* nota_credito: document known, billingStatus, billingUpdatedAt,
             \*   commercialEffectsApplied
  outbox,    \* its outbox row: status and attempts
  thread,    \* what each thread is doing and the values it read
  lock,      \* the thread whose transaction locked the note FOR UPDATE
  billing,   \* external: the document Billing holds for the note's key
  events,    \* external: webhook events that are not recorded as received
  returned,  \* how many times the goods of the note were put back in stock
  clock,     \* the last stamp handed out, here or at Billing
  faults     \* crashes and database errors so far

vars == <<note, outbox, thread, lock, billing, events, returned, clock, faults>>

ThreadStates ==
  [task : Tasks, step : Steps, doc : BillingRows,
   before : Statuses, attempts : 0..AttemptCap, dead : BOOLEAN]

Task(task, step, doc) ==
  [task |-> task, step |-> step, doc |-> doc, before |-> "QUEUED",
   attempts |-> 0, dead |-> FALSE]

Idle == Task("none", "idle", NoDocument)

Goto(t, step) == thread' = [thread EXCEPT ![t].step = step]
Return(t)     == thread' = [thread EXCEPT ![t] = Idle]
FailWith(t, dead) ==
  thread' = [thread EXCEPT ![t] = [@ EXCEPT !.step = "failing", !.dead = dead]]

\* applyDocument returns to its caller: process() goes on to close the row.
Applied(t) ==
  IF thread[t].task = "process" THEN Goto(t, "applied") ELSE Return(t)

At(t, task, step) == thread[t].task = task /\ thread[t].step = step
Unlocked          == lock = NoThread

\* The transaction that creates the note: QUEUED, with its outbox row.
Init ==
  /\ note     = [doc |-> FALSE, status |-> "QUEUED", at |-> 0,
                 effectsApplied |-> FALSE]
  /\ outbox   = [status |-> "PENDING", attempts |-> 0]
  /\ thread   = [t \in Threads |-> Idle]
  /\ lock     = NoThread
  /\ billing  = NoDocument
  /\ events   = {}
  /\ returned = 0
  /\ clock    = 0
  /\ faults   = 0

----------------------------------------
(* Processing the outbox row, for the cron or for a print request.         *)

Claim(t) ==
  /\ thread[t] = Idle
  /\ outbox.status \in {"PENDING", "RETRY"}
  /\ outbox.attempts < AttemptCap
  /\ outbox' = [status |-> "PROCESSING", attempts |-> outbox.attempts + 1]
  /\ thread' = [thread EXCEPT ![t] =
       [Task("process", "claimed", NoDocument)
          EXCEPT !.attempts = outbox.attempts + 1]]
  /\ UNCHANGED <<note, lock, billing, events, returned, clock, faults>>

ClaimForPrint(t) == ~note.doc /\ Claim(t)

\* External: POST /credit-notes creates the document once and answers with it.
BillingStores ==
  \/ /\ billing # NoDocument
     /\ UNCHANGED <<billing, clock>>
  \/ /\ billing = NoDocument
     /\ clock < MaxClock
     /\ clock'   = clock + 1
     /\ billing' = [status |-> "RECEIVED", at |-> clock + 1]

PostAnswered(t) ==
  /\ At(t, "process", "claimed")
  /\ BillingStores
  /\ thread' = [thread EXCEPT ![t] = [@ EXCEPT !.step = "applying",
                                              !.doc = billing']]
  /\ UNCHANGED <<note, outbox, lock, events, returned, faults>>

OutOfAttempts(t) == thread[t].attempts >= MaxAttempts

\* The document is stored but the answer is lost to the request timeout.
PostAnswerLost(t) ==
  /\ At(t, "process", "claimed")
  /\ BillingStores
  /\ FailWith(t, OutOfAttempts(t))
  /\ UNCHANGED <<note, outbox, lock, events, returned, faults>>

\* Billing was not reached, or refused the note.
PostFailed(t, retryable) ==
  /\ At(t, "process", "claimed")
  /\ FailWith(t, ~retryable \/ OutOfAttempts(t))
  /\ UNCHANGED <<note, outbox, lock, billing, events, returned, clock, faults>>

MarkDone(t) ==
  /\ At(t, "process", "applied")
  /\ outbox' = [outbox EXCEPT !.status = "DONE"]
  /\ Return(t)
  /\ UNCHANGED <<note, lock, billing, events, returned, clock, faults>>

\* The catch block: the row and the note are written in one transaction.
HandleFailure(t) ==
  /\ At(t, "process", "failing")
  /\ Unlocked
  /\ clock < MaxClock
  /\ LET dead == thread[t].dead
     IN  /\ outbox' = [outbox EXCEPT !.status = IF dead THEN "DEAD" ELSE "RETRY"]
         /\ note' = [note EXCEPT !.status = IF dead THEN "FAILED"
                                                    ELSE "RETRY_SCHEDULED",
                                 !.at = clock + 1]
  /\ clock' = clock + 1
  /\ Return(t)
  /\ UNCHANGED <<lock, billing, events, returned, faults>>

----------------------------------------
(* applyDocument and applyAcceptedEffects.                                 *)

ApplyRead(t) ==
  /\ thread[t].step = "applying"
  /\ IF note.at > thread[t].doc.at
       THEN Applied(t)
       ELSE thread' = [thread EXCEPT ![t] = [@ EXCEPT !.step = "writing",
                                                     !.before = note.status]]
  /\ UNCHANGED <<note, outbox, lock, billing, events, returned, clock, faults>>

ApplyWrite(t) ==
  /\ thread[t].step = "writing"
  /\ Unlocked
  /\ note' = [note EXCEPT !.doc    = TRUE,
                          !.status = normalizeStatus(thread[t].doc.status),
                          !.at     = thread[t].doc.at]
  /\ IF TriggersEffects(thread[t].doc.status, thread[t].before)
       THEN Goto(t, "effects")
       ELSE Applied(t)
  /\ UNCHANGED <<outbox, lock, billing, events, returned, clock, faults>>

\* SELECT ... FOR UPDATE on the note, then the check that it is still due.
EffectsUnlocked(t) ==   \* mutant
  /\ thread[t].step = "effects"
  /\ IF note.effectsApplied THEN Applied(t) ELSE Goto(t, "returning")
  /\ UNCHANGED <<note, outbox, lock, billing, events, returned, clock, faults>>

EffectsBegin(t) ==
  /\ thread[t].step = "effects"
  /\ Unlocked
  /\ IF note.effectsApplied
       THEN Applied(t) /\ UNCHANGED lock
       ELSE Goto(t, "returning") /\ lock' = t
  /\ UNCHANGED <<note, outbox, billing, events, returned, clock, faults>>

\* Stock, flag, account and sale are written together at the commit.
EffectsCommit(t) ==
  /\ thread[t].step = "returning"
  /\ note'     = [note EXCEPT !.effectsApplied = TRUE]
  /\ returned' = returned + 1
  /\ lock'     = NoThread
  /\ Applied(t)
  /\ UNCHANGED <<outbox, billing, events, clock, faults>>

\* A database error in an await above rolls its transaction back and lands in
\* the caller's catch; closing the row is inside the same try block.
StoreError(t) ==
  /\ thread[t].step \in {"applying", "writing", "effects", "returning",
                         "applied"}
  /\ faults < MaxFaults
  /\ faults' = faults + 1
  /\ lock'   = IF lock = t THEN NoThread ELSE lock
  /\ CASE thread[t].task = "process" -> FailWith(t, OutOfAttempts(t))
       [] thread[t].task = "webhook" -> Goto(t, "releasing")
       [] OTHER                      -> Return(t)
  /\ UNCHANGED <<note, outbox, billing, events, returned, clock>>

----------------------------------------
(* Webhooks, reconciliation and the operator's retry.                      *)

WebhookBegin(t, e) ==
  /\ thread[t] = Idle
  /\ e \in events
  /\ events' = events \ {e}
  /\ thread' = [thread EXCEPT ![t] = Task("webhook", "applying", e)]
  /\ UNCHANGED <<note, outbox, lock, billing, returned, clock, faults>>

\* An event that could not be applied is no longer recorded as received.
WebhookRelease(t) ==
  /\ At(t, "webhook", "releasing")
  /\ events' = events \cup {thread[t].doc}
  /\ Return(t)
  /\ UNCHANGED <<note, outbox, lock, billing, returned, clock, faults>>

Reconcile(t) ==
  /\ thread[t] = Idle
  /\ note.doc
  /\ note.status \in OpenStatuses
  /\ thread' = [thread EXCEPT ![t] = Task("reconcile", "applying", billing)]
  /\ UNCHANGED <<note, outbox, lock, billing, events, returned, clock, faults>>

\* With a document the retry is forwarded: Billing queues a failed document
\* again and answers with it.
RetryDocument(t) ==
  /\ thread[t] = Idle
  /\ note.doc
  /\ IF billing.status \in FailedStatuses
       THEN /\ clock < MaxClock
            /\ clock'   = clock + 1
            /\ billing' = [status |-> "RECEIVED", at |-> clock + 1]
       ELSE UNCHANGED <<billing, clock>>
  /\ thread' = [thread EXCEPT ![t] = Task("retry", "applying", billing')]
  /\ UNCHANGED <<note, outbox, lock, events, returned, faults>>

\* Without one the row is put back in the queue, whatever its status.
RetryRead(t) ==
  /\ OperatorRequeues
  /\ thread[t] = Idle
  /\ ~note.doc
  /\ thread' = [thread EXCEPT ![t] = Task("retry", "requeue", NoDocument)]
  /\ UNCHANGED <<note, outbox, lock, billing, events, returned, clock, faults>>

RetryRequeue(t) ==
  /\ At(t, "retry", "requeue")
  /\ Unlocked
  /\ clock < MaxClock
  /\ clock'  = clock + 1
  /\ outbox' = [outbox EXCEPT !.status = "PENDING"]
  /\ note'   = [note EXCEPT !.status = "QUEUED", !.at = clock + 1]
  /\ Return(t)
  /\ UNCHANGED <<lock, billing, events, returned, faults>>

----------------------------------------
(* The environment.                                                        *)

\* External: Billing moves the document on and emits the event.
BillingAdvances(status) ==
  /\ billing.status \in OpenStatuses \cup NewStatuses
  /\ status \notin {billing.status, "RECEIVED"}
  /\ clock < MaxClock
  /\ clock'   = clock + 1
  /\ billing' = [status |-> status, at |-> clock + 1]
  /\ events'  = events \cup {[status |-> status, at |-> clock + 1]}
  /\ UNCHANGED <<note, outbox, thread, lock, returned, faults>>

\* The process dies: open transactions are rolled back.
Crash ==
  /\ faults < MaxFaults
  /\ faults' = faults + 1
  /\ thread' = [t \in Threads |-> Idle]
  /\ lock'   = NoThread
  /\ UNCHANGED <<note, outbox, billing, events, returned, clock>>

ApplyStep(t) ==
  ApplyRead(t) \/ ApplyWrite(t) \/ EffectsBegin(t) \/ EffectsCommit(t)

ThreadStep(t) ==
  \/ PostAnswered(t) \/ PostAnswerLost(t)
  \/ \E retryable \in BOOLEAN : PostFailed(t, retryable)
  \/ MarkDone(t) \/ HandleFailure(t)
  \/ ApplyStep(t)
  \/ WebhookRelease(t) \/ RetryRequeue(t)

ThreadStart(t) ==
  \/ Claim(t) \/ ClaimForPrint(t) \/ Reconcile(t)
  \/ RetryDocument(t) \/ RetryRead(t)
  \/ \E e \in events : WebhookBegin(t, e)

Next ==
  \/ \E t \in Threads : ThreadStep(t) \/ ThreadStart(t) \/ StoreError(t)
  \/ \E status \in DocStatuses : BillingAdvances(status)
  \/ Crash

Spec == Init /\ [][Next]_vars

\* A call that is running goes on.  Nothing is assumed of webhooks, operators
\* or SUNAT.
FairSpec == Spec /\ \A t \in Threads : /\ WF_vars(ThreadStep(t))
                                       /\ SF_vars(ApplyWrite(t))
                                       /\ SF_vars(EffectsBegin(t))

\* Events are delivered again until they are applied, and the row, the poll and
\* the operator are never tired of trying.
InsistentSpec ==
  /\ FairSpec
  /\ SF_vars(\E t \in Threads : Claim(t))
  /\ SF_vars(\E t \in Threads : Reconcile(t))
  /\ SF_vars(\E t \in Threads : RetryDocument(t))
  /\ SF_vars(\E t \in Threads, e \in events : WebhookBegin(t, e))

----------------------------------------
TypeOK ==
  /\ note \in NoteRows
  /\ outbox \in OutboxRows
  /\ thread \in [Threads -> ThreadStates]
  /\ lock \in Threads \cup {NoThread}
  /\ billing \in BillingRows
  /\ events \subseteq Docs
  /\ returned \in Nat
  /\ clock \in Stamps
  /\ faults \in 0..MaxFaults

\* The goods of a note are put back, and the account reduced, at most once,
\* although several threads may learn of the acceptance at the same time and
\* any of them may be interrupted and repeated.
EffectsOnce ==
  /\ returned <= 1
  /\ note.effectsApplied <=> returned = 1

\* They are put back only when SUNAT has accepted the note.
EffectsNeedAcceptance == returned > 0 => billing.status \in AcceptedStatuses

\* The note shows an acceptance only when SUNAT has accepted it.
NoFalseAcceptance ==
  note.status \in AcceptedStatuses => billing.status \in AcceptedStatuses

Verdict ==
  CASE billing.status \in AcceptedStatuses -> "accepted"
    [] billing.status \in FailedStatuses   -> "rejected"
    [] OTHER                               -> "pending"

\* All of it together: the note implements the abstract reversal.
Reversal == INSTANCE CommercialEffects WITH verdict <- Verdict,
                                            effects <- returned
ImplementsReversal == Reversal!Spec

\* A note that shows the acceptance gets its goods returned.
AcceptedTakesEffect == note.status \in AcceptedStatuses ~> returned > 0

\* Threads that race to apply an acceptance never leave it without effects:
\* only a fault does.
OnlyFaultsLoseEffects ==
  note.status \in AcceptedStatuses ~> returned > 0 \/ faults > 0

=============================================================================
