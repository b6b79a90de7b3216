----------------------- MODULE BillingEmission_proofs -----------------------
(* Proofs about BillingEmission, for any sales, threads and bounds.         *)
EXTENDS BillingEmission, TLAPS

----------------------------------------
(* Membership of the literals the actions write.                           *)

\* The states and steps that the model names are members of its sets.
LEMMA Literals ==
  /\ {"QUEUED", "RETRY_SCHEDULED", "FAILED"} \subseteq Statuses
  /\ {"PENDING", "PROCESSING", "RETRY", "DONE", "DEAD"} = JobStates
  /\ {"process", "webhook", "reconcile", "retry", "none"} = Tasks
  /\ {"idle", "claimed", "answered", "applying", "writing", "failing",
      "releasing", "requeue"} = Steps
  /\ "RECEIVED" \in DocStatuses
  /\ \A x \in DocStatuses : normalizeStatus(x) \in Statuses
  BY EmissionAssumption DEF Statuses, OpenStatuses, AcceptedStatuses,
     FailedStatuses, NewStatuses, JobStates, Tasks, Steps, normalizeStatus

(* The document a thread holds when it is past the answer is a document of
   the sale it works for. *)
Holding(r) ==
  /\ r.step # "idle" => r.sale \in Sales
  /\ r.step \in {"answered", "applying", "writing", "releasing"} =>
       r.doc \in Docs /\ r.doc.key[1] = r.sale
  /\ r.task = "none" <=> r.step = "idle"

ThreadsHold == \A t \in Threads : Holding(thread[t])

\* A thread at rest has its type and holds no job.
LEMMA IdleHolds == Idle \in ThreadStates /\ Holding(Idle)
  BY EmissionAssumption DEF Idle, Task, ThreadStates, Holding, Tasks, Steps

\* A thread that goes on to its next step still holds what it held.
LEMMA GotoHolds ==
  ASSUME NEW r \in ThreadStates, Holding(r), r.step # "idle",
         NEW step \in Steps \ {"idle"},
         step \in {"answered", "applying", "writing", "releasing"} =>
           r.step \in {"answered", "applying", "writing", "releasing"},
         NEW b \in BOOLEAN
  PROVE  /\ [r EXCEPT !.step = step] \in ThreadStates
         /\ Holding([r EXCEPT !.step = step])
         /\ [r EXCEPT !.step = step, !.retryable = b] \in ThreadStates
         /\ Holding([r EXCEPT !.step = step, !.retryable = b])
  BY DEF ThreadStates, Holding

\* A thread that starts a task has its type and holds what it claimed.
LEMMA TaskHolds ==
  ASSUME NEW task \in Tasks \ {"none"}, NEW step \in Steps \ {"idle"},
         NEW s \in Sales, NEW d \in Docs \cup {NoDoc},
         step \in {"answered", "applying", "writing", "releasing"} =>
           d \in Docs /\ d.key[1] = s
  PROVE  /\ Task(task, step, s, d) \in ThreadStates
         /\ Holding(Task(task, step, s, d))
         /\ \A n \in 0..AttemptCap :
              /\ [Task(task, step, s, d) EXCEPT !.attempts = n] \in ThreadStates
              /\ Holding([Task(task, step, s, d) EXCEPT !.attempts = n])
<1> DEFINE r == [task |-> task, step |-> step, sale |-> s, doc |-> d,
                 attempts |-> 0, retryable |-> FALSE]
<1>1. Task(task, step, s, d) = r BY DEF Task
<1>2. 0 \in 0..AttemptCap BY EmissionAssumption
<1>3. r \in ThreadStates /\ Holding(r) BY <1>2 DEF ThreadStates, Holding
<1>4. ASSUME NEW n \in 0..AttemptCap
      PROVE  [r EXCEPT !.attempts = n] \in ThreadStates /\ Holding([r EXCEPT !.attempts = n])
  BY DEF ThreadStates, Holding
<1> QED BY <1>1, <1>3, <1>4

TypeInv == TypeOK /\ ThreadsHold

\* The types hold at the start.
LEMMA TypeInit == Init => TypeInv
  BY EmissionAssumption, IdleHolds
  DEF Init, TypeInv, TypeOK, ThreadsHold, VentaRows, OutboxRows, BillingRows, Stamps

\* A step that only moves the threads, each to a well-typed state.
LEMMA ThreadMoves ==
  ASSUME TypeInv, NEW t \in Threads, NEW r \in ThreadStates, Holding(r),
         thread' = [thread EXCEPT ![t] = r]
  PROVE  thread' \in [Threads -> ThreadStates] /\ ThreadsHold'
  BY DEF TypeInv, TypeOK, ThreadsHold

\* A job whose state is written is still a job.
LEMMA OutboxMoves ==
  ASSUME TypeInv, NEW s \in Sales, NEW x \in JobStates
  PROVE  [outbox EXCEPT ![s].status = x] \in [Sales -> OutboxRows]
  BY DEF TypeInv, TypeOK, OutboxRows

\* A sale whose status is written is still a sale.
LEMMA VentaMoves ==
  ASSUME TypeInv, NEW s \in Sales, NEW x \in Statuses, NEW n \in Stamps
  PROVE  [venta EXCEPT ![s] = [@ EXCEPT !.status = x, !.at = n]]
           \in [Sales -> VentaRows]
  BY DEF TypeInv, TypeOK, VentaRows

\* A clock that may still tick has a next stamp.
LEMMA Ticks ==
  ASSUME TypeInv, clock < MaxClock
  PROVE  clock + 1 \in Stamps
  BY EmissionAssumption DEF TypeInv, TypeOK, Stamps

\* The worker's steps keep the types.
LEMMA TypeProcess ==
  ASSUME TypeInv, NEW t \in Threads, ProcessStep(t)
  PROVE  TypeInv'
<1> DEFINE r == thread[t]
           k == IdempotencyKey(r.sale, r.attempts)
<1>r. r \in ThreadStates /\ Holding(r) BY DEF ThreadsHold, TypeInv, TypeOK
<1>k. r.step # "idle" => k \in Keys /\ k[1] = r.sale
  BY <1>r, EmissionAssumption DEF IdempotencyKey, Keys, Holding
<1>b. ASSUME BillingStores(k), k \in Keys
      PROVE  /\ billing' \in [Keys -> BillingRows] /\ clock' \in Stamps
             /\ billing'[k].status \in DocStatuses /\ billing'[k].at \in Stamps
  BY <1>b, EmissionAssumption, Literals
  DEF BillingStores, Exists, BillingRows, Stamps, TypeInv, TypeOK
<1>1. CASE PostAnswered(t)
  <2> DEFINE d == [key |-> k, status |-> billing'[k].status, at |-> billing'[k].at]
             q == [r EXCEPT !.step = "answered", !.doc = d]
  <2>1. r.step = "claimed" /\ BillingStores(k) /\ k \in Keys /\ thread' = [thread EXCEPT ![t] = q]
    BY <1>1, <1>k DEF PostAnswered, At
  <2>2. d \in Docs /\ d.key[1] = r.sale BY <2>1, <1>b, <1>k DEF Docs
  <2>3. q \in ThreadStates /\ Holding(q) BY <2>1, <2>2, <1>r, Literals DEF ThreadStates, Holding
  <2>4. thread' \in [Threads -> ThreadStates] /\ ThreadsHold' BY <2>1, <2>3, ThreadMoves
  <2> QED BY <1>1, <1>b, <2>1, <2>4 DEF PostAnswered, TypeInv, TypeOK
<1>2. CASE PostAnswerLost(t)
  <2>1. r.step = "claimed" /\ billing' \in [Keys -> BillingRows] /\ clock' \in Stamps
    BY <1>2, <1>r, <1>k, <1>b DEF PostAnswerLost, At
  <2>2. thread' \in [Threads -> ThreadStates] /\ ThreadsHold'
    BY <1>2, <1>r, <2>1, Literals, ThreadMoves, GotoHolds DEF PostAnswerLost, FailWith
  <2> QED BY <1>2, <2>1, <2>2 DEF PostAnswerLost, TypeInv, TypeOK
<1>3. CASE \E retryable \in BOOLEAN : PostFailed(t, retryable)
  BY <1>3, <1>r, Literals, ThreadMoves, GotoHolds DEF PostFailed, FailWith, At, TypeInv, TypeOK
<1>4. CASE MarkDone(t)
  <2>1. r.sale \in Sales /\ r.step = "answered" BY <1>4, <1>r DEF MarkDone, At, Holding
  <2>2. thread' \in [Threads -> ThreadStates] /\ ThreadsHold'
    BY <1>4, <1>r, <2>1, Literals, ThreadMoves, GotoHolds DEF MarkDone, Goto
  <2>3. outbox' \in [Sales -> OutboxRows] BY <1>4, <2>1, Literals, OutboxMoves DEF MarkDone
  <2> QED BY <1>4, <2>2, <2>3 DEF MarkDone, TypeInv, TypeOK
<1>5. CASE HandleFailure(t)
  <2>1. r.sale \in Sales BY <1>5, <1>r DEF HandleFailure, At, Holding
  <2>2. thread' \in [Threads -> ThreadStates] /\ ThreadsHold'
    BY <1>5, ThreadMoves, IdleHolds DEF HandleFailure, Return
  <2>3. outbox' \in [Sales -> OutboxRows]
    BY <1>5, <2>1, Literals, OutboxMoves DEF HandleFailure, JobAfterFailure
  <2>4. venta' \in [Sales -> VentaRows] BY <1>5, <2>1, Literals, VentaMoves, Ticks DEF HandleFailure
  <2> QED BY <1>5, <2>2, <2>3, <2>4, Ticks DEF HandleFailure, TypeInv, TypeOK
<1> QED BY <1>1, <1>2, <1>3, <1>4, <1>5 DEF ProcessStep

\* So do the other steps of a thread.
LEMMA TypeThread ==
  ASSUME TypeInv, NEW t \in Threads, ThreadStep(t) \/ UncaughtError(t)
  PROVE  TypeInv'
<1> DEFINE r == thread[t]
<1>r. r \in ThreadStates /\ Holding(r) BY DEF ThreadsHold, TypeInv, TypeOK
<1>1. CASE ApplyRead(t)
  BY <1>1, <1>r, Literals, ThreadMoves, GotoHolds, IdleHolds
  DEF ApplyRead, Return, Goto, TypeInv, TypeOK
<1>2. CASE ApplyWrite(t)
  <2>1. r.sale \in Sales /\ r.doc \in Docs BY <1>2, <1>r DEF ApplyWrite, Holding
  <2>2. thread' \in [Threads -> ThreadStates] /\ ThreadsHold'
    BY <1>2, ThreadMoves, IdleHolds DEF ApplyWrite, Return
  <2>3. [doc |-> r.doc.key, status |-> normalizeStatus(r.doc.status), at |-> r.doc.at]
          \in VentaRows
    BY <2>1, Literals DEF VentaRows, Docs
  <2>4. venta' \in [Sales -> VentaRows] BY <1>2, <2>1, <2>3 DEF ApplyWrite, TypeInv, TypeOK
  <2> QED BY <1>2, <2>2, <2>4 DEF ApplyWrite, TypeInv, TypeOK
<1>3. CASE StoreError(t)
  <2>1. thread' \in [Threads -> ThreadStates] /\ ThreadsHold'
    BY <1>3, <1>r, Literals, ThreadMoves, GotoHolds, IdleHolds
    DEF StoreError, Return, Goto, FailWith
  <2> QED BY <1>3, <2>1 DEF StoreError, TypeInv, TypeOK
<1>4. CASE WebhookRelease(t)
  BY <1>4, ThreadMoves, IdleHolds DEF WebhookRelease, Return, TypeInv, TypeOK
<1>5. CASE RetryRequeue(t)
  <2>1. r.sale \in Sales BY <1>5, <1>r DEF RetryRequeue, At, Holding
  <2>2. thread' \in [Threads -> ThreadStates] /\ ThreadsHold'
    BY <1>5, ThreadMoves, IdleHolds DEF RetryRequeue, Return
  <2>3. outbox' \in [Sales -> OutboxRows] BY <1>5, <2>1, Literals, OutboxMoves DEF RetryRequeue
  <2> QED BY <1>5, <2>2, <2>3 DEF RetryRequeue, TypeInv, TypeOK
<1>6. CASE UncaughtError(t)
  <2>1. faults' \in 0..MaxFaults BY <1>6, EmissionAssumption DEF UncaughtError, TypeInv, TypeOK
  <2>2. thread' \in [Threads -> ThreadStates] /\ ThreadsHold'
    BY <1>6, ThreadMoves, IdleHolds DEF UncaughtError, Return
  <2> QED BY <1>6, <2>1, <2>2 DEF UncaughtError, TypeInv, TypeOK
<1> QED BY <1>1, <1>2, <1>3, <1>4, <1>5, <1>6, TypeProcess DEF ThreadStep

----------------------------------------
(* What is known of the documents. A snapshot of a document is known when  *)
(* Billing holds the document and an acceptance it shows still stands.     *)

Known(d) ==
  /\ Exists(d.key)
  /\ d.status \in AcceptedStatuses => billing[d.key].status \in AcceptedStatuses

SalesLinked ==
  \A s \in Sales : venta[s].doc # NoDoc =>
    venta[s].doc[1] = s /\ Exists(venta[s].doc)

SnapshotsKnown ==
  /\ \A t \in Threads : thread[t].doc # NoDoc => Known(thread[t].doc)
  /\ \A e \in sent : Known(e)

OneKey == \A k \in Keys : Exists(k) => k[2] = 0

MirrorInv ==
  SalesLinked /\ SnapshotsKnown /\ OneKey /\ NoFalseAcceptance /\ DoneHasDocument

\* At the start no sale says more than Billing.
LEMMA MirrorInit == Init => MirrorInv
  BY DEF Init, MirrorInv, SalesLinked, SnapshotsKnown, OneKey, Exists,
     NoFalseAcceptance, DoneHasDocument, Idle, Task, AcceptedStatuses

\* Taking up a task keeps the types.
LEMMA TypeStart ==
  ASSUME TypeInv, MirrorInv, NEW t \in Threads, ThreadStart(t)
  PROVE  TypeInv'
<1>1. ASSUME NEW s \in Sales, Claim(t, s) PROVE TypeInv'
  <2>1. outbox[s].attempts + 1 \in 0..AttemptCap
    BY <1>1, EmissionAssumption DEF Claim, ClaimFrom, TypeInv, TypeOK, OutboxRows
  <2>2. thread' \in [Threads -> ThreadStates] /\ ThreadsHold'
    BY <1>1, <2>1, Literals, ThreadMoves, TaskHolds DEF Claim, ClaimFrom
  <2>3. outbox' \in [Sales -> OutboxRows]
    BY <1>1, <2>1, Literals DEF Claim, ClaimFrom, TypeInv, TypeOK, OutboxRows
  <2> QED BY <1>1, <2>2, <2>3 DEF Claim, ClaimFrom, TypeInv, TypeOK
<1>2. ASSUME NEW s \in Sales, Reconcile(t, s) PROVE TypeInv'
  <2>1. Snapshot(venta[s].doc) \in Docs /\ Snapshot(venta[s].doc).key[1] = s
    BY <1>2 DEF Reconcile, ReconcileFrom, Snapshot, Docs, TypeInv, TypeOK,
       BillingRows, VentaRows, MirrorInv, SalesLinked, Exists
  <2>2. thread' \in [Threads -> ThreadStates] /\ ThreadsHold'
    BY <1>2, <2>1, Literals, ThreadMoves, TaskHolds DEF Reconcile, ReconcileFrom
  <2> QED BY <1>2, <2>2 DEF Reconcile, ReconcileFrom, TypeInv, TypeOK
<1>3. ASSUME NEW s \in Sales, RetryDocument(t, s) PROVE TypeInv'
  <2> DEFINE k == venta[s].doc
             d == [key |-> k, status |-> billing'[k].status, at |-> billing'[k].at]
  <2>1. k \in Keys /\ k[1] = s /\ Exists(k)
    BY <1>3 DEF RetryDocument, TypeInv, TypeOK, VentaRows, MirrorInv, SalesLinked
  <2>2. billing' \in [Keys -> BillingRows] /\ clock' \in Stamps
    BY <1>3, <2>1, Literals, Ticks DEF RetryDocument, TypeInv, TypeOK, BillingRows
  <2>3. d \in Docs /\ d.key[1] = s
    BY <1>3, <2>1, <2>2, Literals DEF RetryDocument, TypeInv, TypeOK, Docs, BillingRows, Exists
  <2>4. thread' = [thread EXCEPT ![t] = Task("retry", "applying", s, d)] BY <1>3 DEF RetryDocument
  <2>5. thread' \in [Threads -> ThreadStates] /\ ThreadsHold'
    BY <2>3, <2>4, Literals, ThreadMoves, TaskHolds
  <2> QED BY <1>3, <2>2, <2>5 DEF RetryDocument, TypeInv, TypeOK
<1>4. ASSUME NEW s \in Sales, RetryRead(t, s) PROVE TypeInv'
  <2>1. thread' \in [Threads -> ThreadStates] /\ ThreadsHold'
    BY <1>4, Literals, ThreadMoves, TaskHolds DEF RetryRead
  <2> QED BY <1>4, <2>1 DEF RetryRead, TypeInv, TypeOK
<1>5. ASSUME NEW e \in sent, WebhookBegin(t, e) PROVE TypeInv'
  <2>1. e \in Docs /\ e.key[1] \in Sales BY DEF TypeInv, TypeOK, Docs, Keys
  <2>2. thread' \in [Threads -> ThreadStates] /\ ThreadsHold'
    BY <1>5, <2>1, Literals, ThreadMoves, TaskHolds DEF WebhookBegin
  <2> QED BY <1>5, <2>2 DEF WebhookBegin, TypeInv, TypeOK
<1> QED BY <1>1, <1>2, <1>3, <1>4, <1>5 DEF ThreadStart, ClaimForPrint

\* Every step keeps the types.
LEMMA TypeNext ==
  ASSUME TypeInv, MirrorInv, [Next]_vars
  PROVE  TypeInv'
<1>1. ASSUME NEW s \in Sales, Enqueue(s) PROVE TypeInv'
  <2>1. outbox' \in [Sales -> OutboxRows] /\ venta' \in [Sales -> VentaRows]
    BY <1>1, Literals, OutboxMoves, VentaMoves, Ticks DEF Enqueue
  <2> QED BY <1>1, <2>1, Ticks DEF Enqueue, TypeInv, TypeOK, ThreadsHold
<1>2. ASSUME NEW k \in Keys, NEW status \in DocStatuses, BillingAdvances(k, status)
      PROVE TypeInv'
  <2>1. /\ billing' \in [Keys -> BillingRows] /\ clock' \in Stamps
        /\ sent' \subseteq Docs
    BY <1>2, Ticks DEF BillingAdvances, TypeInv, TypeOK, BillingRows, Docs
  <2> QED BY <1>2, <2>1 DEF BillingAdvances, TypeInv, TypeOK, ThreadsHold
<1>3. CASE Crash
  <2>1. faults' \in 0..MaxFaults BY <1>3, EmissionAssumption DEF Crash, TypeInv, TypeOK
  <2> QED BY <1>3, <2>1, IdleHolds DEF Crash, TypeInv, TypeOK, ThreadsHold
<1>4. CASE UNCHANGED vars BY <1>4 DEF vars, TypeInv, TypeOK, ThreadsHold
<1> QED BY <1>1, <1>2, <1>3, <1>4, TypeThread, TypeStart DEF Next

\* Documents at Billing are never lost and an acceptance is never withdrawn.
LEMMA BillingKeeps ==
  ASSUME TypeInv, MirrorInv, [Next]_vars, NEW k \in Keys
  PROVE  /\ Exists(k) => Exists(k)'
         /\ billing[k].status \in AcceptedStatuses =>
              billing'[k].status \in AcceptedStatuses
         /\ Exists(k)' => Exists(k) \/ k[2] = 0
<1> USE DEF Exists
<1> SUFFICES ASSUME billing' # billing
    PROVE  /\ Exists(k) => Exists(k)'
           /\ billing[k].status \in AcceptedStatuses =>
                billing'[k].status \in AcceptedStatuses
           /\ Exists(k)' => Exists(k) \/ k[2] = 0
  OBVIOUS
<1>1. ASSUME NEW t \in Threads, PostAnswered(t) \/ PostAnswerLost(t)
      PROVE  BillingStores(IdempotencyKey(thread[t].sale, thread[t].attempts))
  BY <1>1 DEF PostAnswered, PostAnswerLost
<1>2. ASSUME NEW k0, k0[2] = 0, BillingStores(k0)
      PROVE  /\ Exists(k) => Exists(k)'
             /\ billing[k].status \in AcceptedStatuses =>
                  billing'[k].status \in AcceptedStatuses
             /\ Exists(k)' => Exists(k) \/ k[2] = 0
  BY <1>2 DEF BillingStores, TypeInv, TypeOK, BillingRows, AcceptedStatuses
<1>3. ASSUME NEW t \in Threads, NEW s \in Sales, RetryDocument(t, s)
      PROVE  /\ Exists(k) => Exists(k)'
             /\ billing[k].status \in AcceptedStatuses =>
                  billing'[k].status \in AcceptedStatuses
             /\ Exists(k)' => Exists(k) \/ k[2] = 0
  BY <1>3 DEF RetryDocument, TypeInv, TypeOK, BillingRows, AcceptedStatuses,
     FailedStatuses, MirrorInv, SalesLinked
<1>4. ASSUME NEW k0 \in Keys, NEW status \in DocStatuses, BillingAdvances(k0, status)
      PROVE  /\ Exists(k) => Exists(k)'
             /\ billing[k].status \in AcceptedStatuses =>
                  billing'[k].status \in AcceptedStatuses
             /\ Exists(k)' => Exists(k) \/ k[2] = 0
  <2>1. status # "NONE"
    BY EmissionAssumption DEF Statuses, OpenStatuses, AcceptedStatuses,
       FailedStatuses, NewStatuses
  <2> QED BY <1>4, <2>1 DEF BillingAdvances, TypeInv, TypeOK, BillingRows,
     AcceptedStatuses, OpenStatuses, NewStatuses
<1>5. \/ \E t \in Threads : PostAnswered(t) \/ PostAnswerLost(t)
      \/ \E t \in Threads, s \in Sales : RetryDocument(t, s)
      \/ \E k0 \in Keys, status \in DocStatuses : BillingAdvances(k0, status)
  BY DEF Next, vars, ThreadStep, ThreadStart, ClaimForPrint, ProcessStep, Enqueue, PostFailed,
     MarkDone, HandleFailure, ApplyRead, ApplyWrite, StoreError, WebhookRelease,
     RetryRequeue, Claim, ClaimFrom, Reconcile, ReconcileFrom, RetryRead,
     WebhookBegin, Crash, UncaughtError
<1> QED BY <1>1, <1>2, <1>3, <1>4, <1>5 DEF IdempotencyKey

\* What was known stays known.
LEMMA KnownStays ==
  ASSUME TypeInv, MirrorInv, [Next]_vars, NEW d \in Docs, Known(d)
  PROVE  Known(d)'
  BY BillingKeeps DEF Known, Docs, Exists

\* Every thread holds either a document it held or one known after the step.
LEMMA ThreadsLearn ==
  ASSUME TypeInv, MirrorInv, [Next]_vars, NEW t \in Threads,
         NEW d \in Docs, d = thread'[t].doc
  PROVE  Known(d)'
<1>1. CASE d = thread[t].doc \/ d \in sent
  <2>1. d # NoDoc BY NullAssumption
  <2>2. Known(d) BY <1>1, <2>1 DEF MirrorInv, SnapshotsKnown
  <2> QED BY <2>2, KnownStays
<1>2. ASSUME billing'[d.key].status # "NONE", d.status = billing'[d.key].status
      PROVE  Known(d)'
  BY <1>2 DEF Known, Exists
<1>3. CASE thread'[t].doc = thread[t].doc \/ thread'[t].doc \in sent BY <1>1, <1>3
<1>4. thread'[t] # Idle /\ d # NoDoc BY NullAssumption DEF Idle, Task
<1>5. thread[t] \in ThreadStates /\ thread \in [Threads -> ThreadStates] BY DEF TypeInv, TypeOK
<1>6. ASSUME NEW u \in Threads, ThreadStep(u) \/ UncaughtError(u) PROVE Known(d)'
  <2>1. CASE PostAnswered(u) /\ u = t
    <3> DEFINE k == IdempotencyKey(thread[t].sale, thread[t].attempts)
    <3>1. k \in Keys /\ BillingStores(k) /\ d.key = k /\ d.status = billing'[k].status
      BY <2>1, <1>5, EmissionAssumption DEF PostAnswered, At, TypeInv, ThreadsHold,
         Holding, IdempotencyKey, Keys, ThreadStates
    <3>2. billing'[k].status # "NONE" BY <3>1 DEF BillingStores, Exists, TypeInv, TypeOK
    <3> QED BY <3>1, <3>2, <1>2
  <2>2. CASE ~(PostAnswered(u) /\ u = t)
    <3>1. CASE PostAnswered(u) BY <2>2, <3>1, <1>3, <1>5 DEF PostAnswered
    <3>2. CASE Return(u) BY <3>2, <1>3, <1>4, <1>5 DEF Return
    <3>3. CASE \E step \in Steps : Goto(u, step) BY <3>3, <1>3, <1>5 DEF Goto, ThreadStates
    <3>4. CASE \E retryable \in BOOLEAN : FailWith(u, retryable)
      BY <3>4, <1>3, <1>5 DEF FailWith, ThreadStates
    <3> QED BY <1>6, <3>1, <3>2, <3>3, <3>4, Literals
      DEF ThreadStep, ProcessStep, PostAnswerLost, PostFailed, MarkDone,
          HandleFailure, ApplyRead, ApplyWrite, StoreError, WebhookRelease,
          RetryRequeue, UncaughtError
  <2> QED BY <2>1, <2>2
<1>7. ASSUME NEW u \in Threads, ThreadStart(u) PROVE Known(d)'
  <2>1. CASE u # t
    <3>1. thread'[t] = thread[t]
      BY <1>7, <2>1, <1>5 DEF ThreadStart, ClaimForPrint, Claim, ClaimFrom, Reconcile, ReconcileFrom,
         RetryDocument, RetryRead, WebhookBegin
    <3> QED BY <3>1, <1>3
  <2>2. ASSUME u = t, NEW s \in Sales, Claim(t, s) \/ RetryRead(t, s) PROVE FALSE
    BY <2>2, <1>4, <1>5 DEF Claim, ClaimFrom, RetryRead, Task
  <2>3. ASSUME u = t, NEW s \in Sales, Reconcile(t, s) PROVE Known(d)'
    <3>1. venta[s].doc \in Keys /\ Exists(venta[s].doc)
      BY <2>3 DEF Reconcile, ReconcileFrom, TypeInv, TypeOK, VentaRows, MirrorInv, SalesLinked
    <3>2. d.key = venta[s].doc /\ d.status = billing'[d.key].status /\ billing' = billing
      BY <2>3, <3>1, <1>5 DEF Reconcile, ReconcileFrom, Snapshot, Task, Exists
    <3> QED BY <3>1, <3>2, <1>2 DEF Exists
  <2>4. ASSUME u = t, NEW s \in Sales, RetryDocument(t, s) PROVE Known(d)'
    <3>1. venta[s].doc \in Keys /\ Exists(venta[s].doc)
      BY <2>4 DEF RetryDocument, TypeInv, TypeOK, VentaRows, MirrorInv, SalesLinked
    <3>2. d.key = venta[s].doc /\ d.status = billing'[d.key].status
      BY <2>4, <3>1, <1>5 DEF RetryDocument, Task
    <3>3. billing'[d.key].status # "NONE" BY <3>1, <3>2, BillingKeeps DEF Exists
    <3> QED BY <3>1, <3>2, <3>3, <1>2
  <2>5. ASSUME u = t, NEW e \in sent, WebhookBegin(t, e) PROVE Known(d)'
    BY <2>5, <1>5, <1>3 DEF WebhookBegin, Task
  <2> QED BY <1>7, <2>1, <2>2, <2>3, <2>4, <2>5 DEF ThreadStart, ClaimForPrint
<1>8. CASE UNCHANGED thread BY <1>8, <1>3
<1>9. CASE Crash BY <1>9, <1>4 DEF Crash
<1> QED BY <1>6, <1>7, <1>8, <1>9 DEF Next, vars, Enqueue, BillingAdvances

\* No step lets a sale say more than Billing does.
LEMMA MirrorNext ==
  ASSUME TypeInv, MirrorInv, [Next]_vars
  PROVE  MirrorInv'
<1>0. TypeInv' BY TypeNext
<1>1. ASSUME NEW s \in Sales
      PROVE  /\ venta'[s].doc # NoDoc =>
                  venta'[s].doc[1] = s /\ billing'[venta'[s].doc].status # "NONE"
             /\ venta'[s].status \in AcceptedStatuses =>
                  /\ venta'[s].doc \in Keys /\ venta'[s].doc[1] = s
                  /\ billing'[venta'[s].doc].status \in AcceptedStatuses
  <2>1. CASE /\ venta'[s].doc = venta[s].doc
             /\ venta'[s].status \in AcceptedStatuses => venta'[s].status = venta[s].status
    BY <2>1, BillingKeeps DEF MirrorInv, SalesLinked, NoFalseAcceptance, Exists,
       TypeInv, TypeOK, VentaRows
  <2>2. ASSUME NEW t \in Threads, ApplyWrite(t), thread[t].sale = s
        PROVE  /\ venta'[s].doc # NoDoc =>
                    venta'[s].doc[1] = s /\ billing'[venta'[s].doc].status # "NONE"
               /\ venta'[s].status \in AcceptedStatuses =>
                    /\ venta'[s].doc \in Keys /\ venta'[s].doc[1] = s
                    /\ billing'[venta'[s].doc].status \in AcceptedStatuses
    <3> DEFINE d == thread[t].doc
    <3>1. d \in Docs /\ d.key[1] = s /\ d # NoDoc
      BY <2>2, NullAssumption DEF ApplyWrite, TypeInv, ThreadsHold, Holding
    <3>2. Exists(d.key) /\ (d.status \in AcceptedStatuses =>
                              billing[d.key].status \in AcceptedStatuses)
      BY <3>1 DEF MirrorInv, SnapshotsKnown, Known
    <3>3. normalizeStatus(d.status) \in AcceptedStatuses => d.status \in AcceptedStatuses
      BY DEF normalizeStatus, AcceptedStatuses
    <3>4. /\ venta'[s].doc = d.key /\ venta'[s].status = normalizeStatus(d.status)
          /\ billing' = billing
      BY <2>2 DEF ApplyWrite, TypeInv, TypeOK
    <3> QED BY <3>1, <3>2, <3>3, <3>4 DEF Docs, Exists
  <2>3. CASE \E t \in Threads : HandleFailure(t)
    BY <2>3, <2>1 DEF HandleFailure, AcceptedStatuses, TypeInv, TypeOK, VentaRows
  <2>4. CASE \E u \in Sales : Enqueue(u)
    BY <2>4, <2>1 DEF Enqueue, AcceptedStatuses, TypeInv, TypeOK, VentaRows
  <2>5. CASE \E t \in Threads : ApplyWrite(t) /\ thread[t].sale # s
    BY <2>5, <2>1 DEF ApplyWrite, TypeInv, TypeOK
  <2>6. CASE UNCHANGED venta BY <2>6, <2>1
  <2> QED BY ZenonT(40), <2>2, <2>3, <2>4, <2>5, <2>6
    DEF Next, vars, ThreadStep, ThreadStart, ClaimForPrint, ProcessStep, PostAnswered,
        PostAnswerLost, PostFailed, MarkDone, ApplyRead, StoreError,
        WebhookRelease, RetryRequeue, Claim, ClaimFrom, Reconcile, ReconcileFrom,
        RetryDocument, RetryRead, WebhookBegin, BillingAdvances, Crash,
        UncaughtError
<1>2. SnapshotsKnown'
  <2>1. ASSUME NEW t \in Threads, thread'[t].doc # NoDoc PROVE Known(thread[t].doc)'
    <3>1. thread'[t].doc \in Docs BY <1>0, <2>1 DEF TypeInv, TypeOK, ThreadStates
    <3> QED BY <3>1, ThreadsLearn
  <2>2. ASSUME NEW e \in Docs, e \in sent' PROVE Known(e)'
    <3>1. CASE e \in sent BY <3>1, KnownStays DEF MirrorInv, SnapshotsKnown
    <3>2. CASE e \notin sent
      <4>1. PICK k \in Keys, status \in DocStatuses : BillingAdvances(k, status)
        BY ZenonT(40), <2>2, <3>2
        DEF Next, vars, ThreadStep, ThreadStart, ClaimForPrint, ProcessStep, PostAnswered,
            PostAnswerLost, PostFailed, MarkDone, HandleFailure, ApplyRead,
            ApplyWrite, StoreError, WebhookRelease, RetryRequeue, Claim, ClaimFrom,
            Reconcile, ReconcileFrom, RetryDocument, RetryRead, WebhookBegin,
            Crash, UncaughtError, Enqueue
      <4>2. e.key = k /\ e.status = status /\ billing'[k].status = status
        BY <2>2, <3>2, <4>1 DEF BillingAdvances, TypeInv, TypeOK
      <4>3. status # "NONE"
        BY EmissionAssumption DEF Statuses, OpenStatuses, AcceptedStatuses,
           FailedStatuses, NewStatuses
      <4> QED BY <4>2, <4>3 DEF Known, Exists
    <3> QED BY <3>1, <3>2
  <2> QED BY <2>1, <2>2, <1>0 DEF SnapshotsKnown, TypeInv, TypeOK
<1>3. OneKey' BY BillingKeeps DEF MirrorInv, OneKey
<1>4. DoneHasDocument'
  <2> SUFFICES ASSUME NEW s \in Sales, outbox'[s].status = "DONE"
               PROVE  \E k \in Keys : k[1] = s /\ Exists(k)'
    BY DEF DoneHasDocument
  <2>1. CASE outbox[s].status = "DONE" BY <2>1, BillingKeeps DEF MirrorInv, DoneHasDocument
  <2>2. CASE \E t \in Threads : MarkDone(t) /\ thread[t].sale = s
    <3>1. PICK t \in Threads : MarkDone(t) /\ thread[t].sale = s BY <2>2
    <3>2. thread[t].doc \in Docs /\ thread[t].doc.key[1] = s /\ thread[t].doc # NoDoc
      BY <3>1, NullAssumption DEF MarkDone, At, TypeInv, ThreadsHold, Holding
    <3>3. Exists(thread[t].doc.key) /\ billing' = billing
      BY <3>1, <3>2 DEF MirrorInv, SnapshotsKnown, Known, MarkDone
    <3> QED BY <3>2, <3>3 DEF Docs, Exists
  <2>3. CASE outbox[s].status # "DONE" /\ ~(\E t \in Threads : MarkDone(t) /\ thread[t].sale = s)
    <3>1. outbox'[s] = outbox[s] \/ outbox'[s].status # "DONE"
      <4>1. ASSUME NEW t \in Threads, MarkDone(t) PROVE outbox'[s] = outbox[s]
        BY <4>1, <2>3 DEF MarkDone, TypeInv, TypeOK
      <4>2. ASSUME NEW t \in Threads, HandleFailure(t)
            PROVE  outbox'[s] = outbox[s] \/ outbox'[s].status # "DONE"
        BY <4>2 DEF HandleFailure, JobAfterFailure, TypeInv, TypeOK, OutboxRows
      <4>3. ASSUME NEW t \in Threads, RetryRequeue(t)
            PROVE  outbox'[s] = outbox[s] \/ outbox'[s].status # "DONE"
        BY <4>3 DEF RetryRequeue, TypeInv, TypeOK, OutboxRows
      <4>4. ASSUME NEW t \in Threads, NEW u \in Sales, Claim(t, u)
            PROVE  outbox'[s] = outbox[s] \/ outbox'[s].status # "DONE"
        BY <4>4 DEF Claim, ClaimFrom, TypeInv, TypeOK, OutboxRows
      <4>5. ASSUME NEW u \in Sales, Enqueue(u)
            PROVE  outbox'[s] = outbox[s] \/ outbox'[s].status # "DONE"
        BY <4>5 DEF Enqueue, TypeInv, TypeOK, OutboxRows
      <4>6. CASE UNCHANGED outbox BY <4>6
      <4> QED BY <4>1, <4>2, <4>3, <4>4, <4>5, <4>6
        DEF Next, vars, ThreadStep, ThreadStart, ClaimForPrint, ProcessStep, PostAnswered,
            PostAnswerLost, PostFailed, ApplyRead, ApplyWrite, StoreError,
            WebhookRelease, Reconcile, ReconcileFrom, RetryDocument, RetryRead,
            WebhookBegin, BillingAdvances, Crash, UncaughtError
    <3> QED BY <2>3, <3>1
  <2> QED BY <2>1, <2>2, <2>3
<1> QED BY <1>1, <1>2, <1>3, <1>4 DEF MirrorInv, SalesLinked, NoFalseAcceptance, Exists
----------------------------------------
(* The theorems about the documents.                                       *)

\* The types and the mirror hold in every reachable state.
LEMMA BaseInvariant == Spec => [](TypeInv /\ MirrorInv)
<1>1. Init => TypeInv /\ MirrorInv BY TypeInit, MirrorInit
<1>2. TypeInv /\ MirrorInv /\ [Next]_vars => (TypeInv /\ MirrorInv)' BY TypeNext, MirrorNext
<1> QED BY <1>1, <1>2, PTL DEF Spec

\* Every variable keeps its type; in particular only statuses a sale's column
\* can hold are stored in it.
THEOREM TypeCorrect == Spec => []TypeOK
  BY BaseInvariant, PTL DEF TypeInv

\* Retries, lost answers, concurrent workers and crashes never give a sale a
\* second fiscal document.
THEOREM OneDocument == Spec => []OneDocumentPerSale
<1>1. TypeInv /\ MirrorInv => OneDocumentPerSale BY DEF MirrorInv, OneKey, OneDocumentPerSale, Keys
<1> QED BY <1>1, BaseInvariant, PTL

\* A sale shows an acceptance only if Billing holds its document accepted.
THEOREM AcceptanceIsReal == Spec => []NoFalseAcceptance
<1>1. TypeInv /\ MirrorInv => NoFalseAcceptance BY DEF MirrorInv
<1> QED BY <1>1, BaseInvariant, PTL

\* No sale leaves the queue as DONE without its document being at Billing.
THEOREM DoneIsIssued == Spec => []DoneHasDocument
<1>1. TypeInv /\ MirrorInv => DoneHasDocument BY DEF MirrorInv
<1> QED BY <1>1, BaseInvariant, PTL

----------------------------------------
(* The queue. A sale nobody retried is handled by one thread at a time,    *)
(* whose step tells the status of the row and whose copy of the attempts   *)
(* is the row's.                                                           *)

Working(t, s) ==
  /\ thread[t].attempts = outbox[s].attempts
  /\ thread[t].step \in {"claimed", "answered", "applying", "writing", "failing"}
  /\ thread[t].step \in {"claimed", "answered"} => outbox[s].status = "PROCESSING"
  /\ thread[t].step \in {"applying", "writing"} => outbox[s].status = "DONE"
  /\ outbox[s].status \in {"PROCESSING", "DONE"}

QueueInv(s) ==
  /\ \A t \in Processing(s) : Working(t, s)
  /\ \A t1, t2 \in Processing(s) : t1 = t2
  /\ outbox[s].status = "PROCESSING" /\ faults = 0 => Processing(s) # {}
  /\ outbox[s].attempts <= MaxAttempts
  /\ outbox[s].status \in {"PENDING", "RETRY", "ABSENT"} =>
       outbox[s].attempts < MaxAttempts

RequeueAsked ==
  \A t \in Threads : thread[t].step = "requeue" =>
    thread[t].task = "retry" /\ thread[t].sale \in retried

WorkInv == RequeueAsked /\ \A s \in Sales : s \notin retried => QueueInv(s)

\* At the start every job that is held has its holder.
LEMMA WorkInit == Init => WorkInv
  BY EmissionAssumption
  DEF Init, WorkInv, RequeueAsked, QueueInv, Processing, Idle, Task

\* A step of a thread that works on something else.
LEMMA OtherThread ==
  ASSUME TypeInv, NEW s \in Sales, QueueInv(s), NEW t \in Threads,
         t \notin Processing(s),
         \A v \in Threads \ {t} : thread'[v] = thread[v],
         ~(thread'[t].task = "process" /\ thread'[t].sale = s),
         outbox'[s] = outbox[s], faults' = 0 => faults = 0
  PROVE  QueueInv(s)'
<1>1. Processing(s)' = Processing(s) BY DEF Processing, TypeInv, TypeOK
<1>2. \A u \in Processing(s) : thread'[u] = thread[u] BY DEF TypeInv, TypeOK, Processing
<1> QED BY <1>1, <1>2 DEF QueueInv, Working

\* A step of the thread that works on the sale, after which it still does.
LEMMA WorkerGoesOn ==
  ASSUME TypeInv, NEW s \in Sales, QueueInv(s), NEW t \in Processing(s),
         NEW r, thread' = [thread EXCEPT ![t] = r],
         r.task = "process", r.sale = s, r.attempts = thread[t].attempts,
         r.step \in {"claimed", "answered", "applying", "writing", "failing"},
         outbox'[s].attempts = outbox[s].attempts,
         outbox'[s].status \in {"PROCESSING", "DONE"},
         r.step \in {"claimed", "answered"} => outbox'[s].status = "PROCESSING",
         r.step \in {"applying", "writing"} => outbox'[s].status = "DONE"
  PROVE  QueueInv(s)'
<1>1. Processing(s) = {t} /\ t \in Threads BY DEF QueueInv, Processing
<1>2. Processing(s)' = {t} /\ thread'[t] = r BY <1>1 DEF Processing, TypeInv, TypeOK
<1> QED BY <1>1, <1>2 DEF QueueInv, Working

\* The step with which it stops working on it.
LEMMA WorkerEnds ==
  ASSUME TypeInv, NEW s \in Sales, QueueInv(s), NEW t \in Processing(s),
         thread' = [thread EXCEPT ![t] = Idle],
         outbox'[s].attempts = outbox[s].attempts,
         outbox'[s].status \in {"RETRY", "DEAD", "DONE"} \/ faults' # 0,
         outbox'[s].status \in {"PENDING", "RETRY", "ABSENT"} =>
           outbox[s].attempts < MaxAttempts
  PROVE  QueueInv(s)'
<1>1. Processing(s) = {t} /\ t \in Threads BY DEF QueueInv, Processing
<1>2. Processing(s)' = {} BY <1>1 DEF Processing, TypeInv, TypeOK, Idle, Task
<1> QED BY <1>1, <1>2 DEF QueueInv, Working

\* Every step keeps a job held by one thread, which is in the middle of it.
LEMMA WorkNext ==
  ASSUME TypeInv, MirrorInv, WorkInv, [Next]_vars
  PROVE  WorkInv'
<1>1. RequeueAsked'
  <2> SUFFICES ASSUME NEW t \in Threads, thread'[t].step = "requeue"
               PROVE  thread'[t].task = "retry" /\ thread'[t].sale \in retried'
    BY DEF RequeueAsked
  <2>0. thread \in [Threads -> ThreadStates] /\ retried \subseteq retried'
        /\ Idle.step # "requeue"
    BY ZenonT(40) DEF Idle, Task, TypeInv, TypeOK, Next, vars, ThreadStep, ThreadStart, ClaimForPrint, ProcessStep,
       Enqueue, PostAnswered, PostAnswerLost, PostFailed,
     MarkDone, HandleFailure, ApplyRead, ApplyWrite, StoreError, WebhookRelease,
     RetryRequeue, Claim, ClaimFrom, Reconcile, ReconcileFrom, RetryRead,
     WebhookBegin, Crash, UncaughtError, RetryDocument, BillingAdvances
  <2>1. CASE thread'[t] = thread[t] BY <2>0, <2>1 DEF WorkInv, RequeueAsked
  <2>2. CASE \E s \in Sales : RetryRead(t, s) BY <2>0, <2>2 DEF RetryRead, Task
  <2>3. ASSUME NEW v \in Threads, ThreadStep(v) \/ UncaughtError(v)
        PROVE  thread'[t] = thread[t] \/ thread'[t].step # "requeue"
    <3>1. CASE PostAnswered(v) BY <2>0, <3>1 DEF PostAnswered, ThreadStates
    <3>2. CASE Return(v) BY <2>0, <3>2 DEF Return
    <3>3. CASE \E step \in Steps \ {"requeue"} : Goto(v, step) BY <2>0, <3>3 DEF Goto, ThreadStates
    <3>4. CASE \E retryable \in BOOLEAN : FailWith(v, retryable)
      BY <2>0, <3>4 DEF FailWith, ThreadStates
    <3> QED BY <2>3, <3>1, <3>2, <3>3, <3>4, Literals
      DEF ThreadStep, ProcessStep, PostAnswerLost, PostFailed, MarkDone,
          HandleFailure, ApplyRead, ApplyWrite, StoreError, WebhookRelease,
          RetryRequeue, UncaughtError
  <2>4. ASSUME NEW v \in Threads, NEW s \in Sales,
               Claim(v, s) \/ Reconcile(v, s) \/ RetryDocument(v, s)
        PROVE  thread'[t] = thread[t] \/ thread'[t].step # "requeue"
    BY <2>0, <2>4 DEF Claim, ClaimFrom, Reconcile, ReconcileFrom, RetryDocument, Task
  <2>5. ASSUME NEW v \in Threads, NEW e \in sent, WebhookBegin(v, e)
        PROVE  thread'[t] = thread[t] \/ thread'[t].step # "requeue"
    BY <2>0, <2>5 DEF WebhookBegin, Task
  <2>6. ASSUME NEW v \in Threads, NEW s \in Sales, RetryRead(v, s), v # t
        PROVE  thread'[t] = thread[t]
    BY <2>0, <2>6 DEF RetryRead
  <2>7. CASE Crash BY <2>0, <2>7 DEF Crash
  <2>8. CASE UNCHANGED thread BY <2>1, <2>8
  <2> QED BY <2>1, <2>2, <2>3, <2>4, <2>5, <2>6, <2>7, <2>8
    DEF Next, vars, ThreadStart, ClaimForPrint, Enqueue, BillingAdvances
<1>2. ASSUME NEW s \in Sales, s \notin retried' PROVE QueueInv(s)'
  <2>1. s \notin retried
    BY ZenonT(40), <1>2 DEF Next, vars, ThreadStep, ThreadStart, ClaimForPrint, ProcessStep, Enqueue, PostAnswered,
     PostAnswerLost, PostFailed,
     MarkDone, HandleFailure, ApplyRead, ApplyWrite, StoreError, WebhookRelease,
     RetryRequeue, Claim, ClaimFrom, Reconcile, ReconcileFrom, RetryRead,
     WebhookBegin, Crash, UncaughtError, RetryDocument, BillingAdvances
  <2>q. QueueInv(s) BY <2>1 DEF WorkInv
  <2>i. Idle.task # "process" /\ \A t \in Threads : thread[t] \in ThreadStates
    BY DEF Idle, Task, TypeInv, TypeOK
  <2>p. \A t \in Processing(s) :
          /\ t \in Threads /\ Working(t, s)
          /\ thread[t].task = "process" /\ thread[t].sale = s
    BY <2>q DEF QueueInv, Processing
  <2>2. ASSUME NEW t \in Threads, ProcessStep(t) PROVE QueueInv(s)'
    <3> DEFINE u == thread[t].sale
    <3>0. thread[t].task = "process" /\ faults' = faults
      BY <2>2 DEF ProcessStep, PostAnswered, PostAnswerLost, PostFailed, MarkDone,
         HandleFailure, At
    <3>1. CASE t \notin Processing(s)
      <4>1. /\ \A v \in Threads \ {t} : thread'[v] = thread[v]
            /\ thread'[t] = Idle \/ thread'[t].sale = u
        <5>1. CASE HandleFailure(t) BY <5>1 DEF HandleFailure, Return, TypeInv, TypeOK
        <5>2. CASE MarkDone(t) BY <5>2, <2>i DEF MarkDone, Goto, ThreadStates, TypeInv, TypeOK
        <5>3. CASE PostAnswered(t) BY <5>3, <2>i DEF PostAnswered, ThreadStates, TypeInv, TypeOK
        <5>4. CASE \E retryable \in BOOLEAN : FailWith(t, retryable)
          BY <5>4, <2>i DEF FailWith, ThreadStates, TypeInv, TypeOK
        <5> QED BY <2>2, <5>1, <5>2, <5>3, <5>4 DEF ProcessStep, PostAnswerLost, PostFailed
      <4>2. u # s BY <3>0, <3>1 DEF Processing
      <4>3. outbox'[s] = outbox[s]
        BY <2>2, <4>2 DEF ProcessStep, PostAnswered, PostAnswerLost, PostFailed,
           MarkDone, HandleFailure, TypeInv, TypeOK
      <4> QED BY <4>1, <4>2, <4>3, <3>0, <3>1, <2>q, <2>i, OtherThread
    <3>2. CASE t \in Processing(s)
      <4>1. CASE PostAnswered(t)
        <5> DEFINE k == IdempotencyKey(thread[t].sale, thread[t].attempts)
                   r == [thread[t] EXCEPT !.step = "answered",
                           !.doc = [key |-> k, status |-> billing'[k].status,
                                    at |-> billing'[k].at]]
        <5>1. thread' = [thread EXCEPT ![t] = r] /\ outbox' = outbox BY <4>1 DEF PostAnswered
        <5>2. r.task = "process" /\ r.sale = s /\ r.attempts = thread[t].attempts
              /\ r.step = "answered" /\ outbox[s].status = "PROCESSING"
          BY <3>2, <2>p, <2>i, <4>1 DEF Working, PostAnswered, At, ThreadStates
        <5> HIDE DEF r
        <5> QED BY <5>1, <5>2, <3>2, <2>q, WorkerGoesOn
      <4>2. CASE PostAnswerLost(t) \/ \E retryable \in BOOLEAN : PostFailed(t, retryable)
        <5>1. PICK b \in BOOLEAN : FailWith(t, b) /\ outbox' = outbox
          BY <4>2 DEF PostAnswerLost, PostFailed
        <5> DEFINE r == [thread[t] EXCEPT !.step = "failing", !.retryable = b]
        <5>2. r.task = "process" /\ r.sale = s /\ r.attempts = thread[t].attempts
              /\ r.step = "failing" /\ outbox[s].status \in {"PROCESSING", "DONE"}
          BY <3>2, <2>p, <2>i DEF Working, ThreadStates
        <5>3. thread' = [thread EXCEPT ![t] = r] BY <5>1 DEF FailWith
        <5> HIDE DEF r
        <5> QED BY <5>1, <5>2, <5>3, <3>2, <2>q, WorkerGoesOn
      <4>3. CASE MarkDone(t)
        <5> DEFINE r == [thread[t] EXCEPT !.step = "applying"]
        <5>1. thread' = [thread EXCEPT ![t] = r] BY <4>3 DEF MarkDone, Goto
        <5>2. r.task = "process" /\ r.sale = s /\ r.attempts = thread[t].attempts
              /\ r.step = "applying"
          BY <3>2, <2>p, <2>i DEF ThreadStates
        <5>3. outbox'[s].attempts = outbox[s].attempts /\ outbox'[s].status = "DONE"
          BY <4>3, <3>2, <2>p DEF MarkDone, TypeInv, TypeOK, OutboxRows
        <5> HIDE DEF r
        <5> QED BY <5>1, <5>2, <5>3, <3>2, <2>q, WorkerGoesOn
      <4>4. CASE HandleFailure(t)
        <5>1. /\ outbox'[s].attempts = outbox[s].attempts
              /\ outbox'[s].status = JobAfterFailure(IsDead(t))
          BY <4>4, <3>2, <2>p DEF HandleFailure, TypeInv, TypeOK, OutboxRows
        <5>2. outbox'[s].status = "RETRY" => outbox[s].attempts < MaxAttempts
          BY <5>1, <3>2, <2>p, EmissionAssumption
          DEF JobAfterFailure, IsDead, Working, TypeInv, TypeOK, OutboxRows
        <5>3. outbox'[s].status \in {"RETRY", "DEAD"} BY <5>1 DEF JobAfterFailure
        <5>4. thread' = [thread EXCEPT ![t] = Idle] BY <4>4 DEF HandleFailure, Return
        <5> QED BY <5>1, <5>2, <5>3, <5>4, <3>2, <2>q, WorkerEnds
      <4> QED BY <2>2, <4>1, <4>2, <4>3, <4>4 DEF ProcessStep
    <3> QED BY <3>1, <3>2
  <2>3. ASSUME NEW t \in Threads, ApplyRead(t) \/ ApplyWrite(t) \/ StoreError(t)
        PROVE  QueueInv(s)'
    <3>0. outbox' = outbox /\ faults' = faults BY <2>3 DEF ApplyRead, ApplyWrite, StoreError
    <3>1. CASE Return(t) /\ t \notin Processing(s)
      BY <3>0, <3>1, <2>q, <2>i, OtherThread DEF Return, TypeInv, TypeOK
    <3>2. CASE Return(t) /\ t \in Processing(s)
      <4>1. thread[t].step \in {"applying", "writing"}
        <5>1. ASSUME StoreError(t) PROVE FALSE
          <6>1. FailWith(t, TRUE) /\ thread[t].task = "process" BY <5>1, <3>2, <2>p DEF StoreError
          <6>2. thread'[t].task = "process"
            BY <6>1, <2>i, <3>2, <2>p DEF FailWith, ThreadStates, TypeInv, TypeOK
          <6>3. thread'[t] = Idle BY <3>2, <2>p DEF Return, TypeInv, TypeOK
          <6> QED BY <6>2, <6>3, <2>i
        <5> QED BY <2>3, <5>1 DEF ApplyRead, ApplyWrite
      <4>2. outbox[s].status = "DONE" BY <4>1, <3>2, <2>p DEF Working
      <4> QED BY <3>0, <3>2, <4>2, <2>q, WorkerEnds DEF Return
    <3>3. CASE ApplyRead(t) /\ Goto(t, "writing")
      <4> DEFINE r == [thread[t] EXCEPT !.step = "writing"]
      <4>1. /\ r.task = thread[t].task /\ r.sale = thread[t].sale
            /\ r.attempts = thread[t].attempts /\ r.step = "writing"
            /\ thread' = [thread EXCEPT ![t] = r]
        BY <3>3, <2>i DEF Goto, ThreadStates
      <4> HIDE DEF r
      <4>2. CASE t \notin Processing(s)
        BY <3>0, <4>1, <4>2, <2>q, OtherThread DEF Processing, TypeInv, TypeOK
      <4>3. CASE t \in Processing(s)
        <5>1. outbox[s].status = "DONE" BY <3>3, <4>3, <2>p DEF Working, ApplyRead
        <5> QED BY <3>0, <4>1, <4>3, <5>1, <2>p, <2>q, WorkerGoesOn
      <4> QED BY <4>2, <4>3
    <3>4. CASE StoreError(t) /\ FailWith(t, TRUE)
      <4> DEFINE r == [thread[t] EXCEPT !.step = "failing", !.retryable = TRUE]
      <4>1. /\ r.task = thread[t].task /\ r.sale = thread[t].sale
            /\ r.attempts = thread[t].attempts /\ r.step = "failing"
            /\ thread' = [thread EXCEPT ![t] = r]
        BY <3>4, <2>i DEF FailWith, ThreadStates
      <4> HIDE DEF r
      <4>2. CASE t \notin Processing(s)
        BY <3>0, <4>1, <4>2, <2>q, OtherThread DEF Processing, TypeInv, TypeOK
      <4>3. CASE t \in Processing(s) BY <3>0, <4>1, <4>3, <2>p, <2>q, WorkerGoesOn DEF Working
      <4> QED BY <4>2, <4>3
    <3>5. CASE thread[t].task = "webhook" /\ Goto(t, "releasing")
      <4>1. t \notin Processing(s) BY <3>5 DEF Processing
      <4>2. thread'[t].task = "webhook"
            /\ \A v \in Threads \ {t} : thread'[v] = thread[v]
        BY <3>5, <2>i DEF Goto, TypeInv, TypeOK, ThreadStates
      <4> QED BY <3>0, <4>1, <4>2, <2>q, OtherThread
    <3> QED BY <2>3, <3>1, <3>2, <3>3, <3>4, <3>5 DEF ApplyRead, ApplyWrite, StoreError
  <2>4. ASSUME NEW t \in Threads, WebhookRelease(t) \/ RetryRequeue(t) PROVE QueueInv(s)'
    <3>1. t \notin Processing(s) /\ faults' = faults /\ Return(t)
      BY <2>4 DEF WebhookRelease, RetryRequeue, At, Processing
    <3>2. outbox'[s] = outbox[s]
      <4>1. CASE WebhookRelease(t) BY <4>1 DEF WebhookRelease
      <4>2. CASE RetryRequeue(t)
        BY <4>2, <2>1 DEF RetryRequeue, At, WorkInv, RequeueAsked, TypeInv, TypeOK
      <4> QED BY <2>4, <4>1, <4>2
    <3> QED BY <3>1, <3>2, <2>q, <2>i, OtherThread DEF Return, TypeInv, TypeOK
  <2>5. ASSUME NEW t \in Threads, UncaughtError(t) PROVE QueueInv(s)'
    <3>1. outbox' = outbox /\ faults' # 0 /\ Return(t)
      BY <2>5, EmissionAssumption DEF UncaughtError, TypeInv, TypeOK
    <3>2. CASE t \notin Processing(s)
      BY <3>1, <3>2, <2>q, <2>i, OtherThread DEF Return, TypeInv, TypeOK
    <3>3. CASE t \in Processing(s) BY <3>1, <3>3, <2>p, <2>q, WorkerEnds DEF Return, Working
    <3> QED BY <3>2, <3>3
  <2>6. ASSUME NEW t \in Threads, NEW u \in Sales, Claim(t, u), u = s PROVE QueueInv(s)'
    <3>1. Processing(s) = {} BY <2>6, <2>p DEF Claim, ClaimFrom, Working, Processing
    <3>2. /\ thread'[t].task = "process" /\ thread'[t].sale = s
          /\ thread'[t].step = "claimed" /\ thread'[t].attempts = outbox[s].attempts + 1
          /\ \A v \in Threads \ {t} : thread'[v] = thread[v]
      BY <2>6 DEF Claim, ClaimFrom, Task, TypeInv, TypeOK
    <3>3. Processing(s)' = {t} BY <3>1, <3>2 DEF Processing
    <3>4. outbox'[s] = [status |-> "PROCESSING", attempts |-> outbox[s].attempts + 1]
          /\ faults' = faults
      BY <2>6 DEF Claim, ClaimFrom, TypeInv, TypeOK
    <3>5. outbox[s].attempts + 1 <= MaxAttempts
      BY <2>6, <2>q, EmissionAssumption DEF Claim, ClaimFrom, QueueInv, TypeInv, TypeOK, OutboxRows
    <3> QED BY <3>2, <3>3, <3>4, <3>5 DEF QueueInv, Working
  <2>7. ASSUME NEW t \in Threads, NEW u \in Sales, ThreadStart(t),
               ~(Claim(t, s)) PROVE QueueInv(s)'
    <3>1. t \notin Processing(s)
      BY <2>7, <2>i DEF ThreadStart, ClaimForPrint, Claim, ClaimFrom, Reconcile, ReconcileFrom,
         RetryDocument, RetryRead, WebhookBegin, Processing
    <3>2. \A v \in Threads \ {t} : thread'[v] = thread[v]
      BY <2>7 DEF ThreadStart, ClaimForPrint, Claim, ClaimFrom, Reconcile, ReconcileFrom,
         RetryDocument, RetryRead, WebhookBegin, TypeInv, TypeOK
    <3>3. ~(thread'[t].task = "process" /\ thread'[t].sale = s)
      <4>1. ASSUME NEW w \in Sales, w # s, Claim(t, w) PROVE thread'[t].sale # s
        BY <4>1 DEF Claim, ClaimFrom, Task, TypeInv, TypeOK
      <4>2. ASSUME NEW w \in Sales, Reconcile(t, w) \/ RetryDocument(t, w) \/ RetryRead(t, w)
            PROVE  thread'[t].task # "process"
        BY <4>2 DEF Reconcile, ReconcileFrom, RetryDocument, RetryRead, Task, TypeInv, TypeOK
      <4>3. ASSUME NEW e \in sent, WebhookBegin(t, e) PROVE thread'[t].task # "process"
        BY <4>3 DEF WebhookBegin, Task, TypeInv, TypeOK
      <4> QED BY <2>7, <4>1, <4>2, <4>3 DEF ThreadStart, ClaimForPrint
    <3>4. outbox'[s] = outbox[s] /\ faults' = faults
      BY <2>7 DEF ThreadStart, ClaimForPrint, Claim, ClaimFrom, Reconcile, ReconcileFrom,
         RetryDocument, RetryRead, WebhookBegin, TypeInv, TypeOK
    <3> QED BY <3>1, <3>2, <3>3, <3>4, <2>q, OtherThread
  <2>8. ASSUME NEW u \in Sales, Enqueue(u) PROVE QueueInv(s)'
    <3>1. Processing(s)' = Processing(s) /\ thread' = thread /\ faults' = faults
      BY <2>8 DEF Enqueue, Processing
    <3>2. CASE u # s BY <2>8, <3>1, <3>2, <2>q DEF Enqueue, QueueInv, Working, TypeInv, TypeOK
    <3>3. CASE u = s
      <4>1. Processing(s) = {} BY <2>8, <3>3, <2>p DEF Enqueue, Working, Processing
      <4>2. outbox'[s].status = "PENDING" /\ outbox'[s].attempts = outbox[s].attempts
            /\ outbox[s].status = "ABSENT"
        BY <2>8, <3>3 DEF Enqueue, TypeInv, TypeOK, OutboxRows
      <4> QED BY <3>1, <4>1, <4>2, <2>q DEF QueueInv
    <3> QED BY <3>2, <3>3
  <2>9. CASE Crash
    <3>1. Processing(s)' = {} /\ outbox' = outbox /\ faults' # 0
      BY <2>9, <2>i, EmissionAssumption DEF Crash, Processing, TypeInv, TypeOK
    <3> QED BY <3>1, <2>q DEF QueueInv, Working
  <2>10. CASE UNCHANGED <<thread, outbox, faults>> BY <2>10, <2>q DEF QueueInv, Working, Processing
  <2> QED BY <2>2, <2>3, <2>4, <2>5, <2>6, <2>7, <2>8, <2>9, <2>10
    DEF Next, vars, ThreadStep, BillingAdvances
<1> QED BY <1>1, <1>2 DEF WorkInv

\* The three together hold in every reachable state.
LEMMA QueueInvariant == Spec => [](TypeInv /\ MirrorInv /\ WorkInv)
<1>1. Init => TypeInv /\ MirrorInv /\ WorkInv BY TypeInit, MirrorInit, WorkInit
<1>2. TypeInv /\ MirrorInv /\ WorkInv /\ [Next]_vars => (TypeInv /\ MirrorInv /\ WorkInv)'
  BY TypeNext, MirrorNext, WorkNext
<1> QED BY <1>1, <1>2, PTL DEF Spec

\* Until an operator retries a sale, no two threads ever process it, and its
\* row is not left PROCESSING without a thread unless there was a fault.
THEOREM OneWorker == Spec => []OneWorkerPerSale
<1>1. TypeInv /\ MirrorInv /\ WorkInv => OneWorkerPerSale BY DEF WorkInv, QueueInv, OneWorkerPerSale
<1> QED BY <1>1, QueueInvariant, PTL

\* Until an operator retries a sale, it is attempted at most MaxAttempts times.
THEOREM BudgetKept == Spec => []RetryBudget
<1>1. TypeInv /\ MirrorInv /\ WorkInv => RetryBudget BY DEF WorkInv, QueueInv, RetryBudget
<1> QED BY <1>1, QueueInvariant, PTL
=============================================================================
