---------------------------- MODULE Accounts_proofs -------------------------
(***************************************************************************)
(* Proofs about BillingCreditNote, for any threads and bounds, and about   *)
(* Receivables, the account and the till of a sale, for any requests,      *)
(* payments, installments and sessions.                                    *)
(***************************************************************************)
EXTENDS BillingCreditNote, Receivables, FiniteSetTheorems, WellFoundedInduction, TLAPS

----------------------------------------
(* The inductive invariant.                                                *)

\* What a thread in the middle of something holds.
Good(r) ==
  /\ r.step \in {"applying", "writing", "releasing"} => r.doc \in Docs
  /\ r.step \in {"effects", "returning"} => r.doc.status \in AcceptedStatuses
  /\ r.step = "applied" => r.task = "process"

\* Nobody believes in an acceptance that Billing does not hold.
Known(x) == x.status \in AcceptedStatuses => billing.status \in AcceptedStatuses

KnownNext(x) == x.status \in AcceptedStatuses => billing'.status \in AcceptedStatuses

KnowledgeInv ==
  /\ \A t \in Threads : Good(thread[t]) /\ Known(thread[t].doc)
  /\ \A e \in events : Known(e)
  /\ Known(note)

\* The thread between the lock and the commit holds the lock, and the effects
\* it read as due are still due.
LockInv ==
  /\ \A t \in Threads : thread[t].step = "returning" <=> lock = t
  /\ lock # NoThread => ~note.effectsApplied

\* Nobody knows a document that Billing does not have.
DocumentKnown ==
  billing = NoDocument =>
    /\ ~note.doc
    /\ events = {}
    /\ \A t \in Threads : thread[t].doc = NoDocument

IInv ==
  /\ TypeOK
  /\ DocumentKnown
  /\ KnowledgeInv
  /\ LockInv
  /\ EffectsOnce
  /\ EffectsNeedAcceptance

----------------------------------------
(* Membership of the literals the actions write.                           *)

\* The states and steps that the model names are members of its sets.
LEMMA Literals ==
  /\ {"QUEUED", "RETRY_SCHEDULED", "FAILED"} \subseteq Statuses
  /\ {"QUEUED", "RETRY_SCHEDULED", "FAILED", "RECEIVED", "NONE"}
       \cap AcceptedStatuses = {}
  /\ JobStates = {"PENDING", "PROCESSING", "RETRY", "DONE", "DEAD"}
  /\ Tasks = {"none", "process", "webhook", "reconcile", "retry"}
  /\ Steps = {"idle", "claimed", "applying", "writing", "effects", "returning",
              "applied", "failing", "releasing", "requeue"}
  /\ "RECEIVED" \in DocStatuses
  /\ NoDocument \notin Docs
  /\ \A x \in DocStatuses :
       /\ normalizeStatus(x) \in Statuses
       /\ normalizeStatus(x) \in AcceptedStatuses => x \in AcceptedStatuses
  BY NoteAssumption DEF Statuses, OpenStatuses, AcceptedStatuses,
     FailedStatuses, NewStatuses, JobStates, Tasks, Steps, normalizeStatus,
     NoDocument, Docs

\* A thread at rest has its type and knows nothing.
LEMMA IdleGood ==
  /\ Idle \in ThreadStates
  /\ Idle.step = "idle"
  /\ Idle.doc = NoDocument
  /\ NoDocument.status = "NONE"
  BY NoteAssumption, Literals
  DEF Idle, Task, ThreadStates, NoDocument, BillingRows

\* A thread that starts a task has its type and knows what it starts from.
LEMMA TaskGood ==
  ASSUME NEW task \in Tasks, NEW step \in Steps, NEW d \in BillingRows
  PROVE  /\ Task(task, step, d) \in ThreadStates
         /\ Task(task, step, d).step = step
         /\ Task(task, step, d).doc = d
         /\ \A n \in 0..AttemptCap :
              LET r == [Task(task, step, d) EXCEPT !.attempts = n]
              IN  r \in ThreadStates /\ r.step = step /\ r.doc = d
<1> DEFINE r == [task |-> task, step |-> step, doc |-> d,
                 before |-> "QUEUED", attempts |-> 0, dead |-> FALSE]
<1>1. r \in ThreadStates BY NoteAssumption, Literals DEF ThreadStates
<1>2. \A n \in 0..AttemptCap :
        /\ [r EXCEPT !.attempts = n] \in ThreadStates
        /\ [r EXCEPT !.attempts = n].step = step
        /\ [r EXCEPT !.attempts = n].doc = d
  BY <1>1 DEF ThreadStates
<1> QED BY <1>1, <1>2 DEF Task

\* A clock that may still tick has a next stamp.
LEMMA Ticks ==
  ASSUME TypeOK, clock < MaxClock
  PROVE  clock + 1 \in Stamps
  BY NoteAssumption DEF TypeOK, Stamps

----------------------------------------
(* The invariant holds initially.                                          *)

\* A note that was just created satisfies the invariant.
LEMMA InvInit == Init => IInv
<1> SUFFICES ASSUME Init PROVE IInv OBVIOUS
<1>1. TypeOK
  BY NoteAssumption, IdleGood, Literals
  DEF Init, TypeOK, NoteRows, OutboxRows, BillingRows, Stamps
<1>2. KnowledgeInv BY IdleGood, Literals DEF Init, KnowledgeInv, Good, Known
<1>3. LockInv BY NoteAssumption, IdleGood DEF Init, LockInv
<1>4. EffectsOnce /\ EffectsNeedAcceptance BY DEF Init, EffectsOnce, EffectsNeedAcceptance
<1>5. DocumentKnown BY IdleGood DEF Init, DocumentKnown
<1> QED BY <1>1, <1>2, <1>3, <1>4, <1>5 DEF IInv

----------------------------------------
(* A step of one thread, outside the transaction of the effects, that gives *)
(* up no acceptance and invents none.                                      *)

\* A step outside the return of the goods, which leaves the effects of the note as they are.
LEMMA QuietStep ==
  ASSUME IInv, NEW t \in Threads, NEW q \in ThreadStates,
         thread[t].step # "returning", q.step # "returning",
         Good(q), thread' = [thread EXCEPT ![t] = q],
         lock' = lock, returned' = returned,
         note' \in NoteRows, note'.effectsApplied = note.effectsApplied,
         outbox' \in OutboxRows, billing' \in BillingRows,
         events' \subseteq Docs, clock' \in Stamps, faults' \in 0..MaxFaults,
         billing.status \in AcceptedStatuses => billing'.status \in AcceptedStatuses,
         KnownNext(q.doc), KnownNext(note'), \A e \in events' : KnownNext(e),
         billing' = NoDocument =>
           billing = NoDocument /\ ~note'.doc /\ events' = {} /\ q.doc = NoDocument
  PROVE  IInv'
<1>1. TypeOK' BY DEF IInv, TypeOK
<1>2. KnowledgeInv' BY DEF IInv, TypeOK, KnowledgeInv, Known, KnownNext, Good
<1>3. LockInv' BY DEF IInv, TypeOK, LockInv
<1>4. EffectsOnce' /\ EffectsNeedAcceptance' BY DEF IInv, EffectsOnce, EffectsNeedAcceptance
<1>5. DocumentKnown' BY DEF IInv, TypeOK, DocumentKnown
<1> QED BY <1>1, <1>2, <1>3, <1>4, <1>5 DEF IInv

\* The same, for a step that leaves the note and Billing as they are.
LEMMA ThreadOnly ==
  ASSUME IInv, NEW t \in Threads, NEW q \in ThreadStates,
         thread[t].step # "returning", q.step # "returning",
         Good(q), thread' = [thread EXCEPT ![t] = q],
         UNCHANGED <<note, lock, billing, returned>>,
         outbox' \in OutboxRows, clock' \in Stamps, faults' \in 0..MaxFaults,
         Known(q.doc), q.doc \in {thread[t].doc, NoDocument}, events' = events
  PROVE  IInv'
<1>1. /\ note' \in NoteRows /\ note'.effectsApplied = note.effectsApplied
      /\ billing' \in BillingRows /\ events' \subseteq Docs
      /\ billing.status \in AcceptedStatuses => billing'.status \in AcceptedStatuses
  BY DEF IInv, TypeOK
<1>2. KnownNext(q.doc) /\ KnownNext(note') /\ \A e \in events' : KnownNext(e)
  BY DEF IInv, KnowledgeInv, Known, KnownNext
<1>3. lock' = lock /\ returned' = returned OBVIOUS
<1>4. billing' = NoDocument =>
        billing = NoDocument /\ ~note'.doc /\ events' = {} /\ q.doc = NoDocument
  BY DEF IInv, DocumentKnown
<1> QED BY <1>1, <1>2, <1>3, <1>4, QuietStep

\* A thread done with a status goes on to its own end: the job, the webhook or nothing.
LEMMA AppliedMoves ==
  ASSUME IInv, NEW t \in Threads, Applied(t)
  PROVE  \E q \in ThreadStates :
           /\ thread' = [thread EXCEPT ![t] = q]
           /\ q.step \in {"applied", "idle"}
           /\ q.doc \in {thread[t].doc, NoDocument}
           /\ Good(q) /\ Known(q.doc)
<1>1. CASE thread[t].task = "process"
  <2> DEFINE q == [thread[t] EXCEPT !.step = "applied"]
  <2>1. /\ q \in ThreadStates /\ q.step = "applied" /\ q.doc = thread[t].doc
        /\ q.task = "process" /\ thread' = [thread EXCEPT ![t] = q]
    BY <1>1, Literals DEF IInv, TypeOK, Applied, Goto, ThreadStates
  <2>2. Good(q) /\ Known(q.doc) BY <2>1 DEF Good, IInv, KnowledgeInv
  <2> QED BY <2>1, <2>2
<1>2. CASE thread[t].task # "process"
  <2>1. thread' = [thread EXCEPT ![t] = Idle] BY <1>2 DEF Applied, Return
  <2>2. Good(Idle) /\ Known(Idle.doc) BY IdleGood, Literals DEF Good, Known, KnownNext
  <2> QED BY <2>1, <2>2, IdleGood
<1> QED BY <1>1, <1>2

\* What posting the note to Billing leaves.
LEMMA Stored ==
  ASSUME IInv, BillingStores
  PROVE  /\ billing' \in Docs /\ billing' # NoDocument /\ clock' \in Stamps
         /\ billing.status \in AcceptedStatuses => billing'.status \in AcceptedStatuses
  BY Literals, Ticks
  DEF IInv, TypeOK, BillingStores, BillingRows, Docs, NoDocument

----------------------------------------
(* Each action preserves the invariant.                                    *)

\* A call to Billing that fails moves one thread and writes nothing.
LEMMA FailStep ==
  ASSUME IInv, NEW t \in Threads, NEW b \in BOOLEAN, FailWith(t, b),
         thread[t].step # "returning",
         UNCHANGED <<note, outbox, lock, events, returned>>,
         billing' \in BillingRows, clock' \in Stamps, faults' \in 0..MaxFaults,
         billing.status \in AcceptedStatuses => billing'.status \in AcceptedStatuses,
         billing' = NoDocument => billing = NoDocument
  PROVE  IInv'
<1> DEFINE q == [thread[t] EXCEPT !.step = "failing", !.dead = b]
<1>1. thread[t] \in ThreadStates /\ "failing" \in Steps /\ "QUEUED" \in Statuses
  BY Literals DEF IInv, TypeOK
<1>2. q \in ThreadStates /\ q.step = "failing" /\ q.doc = thread[t].doc BY <1>1 DEF ThreadStates
<1>3. thread' = [thread EXCEPT ![t] = q] BY DEF FailWith
<1>4. Good(q) BY <1>2 DEF Good
<1>5. KnownNext(q.doc) /\ KnownNext(note') /\ \A e \in events' : KnownNext(e)
  BY <1>2 DEF IInv, KnowledgeInv, Known, KnownNext
<1>6. /\ note' \in NoteRows /\ note'.effectsApplied = note.effectsApplied
      /\ outbox' \in OutboxRows /\ events' \subseteq Docs
      /\ lock' = lock /\ returned' = returned
  BY DEF IInv, TypeOK
<1>7. billing' = NoDocument =>
        billing = NoDocument /\ ~note'.doc /\ events' = {} /\ q.doc = NoDocument
  BY <1>2 DEF IInv, DocumentKnown
<1> QED BY <1>2, <1>3, <1>4, <1>5, <1>6, <1>7, QuietStep

\* A thread that leaves the effects goes on, and writes nothing of theirs.
LEMMA ReturnStep ==
  ASSUME IInv, NEW t \in Threads, Return(t), thread[t].step # "returning",
         lock' = lock, returned' = returned, billing' = billing,
         note' \in NoteRows, note'.effectsApplied = note.effectsApplied,
         Known(note'), note'.doc = note.doc, outbox' \in OutboxRows,
         events' \subseteq events \cup ({thread[t].doc} \cap Docs),
         clock' \in Stamps, faults' \in 0..MaxFaults
  PROVE  IInv'
<1>1. Good(Idle) /\ KnownNext(Idle.doc) /\ Idle.step # "returning" /\ Idle \in ThreadStates
  BY IdleGood, Literals DEF Good, Known, KnownNext
<1>2. thread' = [thread EXCEPT ![t] = Idle] BY DEF Return
<1>3. KnownNext(note') /\ \A e \in events' : KnownNext(e)
  BY DEF IInv, KnowledgeInv, Known, KnownNext
<1>4. billing' \in BillingRows /\ events' \subseteq Docs BY DEF IInv, TypeOK
<1>5. billing.status \in AcceptedStatuses => billing'.status \in AcceptedStatuses OBVIOUS
<1>6. billing' = NoDocument =>
        billing = NoDocument /\ ~note'.doc /\ events' = {} /\ Idle.doc = NoDocument
  BY IdleGood, Literals DEF IInv, DocumentKnown
<1> QED BY <1>1, <1>2, <1>3, <1>4, <1>5, <1>6, QuietStep

\* The worker's steps on the job of the note keep the invariant.
LEMMA InvProcess ==
  ASSUME IInv, NEW t \in Threads,
         \/ PostAnswered(t) \/ PostAnswerLost(t)
         \/ \E retryable \in BOOLEAN : PostFailed(t, retryable)
         \/ MarkDone(t) \/ HandleFailure(t)
  PROVE  IInv'
<1>t. thread[t] \in ThreadStates /\ note \in NoteRows /\ outbox \in OutboxRows BY DEF IInv, TypeOK
<1>1. CASE PostAnswered(t)
  <2> DEFINE q == [thread[t] EXCEPT !.step = "applying", !.doc = billing']
  <2>1. thread[t].step = "claimed" /\ BillingStores /\ thread' = [thread EXCEPT ![t] = q]
        /\ UNCHANGED <<note, outbox, lock, events, returned, faults>>
    BY <1>1 DEF PostAnswered, At
  <2>2. /\ billing' \in Docs /\ billing' # NoDocument /\ clock' \in Stamps
        /\ billing.status \in AcceptedStatuses => billing'.status \in AcceptedStatuses
    BY <2>1, Stored
  <2>3. q \in ThreadStates /\ q.step = "applying" /\ q.doc = billing'
    BY <1>t, <2>2, Literals DEF ThreadStates, BillingRows
  <2>4. Good(q) /\ KnownNext(q.doc) BY <2>2, <2>3 DEF Good, Known, KnownNext
  <2>5. KnownNext(note') /\ \A e \in events' : KnownNext(e)
    BY <2>1, <2>2 DEF IInv, KnowledgeInv, Known, KnownNext
  <2>6. /\ note' \in NoteRows /\ note'.effectsApplied = note.effectsApplied
        /\ outbox' \in OutboxRows /\ events' \subseteq Docs /\ faults' \in 0..MaxFaults
        /\ billing' \in BillingRows /\ lock' = lock /\ returned' = returned
    BY <2>1, <2>2 DEF IInv, TypeOK, BillingRows
  <2> QED BY <2>1, <2>2, <2>3, <2>4, <2>5, <2>6, QuietStep
<1>2. CASE PostAnswerLost(t)
  <2>1. BillingStores /\ thread[t].step # "returning" /\ OutOfAttempts(t) \in BOOLEAN
    BY <1>2 DEF PostAnswerLost, At, OutOfAttempts
  <2>2. /\ billing' \in BillingRows /\ billing' # NoDocument /\ clock' \in Stamps
        /\ billing.status \in AcceptedStatuses => billing'.status \in AcceptedStatuses
    BY <2>1, Stored DEF BillingRows
  <2> QED BY <1>2, <2>1, <2>2, FailStep DEF PostAnswerLost, IInv, TypeOK
<1>3. ASSUME NEW retryable \in BOOLEAN, PostFailed(t, retryable)
      PROVE  IInv'
  <2>1. thread[t].step # "returning" /\ (~retryable \/ OutOfAttempts(t)) \in BOOLEAN
    BY <1>3 DEF PostFailed, At, OutOfAttempts
  <2> QED BY <1>3, <2>1, FailStep DEF PostFailed, IInv, TypeOK
<1>4. CASE MarkDone(t)
  <2>1. thread[t].step # "returning" /\ outbox' \in OutboxRows
    BY <1>4, <1>t, Literals DEF MarkDone, At, OutboxRows
  <2> QED BY <1>4, <2>1, ReturnStep DEF MarkDone, IInv, TypeOK, KnowledgeInv
<1>5. CASE HandleFailure(t)
  <2>1. thread[t].step # "returning" /\ outbox' \in OutboxRows
    BY <1>5, <1>t, Literals DEF HandleFailure, At, OutboxRows
  <2>2. clock' \in Stamps /\ clock' = clock + 1 BY <1>5, Ticks DEF HandleFailure, IInv
  <2>3. /\ note' \in NoteRows /\ note'.effectsApplied = note.effectsApplied
        /\ note'.doc = note.doc /\ note'.status \in {"FAILED", "RETRY_SCHEDULED"}
    BY <1>5, <1>t, <2>2, Literals DEF HandleFailure, NoteRows
  <2>4. Known(note') BY <2>3, Literals DEF Known
  <2> QED BY <1>5, <2>1, <2>2, <2>3, <2>4, ReturnStep DEF HandleFailure, IInv, TypeOK
<1> QED BY <1>1, <1>2, <1>3, <1>4, <1>5

\* Applying a status, with its effects, keeps the invariant.
LEMMA InvApply ==
  ASSUME IInv, NEW t \in Threads, ApplyStep(t)
  PROVE  IInv'
<1>t. /\ thread[t] \in ThreadStates /\ note \in NoteRows
      /\ Good(thread[t]) /\ Known(thread[t].doc) /\ Known(note)
      /\ \A e \in events : Known(e)
      /\ Docs \subseteq BillingRows
  BY DEF IInv, TypeOK, KnowledgeInv, BillingRows
<1>1. CASE ApplyRead(t)
  <2>1. thread[t].step = "applying" /\ UNCHANGED <<note, outbox, lock, billing, events, returned, clock, faults>>
    BY <1>1 DEF ApplyRead
  <2>2. CASE note.at > thread[t].doc.at
    <3>1. PICK q \in ThreadStates :
             /\ thread' = [thread EXCEPT ![t] = q]
             /\ q.step \in {"applied", "idle"} /\ Good(q) /\ Known(q.doc)
             /\ q.doc \in {thread[t].doc, NoDocument}
      BY <1>1, <2>2, AppliedMoves DEF ApplyRead
    <3> QED BY <2>1, <3>1, ThreadOnly DEF IInv, TypeOK
  <2>3. CASE ~(note.at > thread[t].doc.at)
    <3> DEFINE q == [thread[t] EXCEPT !.step = "writing", !.before = note.status]
    <3>1. thread' = [thread EXCEPT ![t] = q] BY <1>1, <2>3 DEF ApplyRead
    <3>2. q \in ThreadStates /\ q.step = "writing" /\ q.doc = thread[t].doc
      BY <1>t, Literals DEF ThreadStates, NoteRows
    <3>3. Good(q) /\ Known(q.doc) BY <1>t, <2>1, <3>2 DEF Good
    <3> QED BY <2>1, <3>1, <3>2, <3>3, ThreadOnly DEF IInv, TypeOK
  <2> QED BY <2>2, <2>3
<1>2. CASE ApplyWrite(t)
  <2> DEFINE d == thread[t].doc
  <2>1. /\ thread[t].step = "writing" /\ d \in Docs
        /\ UNCHANGED <<outbox, lock, billing, events, returned, clock, faults>>
    BY <1>2, <1>t DEF ApplyWrite, Good
  <2>2. /\ note' \in NoteRows /\ note'.effectsApplied = note.effectsApplied
        /\ note'.status = normalizeStatus(d.status)
    BY <1>2, <1>t, <2>1, Literals DEF ApplyWrite, NoteRows, Docs
  <2>3. KnownNext(note') /\ \A e \in events' : KnownNext(e)
    BY <1>t, <2>1, <2>2, Literals DEF Known, KnownNext, Docs
  <2>4. PICK q \in ThreadStates :
           /\ thread' = [thread EXCEPT ![t] = q]
           /\ q.step # "returning" /\ Good(q) /\ Known(q.doc)
    <3>1. CASE TriggersEffects(d.status, thread[t].before)
      <4> DEFINE q == [thread[t] EXCEPT !.step = "effects"]
      <4>1. thread' = [thread EXCEPT ![t] = q] BY <1>2, <3>1 DEF ApplyWrite, Goto
      <4>2. q \in ThreadStates /\ q.step = "effects" /\ q.doc = d BY <1>t, Literals DEF ThreadStates
      <4>3. Good(q) /\ Known(q.doc) BY <1>t, <3>1, <4>2 DEF Good, TriggersEffects
      <4> QED BY <4>1, <4>2, <4>3
    <3>2. CASE ~TriggersEffects(d.status, thread[t].before)
      BY <1>2, <3>2, AppliedMoves DEF ApplyWrite
    <3> QED BY <3>1, <3>2
  <2>5. KnownNext(q.doc) /\ billing' # NoDocument
    BY <2>1, <2>4, Literals DEF Known, KnownNext, IInv, DocumentKnown
  <2> QED BY <2>1, <2>2, <2>3, <2>4, <2>5, QuietStep DEF IInv, TypeOK
<1>3. CASE EffectsBegin(t)
  <2>1. thread[t].step = "effects" /\ Unlocked
        /\ UNCHANGED <<note, outbox, billing, events, returned, clock, faults>>
    BY <1>3 DEF EffectsBegin
  <2>2. CASE note.effectsApplied
    <3>1. PICK q \in ThreadStates :
             /\ thread' = [thread EXCEPT ![t] = q]
             /\ q.step \in {"applied", "idle"} /\ Good(q) /\ Known(q.doc)
             /\ q.doc \in {thread[t].doc, NoDocument}
      BY <1>3, <2>2, AppliedMoves DEF EffectsBegin
    <3>2. lock' = lock BY <1>3, <2>2 DEF EffectsBegin
    <3> QED BY <2>1, <3>1, <3>2, ThreadOnly DEF IInv, TypeOK
  <2>3. CASE ~note.effectsApplied
    <3> DEFINE q == [thread[t] EXCEPT !.step = "returning"]
    <3>1. thread' = [thread EXCEPT ![t] = q] /\ lock' = t BY <1>3, <2>3 DEF EffectsBegin, Goto
    <3>2. q \in ThreadStates /\ q.step = "returning" /\ q.doc = thread[t].doc
      BY <1>t, Literals DEF ThreadStates
    <3>3. TypeOK' BY <2>1, <3>1, <3>2 DEF IInv, TypeOK
    <3>4. KnowledgeInv' BY <1>t, <2>1, <3>1, <3>2 DEF IInv, TypeOK, KnowledgeInv, Good, Known
    <3>5. LockInv' BY <2>1, <2>3, <3>1, <3>2, NoteAssumption DEF IInv, TypeOK, LockInv, Unlocked
    <3>6. DocumentKnown' BY <2>1, <3>1, <3>2 DEF IInv, TypeOK, DocumentKnown
    <3> QED BY <2>1, <3>3, <3>4, <3>5, <3>6 DEF IInv, EffectsOnce, EffectsNeedAcceptance
  <2> QED BY <2>2, <2>3
<1>4. CASE EffectsCommit(t)
  <2>1. /\ thread[t].step = "returning" /\ lock = t /\ lock' = NoThread
        /\ returned = 0 /\ returned' = 1 /\ billing.status \in AcceptedStatuses
        /\ UNCHANGED <<outbox, billing, events, clock, faults>>
    BY <1>4, <1>t, NoteAssumption
    DEF EffectsCommit, IInv, TypeOK, LockInv, EffectsOnce, Good, Known
  <2>2. note' \in NoteRows /\ note'.effectsApplied /\ note'.status = note.status
    BY <1>4, <1>t DEF EffectsCommit, NoteRows
  <2>3. PICK q \in ThreadStates :
           /\ thread' = [thread EXCEPT ![t] = q]
           /\ q.step \in {"applied", "idle"} /\ Good(q) /\ Known(q.doc)
             /\ q.doc \in {thread[t].doc, NoDocument}
    BY <1>4, AppliedMoves DEF EffectsCommit
  <2>4. TypeOK' BY <2>1, <2>2, <2>3 DEF IInv, TypeOK
  <2>5. KnowledgeInv' BY <1>t, <2>1, <2>2, <2>3 DEF IInv, TypeOK, KnowledgeInv, Good, Known
  <2>6. LockInv' BY <2>1, <2>2, <2>3, NoteAssumption DEF IInv, TypeOK, LockInv
  <2>7. DocumentKnown' BY <1>t, <2>1, Literals DEF DocumentKnown, NoDocument
  <2> QED BY <2>1, <2>2, <2>4, <2>5, <2>6, <2>7 DEF IInv, EffectsOnce, EffectsNeedAcceptance
<1> QED BY <1>1, <1>2, <1>3, <1>4 DEF ApplyStep

\* So does keeping the error of a call that failed.
LEMMA InvStoreError ==
  ASSUME IInv, NEW t \in Threads, StoreError(t)
  PROVE  IInv'
<1>t. /\ thread[t] \in ThreadStates /\ Known(thread[t].doc) /\ Good(thread[t])
  BY DEF IInv, TypeOK, KnowledgeInv
<1>1. /\ thread[t].step \notin {"idle", "claimed"}
      /\ faults' \in 0..MaxFaults
      /\ lock' = IF lock = t THEN NoThread ELSE lock
      /\ UNCHANGED <<note, outbox, billing, events, returned, clock>>
  BY NoteAssumption DEF StoreError, IInv, TypeOK
<1>2. PICK q \in ThreadStates :
         /\ thread' = [thread EXCEPT ![t] = q]
         /\ q.step \in {"failing", "releasing", "idle"}
         /\ q.doc \in {thread[t].doc, NoDocument}
         /\ q.step = "releasing" => q.doc \in Docs
  <2>1. CASE thread[t].task = "process"
    <3> DEFINE q == [thread[t] EXCEPT !.step = "failing", !.dead = OutOfAttempts(t)]
    <3>1. thread' = [thread EXCEPT ![t] = q] BY <2>1 DEF StoreError, FailWith
    <3>2. OutOfAttempts(t) \in BOOLEAN BY DEF OutOfAttempts
    <3>3. q \in ThreadStates /\ q.step = "failing" /\ q.doc = thread[t].doc
      BY <1>t, <3>2, Literals DEF ThreadStates
    <3> QED BY <3>1, <3>3
  <2>2. CASE thread[t].task = "webhook"
    <3> DEFINE q == [thread[t] EXCEPT !.step = "releasing"]
    <3>1. thread' = [thread EXCEPT ![t] = q] BY <2>2 DEF StoreError, Goto
    <3>2. q \in ThreadStates /\ q.step = "releasing" /\ q.doc = thread[t].doc
      BY <1>t, Literals DEF ThreadStates
    <3>3. thread[t].doc \in Docs
      BY <1>t, <2>2, Literals DEF StoreError, Good, ThreadStates, BillingRows, NoDocument
    <3> QED BY <3>1, <3>2, <3>3
  <2>3. CASE thread[t].task \notin {"process", "webhook"}
    <3>1. thread' = [thread EXCEPT ![t] = Idle] BY <2>3 DEF StoreError, Return
    <3> QED BY <3>1, IdleGood
  <2> QED BY <2>1, <2>2, <2>3
<1>3. TypeOK' BY <1>1, <1>2 DEF IInv, TypeOK
<1>4. Good(q) /\ Known(q.doc) BY <1>t, <1>2, Literals DEF Good, Known, NoDocument
<1>5. KnowledgeInv' BY <1>1, <1>2, <1>4 DEF IInv, TypeOK, KnowledgeInv, Good, Known
<1>6. LockInv' BY <1>1, <1>2, NoteAssumption DEF IInv, TypeOK, LockInv
<1>7. DocumentKnown' BY <1>1, <1>2 DEF IInv, TypeOK, DocumentKnown
<1> QED BY <1>1, <1>3, <1>5, <1>6, <1>7 DEF IInv, EffectsOnce, EffectsNeedAcceptance

\* A new call starts on an idle thread.
LEMMA StartStep ==
  ASSUME IInv, NEW t \in Threads, thread[t] = Idle, NEW q \in ThreadStates,
         q.step \in {"claimed", "applying", "requeue"},
         q.step = "applying" => q.doc \in Docs, KnownNext(q.doc),
         thread' = [thread EXCEPT ![t] = q],
         UNCHANGED <<note, lock, returned, faults>>,
         outbox' \in OutboxRows, billing' \in BillingRows, clock' \in Stamps,
         billing.status \in AcceptedStatuses => billing'.status \in AcceptedStatuses,
         events' \subseteq events,
         billing' = NoDocument => billing = NoDocument /\ q.doc = NoDocument
  PROVE  IInv'
<1>1. thread[t].step # "returning" /\ Good(q) BY IdleGood DEF Good
<1>2. /\ note' \in NoteRows /\ note'.effectsApplied = note.effectsApplied
      /\ faults' \in 0..MaxFaults /\ events' \subseteq Docs
      /\ lock' = lock /\ returned' = returned
  BY DEF IInv, TypeOK
<1>3. KnownNext(note') /\ \A e \in events' : KnownNext(e)
  BY DEF IInv, KnowledgeInv, Known, KnownNext
<1>4. billing' = NoDocument =>
        billing = NoDocument /\ ~note'.doc /\ events' = {} /\ q.doc = NoDocument
  BY DEF IInv, DocumentKnown
<1> QED BY <1>1, <1>2, <1>3, <1>4, QuietStep

\* So does taking up a task: the job, a webhook, the reconciliation, a retry.
LEMMA InvStart ==
  ASSUME IInv, NEW t \in Threads, ThreadStart(t)
  PROVE  IInv'
<1>t. /\ NoDocument \in BillingRows /\ Docs \subseteq BillingRows
      /\ KnownNext(NoDocument) /\ NoDocument \notin Docs /\ 0 \in 0..AttemptCap
      /\ billing \in BillingRows /\ outbox \in OutboxRows
      /\ events \subseteq Docs /\ clock \in Stamps
  BY Literals, NoteAssumption
  DEF BillingRows, KnownNext, NoDocument, IInv, TypeOK
<1>1. CASE Claim(t) \/ ClaimForPrint(t)
  <2> DEFINE q == [Task("process", "claimed", NoDocument)
                     EXCEPT !.attempts = outbox.attempts + 1]
  <2>1. Claim(t) BY <1>1 DEF ClaimForPrint
  <2>2. outbox.attempts + 1 \in 0..AttemptCap /\ outbox' \in OutboxRows
    BY <2>1, <1>t, Literals, NoteAssumption DEF Claim, OutboxRows
  <2>3. q \in ThreadStates /\ q.step = "claimed" /\ q.doc = NoDocument
    BY <2>2, <1>t, TaskGood, Literals
  <2> QED BY <2>1, <2>2, <2>3, <1>t, StartStep DEF Claim
<1>2. CASE Reconcile(t)
  <2> DEFINE q == Task("reconcile", "applying", billing)
  <2>1. q \in ThreadStates /\ q.step = "applying" /\ q.doc = billing BY <1>t, TaskGood, Literals
  <2>2. billing \in Docs /\ KnownNext(billing)
    <3>1. billing # NoDocument BY <1>2 DEF Reconcile, IInv, DocumentKnown
    <3> QED BY <3>1, <1>2, <1>t DEF BillingRows, KnownNext, Reconcile
  <2> QED BY <1>2, <2>1, <2>2, <1>t, StartStep DEF Reconcile
<1>3. CASE RetryDocument(t)
  <2> DEFINE q == Task("retry", "applying", billing')
  <2>1. billing # NoDocument BY <1>3 DEF RetryDocument, IInv, DocumentKnown
  <2>2. billing' \in Docs /\ clock' \in Stamps
    BY <1>3, <2>1, <1>t, Literals, Ticks DEF RetryDocument, BillingRows, Docs, IInv
  <2>3. billing.status \in AcceptedStatuses => billing'.status \in AcceptedStatuses
    BY <1>3 DEF RetryDocument, AcceptedStatuses, FailedStatuses
  <2>4. q \in ThreadStates /\ q.step = "applying" /\ q.doc = billing'
    BY <1>t, <2>2, TaskGood, Literals
  <2>5. KnownNext(billing') BY DEF KnownNext
  <2> QED BY <1>3, <2>2, <2>3, <2>4, <2>5, <1>t, StartStep DEF RetryDocument
<1>4. CASE RetryRead(t)
  <2> DEFINE q == Task("retry", "requeue", NoDocument)
  <2>1. q \in ThreadStates /\ q.step = "requeue" /\ q.doc = NoDocument BY <1>t, TaskGood, Literals
  <2> QED BY <1>4, <2>1, <1>t, StartStep DEF RetryRead
<1>5. ASSUME NEW e \in events, WebhookBegin(t, e)
      PROVE  IInv'
  <2> DEFINE q == Task("webhook", "applying", e)
  <2>1. q \in ThreadStates /\ q.step = "applying" /\ q.doc = e /\ e \in Docs
    BY <1>t, TaskGood, Literals
  <2>2. KnownNext(e) /\ billing # NoDocument
    BY <1>5 DEF WebhookBegin, IInv, KnowledgeInv, Known, KnownNext, DocumentKnown
  <2> QED BY <1>5, <2>1, <2>2, <1>t, StartStep DEF WebhookBegin
<1> QED BY <1>1, <1>2, <1>3, <1>4, <1>5 DEF ThreadStart

\* So does the end of a task.
LEMMA InvRelease ==
  ASSUME IInv, NEW t \in Threads, WebhookRelease(t) \/ RetryRequeue(t)
  PROVE  IInv'
<1>t. /\ thread[t] \in ThreadStates /\ Good(thread[t])
      /\ note \in NoteRows /\ outbox \in OutboxRows /\ Known(note)
  BY DEF IInv, TypeOK, KnowledgeInv
<1>1. CASE WebhookRelease(t)
  <2>1. thread[t].step # "returning" /\ thread[t].doc \in Docs
    BY <1>1, <1>t DEF WebhookRelease, At, Good
  <2> QED BY <1>1, <1>t, <2>1, ReturnStep DEF WebhookRelease, IInv, TypeOK
<1>2. CASE RetryRequeue(t)
  <2>1. thread[t].step # "returning" /\ outbox' \in OutboxRows
    BY <1>2, <1>t, Literals DEF RetryRequeue, At, OutboxRows
  <2>2. clock' \in Stamps /\ clock' = clock + 1 BY <1>2, Ticks DEF RetryRequeue, IInv
  <2>3. /\ note' \in NoteRows /\ note'.effectsApplied = note.effectsApplied
        /\ note'.doc = note.doc /\ note'.status = "QUEUED"
    BY <1>2, <1>t, <2>2, Literals DEF RetryRequeue, NoteRows
  <2>4. Known(note') BY <2>3, Literals DEF Known
  <2> QED BY <1>2, <2>1, <2>2, <2>3, <2>4, ReturnStep DEF RetryRequeue, IInv, TypeOK
<1> QED BY <1>1, <1>2

\* So does what Billing does of its own, and a crash.
LEMMA InvEnvironment ==
  ASSUME IInv, Crash \/ \E status \in DocStatuses : BillingAdvances(status)
  PROVE  IInv'
<1>1. CASE Crash
  <2>1. TypeOK' BY <1>1, NoteAssumption, IdleGood DEF Crash, IInv, TypeOK
  <2>2. KnowledgeInv' BY <1>1, IdleGood, Literals DEF Crash, IInv, KnowledgeInv, Good, Known
  <2>3. LockInv' BY <1>1, IdleGood, NoteAssumption DEF Crash, IInv, LockInv
  <2> QED BY <1>1, <2>1, <2>2, <2>3, IdleGood
      DEF Crash, IInv, EffectsOnce, EffectsNeedAcceptance, DocumentKnown
<1>2. ASSUME NEW status \in DocStatuses, BillingAdvances(status)
      PROVE  IInv'
  <2>1. /\ UNCHANGED <<note, outbox, thread, lock, returned, faults>>
        /\ clock' \in Stamps
        /\ billing' = [status |-> status, at |-> clock']
        /\ billing' \in Docs
        /\ events' = events \cup {billing'}
        /\ billing.status \notin AcceptedStatuses
    BY <1>2, Ticks, Literals
    DEF BillingAdvances, IInv, Docs, OpenStatuses, NewStatuses, AcceptedStatuses
  <2>2. TypeOK' BY <2>1 DEF IInv, TypeOK, BillingRows
  <2>3. KnowledgeInv' BY <2>1 DEF IInv, KnowledgeInv, Good, Known
  <2>4. LockInv' /\ EffectsOnce' /\ EffectsNeedAcceptance'
    BY <2>1 DEF IInv, LockInv, EffectsOnce, EffectsNeedAcceptance
  <2>5. billing' # NoDocument BY <2>1, Literals DEF Docs, NoDocument
  <2> QED BY <2>2, <2>3, <2>4, <2>5 DEF IInv, DocumentKnown
<1> QED BY <1>1, <1>2

\* Every step keeps the invariant.
LEMMA InvNext == IInv /\ [Next]_vars => IInv'
<1> SUFFICES ASSUME IInv, [Next]_vars PROVE IInv' OBVIOUS
<1>1. ASSUME NEW t \in Threads, ThreadStep(t) PROVE IInv'
  BY <1>1, InvProcess, InvApply, InvRelease DEF ThreadStep
<1>2. ASSUME NEW t \in Threads, ThreadStart(t) PROVE IInv' BY <1>2, InvStart
<1>3. ASSUME NEW t \in Threads, StoreError(t) PROVE IInv' BY <1>3, InvStoreError
<1>4. CASE UNCHANGED vars
  BY <1>4 DEF vars, IInv, TypeOK, KnowledgeInv, Known, Good, LockInv,
     EffectsOnce, EffectsNeedAcceptance, DocumentKnown
<1> QED BY <1>1, <1>2, <1>3, <1>4, InvEnvironment DEF Next

\* The inductive invariant holds in every reachable state: types, what each thread knows of
\* Billing, and the goods returned as often as the note says (commercial-effects.service.ts).
THEOREM Invariance == Spec => []IInv
  BY InvInit, InvNext, PTL DEF Spec

----------------------------------------
(* The results.                                                            *)

\* The types of the note's state are kept, whatever threads and bounds.
THEOREM TypeCorrect == Spec => []TypeOK
<1>1. IInv => TypeOK BY DEF IInv
<1> QED BY <1>1, Invariance, PTL

\* Goods are put back at most once for a note (applyAcceptedEffects).
THEOREM GoodsReturnOnce == Spec => []EffectsOnce
<1>1. IInv => EffectsOnce BY DEF IInv
<1> QED BY <1>1, Invariance, PTL

\* Goods are put back only for a note that SUNAT accepted.
THEOREM GoodsReturnOnAcceptance == Spec => []EffectsNeedAcceptance
<1>1. IInv => EffectsNeedAcceptance BY DEF IInv
<1> QED BY <1>1, Invariance, PTL

\* applyDocument never shows an acceptance SUNAT did not give.
THEOREM AcceptanceIsReal == Spec => []NoFalseAcceptance
<1>1. IInv => NoFalseAcceptance BY DEF IInv, KnowledgeInv, Known, NoFalseAcceptance
<1> QED BY <1>1, Invariance, PTL

----------------------------------------
(* Refinement: a step of the note is a step of the abstract reversal, or   *)
(* leaves verdict and effects alone.                                       *)

\* Accepted, refused and pending are three different verdicts.
LEMMA Verdicts ==
  /\ AcceptedStatuses \cap FailedStatuses = {}
  /\ (OpenStatuses \cup NewStatuses \cup {"NONE", "RECEIVED"})
       \cap (AcceptedStatuses \cup FailedStatuses) = {}
  BY DEF OpenStatuses, NewStatuses, AcceptedStatuses, FailedStatuses

\* A note that was just created is a pending reversal.
LEMMA ReversalInit == Init => Reversal!Init
  BY Verdicts DEF Init, Reversal!Init, Verdict, NoDocument

\* Billing storing a document gives no verdict.
LEMMA StoringIsPending ==
  ASSUME BillingStores PROVE Verdict' = Verdict
  BY Verdicts DEF BillingStores, Verdict, NoDocument

\* A step of the note is a step of the abstract reversal or leaves it as it is.
LEMMA ReversalStep ==
  IInv /\ [Next]_vars => [Reversal!Next]_<<Verdict, returned>>
<1> SUFFICES ASSUME IInv, [Next]_vars
             PROVE  Reversal!Next \/ UNCHANGED <<Verdict, returned>>
  OBVIOUS
<1>1. ASSUME NEW t \in Threads,
             PostAnswered(t) \/ PostAnswerLost(t)
      PROVE  UNCHANGED <<Verdict, returned>>
  BY <1>1, StoringIsPending DEF PostAnswered, PostAnswerLost
<1>2. ASSUME billing' = billing, returned' = returned
      PROVE  UNCHANGED <<Verdict, returned>>
  BY <1>2 DEF Verdict
<1>3. ASSUME NEW t \in Threads, EffectsCommit(t)
      PROVE  Reversal!Next
  <2>1. billing.status \in AcceptedStatuses /\ returned = 0
    BY <1>3, NoteAssumption DEF EffectsCommit, IInv, LockInv, EffectsOnce,
       KnowledgeInv, Good, Known, TypeOK
  <2>2. billing' = billing /\ returned' = 1 BY <1>3, <2>1 DEF EffectsCommit
  <2>3. Verdict = "accepted" BY <2>1, Verdicts DEF Verdict
  <2>4. Verdict' = Verdict BY <2>2 DEF Verdict
  <2> QED BY <2>1, <2>2, <2>3, <2>4 DEF Reversal!Next, Reversal!Apply
<1>4. ASSUME NEW t \in Threads, RetryDocument(t)
      PROVE  Reversal!Next \/ UNCHANGED <<Verdict, returned>>
  <2>1. CASE billing.status \in FailedStatuses
    <3>1. Verdict = "rejected" /\ Verdict' = "pending" /\ returned' = returned
      BY <1>4, <2>1, Verdicts DEF RetryDocument, Verdict
    <3> QED BY <3>1 DEF Reversal!Next, Reversal!Resubmit
  <2>2. CASE billing.status \notin FailedStatuses BY <1>2, <1>4, <2>2 DEF RetryDocument
  <2> QED BY <2>1, <2>2
<1>5. ASSUME NEW status \in DocStatuses, BillingAdvances(status)
      PROVE  Reversal!Next \/ UNCHANGED <<Verdict, returned>>
  <2>1. Verdict = "pending" /\ returned' = returned BY <1>5, Verdicts DEF BillingAdvances, Verdict
  <2>2. Verdict' \in {"pending", "accepted", "rejected"} BY DEF Verdict
  <2> QED BY <2>1, <2>2 DEF Reversal!Next, Reversal!Decide
<1>6. ASSUME NEW t \in Threads,
             ThreadStep(t) \/ ThreadStart(t) \/ StoreError(t),
             ~PostAnswered(t), ~PostAnswerLost(t), ~EffectsCommit(t),
             ~RetryDocument(t)
      PROVE  billing' = billing /\ returned' = returned
  BY <1>6
  DEF ThreadStep, ApplyStep, ThreadStart, StoreError, PostFailed, MarkDone,
      HandleFailure, ApplyRead, ApplyWrite, EffectsBegin, WebhookRelease,
      RetryRequeue, Claim, ClaimForPrint, Reconcile, RetryRead, WebhookBegin
<1>7. CASE Crash \/ UNCHANGED vars BY <1>2, <1>7 DEF Crash, vars
<1> QED BY <1>1, <1>2, <1>3, <1>4, <1>5, <1>6, <1>7 DEF Next

\* The note's protocol implements the abstract reversal: whatever is lost,
\* repeated or interrupted, the effects follow one acceptance, once.
THEOREM NoteImplementsReversal == Spec => ImplementsReversal
<1>1. Init => Reversal!Init BY ReversalInit
<1>2. IInv /\ [Next]_vars => [Reversal!Next]_<<Verdict, returned>> BY ReversalStep
<1> QED BY <1>1, <1>2, Invariance, PTL DEF Spec, ImplementsReversal, Reversal!Spec

----------------------------------------
(* Sums over finite sets, by induction over their subsets.                 *)

\* The member that a sum takes next, and the function that adds up f over every subset.
One(s) == CHOOSE x \in s : TRUE
Adds(g, f, S) == g = [s \in SUBSET S |-> IF s = {} THEN 0 ELSE f[One(s)] + g[s \ {One(s)}]]

\* A total is the value at S of the function that adds the members of every subset one by one.
LEMMA TotalIs ==
  ASSUME NEW f, NEW S
  PROVE  Sum(f, S) = (CHOOSE g : Adds(g, f, S))[S]
BY DEF Sum, MapThenSumSet, MapThenFoldSet, Adds, One

\* A set of subsets of a finite set has a smallest one: induction over what a total adds.
LEMMA SmallestSet ==
  ASSUME NEW S, IsFiniteSet(S), NEW Bad, Bad \subseteq SUBSET S, Bad # {}
  PROVE  \E T \in Bad : \A U \in Bad : ~(U \subseteq T /\ U # T)
<1>1. IsWellFoundedOn(StrictSubsetOrdering(S), SUBSET S)
  BY FS_StrictSubsetOrderingWellFounded, FS_FiniteSubsetsOfFinite
<1>2. PICK T \in Bad : \A U \in Bad : ~(<<U, T>> \in StrictSubsetOrdering(S)) BY <1>1, WFMin
<1>3. ASSUME NEW U \in Bad, U \subseteq T, U # T PROVE FALSE BY <1>2, <1>3 DEF StrictSubsetOrdering
<1> QED BY <1>2, <1>3

\* Two such functions agree on the subsets they share.
LEMMA AddsOnce ==
  ASSUME NEW f, NEW S, NEW T, IsFiniteSet(S), S \subseteq T, NEW g, NEW h, Adds(g, f, S), Adds(h, f, T)
  PROVE  g[S] = h[S]
<1> DEFINE Bad == {U \in SUBSET S : g[U] # h[U]}
<1> SUFFICES ASSUME Bad # {} PROVE FALSE OBVIOUS
<1>1. PICK U \in Bad : \A W \in Bad : ~(W \subseteq U /\ W # U)
  <2>1. Bad \in SUBSET (SUBSET S) OBVIOUS
  <2> HIDE DEF Bad
  <2> QED BY <2>1, SmallestSet
<1>2. /\ g[U] = IF U = {} THEN 0 ELSE f[One(U)] + g[U \ {One(U)}]
      /\ h[U] = IF U = {} THEN 0 ELSE f[One(U)] + h[U \ {One(U)}]
  BY DEF Adds
<1>3. U # {} => One(U) \in U BY DEF One
<1>4. U # {} => g[U \ {One(U)}] = h[U \ {One(U)}] BY <1>1, <1>3
<1> QED BY <1>2, <1>4

\* And there is one for every finite set.
LEMMA AddsExists ==
  ASSUME NEW f, NEW S, IsFiniteSet(S)
  PROVE  \E g : Adds(g, f, S)
<1> DEFINE Bad == {U \in SUBSET S : ~ \E g : Adds(g, f, U)}
<1> SUFFICES ASSUME Bad # {} PROVE FALSE OBVIOUS
<1>1. PICK T \in Bad : \A W \in Bad : ~(W \subseteq T /\ W # T)
  <2>1. Bad \in SUBSET (SUBSET S) OBVIOUS
  <2> HIDE DEF Bad
  <2> QED BY <2>1, SmallestSet
<1> DEFINE R(s) == s \ {One(s)}
           G(U) == CHOOSE g : Adds(g, f, U)
           g == [s \in SUBSET T |-> IF s = {} THEN 0 ELSE f[One(s)] + G(R(s))[R(s)]]
<1>2. ASSUME NEW U \in SUBSET T, U # T PROVE Adds(G(U), f, U) BY <1>1, <1>2
<1>3. ASSUME NEW U \in SUBSET T, U # {} PROVE R(U) \in SUBSET T /\ R(U) # T /\ R(U) \subseteq U /\ R(U) # U
  BY <1>3 DEF One
<1>4. ASSUME NEW U \in SUBSET T, U # T PROVE g[U] = G(U)[U]
  <2>1. Adds(G(U), f, U) BY <1>2, <1>4
  <2>2. G(U)[U] = IF U = {} THEN 0 ELSE f[One(U)] + G(U)[R(U)] BY <2>1 DEF Adds
  <2>3. CASE U # {}
    <3>1. Adds(G(R(U)), f, R(U)) /\ R(U) \subseteq U /\ IsFiniteSet(R(U))
      BY <1>2, <1>3, <2>3, FS_Subset
    <3>2. G(R(U))[R(U)] = G(U)[R(U)] BY <3>1, <2>1, AddsOnce
    <3> QED BY <3>2, <2>2, <2>3
  <2> QED BY <2>2, <2>3
<1>5. g = [s \in SUBSET T |-> IF s = {} THEN 0 ELSE f[One(s)] + g[R(s)]]
  <2>1. ASSUME NEW s \in SUBSET T, s # {} PROVE g[R(s)] = G(R(s))[R(s)]
    <3>1. PICK W : W = R(s) OBVIOUS
    <3>2. W \in SUBSET T /\ W # T BY <1>3, <2>1, <3>1
    <3>3. g[W] = G(W)[W] BY <1>4, <3>2
    <3> QED BY <3>1, <3>3
  <2> HIDE DEF G, R
  <2> QED BY <2>1
<1>6. Adds(g, f, T) BY <1>5 DEF Adds
<1> QED BY <1>1, <1>6

\* So a total is that of the rest and the member picked first.
LEMMA TotalAdds ==
  ASSUME NEW f, NEW S, IsFiniteSet(S)
  PROVE  Sum(f, S) = IF S = {} THEN 0 ELSE f[One(S)] + Sum(f, S \ {One(S)})
<1> DEFINE T == S \ {One(S)}
           G(U) == CHOOSE g : Adds(g, f, U)
<1>1. IsFiniteSet(T) /\ T \subseteq S BY FS_Subset
<1>2. Adds(G(S), f, S) /\ Adds(G(T), f, T) BY <1>1, AddsExists
<1>3. G(S)[S] = IF S = {} THEN 0 ELSE f[One(S)] + G(S)[T] BY <1>2 DEF Adds
<1>4. G(T)[T] = G(S)[T] BY <1>1, <1>2, AddsOnce
<1>5. Sum(f, S) = G(S)[S] /\ Sum(f, T) = G(T)[T] BY TotalIs
<1> QED BY <1>3, <1>4, <1>5

\* A total of integers is an integer.
LEMMA TotalIsInt ==
  ASSUME NEW f, NEW S, IsFiniteSet(S), \A x \in S : f[x] \in Int
  PROVE  Sum(f, S) \in Int
<1> DEFINE Bad == {U \in SUBSET S : Sum(f, U) \notin Int}
<1> SUFFICES ASSUME Bad # {} PROVE FALSE OBVIOUS
<1>1. PICK U \in Bad : \A W \in Bad : ~(W \subseteq U /\ W # U)
  <2>1. Bad \in SUBSET (SUBSET S) OBVIOUS
  <2> HIDE DEF Bad
  <2> QED BY <2>1, SmallestSet
<1>2. Sum(f, U) = IF U = {} THEN 0 ELSE f[One(U)] + Sum(f, U \ {One(U)}) BY TotalAdds, FS_Subset
<1>3. U # {} => One(U) \in U BY DEF One
<1>4. U # {} => Sum(f, U \ {One(U)}) \in Int BY <1>1, <1>3
<1> QED BY <1>2, <1>3, <1>4

\* And it does not depend on which member is picked first.
LEMMA TotalWithout ==
  ASSUME NEW f, NEW S, IsFiniteSet(S), \A x \in S : f[x] \in Int, NEW x \in S
  PROVE  Sum(f, S) = f[x] + Sum(f, S \ {x})
<1> DEFINE Bad == {U \in SUBSET S : \E y \in U : Sum(f, U) # f[y] + Sum(f, U \ {y})}
<1> SUFFICES ASSUME Bad # {} PROVE FALSE OBVIOUS
<1>1. PICK U \in Bad : \A W \in Bad : ~(W \subseteq U /\ W # U)
  <2>1. Bad \in SUBSET (SUBSET S) OBVIOUS
  <2> HIDE DEF Bad
  <2> QED BY <2>1, SmallestSet
<1>2. PICK c, y : c = One(U) /\ y \in U /\ Sum(f, U) # f[y] + Sum(f, U \ {y}) OBVIOUS
<1>3. c \in U BY <1>2 DEF One
<1>4. Sum(f, U) = f[c] + Sum(f, U \ {c}) BY <1>2, TotalAdds, FS_Subset
<1>5. c # y BY <1>2, <1>4
<1>6. ASSUME NEW W \in SUBSET U, W # U, NEW z \in W PROVE Sum(f, W) = f[z] + Sum(f, W \ {z})
  BY <1>1, <1>6
<1>7. /\ Sum(f, U \ {c}) = f[y] + Sum(f, (U \ {c}) \ {y})
      /\ Sum(f, U \ {y}) = f[c] + Sum(f, (U \ {y}) \ {c})
  BY <1>2, <1>3, <1>5, <1>6
<1>8. (U \ {c}) \ {y} = (U \ {y}) \ {c} OBVIOUS
<1>9. PICK W : W = (U \ {c}) \ {y} OBVIOUS
<1>10. Sum(f, W) \in Int BY <1>9, TotalIsInt, FS_Subset
<1>11. f[c] \in Int /\ f[y] \in Int BY <1>2, <1>3
<1> DEFINE a == Sum(f, U)  b == Sum(f, U \ {c})  d == Sum(f, U \ {y})  e == Sum(f, W)
<1>12. a = f[c] + b /\ b = f[y] + e /\ d = f[c] + e /\ e \in Int /\ a # f[y] + d
  BY <1>2, <1>4, <1>7, <1>8, <1>9, <1>10
<1> HIDE DEF a, b, d, e
<1> QED BY <1>11, <1>12

\* A total depends on the values at its members only.
LEMMA TotalSame ==
  ASSUME NEW f, NEW g, NEW S, \A x \in S : f[x] = g[x]
  PROVE  Sum(f, S) = Sum(g, S)
<1>1. ASSUME NEW h PROVE Adds(h, f, S) <=> Adds(h, g, S)
  <2>1. \A s \in SUBSET S : s # {} => f[One(s)] = g[One(s)] BY DEF One
  <2>2. [s \in SUBSET S |-> IF s = {} THEN 0 ELSE f[One(s)] + h[s \ {One(s)}]]
          = [s \in SUBSET S |-> IF s = {} THEN 0 ELSE g[One(s)] + h[s \ {One(s)}]]
    BY <2>1
  <2> QED BY <2>2 DEF Adds
<1>2. (CHOOSE h : Adds(h, f, S)) = (CHOOSE h : Adds(h, g, S)) BY <1>1
<1> QED BY <1>2, TotalIs

\* Nothing adds up to zero.
LEMMA TotalNone == ASSUME NEW f PROVE Sum(f, {}) = 0
BY TotalAdds, FS_EmptySet

\* A member more adds its value.
LEMMA TotalWith ==
  ASSUME NEW f, NEW S, IsFiniteSet(S), NEW x, x \notin S, \A y \in S \cup {x} : f[y] \in Int
  PROVE  Sum(f, S \cup {x}) = f[x] + Sum(f, S)
<1>1. PICK T : T = S \cup {x} OBVIOUS
<1>2. IsFiniteSet(T) /\ x \in T /\ T \ {x} = S /\ \A y \in T : f[y] \in Int BY <1>1, FS_AddElement
<1>3. Sum(f, T) = f[x] + Sum(f, T \ {x}) BY <1>2, TotalWithout
<1> QED BY <1>1, <1>2, <1>3

\* A total of naturals is no less than that of any part.
LEMMA TotalGrows ==
  ASSUME NEW f, NEW S, IsFiniteSet(S), \A x \in S : f[x] \in Nat, NEW T \in SUBSET S
  PROVE  Sum(f, T) <= Sum(f, S) /\ Sum(f, T) \in Nat /\ Sum(f, S) \in Nat
<1> DEFINE Bad == {U \in SUBSET S : ~(Sum(f, U) \in Nat /\ \A V \in SUBSET U : Sum(f, V) <= Sum(f, U))}
<1>1. ASSUME Bad # {} PROVE FALSE
  <2>1. PICK U \in Bad : \A W \in Bad : ~(W \subseteq U /\ W # U)
    <3>1. Bad \in SUBSET (SUBSET S) OBVIOUS
    <3> HIDE DEF Bad
    <3> QED BY <1>1, <3>1, SmallestSet
  <2>2. IsFiniteSet(U) /\ \A x \in U : f[x] \in Int BY FS_Subset
  <2>3. ASSUME NEW W \in SUBSET U, W # U
        PROVE  Sum(f, W) \in Nat /\ \A V \in SUBSET W : Sum(f, V) <= Sum(f, W)
    BY <2>1, <2>3
  <2>4. ASSUME NEW x \in U PROVE Sum(f, U) = f[x] + Sum(f, U \ {x}) /\ Sum(f, U \ {x}) \in Nat /\ f[x] \in Nat
    <3>1. U \ {x} \in SUBSET U /\ U \ {x} # U OBVIOUS
    <3> QED BY <2>2, <2>3, <3>1, TotalWithout
  <2>5. Sum(f, U) \in Nat
    <3>1. CASE U = {} BY <3>1, TotalNone
    <3>2. CASE U # {}
      <4>1. PICK x \in U : TRUE BY <3>2
      <4>2. PICK a, b, c : a = Sum(f, U) /\ b = f[x] /\ c = Sum(f, U \ {x}) OBVIOUS
      <4>3. a = b + c /\ b \in Nat /\ c \in Nat BY <2>4, <4>2
      <4> QED BY <4>2, <4>3
    <3> QED BY <3>1, <3>2
  <2>6. PICK V \in SUBSET U : ~(Sum(f, V) <= Sum(f, U)) BY <2>1, <2>5
  <2>7. V # U BY <2>5, <2>6
  <2>8. PICK x \in U : x \notin V BY <2>7
  <2>9. Sum(f, V) <= Sum(f, U \ {x}) /\ Sum(f, V) \in Nat
    <3>1. V \in SUBSET (U \ {x}) /\ U \ {x} \in SUBSET U /\ U \ {x} # U BY <2>8
    <3> QED BY <2>3, <3>1, <2>7
  <2> QED BY <2>4, <2>6, <2>8, <2>9
<1>2. S \notin Bad /\ T \notin Bad BY <1>1
<1> QED BY <1>2

\* A total of sums is the sum of the totals.
LEMMA TotalSum ==
  ASSUME NEW f, NEW g, NEW h, NEW S, IsFiniteSet(S),
         \A x \in S : f[x] \in Int /\ g[x] \in Int /\ h[x] = f[x] + g[x]
  PROVE  Sum(h, S) = Sum(f, S) + Sum(g, S)
<1> DEFINE Bad == {U \in SUBSET S : Sum(h, U) # Sum(f, U) + Sum(g, U)}
<1> SUFFICES ASSUME Bad # {} PROVE FALSE OBVIOUS
<1>1. PICK U \in Bad : \A W \in Bad : ~(W \subseteq U /\ W # U)
  <2>1. Bad \in SUBSET (SUBSET S) OBVIOUS
  <2> HIDE DEF Bad
  <2> QED BY <2>1, SmallestSet
<1>2. U \subseteq S /\ IsFiniteSet(U) /\ Sum(h, U) # Sum(f, U) + Sum(g, U) BY FS_Subset
<1>3. CASE U = {} BY <1>2, <1>3, TotalNone
<1>4. CASE U # {}
  <2>1. PICK x, V : x \in U /\ V = U \ {x} BY <1>4
  <2>2. V \notin Bad /\ V \in SUBSET S BY <1>1, <2>1
  <2>3. Sum(h, V) = Sum(f, V) + Sum(g, V) BY <2>2
  <2>4. x \notin V /\ IsFiniteSet(V) /\ U = V \cup {x} /\ (\A y \in V \cup {x} : f[y] \in Int) /\ (\A y \in V \cup {x} : g[y] \in Int)
        /\ (\A y \in V \cup {x} : h[y] \in Int)
    BY <1>2, <2>1, FS_Subset
  <2>5. Sum(h, V \cup {x}) = h[x] + Sum(h, V) /\ Sum(f, V \cup {x}) = f[x] + Sum(f, V)
        /\ Sum(g, V \cup {x}) = g[x] + Sum(g, V)
    BY <2>4, TotalWith
  <2>6. Sum(f, V) \in Int /\ Sum(g, V) \in Int /\ f[x] \in Int /\ g[x] \in Int /\ h[x] = f[x] + g[x]
    BY <1>2, <2>1, <2>4, TotalIsInt
  <2> QED BY <1>2, <2>3, <2>4, <2>5, <2>6
<1> QED BY <1>3, <1>4

\* A total of which one value changes.
LEMMA TotalMoves ==
  ASSUME NEW f, NEW g, NEW S, IsFiniteSet(S), NEW x \in S, \A y \in S : f[y] \in Int /\ g[y] \in Int,
         \A y \in S \ {x} : g[y] = f[y]
  PROVE  Sum(g, S) = Sum(f, S) + g[x] - f[x]
<1>1. PICK T : T = S \ {x} OBVIOUS
<1>2. Sum(f, S) = f[x] + Sum(f, T) /\ Sum(g, S) = g[x] + Sum(g, T) BY <1>1, TotalWithout
<1>3. Sum(g, T) = Sum(f, T) BY <1>1, TotalSame
<1>4. Sum(f, T) \in Int /\ f[x] \in Int /\ g[x] \in Int BY <1>1, FS_Subset, TotalIsInt
<1> QED BY <1>2, <1>3, <1>4

\* Zeros add up to zero.
LEMMA TotalZero ==
  ASSUME NEW f, NEW S, IsFiniteSet(S), \A x \in S : f[x] = 0
  PROVE  Sum(f, S) = 0
<1>1. Sum(f, S) = Sum(f, S) + Sum(f, S) BY TotalSum
<1>2. Sum(f, S) \in Int BY TotalIsInt
<1>3. \A a \in Int : a = a + a => a = 0 OBVIOUS
<1> QED BY <1>1, <1>2, <1>3

----------------------------------------
(* The account of a sale: the inductive invariant.                         *)

CuotaRows  == [Cuotas -> [pagado : Nat, saldo : Nat]]
SesionRows == [Sessions -> [estado : {"none", "abierta", "cerrada"}, esperado : Int]]
CajaRows   == [Sessions -> [Requests \cup {Otro} -> Int]]
CallRows   == [pc : {"idle", "lock", "mark", "commit"}, kind : Kinds, req : Requests \cup {None}, monto : Int,
               sesion : 0..MaxSessions, pago : Pago, cuotas : CuotaRows, viejos : SUBSET Requests,
               marcados : SUBSET Requests]

\* The types of the rows, and of what a request has read.
RowsOK ==
  /\ electronica \in BOOLEAN /\ venta \in {"completada", "anulada"}
  /\ baja \in {"none", "pendiente", "aceptada", "rechazada"}
  /\ cuenta \in [estado : {"pendiente", "parcial", "pagada", "anulacion_pendiente", "anulada"}, saldo : Nat]
  /\ cuotas \in CuotaRows /\ pagos \in [Requests -> Pago] /\ sesiones \in SesionRows /\ caja \in CajaRows
  /\ candado \in Hilos \cup {None} /\ answered \subseteq Requests
  /\ hilo \in [Hilos -> CallRows]

\* What was taken has a session and an amount, applied to the installments; only a factura
\* or a boleta is voided, and only an annulled sale closes its account.
PaidOK ==
  /\ \A r \in Requests : pagos[r].estado # "none" =>
       /\ pagos[r].sesion \in Sessions /\ sesiones[pagos[r].sesion].estado # "none"
       /\ pagos[r].monto > 0
       /\ pagos[r].estado = "activo" => Sum(pagos[r].aplicado, Cuotas) = pagos[r].monto
  /\ baja # "none" => electronica
  /\ baja = "pendiente" => venta # "anulada"
  /\ cuenta.estado = "anulada" <=> venta = "anulada"

\* What a request has read and nobody changes.
CallOK(t) ==
  LET h == hilo[t] IN
  /\ h.pc = "mark" => h.kind \in {"annulSale", "void"}
  /\ h.pc # "idle" /\ h.kind = "payment" =>
       /\ h.req \in Requests /\ h.monto > 0
       /\ h.pc = "commit" => /\ candado = t /\ ~Blocked /\ h.monto <= cuenta.saldo
                             /\ pagos[h.req].estado = "none"
                             /\ h.sesion \in Sessions /\ sesiones[h.sesion].estado # "none"
  /\ h.pc # "idle" /\ h.kind = "annulPayment" =>
       /\ h.req \in Requests /\ pagos[h.req].estado # "none"
       /\ h.pago.estado = "activo" /\ h.pago.sesion \in Sessions
  /\ h.pc # "idle" /\ h.kind \in {"annulSale", "void"} =>
       (electronica <=> h.kind = "void") /\ (h.pc = "commit" => h.marcados \subseteq Existing)
  /\ h.pc # "idle" /\ h.kind \in {"movement", "close"} => h.sesion \in Sessions

BooksOK == RowsOK /\ PaidOK /\ MoneyExplained
CallsOK == \A t \in Hilos : CallOK(t)
AccountInv == BooksOK /\ CallsOK

----------------------------------------
(* Types, and what a step leaves alone.                                    *)

\* The sets that are added over are finite, and the ids are told apart.
LEMMA AccountFacts ==
  /\ IsFiniteSet(Cuotas) /\ IsFiniteSet(Sessions) /\ IsFiniteSet(Requests) /\ IsFiniteSet(Requests \cup {Otro})
  /\ Otro \notin Requests /\ None \notin Hilos /\ Cuotas = 1..Len(Originals) /\ Len(Originals) \in Nat
  /\ \A i \in Cuotas : Originals[i] \in Nat /\ Originals[i] > 0
  /\ Total \in Nat /\ Total > 0
<1>1. Originals \in Seq(Nat \ {0}) /\ Originals # <<>> /\ MaxSessions \in Nat /\ IsFiniteSet(Requests)
      /\ Otro \notin Requests /\ None \notin Hilos
  BY ReceivablesAssumption
<1>2. Cuotas = 1..Len(Originals) /\ Len(Originals) \in Nat /\ Len(Originals) # 0 BY <1>1 DEF Cuotas
<1>3. IsFiniteSet(Cuotas) /\ IsFiniteSet(Sessions) /\ IsFiniteSet(Requests \cup {Otro})
  <2>1. IsFiniteSet(1..Len(Originals)) /\ IsFiniteSet(1..MaxSessions) BY <1>1, <1>2, FS_Interval
  <2>2. IsFiniteSet(Requests \cup {Otro}) BY <1>1, FS_AddElement
  <2> QED BY <1>2, <2>1, <2>2 DEF Sessions
<1>4. \A i \in Cuotas : Originals[i] \in Nat /\ Originals[i] > 0
  <2>1. \A i \in Cuotas : Originals[i] \in Nat \ {0} BY <1>1, <1>2
  <2> QED BY <2>1
<1>5. 1 \in Cuotas BY <1>2
<1>6. PICK T : T = Cuotas \ {1} OBVIOUS
<1>7. Sum(Originals, Cuotas) = Originals[1] + Sum(Originals, T)
  BY <1>3, <1>4, <1>5, <1>6, TotalWithout
<1>8. Sum(Originals, T) \in Nat /\ Sum(Originals, Cuotas) \in Nat BY <1>3, <1>4, <1>6, TotalGrows
<1>9. Originals[1] \in Nat /\ Originals[1] > 0 BY <1>4, <1>5
<1>10. Total \in Nat /\ Total > 0 BY <1>7, <1>8, <1>9 DEF Total
<1> QED BY <1>1, <1>2, <1>3, <1>4, <1>10

\* A total with one member more.
LEMMA PaidMore ==
  ASSUME NEW f, NEW g, NEW S, IsFiniteSet(S), NEW r, r \notin S, g[r] \in Int,
         \A x \in S : f[x] \in Int /\ g[x] = f[x]
  PROVE  Sum(g, S \cup {r}) = Sum(f, S) + g[r]
<1>1. Sum(g, S \cup {r}) = g[r] + Sum(g, S) BY TotalWith
<1>2. Sum(g, S) = Sum(f, S) BY TotalSame
<1>3. Sum(f, S) \in Int BY TotalIsInt
<1> QED BY <1>1, <1>2, <1>3

\* A total with one member less.
LEMMA PaidLess ==
  ASSUME NEW f, NEW g, NEW S, IsFiniteSet(S), NEW r \in S, \A x \in S : f[x] \in Int,
         \A x \in S \ {r} : g[x] = f[x]
  PROVE  Sum(g, S \ {r}) = Sum(f, S) - f[r] /\ Sum(g, S \ {r}) \in Int
<1>1. PICK T : T = S \ {r} OBVIOUS
<1>2. Sum(f, S) = f[r] + Sum(f, T) BY <1>1, TotalWithout
<1>3. Sum(g, T) = Sum(f, T) BY <1>1, TotalSame
<1>4. Sum(f, T) \in Int BY <1>1, FS_Subset, TotalIsInt
<1>5. f[r] \in Int OBVIOUS
<1> QED BY <1>1, <1>2, <1>3, <1>4, <1>5

\* The fields of the rows.
LEMMA RowFields ==
  ASSUME RowsOK
  PROVE  /\ cuenta.saldo \in Nat
         /\ \A i \in Cuotas : cuotas[i].saldo \in Nat /\ cuotas[i].pagado \in Nat
         /\ \A r \in Requests : /\ pagos[r] \in Pago /\ pagos[r].monto \in Nat
                                /\ pagos[r].estado \in {"none", "activo", "anulado"}
                                /\ pagos[r].sesion \in 0..MaxSessions /\ pagos[r].aplicado \in [Cuotas -> Nat]
         /\ \A s \in Sessions : \A r \in Requests \cup {Otro} : caja[s][r] \in Int
         /\ Activos \subseteq Requests /\ IsFiniteSet(Activos)
         /\ \A t \in Hilos : hilo[t] \in CallRows
<1>1. \A r \in Requests : pagos[r] \in Pago BY DEF RowsOK
<1>2. \A r \in Requests : /\ pagos[r].monto \in Nat /\ pagos[r].estado \in {"none", "activo", "anulado"}
                          /\ pagos[r].sesion \in 0..MaxSessions /\ pagos[r].aplicado \in [Cuotas -> Nat]
  BY <1>1 DEF Pago
<1>3. \A i \in Cuotas : cuotas[i].saldo \in Nat /\ cuotas[i].pagado \in Nat
  <2>1. \A i \in Cuotas : cuotas[i] \in [pagado : Nat, saldo : Nat] BY DEF RowsOK, CuotaRows
  <2> QED BY <2>1
<1>4. cuenta.saldo \in Nat BY DEF RowsOK
<1>5. \A s \in Sessions : \A r \in Requests \cup {Otro} : caja[s][r] \in Int BY DEF RowsOK, CajaRows
<1>6. Activos \subseteq Requests /\ IsFiniteSet(Activos) BY AccountFacts, FS_Subset DEF Activos
<1>7. \A t \in Hilos : hilo[t] \in CallRows BY DEF RowsOK
<1> QED BY <1>1, <1>2, <1>3, <1>4, <1>5, <1>6, <1>7

\* A request that says it does nothing.
LEMMA IdleCallTyped == IdleCall \in CallRows /\ IdleCall.pc = "idle" /\ NoPago \in Pago
<1>1. NoPago \in Pago
  <2>1. 0 \in 0..MaxSessions BY ReceivablesAssumption
  <2> QED BY <2>1 DEF NoPago, Pago
<1>2. [i \in Cuotas |-> [pagado |-> 0, saldo |-> 0]] \in CuotaRows BY DEF CuotaRows
<1>3. 0 \in 0..MaxSessions BY ReceivablesAssumption
<1> QED BY <1>1, <1>2, <1>3 DEF IdleCall, CallRows, Kinds

\* A step that writes no row.
LEMMA BooksStay ==
  ASSUME BooksOK, UNCHANGED books, answered' \subseteq Requests, \A r \in answered' : pagos[r].estado # "none",
         candado' \in Hilos \cup {None}, hilo' \in [Hilos -> CallRows]
  PROVE  BooksOK'
<1>1. RowsOK' BY DEF BooksOK, RowsOK, books
<1>2. PaidOK' BY DEF BooksOK, PaidOK, books
<1>3. BalanceExplained' /\ AnnulledOwesNothing' /\ CashExplained'
  BY DEF BooksOK, MoneyExplained, AccountExplained, CashExplained, BalanceExplained, AnnulledOwesNothing,
         CashMatchesPayments, ClosedIsFinal, Activos, Blocked, books
<1>4. OkMeansPaid' BY DEF OkMeansPaid, books
<1> QED BY <1>1, <1>2, <1>3, <1>4 DEF BooksOK, MoneyExplained, AccountExplained

\* A request that reads goes on with what it has read.
LEMMA CallChanged ==
  ASSUME RowsOK, NEW t \in Hilos, NEW h \in CallRows, Goes(t, h)
  PROVE  hilo'[t] = h /\ (\A u \in Hilos : u # t => hilo'[u] = hilo[u]) /\ hilo' \in [Hilos -> CallRows]
BY DEF RowsOK, Goes

\* What is known of a request that did not move.
LEMMA CallStays ==
  ASSUME NEW u \in Hilos, CallOK(u), RowsOK, hilo'[u] = hilo[u], electronica' = electronica,
         \A r \in Requests : pagos[r].estado # "none" => pagos'[r].estado # "none",
         \A s \in Sessions : sesiones[s].estado # "none" => sesiones'[s].estado # "none",
         candado = u => candado' = u /\ cuenta' = cuenta /\ pagos' = pagos
  PROVE  CallOK(u)'
<1>1. PICK h : h = hilo[u] OBVIOUS
<1>2. hilo'[u] = h BY <1>1
<1>3. h.pc # "idle" /\ h.kind = "payment" =>
        /\ h.req \in Requests /\ h.monto > 0
        /\ h.pc = "commit" => /\ candado' = u /\ ~Blocked' /\ h.monto <= cuenta'.saldo
                              /\ pagos'[h.req].estado = "none"
                              /\ h.sesion \in Sessions /\ sesiones'[h.sesion].estado # "none"
  BY <1>1 DEF CallOK, Blocked
<1>4. h.pc # "idle" /\ h.kind = "annulPayment" =>
        /\ h.req \in Requests /\ pagos'[h.req].estado # "none"
        /\ h.pago.estado = "activo" /\ h.pago.sesion \in Sessions
  BY <1>1 DEF CallOK
<1>5. /\ h.pc = "mark" => h.kind \in {"annulSale", "void"}
      /\ h.pc # "idle" /\ h.kind \in {"annulSale", "void"} =>
           (electronica' <=> h.kind = "void") /\ (h.pc = "commit" => h.marcados \subseteq Existing')
      /\ h.pc # "idle" /\ h.kind \in {"movement", "close"} => h.sesion \in Sessions
  BY <1>1 DEF CallOK, Existing
<1> QED BY <1>2, <1>3, <1>4, <1>5 DEF CallOK

\* The requests after one of them ended.
LEMMA CallsStay ==
  ASSUME RowsOK, CallsOK, NEW t \in Hilos, NEW i \in CallRows, Goes(t, i), i.pc = "idle", electronica' = electronica,
         \A r \in Requests : pagos[r].estado # "none" => pagos'[r].estado # "none",
         \A s \in Sessions : sesiones[s].estado # "none" => sesiones'[s].estado # "none",
         \A u \in Hilos : u # t /\ candado = u => candado' = u /\ cuenta' = cuenta /\ pagos' = pagos
  PROVE  CallsOK'
<1>1. hilo'[t] = i /\ \A u \in Hilos : u # t => hilo'[u] = hilo[u] BY CallChanged
<1>2. ASSUME NEW u \in Hilos PROVE CallOK(u)'
  <2>1. CASE u = t BY <1>1, <2>1 DEF CallOK
  <2>2. CASE u # t
    <3>1. CallOK(u) /\ hilo'[u] = hilo[u] /\ (candado = u => candado' = u /\ cuenta' = cuenta /\ pagos' = pagos)
      BY <1>1, <2>2 DEF CallsOK
    <3> QED BY <3>1, CallStays
  <2> QED BY <2>1, <2>2
<1> QED BY <1>2 DEF CallsOK

\* What a committed request leaves noted.
LEMMA Noted ==
  ASSUME NEW t, Notes(t)
  PROVE  viejas \subseteq viejas' /\ (Outdated(hilo[t]) => hilo[t].kind \in viejas')
BY DEF Notes

----------------------------------------
(* The requests that only read.                                            *)

\* A request that does nothing has read nothing.
LEMMA CallIdle ==
  ASSUME NEW t, hilo'[t].pc = "idle"
  PROVE  CallOK(t)'
BY DEF CallOK

\* A request that writes no row keeps the invariant when it keeps what it has read.
LEMMA RequestReads ==
  ASSUME AccountInv, NEW t \in Hilos, NEW h \in CallRows, Goes(t, h), UNCHANGED books,
         answered' \subseteq Requests, \A r \in answered' : pagos[r].estado # "none",
         candado' \in Hilos \cup {None}, \A u \in Hilos : u # t /\ candado = u => candado' = u,
         CallOK(t)'
  PROVE  AccountInv'
<1>1. RowsOK /\ BooksOK /\ \A u \in Hilos : CallOK(u) BY DEF AccountInv, BooksOK, CallsOK
<1>2. hilo'[t] = h /\ (\A u \in Hilos : u # t => hilo'[u] = hilo[u]) /\ hilo' \in [Hilos -> CallRows]
  BY <1>1, CallChanged
<1>3. BooksOK' BY <1>1, <1>2, BooksStay
<1>4. ASSUME NEW u \in Hilos, u # t PROVE CallOK(u)'
  <2>1. electronica' = electronica /\ pagos' = pagos /\ sesiones' = sesiones /\ cuenta' = cuenta
    BY DEF books
  <2>2. CallOK(u) /\ hilo'[u] = hilo[u] /\ (candado = u => candado' = u /\ cuenta' = cuenta /\ pagos' = pagos)
    BY <1>1, <1>2, <1>4, <2>1
  <2>3. /\ \A r \in Requests : pagos[r].estado # "none" => pagos'[r].estado # "none"
        /\ \A s \in Sessions : sesiones[s].estado # "none" => sesiones'[s].estado # "none"
    BY <2>1
  <2> QED BY <1>1, <2>1, <2>2, <2>3, CallStays
<1>5. \A u \in Hilos : CallOK(u)' BY <1>4
<1> QED BY <1>3, <1>5 DEF AccountInv, CallsOK

\* The request fails.
LEMMA FailsSafe ==
  ASSUME AccountInv, NEW t \in Hilos, Fails(t)
  PROVE  AccountInv'
<1>1. RowsOK /\ MoneyExplained BY DEF AccountInv, BooksOK
<1>2. PICK h : h = IdleCall OBVIOUS
<1>3. h \in CallRows /\ h.pc = "idle" /\ Goes(t, h) /\ UNCHANGED books /\ answered' = answered
  BY <1>2, IdleCallTyped DEF Fails, Ends
<1>4. hilo'[t] = h BY <1>1, <1>3, CallChanged
<1>5. CallOK(t)' BY <1>3, <1>4, CallIdle
<1>6. answered' \subseteq Requests /\ \A r \in answered' : pagos[r].estado # "none"
  BY <1>1, <1>3 DEF RowsOK, MoneyExplained, AccountExplained, OkMeansPaid
<1>7. candado' \in Hilos \cup {None} /\ \A u \in Hilos : u # t /\ candado = u => candado' = u
  BY <1>1 DEF Fails, RowsOK
<1> QED BY <1>3, <1>5, <1>6, <1>7, RequestReads

\* A payment that was taken already is answered; another one goes to the account.
LEMMA PaymentArrivesSafe ==
  ASSUME AccountInv, NEW t \in Hilos, NEW r \in Requests, NEW m \in Amounts, PaymentArrives(t, r, m)
  PROVE  AccountInv'
<1>1. RowsOK /\ MoneyExplained /\ BooksOK /\ CallsOK BY DEF AccountInv, BooksOK, CallsOK
<1>2. answered \subseteq Requests /\ \A q \in answered : pagos[q].estado # "none"
  BY <1>1 DEF RowsOK, MoneyExplained, AccountExplained, OkMeansPaid
<1>3. UNCHANGED <<books, candado>> /\ candado \in Hilos \cup {None}
  BY <1>1 DEF PaymentArrives, RowsOK
<1>4. CASE pagos[r].estado # "none"
  <2>1. answered' = answered \cup {r} /\ hilo' = hilo BY <1>4 DEF PaymentArrives
  <2>2. hilo' \in [Hilos -> CallRows] BY <1>1, <2>1 DEF RowsOK
  <2>3. answered' \subseteq Requests /\ \A q \in answered' : pagos[q].estado # "none"
    BY <1>2, <1>4, <2>1
  <2>4. BooksOK' BY <1>1, <1>3, <2>2, <2>3, BooksStay
  <2>5. CallsOK'
    <3>1. electronica' = electronica /\ pagos' = pagos /\ sesiones' = sesiones /\ cuenta' = cuenta /\ candado' = candado
      BY <1>3 DEF books
    <3>2. ASSUME NEW u \in Hilos PROVE CallOK(u)'
      <4>1. CallOK(u) /\ hilo'[u] = hilo[u] /\ (candado = u => candado' = u /\ cuenta' = cuenta /\ pagos' = pagos)
        BY <1>1, <2>1, <3>1 DEF CallsOK
      <4>2. /\ \A q \in Requests : pagos[q].estado # "none" => pagos'[q].estado # "none"
            /\ \A s \in Sessions : sesiones[s].estado # "none" => sesiones'[s].estado # "none"
        BY <3>1
      <4> QED BY <1>1, <3>1, <4>1, <4>2, CallStays
    <3> QED BY <3>2 DEF CallsOK
  <2> QED BY <2>4, <2>5 DEF AccountInv
<1>5. CASE pagos[r].estado = "none"
  <2>1. PICK h : h = [IdleCall EXCEPT !.pc = "lock", !.req = r, !.monto = m] OBVIOUS
  <2>2. answered' = answered /\ Goes(t, h) BY <1>5, <2>1 DEF PaymentArrives
  <2>3. m \in Int /\ m > 0 BY ReceivablesAssumption
  <2>4. h \in CallRows /\ h.pc = "lock" /\ h.kind = "payment" /\ h.req = r /\ h.monto = m
    <3>1. PICK i : i = IdleCall OBVIOUS
    <3>2. i \in CallRows /\ i.kind = "payment" BY <3>1, IdleCallTyped DEF IdleCall
    <3>3. h = [i EXCEPT !.pc = "lock", !.req = r, !.monto = m] BY <2>1, <3>1
    <3> QED BY <2>3, <3>2, <3>3 DEF CallRows
  <2>5. hilo'[t] = h BY <1>1, <2>2, <2>4, CallChanged
  <2>6. CallOK(t)' BY <2>3, <2>4, <2>5 DEF CallOK
  <2>7. candado' \in Hilos \cup {None} /\ \A u \in Hilos : u # t /\ candado = u => candado' = u
    BY <1>3
  <2>8. UNCHANGED books /\ answered' \subseteq Requests /\ \A q \in answered' : pagos[q].estado # "none"
    BY <1>2, <1>3, <2>2
  <2> QED BY <2>2, <2>4, <2>6, <2>7, <2>8, RequestReads
<1> QED BY <1>4, <1>5

\* A request that writes no row, answers nobody and leaves the lock.
LEMMA RequestOnlyReads ==
  ASSUME AccountInv, NEW t \in Hilos, NEW h \in CallRows, Goes(t, h),
         UNCHANGED <<books, candado, answered>>,
         CallOK(t)'
  PROVE  AccountInv'
<1>1. RowsOK /\ MoneyExplained BY DEF AccountInv, BooksOK
<1>2. UNCHANGED books /\ answered' = answered /\ candado' = candado OBVIOUS
<1>3. answered' \subseteq Requests /\ \A r \in answered' : pagos[r].estado # "none"
  BY <1>1, <1>2 DEF RowsOK, MoneyExplained, AccountExplained, OkMeansPaid
<1>4. candado' \in Hilos \cup {None} /\ \A u \in Hilos : u # t /\ candado = u => candado' = u
  BY <1>1, <1>2 DEF RowsOK
<1> QED BY <1>2, <1>3, <1>4, RequestReads

\* A payment finds the account free, and locks it or is refused.
LEMMA PaymentLocksSafe ==
  ASSUME AccountInv, NEW t \in Hilos, PaymentLocks(t)
  PROVE  AccountInv'
<1>1. RowsOK /\ MoneyExplained /\ CallOK(t) BY DEF AccountInv, BooksOK, CallsOK
<1>2. PICK h : h = hilo[t] OBVIOUS
<1>3. h \in CallRows /\ h.pc = "lock" /\ h.kind = "payment" /\ candado = None /\ UNCHANGED books
  BY <1>1, <1>2, RowFields DEF PaymentLocks
<1>4. h.req \in Requests /\ h.monto > 0 BY <1>1, <1>2, <1>3 DEF CallOK
<1>5. answered \subseteq Requests /\ \A r \in answered : pagos[r].estado # "none"
  BY <1>1 DEF RowsOK, MoneyExplained, AccountExplained, OkMeansPaid
<1>6. \A u \in Hilos : candado # u BY <1>3, AccountFacts
<1>7. CASE Ends(t) /\ candado' = candado /\ (answered' = answered \/ (answered' = answered \cup {h.req} /\ pagos[h.req].estado # "none"))
  <2>1. PICK i : i = IdleCall OBVIOUS
  <2>2. i \in CallRows /\ i.pc = "idle" /\ Goes(t, i) BY <1>7, <2>1, IdleCallTyped DEF Ends
  <2>3. hilo'[t] = i BY <1>1, <2>2, CallChanged
  <2>4. CallOK(t)' BY <2>2, <2>3, CallIdle
  <2>5. answered' \subseteq Requests /\ \A r \in answered' : pagos[r].estado # "none"
    BY <1>4, <1>5, <1>7
  <2>6. candado' \in Hilos \cup {None} /\ \A u \in Hilos : u # t /\ candado = u => candado' = u
    BY <1>3, <1>7
  <2> QED BY <1>3, <2>2, <2>4, <2>5, <2>6, RequestReads
<1>8. ASSUME NEW s \in OpenOnes, Goes(t, [h EXCEPT !.pc = "commit", !.sesion = s]), candado' = t, answered' = answered,
             ~Blocked, h.monto <= cuenta.saldo, pagos[h.req].estado = "none"
      PROVE  AccountInv'
  <2>1. PICK g : g = [h EXCEPT !.pc = "commit", !.sesion = s] OBVIOUS
  <2>2. s \in 0..MaxSessions /\ s \in Sessions /\ sesiones[s].estado # "none"
    BY <1>8, ReceivablesAssumption DEF OpenOnes, Sessions
  <2>3. g \in CallRows /\ g.pc = "commit" /\ g.kind = "payment" /\ g.req = h.req /\ g.monto = h.monto /\ g.sesion = s
    BY <1>3, <2>1, <2>2 DEF CallRows
  <2>4. Goes(t, g) BY <1>8, <2>1
  <2>5. hilo'[t] = g BY <1>1, <2>3, <2>4, CallChanged
  <2>6. sesiones' = sesiones /\ (Blocked' <=> Blocked) /\ cuenta' = cuenta /\ pagos' = pagos
    BY <1>3 DEF Blocked, books
  <2>7. CallOK(t)' BY <1>4, <1>8, <2>2, <2>3, <2>5, <2>6 DEF CallOK
  <2>9. candado' \in Hilos \cup {None} /\ \A u \in Hilos : u # t /\ candado = u => candado' = u
    BY <1>6, <1>8
  <2>10. answered' \subseteq Requests /\ \A r \in answered' : pagos[r].estado # "none" BY <1>5, <1>8
  <2> QED BY <1>3, <2>3, <2>4, <2>7, <2>9, <2>10, RequestReads
<1>9. PICK refused, repeated, taken :
        /\ refused \in BOOLEAN /\ refused = (Blocked \/ h.monto > cuenta.saldo)
        /\ repeated = (~refused /\ pagos[h.req].estado # "none")
        /\ taken = (~refused /\ ~repeated)
  OBVIOUS
<1>10. \/ Ends(t) /\ UNCHANGED <<candado, answered>>
       \/ repeated /\ Ends(t) /\ answered' = answered \cup {h.req} /\ UNCHANGED candado
       \/ taken /\ (\E s \in OpenOnes : Goes(t, [h EXCEPT !.pc = "commit", !.sesion = s])) /\ candado' = t /\ UNCHANGED answered
  BY <1>2, <1>9 DEF PaymentLocks
<1>11. (repeated => pagos[h.req].estado # "none") /\ (taken => ~Blocked /\ ~(h.monto > cuenta.saldo) /\ pagos[h.req].estado = "none")
  BY <1>9
<1>12. taken => h.monto <= cuenta.saldo BY <1>1, <1>3, <1>4, <1>11, RowFields DEF CallRows
<1>13. CASE Ends(t) /\ UNCHANGED <<candado, answered>> BY <1>7, <1>13
<1>14. CASE repeated /\ Ends(t) /\ answered' = answered \cup {h.req} /\ UNCHANGED candado
  BY <1>7, <1>11, <1>14
<1>15. CASE taken /\ (\E s \in OpenOnes : Goes(t, [h EXCEPT !.pc = "commit", !.sesion = s])) /\ candado' = t /\ UNCHANGED answered
  BY <1>8, <1>11, <1>12, <1>15
<1> QED BY <1>10, <1>13, <1>14, <1>15

\* A payment is annulled as it was read.
LEMMA AnnulPaymentReadsSafe ==
  ASSUME AccountInv, NEW t \in Hilos, NEW r \in Requests, AnnulPaymentReads(t, r)
  PROVE  AccountInv'
<1>1. RowsOK BY DEF AccountInv, BooksOK
<1>2. PICK i : i = IdleCall OBVIOUS
<1>3. i \in CallRows BY <1>2, IdleCallTyped
<1>4. PICK p, c, h : p = pagos[r] /\ c = cuotas /\ h = [i EXCEPT !.pc = "commit", !.kind = "annulPayment", !.req = r, !.pago = p, !.cuotas = c]
  OBVIOUS
<1>5. p \in Pago /\ c \in CuotaRows BY <1>1, <1>4 DEF RowsOK
<1>6. h \in CallRows /\ h.pc = "commit" /\ h.kind = "annulPayment" /\ h.req = r /\ h.pago = p /\ h.cuotas = c
  BY <1>3, <1>4, <1>5 DEF CallRows, Kinds
<1>7. Goes(t, h) /\ UNCHANGED <<books, candado, answered>> BY <1>2, <1>4, <1>6 DEF AnnulPaymentReads
<1>8. p.estado = "activo" /\ p.sesion \in Sessions BY <1>4 DEF AnnulPaymentReads, OpenOnes
<1>9. hilo'[t] = h BY <1>1, <1>6, <1>7, CallChanged
<1>10. pagos' = pagos BY <1>7 DEF books
<1>11. CallOK(t)' BY <1>4, <1>6, <1>8, <1>9, <1>10 DEF CallOK
<1> QED BY <1>6, <1>7, <1>11, RequestOnlyReads

\* The sale is annulled with the payments that were read.
LEMMA AnnulSaleReadsSafe ==
  ASSUME AccountInv, NEW t \in Hilos, AnnulSaleReads(t)
  PROVE  AccountInv'
<1>1. RowsOK BY DEF AccountInv, BooksOK
<1>2. PICK i : i = IdleCall OBVIOUS
<1>3. i \in CallRows BY <1>2, IdleCallTyped
<1>4. PICK a, h : a = Activos /\ h = [i EXCEPT !.pc = "mark", !.kind = "annulSale", !.viejos = a]
  OBVIOUS
<1>5. a \subseteq Requests BY <1>1, <1>4, RowFields
<1>6. h \in CallRows /\ h.pc = "mark" /\ h.kind = "annulSale" /\ h.viejos = a
  BY <1>3, <1>4, <1>5 DEF CallRows, Kinds
<1>7. Goes(t, h) /\ UNCHANGED <<books, candado, answered>> BY <1>2, <1>4, <1>6 DEF AnnulSaleReads
<1>8. hilo'[t] = h BY <1>1, <1>6, <1>7, CallChanged
<1>9. ~electronica /\ electronica' = electronica BY <1>7 DEF AnnulSaleReads, books
<1>10. CallOK(t)' BY <1>6, <1>8, <1>9 DEF CallOK
<1> QED BY <1>6, <1>7, <1>10, RequestOnlyReads

\* A void annuls the payments of the sessions that are open.
LEMMA VoidReadsSafe ==
  ASSUME AccountInv, NEW t \in Hilos, VoidReads(t)
  PROVE  AccountInv'
<1>1. RowsOK /\ PaidOK BY DEF AccountInv, BooksOK
<1>2. PICK i : i = IdleCall OBVIOUS
<1>3. i \in CallRows BY <1>2, IdleCallTyped
<1>4. PICK a, h : a = Returnable /\ h = [i EXCEPT !.pc = "mark", !.kind = "void", !.viejos = a]
  OBVIOUS
<1>5. a \subseteq Requests BY <1>1, <1>4, RowFields DEF Returnable
<1>6. h \in CallRows /\ h.pc = "mark" /\ h.kind = "void" /\ h.viejos = a
  BY <1>3, <1>4, <1>5 DEF CallRows, Kinds
<1>7. Goes(t, h) /\ UNCHANGED <<books, candado, answered>> BY <1>2, <1>4, <1>6 DEF VoidReads
<1>8. hilo'[t] = h BY <1>1, <1>6, <1>7, CallChanged
<1>9. electronica /\ electronica' = electronica BY <1>1, <1>7 DEF VoidReads, PaidOK, books
<1>10. CallOK(t)' BY <1>6, <1>8, <1>9 DEF CallOK
<1> QED BY <1>6, <1>7, <1>10, RequestOnlyReads

\* It marks the payments that are there.
LEMMA SaleMarksPaymentsSafe ==
  ASSUME AccountInv, NEW t \in Hilos, SaleMarksPayments(t)
  PROVE  AccountInv'
<1>1. RowsOK /\ CallOK(t) BY DEF AccountInv, BooksOK, CallsOK
<1>2. PICK i : i = hilo[t] OBVIOUS
<1>3. i \in CallRows /\ i.pc = "mark" BY <1>1, <1>2, RowFields DEF SaleMarksPayments
<1>4. PICK a, h : a = Existing /\ h = [i EXCEPT !.pc = "commit", !.marcados = a] OBVIOUS
<1>5. a \subseteq Requests BY <1>4 DEF Existing
<1>6. h \in CallRows /\ h.pc = "commit" /\ h.kind = i.kind /\ h.viejos = i.viejos /\ h.marcados = a /\ h.req = i.req /\ h.monto = i.monto
      /\ h.sesion = i.sesion /\ h.pago = i.pago /\ h.cuotas = i.cuotas
  BY <1>3, <1>4, <1>5 DEF CallRows
<1>7. Goes(t, h) /\ UNCHANGED <<books, candado, answered>> BY <1>2, <1>4 DEF SaleMarksPayments
<1>9. hilo'[t] = h BY <1>1, <1>6, <1>7, CallChanged
<1>10. electronica' = electronica /\ Existing' = Existing BY <1>7 DEF books, Existing
<1>11. h.kind \in {"annulSale", "void"} /\ (electronica <=> i.kind = "void")
  BY <1>1, <1>2, <1>3, <1>6 DEF CallOK
<1>12. CallOK(t)' BY <1>4, <1>6, <1>9, <1>10, <1>11 DEF CallOK
<1> QED BY <1>6, <1>7, <1>12, RequestOnlyReads

\* A movement finds the session open.
LEMMA MovementReadsSafe ==
  ASSUME AccountInv, NEW t \in Hilos, NEW m \in Int, MovementReads(t, m)
  PROVE  AccountInv'
<1>1. RowsOK BY DEF AccountInv, BooksOK
<1>2. PICK i : i = IdleCall OBVIOUS
<1>3. i \in CallRows BY <1>2, IdleCallTyped
<1>4. PICK s \in OpenOnes : Goes(t, [IdleCall EXCEPT !.pc = "commit", !.kind = "movement", !.monto = m, !.sesion = s])
  BY DEF MovementReads
<1>5. PICK h : h = [i EXCEPT !.pc = "commit", !.kind = "movement", !.monto = m, !.sesion = s]
  OBVIOUS
<1>6. s \in 0..MaxSessions /\ s \in Sessions BY ReceivablesAssumption DEF OpenOnes, Sessions
<1>7. h \in CallRows /\ h.pc = "commit" /\ h.kind = "movement" /\ h.sesion = s
  BY <1>3, <1>5, <1>6 DEF CallRows, Kinds
<1>8. Goes(t, h) /\ UNCHANGED <<books, candado, answered>>
  BY <1>2, <1>4, <1>5, <1>7 DEF MovementReads
<1>9. hilo'[t] = h BY <1>1, <1>7, <1>8, CallChanged
<1>10. CallOK(t)' BY <1>6, <1>7, <1>9 DEF CallOK
<1> QED BY <1>7, <1>8, <1>10, RequestOnlyReads

\* A closing adds the movements up.
LEMMA CloseReadsSafe ==
  ASSUME AccountInv, NEW t \in Hilos, CloseReads(t)
  PROVE  AccountInv'
<1>1. RowsOK BY DEF AccountInv, BooksOK
<1>2. PICK i : i = IdleCall OBVIOUS
<1>3. i \in CallRows BY <1>2, IdleCallTyped
<1>4. PICK s \in OpenOnes : Goes(t, [IdleCall EXCEPT !.pc = "commit", !.kind = "close", !.sesion = s, !.monto = Sum(caja[s], Requests \cup {Otro})])
  BY DEF CloseReads
<1>5. PICK n, h : n = Sum(caja[s], Requests \cup {Otro}) /\ h = [i EXCEPT !.pc = "commit", !.kind = "close", !.sesion = s, !.monto = n]
  OBVIOUS
<1>6. s \in 0..MaxSessions /\ s \in Sessions BY ReceivablesAssumption DEF OpenOnes, Sessions
<1>7. n \in Int BY <1>1, <1>5, <1>6, AccountFacts, RowFields, TotalIsInt
<1>8. h \in CallRows /\ h.pc = "commit" /\ h.kind = "close" /\ h.sesion = s /\ h.monto = n
  BY <1>3, <1>5, <1>6, <1>7 DEF CallRows, Kinds
<1>9. Goes(t, h) /\ UNCHANGED <<books, candado, answered>> BY <1>2, <1>4, <1>5, <1>8 DEF CloseReads
<1>10. hilo'[t] = h BY <1>1, <1>8, <1>9, CallChanged
<1>11. CallOK(t)' BY <1>6, <1>8, <1>10 DEF CallOK
<1> QED BY <1>8, <1>9, <1>11, RequestOnlyReads

----------------------------------------
(* The till of one payment.                                                *)

\* What a payment has in the tills of all sessions.
Net(c, r) == Sum([s \in Sessions |-> c[s][r]], Sessions)

\* A movement is added to one till for one payment.
LEMMA CajaMoves ==
  ASSUME NEW c \in CajaRows, NEW s \in Sessions, NEW r \in Requests \cup {Otro}, NEW n \in Int, NEW row,
         row \in [Requests \cup {Otro} -> Int], row[r] = c[s][r] + n,
         \A q \in Requests \cup {Otro} : q # r => row[q] = c[s][q],
         NEW d, d \in CajaRows, d[s] = row, \A z \in Sessions : z # s => d[z] = c[z]
  PROVE  /\ d \in CajaRows
         /\ \A z \in Sessions : z # s => d[z] = c[z]
         /\ d[s][r] = c[s][r] + n
         /\ \A z \in Sessions : \A q \in Requests \cup {Otro} : q # r => d[z][q] = c[z][q]
<1>1. ASSUME NEW z \in Sessions, NEW q \in Requests \cup {Otro}, q # r PROVE d[z][q] = c[z][q]
  <2>1. CASE z = s BY <1>1, <2>1
  <2>2. CASE z # s BY <2>2
  <2> QED BY <2>1, <2>2
<1> QED BY <1>1

\* The net of that payment moves with it, that of another one does not.
LEMMA NetMoves ==
  ASSUME NEW c \in CajaRows, NEW d \in CajaRows, NEW s \in Sessions, NEW r \in Requests \cup {Otro}, NEW n \in Int,
         \A z \in Sessions : z # s => d[z] = c[z], d[s][r] = c[s][r] + n,
         \A z \in Sessions : \A q \in Requests \cup {Otro} : q # r => d[z][q] = c[z][q]
  PROVE  /\ Net(d, r) = Net(c, r) + n
         /\ \A q \in Requests \cup {Otro} : q # r => Net(d, q) = Net(c, q)
         /\ \A q \in Requests \cup {Otro} : Net(c, q) \in Int
<1>1. \A z \in Sessions : \A q \in Requests \cup {Otro} : c[z][q] \in Int /\ d[z][q] \in Int
  BY DEF CajaRows
<1>2. PICK f, g : f = [z \in Sessions |-> c[z][r]] /\ g = [z \in Sessions |-> d[z][r]] OBVIOUS
<1>3. (\A z \in Sessions : f[z] \in Int /\ g[z] \in Int) /\ (\A z \in Sessions \ {s} : g[z] = f[z]) /\ g[s] = f[s] + n
  BY <1>1, <1>2
<1>4. Sum(g, Sessions) = Sum(f, Sessions) + g[s] - f[s]
  <2>1. IsFiniteSet(Sessions) BY AccountFacts
  <2> QED BY <1>3, <2>1, TotalMoves
<1>5. Sum(f, Sessions) \in Int /\ f[s] \in Int BY <1>3, AccountFacts, TotalIsInt
<1>6. Net(d, r) = Net(c, r) + n
  <2>1. Sum(g, Sessions) = Sum(f, Sessions) + n BY <1>3, <1>4, <1>5
  <2> QED BY <1>2, <2>1 DEF Net
<1>7. ASSUME NEW q \in Requests \cup {Otro} PROVE (q # r => Net(d, q) = Net(c, q)) /\ Net(c, q) \in Int
  <2>1. PICK a, b : a = [z \in Sessions |-> c[z][q]] /\ b = [z \in Sessions |-> d[z][q]] OBVIOUS
  <2>2. \A z \in Sessions : a[z] \in Int /\ (q # r => b[z] = a[z]) BY <1>1, <2>1
  <2>3. q # r => Sum(b, Sessions) = Sum(a, Sessions) BY <2>2, TotalSame
  <2>4. Sum(a, Sessions) \in Int BY <2>2, AccountFacts, TotalIsInt
  <2> QED BY <2>1, <2>3, <2>4 DEF Net
<1> QED BY <1>6, <1>7

\* What the till says of a payment.
CashOf(p, c, z) ==
  \A r \in Requests :
    /\ p[r].estado \in {"none", "activo", "anulado"}
    /\ p[r].estado = "none" => Net(c, r) = 0
    /\ p[r].estado = "activo" => Net(c, r) = p[r].monto
    /\ p[r].estado = "anulado" => Net(c, r) = 0 \/ (Net(c, r) = p[r].monto /\ z[p[r].sesion].estado = "cerrada")

\* The till agrees with the payments in this state.
LEMMA CashNow ==
  RowsOK /\ CashMatchesPayments /\ viejas \cap {"annulPayment", "annulSale", "void"} = {} => CashOf(pagos, caja, sesiones)
<1> SUFFICES ASSUME RowsOK, CashMatchesPayments, viejas \cap {"annulPayment", "annulSale", "void"} = {}, NEW r \in Requests
             PROVE /\ pagos[r].estado \in {"none", "activo", "anulado"}
                   /\ pagos[r].estado = "none" => Net(caja, r) = 0
                   /\ pagos[r].estado = "activo" => Net(caja, r) = pagos[r].monto
                   /\ pagos[r].estado = "anulado" =>
                        Net(caja, r) = 0 \/ (Net(caja, r) = pagos[r].monto /\ sesiones[pagos[r].sesion].estado = "cerrada")
  BY DEF CashOf
<1>1. pagos[r].estado \in {"none", "activo", "anulado"} BY RowFields
<1>2. PICK e : e = pagos[r].estado OBVIOUS
<1>3. (CASE pagos[r].estado = "none" -> Net(caja, r) = 0
         [] pagos[r].estado = "activo" -> Net(caja, r) = pagos[r].monto
         [] pagos[r].estado = "anulado" ->
              Net(caja, r) = 0 \/ (Net(caja, r) = pagos[r].monto /\ sesiones[pagos[r].sesion].estado = "cerrada"))
  BY DEF CashMatchesPayments, Net
<1>4. PICK n : n = Net(caja, r) OBVIOUS
<1> QED BY <1>1, <1>3, <1>4

\* The till agrees with the payments in the next state.
LEMMA CashNext == CashOf(pagos', caja', sesiones') => CashMatchesPayments'
<1> SUFFICES ASSUME CashOf(pagos', caja', sesiones'), NEW r \in Requests
             PROVE (CASE pagos'[r].estado = "none" -> Net(caja', r) = 0
                      [] pagos'[r].estado = "activo" -> Net(caja', r) = pagos'[r].monto
                      [] pagos'[r].estado = "anulado" ->
                           Net(caja', r) = 0 \/ (Net(caja', r) = pagos'[r].monto /\ sesiones'[pagos'[r].sesion].estado = "cerrada"))
  BY DEF CashMatchesPayments, Net
<1>4. PICK n : n = Net(caja', r) OBVIOUS
<1> QED BY <1>4 DEF CashOf

\* What a payment pays of an installment is at most what the installment owes.
LEMMA ApplicationsBounded ==
  ASSUME RowsOK, NEW m \in Nat, NEW a, a = Applications(m)
  PROVE  a \in [Cuotas -> Nat] /\ \A i \in Cuotas : a[i] <= cuotas[i].saldo
<1>1. ASSUME NEW i \in Cuotas PROVE a[i] \in Nat /\ a[i] <= cuotas[i].saldo
  <2>1. PICK f, D, b : f = [j \in Cuotas |-> cuotas[j].saldo] /\ D = {j \in Cuotas : j < i} /\ b = Sum(f, D)
    OBVIOUS
  <2>2. \A j \in Cuotas : f[j] \in Nat BY <2>1, RowFields
  <2>3. D \in SUBSET Cuotas BY <2>1
  <2>4. b \in Nat BY <2>1, <2>2, <2>3, AccountFacts, TotalGrows
  <2>5. a[i] = IF m <= b THEN 0 ELSE Lower(m - b, cuotas[i].saldo) BY <2>1 DEF Applications
  <2>6. cuotas[i].saldo \in Nat BY RowFields
  <2> QED BY <2>4, <2>5, <2>6 DEF Lower
<1>2. a = [i \in Cuotas |-> a[i]] BY DEF Applications
<1> QED BY <1>1, <1>2

----------------------------------------
(* What the account says of its payments.                                  *)

\* The installments after a payment is applied to them.
LEMMA CuotasPay ==
  ASSUME RowsOK, NEW a \in [Cuotas -> Nat], \A i \in Cuotas : a[i] <= cuotas[i].saldo, NEW c,
         c = [i \in Cuotas |-> [pagado |-> cuotas[i].pagado + a[i], saldo |-> cuotas[i].saldo - a[i]]]
  PROVE  /\ c \in CuotaRows
         /\ \A i \in Cuotas : c[i].pagado = cuotas[i].pagado + a[i] /\ c[i].saldo = cuotas[i].saldo - a[i]
         /\ Sum([i \in Cuotas |-> c[i].saldo], Cuotas) = Sum([i \in Cuotas |-> cuotas[i].saldo], Cuotas) - Sum(a, Cuotas)
<1>1. \A i \in Cuotas : c[i].pagado = cuotas[i].pagado + a[i] /\ c[i].saldo = cuotas[i].saldo - a[i]
  OBVIOUS
<1>2. \A i \in Cuotas : cuotas[i].pagado \in Nat /\ cuotas[i].saldo \in Nat BY RowFields
<1>3. \A i \in Cuotas : c[i] \in [pagado : Nat, saldo : Nat]
  <2> SUFFICES ASSUME NEW i \in Cuotas PROVE c[i] \in [pagado : Nat, saldo : Nat] OBVIOUS
  <2>1. c[i] = [pagado |-> cuotas[i].pagado + a[i], saldo |-> cuotas[i].saldo - a[i]] OBVIOUS
  <2>2. cuotas[i].pagado + a[i] \in Nat /\ cuotas[i].saldo - a[i] \in Nat BY <1>2
  <2> QED BY <2>1, <2>2
<1>4. c \in CuotaRows BY <1>3 DEF CuotaRows
<1>5. PICK f, g : f = [i \in Cuotas |-> cuotas[i].saldo] /\ g = [i \in Cuotas |-> c[i].saldo]
  OBVIOUS
<1>6. \A i \in Cuotas : g[i] \in Int /\ a[i] \in Int /\ f[i] = g[i] + a[i] BY <1>1, <1>2, <1>5
<1>7. IsFiniteSet(Cuotas) BY AccountFacts
<1>8. Sum(f, Cuotas) = Sum(g, Cuotas) + Sum(a, Cuotas) BY <1>6, <1>7, TotalSum
<1>9. Sum(g, Cuotas) \in Int /\ Sum(a, Cuotas) \in Int BY <1>6, <1>7, TotalIsInt
<1>10. Sum(g, Cuotas) = Sum(f, Cuotas) - Sum(a, Cuotas) BY <1>8, <1>9
<1> QED BY <1>1, <1>4, <1>5, <1>10

\* The balance and the installments explained by the payments that count.
BalanceOf(saldo, cu, pg, A) ==
  /\ saldo = Total - Sum([r \in Requests |-> pg[r].monto], A)
  /\ saldo = Sum([i \in Cuotas |-> cu[i].saldo], Cuotas)
  /\ \A i \in Cuotas :
       /\ cu[i].pagado = Sum([r \in Requests |-> pg[r].aplicado[i]], A)
       /\ cu[i].pagado + cu[i].saldo = Originals[i]

\* One payment more counts.
LEMMA BalancePays ==
  ASSUME RowsOK, BalanceOf(cuenta.saldo, cuotas, pagos, Activos), NEW r \in Requests, r \notin Activos,
         NEW p \in Pago, NEW q, q[r] = p, \A x \in Requests : x # r => q[x] = pagos[x], NEW a \in [Cuotas -> Nat], p.aplicado = a, p.monto = Sum(a, Cuotas),
         NEW c, \A i \in Cuotas : c[i].pagado = cuotas[i].pagado + a[i] /\ c[i].saldo = cuotas[i].saldo - a[i],
         Sum([i \in Cuotas |-> c[i].saldo], Cuotas) = Sum([i \in Cuotas |-> cuotas[i].saldo], Cuotas) - Sum(a, Cuotas)
  PROVE  BalanceOf(cuenta.saldo - p.monto, c, q, Activos \cup {r})
<1>1. PICK A, n, v : A = Activos /\ n = cuenta.saldo /\ v = p.monto OBVIOUS
<1>2. A \subseteq Requests /\ IsFiniteSet(A) /\ n \in Nat /\ v \in Nat /\ r \notin A
  BY <1>1, RowFields DEF Pago
<1>3. pagos \in [Requests -> Pago] /\ \A x \in Requests : pagos[x].monto \in Nat /\ pagos[x].aplicado \in [Cuotas -> Nat]
  BY RowFields DEF RowsOK
<1>4. q[r] = p /\ \A x \in Requests : x # r => q[x] = pagos[x] OBVIOUS
<1>5. n - v = Total - Sum([x \in Requests |-> q[x].monto], A \cup {r})
  <2>1. PICK f, g : f = [x \in Requests |-> pagos[x].monto] /\ g = [x \in Requests |-> q[x].monto]
    OBVIOUS
  <2>2. g[r] = v /\ g[r] \in Int /\ \A x \in A : f[x] \in Int /\ g[x] = f[x]
    BY <1>1, <1>2, <1>3, <1>4, <2>1
  <2>3. Sum(g, A \cup {r}) = Sum(f, A) + g[r] BY <1>2, <2>2, PaidMore
  <2>4. Sum(f, A) \in Int BY <1>2, <2>2, TotalIsInt
  <2>5. n = Total - Sum(f, A) /\ Total \in Nat BY <1>1, <2>1, AccountFacts DEF BalanceOf
  <2>6. n - v = Total - Sum(g, A \cup {r}) BY <1>2, <2>2, <2>3, <2>4, <2>5
  <2> QED BY <2>1, <2>6
<1>6. n - v = Sum([i \in Cuotas |-> c[i].saldo], Cuotas) BY <1>1 DEF BalanceOf
<1>7. ASSUME NEW i \in Cuotas
      PROVE  c[i].pagado = Sum([x \in Requests |-> q[x].aplicado[i]], A \cup {r}) /\ c[i].pagado + c[i].saldo = Originals[i]
  <2>1. PICK f, g : f = [x \in Requests |-> pagos[x].aplicado[i]] /\ g = [x \in Requests |-> q[x].aplicado[i]]
    OBVIOUS
  <2>2. g[r] = a[i] /\ g[r] \in Int /\ \A x \in A : f[x] \in Int /\ g[x] = f[x]
    BY <1>2, <1>3, <1>4, <2>1
  <2>3. Sum(g, A \cup {r}) = Sum(f, A) + g[r] BY <1>2, <2>2, PaidMore
  <2>4. cuotas[i].pagado = Sum(f, A) /\ cuotas[i].pagado + cuotas[i].saldo = Originals[i]
    BY <1>1, <2>1 DEF BalanceOf
  <2>5. cuotas[i].pagado \in Nat /\ cuotas[i].saldo \in Nat /\ a[i] \in Nat BY RowFields
  <2>6. c[i].pagado = Sum(g, A \cup {r}) BY <2>2, <2>3, <2>4
  <2>7. c[i].pagado + c[i].saldo = Originals[i] BY <2>4, <2>5
  <2> QED BY <2>1, <2>6, <2>7
<1> QED BY <1>1, <1>5, <1>6, <1>7 DEF BalanceOf

\* The account is explained: its rows are.
LEMMA BalanceNow ==
  BalanceExplained /\ cuenta.estado # "anulada" /\ "annulPayment" \notin viejas =>
    BalanceOf(cuenta.saldo, cuotas, pagos, Activos) /\ (~Blocked => (cuenta.estado = "pagada" <=> cuenta.saldo = 0))
BY DEF BalanceExplained, BalanceOf

\* The next account is explained when its rows are.
LEMMA BalanceNext ==
  ASSUME NEW A, A = Activos', cuenta'.estado # "anulada" => BalanceOf(cuenta'.saldo, cuotas', pagos', A),
         ~Blocked' => (cuenta'.estado = "pagada" <=> cuenta'.saldo = 0)
  PROVE  BalanceExplained'
BY DEF BalanceExplained, BalanceOf

----------------------------------------
(* A payment is committed.                                                 *)

\* What a committed payment writes.
PaymentWrites(p, r, m, s, a) ==
  /\ p = [estado |-> "activo", monto |-> m, aplicado |-> a, sesion |-> s]
  /\ pagos' = [pagos EXCEPT ![r] = p]
  /\ cuotas' = [i \in Cuotas |-> [pagado |-> cuotas[i].pagado + a[i], saldo |-> cuotas[i].saldo - a[i]]]
  /\ cuenta' = [saldo |-> cuenta.saldo - m, estado |-> IF cuenta.saldo = m THEN "pagada" ELSE "parcial"]
  /\ caja' = [caja EXCEPT ![s][r] = @ + m]
  /\ UNCHANGED <<electronica, venta, baja, sesiones>>

\* A payment that is committed leaves the rows explained.
LEMMA PaymentBooks ==
  ASSUME BooksOK, NEW r \in Requests, NEW m \in Nat, m > 0, NEW s \in Sessions, ~Blocked, m <= cuenta.saldo,
         sesiones[s].estado # "none", viejas \subseteq viejas', viejas' = {} => s \in OpenOnes,
         pagos[r].estado = "none", NEW a, a = Applications(m), Sum(a, Cuotas) = m,
         NEW p, PaymentWrites(p, r, m, s, a), answered' \subseteq answered \cup {r},
         candado' \in Hilos \cup {None}, hilo' \in [Hilos -> CallRows]
  PROVE  BooksOK'
<1>0. /\ p = [estado |-> "activo", monto |-> m, aplicado |-> a, sesion |-> s]
      /\ pagos' = [pagos EXCEPT ![r] = p]
      /\ cuotas' = [i \in Cuotas |-> [pagado |-> cuotas[i].pagado + a[i], saldo |-> cuotas[i].saldo - a[i]]]
      /\ cuenta' = [saldo |-> cuenta.saldo - m, estado |-> IF cuenta.saldo = m THEN "pagada" ELSE "parcial"]
      /\ caja' = [caja EXCEPT ![s][r] = @ + m]
      /\ UNCHANGED <<electronica, venta, baja, sesiones>>
  BY DEF PaymentWrites
<1> USE <1>0
<1>1. RowsOK /\ PaidOK /\ BalanceExplained /\ AnnulledOwesNothing /\ OkMeansPaid /\ CashMatchesPayments /\ ClosedIsFinal
  BY DEF BooksOK, MoneyExplained, AccountExplained, CashExplained
<1>2. a \in [Cuotas -> Nat] /\ \A i \in Cuotas : a[i] <= cuotas[i].saldo
  BY <1>1, ApplicationsBounded
<1>3. s \in Sessions /\ s \in 0..MaxSessions /\ (viejas' = {} => sesiones[s].estado = "abierta")
  BY ReceivablesAssumption DEF OpenOnes, Sessions
<1>4. p \in Pago /\ p.estado = "activo" /\ p.monto = m /\ p.aplicado = a /\ p.sesion = s
  BY <1>2, <1>3 DEF Pago
<1>5. pagos' \in [Requests -> Pago] /\ pagos'[r] = p /\ \A q \in Requests : q # r => pagos'[q] = pagos[q]
  BY <1>1, <1>4 DEF RowsOK
<1>6. /\ cuotas' \in CuotaRows
      /\ \A i \in Cuotas : cuotas'[i].pagado = cuotas[i].pagado + a[i] /\ cuotas'[i].saldo = cuotas[i].saldo - a[i]
      /\ Sum([i \in Cuotas |-> cuotas'[i].saldo], Cuotas) = Sum([i \in Cuotas |-> cuotas[i].saldo], Cuotas) - Sum(a, Cuotas)
  BY <1>1, <1>2, CuotasPay
<1>7. cuenta.saldo \in Nat /\ cuenta.saldo - m \in Nat BY <1>1, RowFields
<1>8. /\ cuenta' \in [estado : {"pendiente", "parcial", "pagada", "anulacion_pendiente", "anulada"}, saldo : Nat]
      /\ cuenta'.saldo = cuenta.saldo - m /\ cuenta'.estado \in {"pagada", "parcial"}
      /\ cuenta'.estado = "pagada" <=> cuenta'.saldo = 0
  <2>1. PICK n, e : n = cuenta.saldo - m /\ e = IF cuenta.saldo = m THEN "pagada" ELSE "parcial"
    OBVIOUS
  <2>2. n \in Nat /\ e \in {"pagada", "parcial"} /\ (e = "pagada" <=> n = 0) BY <1>7, <2>1
  <2>3. cuenta' = [saldo |-> n, estado |-> e] BY <2>1
  <2> QED BY <2>1, <2>2, <2>3
<1>9. caja \in CajaRows /\ m \in Int /\ r \in Requests \cup {Otro} BY <1>1 DEF RowsOK
<1>10. /\ caja' \in CajaRows
       /\ \A z \in Sessions : z # s => caja'[z] = caja[z]
       /\ caja'[s][r] = caja[s][r] + m
       /\ \A z \in Sessions : \A q \in Requests \cup {Otro} : q # r => caja'[z][q] = caja[z][q]
  <2>1. PICK row : row = [caja[s] EXCEPT ![r] = caja[s][r] + m] OBVIOUS
  <2>5. caja[s] \in [Requests \cup {Otro} -> Int] BY <1>3, <1>9 DEF CajaRows
  <2>6. row \in [Requests \cup {Otro} -> Int] /\ row[r] = caja[s][r] + m /\ \A q \in Requests \cup {Otro} : q # r => row[q] = caja[s][q]
    BY <1>9, <2>1, <2>5
  <2>2. PICK d : d = caja' OBVIOUS
  <2>3. d = [caja EXCEPT ![s] = row] BY <2>1, <2>2
  <2>7. d \in CajaRows /\ d[s] = row /\ \A z \in Sessions : z # s => d[z] = caja[z]
    BY <1>3, <1>9, <2>3, <2>6 DEF CajaRows
  <2>4. /\ d \in CajaRows
        /\ \A z \in Sessions : z # s => d[z] = caja[z]
        /\ d[s][r] = caja[s][r] + m
        /\ \A z \in Sessions : \A q \in Requests \cup {Otro} : q # r => d[z][q] = caja[z][q]
    BY <1>3, <1>9, <2>6, <2>7, CajaMoves
  <2> QED BY <2>2, <2>4
<1>11. /\ Net(caja', r) = Net(caja, r) + m
       /\ \A q \in Requests \cup {Otro} : q # r => Net(caja', q) = Net(caja, q)
       /\ \A q \in Requests \cup {Otro} : Net(caja, q) \in Int
  <2>1. PICK d : d = caja' OBVIOUS
  <2>2. /\ d \in CajaRows
        /\ \A z \in Sessions : z # s => d[z] = caja[z]
        /\ d[s][r] = caja[s][r] + m
        /\ \A z \in Sessions : \A q \in Requests \cup {Otro} : q # r => d[z][q] = caja[z][q]
    BY <1>10, <2>1
  <2>3. /\ Net(d, r) = Net(caja, r) + m
        /\ \A q \in Requests \cup {Otro} : q # r => Net(d, q) = Net(caja, q)
        /\ \A q \in Requests \cup {Otro} : Net(caja, q) \in Int
    BY <1>3, <1>9, <2>2, NetMoves
  <2> QED BY <2>1, <2>3
<1>12. RowsOK' BY <1>1, <1>5, <1>6, <1>8, <1>10 DEF RowsOK
<1>13. cuenta.estado # "anulada" /\ venta # "anulada"
  <2>1. cuenta.estado # "anulada" BY DEF Blocked
  <2>2. venta = "anulada" => cuenta.estado = "anulada" BY <1>1 DEF PaidOK
  <2> QED BY <2>1, <2>2
<1>14. PaidOK'
  <2>1. ASSUME NEW q \in Requests, pagos'[q].estado # "none"
        PROVE  /\ pagos'[q].sesion \in Sessions /\ sesiones'[pagos'[q].sesion].estado # "none" /\ pagos'[q].monto > 0
               /\ pagos'[q].estado = "activo" => Sum(pagos'[q].aplicado, Cuotas) = pagos'[q].monto
    <3>1. CASE q = r BY <1>3, <1>4, <1>5, <3>1
    <3>2. CASE q # r BY <1>1, <1>5, <2>1, <3>2 DEF PaidOK
    <3> QED BY <3>1, <3>2
  <2>2. /\ baja' # "none" => electronica'
        /\ baja' = "pendiente" => venta' # "anulada"
        /\ cuenta'.estado = "anulada" <=> venta' = "anulada"
    BY <1>1, <1>8, <1>13 DEF PaidOK
  <2> QED BY <2>1, <2>2 DEF PaidOK
<1>15. BalanceExplained'
  <2> SUFFICES ASSUME "annulPayment" \notin viejas PROVE BalanceExplained' BY DEF BalanceExplained
  <2>1. PICK A : A = Activos \cup {r} OBVIOUS
  <2>2. r \notin Activos /\ A = Activos' BY <1>4, <1>5, <2>1 DEF Activos
  <2>3. BalanceOf(cuenta.saldo, cuotas, pagos, Activos) BY <1>1, <1>13, BalanceNow
  <2>6. PICK c, q : c = cuotas' /\ q = pagos' OBVIOUS
  <2>7. /\ q[r] = p /\ \A x \in Requests : x # r => q[x] = pagos[x]
        /\ \A i \in Cuotas : c[i].pagado = cuotas[i].pagado + a[i] /\ c[i].saldo = cuotas[i].saldo - a[i]
        /\ Sum([i \in Cuotas |-> c[i].saldo], Cuotas) = Sum([i \in Cuotas |-> cuotas[i].saldo], Cuotas) - Sum(a, Cuotas)
    BY <1>5, <1>6, <2>6
  <2>8. p.aplicado = a /\ p.monto = Sum(a, Cuotas) /\ p \in Pago /\ a \in [Cuotas -> Nat]
    BY <1>2, <1>4
  <2>9. BalanceOf(cuenta.saldo - p.monto, c, q, Activos \cup {r})
    BY <1>1, <2>2, <2>3, <2>7, <2>8, BalancePays
  <2>4. BalanceOf(cuenta.saldo - p.monto, cuotas', pagos', A) BY <2>1, <2>6, <2>9
  <2>5. BalanceOf(cuenta'.saldo, cuotas', pagos', A) BY <1>4, <1>8, <2>4
  <2> QED BY <1>8, <2>2, <2>5, BalanceNext
<1>16. AnnulledOwesNothing' BY <1>13 DEF AnnulledOwesNothing
<1>17. OkMeansPaid' BY <1>1, <1>4, <1>5 DEF OkMeansPaid, RowsOK
<1>18. CashMatchesPayments'
  <2> SUFFICES ASSUME viejas \cap {"annulPayment", "annulSale", "void"} = {} PROVE CashMatchesPayments'
    BY DEF CashMatchesPayments
  <2>1. CashOf(pagos, caja, sesiones) BY <1>1, CashNow
  <2>2. ASSUME NEW q \in Requests
        PROVE  /\ pagos'[q].estado \in {"none", "activo", "anulado"}
               /\ pagos'[q].estado = "none" => Net(caja', q) = 0
               /\ pagos'[q].estado = "activo" => Net(caja', q) = pagos'[q].monto
               /\ pagos'[q].estado = "anulado" =>
                    Net(caja', q) = 0 \/ (Net(caja', q) = pagos'[q].monto /\ sesiones'[pagos'[q].sesion].estado = "cerrada")
    <3>1. CASE q = r
      <4>1. Net(caja, r) = 0 BY <2>1 DEF CashOf
      <4>2. PICK x, y : x = Net(caja', r) /\ y = Net(caja, r) OBVIOUS
      <4>3. x = y + m /\ y = 0 BY <1>11, <4>1, <4>2
      <4>4. Net(caja', r) = m BY <4>2, <4>3
      <4> QED BY <1>4, <1>5, <3>1, <4>4
    <3>2. CASE q # r BY <1>5, <1>11, <2>1, <3>2 DEF CashOf
    <3> QED BY <3>1, <3>2
  <2> QED BY <2>2, CashNext DEF CashOf
<1>19. ClosedIsFinal' BY <1>1, <1>3, <1>10 DEF ClosedIsFinal
<1> QED BY <1>12, <1>14, <1>15, <1>16, <1>17, <1>18, <1>19 DEF BooksOK, MoneyExplained, AccountExplained, CashExplained

\* A payment is committed, or does not fit and changes nothing.
LEMMA PaymentCommitsSafe ==
  ASSUME AccountInv, NEW t \in Hilos, NEW lost \in BOOLEAN, PaymentCommits(t, lost)
  PROVE  AccountInv'
<1>1. RowsOK /\ BooksOK /\ CallsOK /\ CallOK(t) /\ OkMeansPaid
  BY DEF AccountInv, BooksOK, CallsOK, MoneyExplained, AccountExplained
<1>2. PICK h, i : h = hilo[t] /\ i = IdleCall OBVIOUS
<1>3. h \in CallRows /\ h.pc = "commit" /\ h.kind = "payment" /\ candado' = None
  BY <1>1, <1>2, RowFields DEF PaymentCommits
<1>4. i \in CallRows /\ i.pc = "idle" /\ Goes(t, i) BY <1>2, IdleCallTyped DEF PaymentCommits, Ends
<1>5. /\ h.req \in Requests /\ h.monto > 0 /\ candado = t /\ ~Blocked /\ h.monto <= cuenta.saldo
      /\ pagos[h.req].estado = "none" /\ h.sesion \in Sessions /\ sesiones[h.sesion].estado # "none"
  BY <1>1, <1>2, <1>3 DEF CallOK
<1>6. PICK r, m, s, a : r = h.req /\ m = h.monto /\ s = h.sesion /\ a = Applications(m) OBVIOUS
<1>7. hilo'[t] = i /\ hilo' \in [Hilos -> CallRows] BY <1>1, <1>4, CallChanged
<1>8. CASE Sum(a, Cuotas) # m
  <2>1. UNCHANGED <<books, answered>> BY <1>2, <1>6, <1>8 DEF PaymentCommits
  <2>2. answered' \subseteq Requests /\ \A q \in answered' : pagos[q].estado # "none"
    BY <1>1, <2>1 DEF RowsOK, OkMeansPaid
  <2>3. candado' \in Hilos \cup {None} /\ \A u \in Hilos : u # t /\ candado = u => candado' = u
    BY <1>3, <1>5
  <2>4. CallOK(t)' BY <1>4, <1>7, CallIdle
  <2>5. UNCHANGED books BY <2>1
  <2> QED BY <1>4, <2>2, <2>3, <2>4, <2>5, RequestReads
<1>9. CASE Sum(a, Cuotas) = m
  <2>1. PICK p : p = [estado |-> "activo", monto |-> m, aplicado |-> a, sesion |-> s] OBVIOUS
  <2>2. /\ pagos' = [pagos EXCEPT ![r] = p]
        /\ cuotas' = [j \in Cuotas |-> [pagado |-> cuotas[j].pagado + a[j], saldo |-> cuotas[j].saldo - a[j]]]
        /\ cuenta' = [saldo |-> cuenta.saldo - m, estado |-> IF cuenta.saldo = m THEN "pagada" ELSE "parcial"]
        /\ caja' = [caja EXCEPT ![s][r] = @ + m]
        /\ answered' = IF lost THEN answered ELSE answered \cup {r}
        /\ UNCHANGED <<electronica, venta, baja, sesiones>>
    BY <1>2, <1>6, <1>9, <2>1 DEF PaymentCommits
  <2>9. PaymentWrites(p, r, m, s, a) BY <2>1, <2>2 DEF PaymentWrites
  <2>3. m \in Nat /\ m > 0 /\ r \in Requests /\ s \in Sessions /\ sesiones[s].estado # "none"
        /\ m <= cuenta.saldo /\ pagos[r].estado = "none"
    BY <1>3, <1>5, <1>6 DEF CallRows
  <2>4. answered' \subseteq answered \cup {r} /\ candado' \in Hilos \cup {None} BY <1>3, <2>2
  <2>5. viejas \subseteq viejas' /\ (viejas' = {} => s \in OpenOnes)
    <3>1. Notes(t) BY <1>2, <1>6, <1>9 DEF PaymentCommits
    <3> QED BY <1>2, <1>3, <1>6, <3>1, Noted DEF Outdated
  <2>6. BooksOK' BY <1>1, <1>5, <1>6, <1>7, <1>9, <2>3, <2>4, <2>5, <2>9, PaymentBooks
  <2>7. \A u \in Hilos : u # t /\ candado = u => candado' = u /\ cuenta' = cuenta /\ pagos' = pagos
    BY <1>5
  <2>10. \A q \in Requests : pagos[q].estado # "none" => pagos'[q].estado # "none"
    <3>1. p.estado = "activo" BY <2>1
    <3>2. pagos \in [Requests -> Pago] BY <1>1 DEF RowsOK
    <3> QED BY <2>2, <3>1, <3>2
  <2>8. CallsOK' BY <1>1, <1>4, <2>2, <2>7, <2>10, CallsStay
  <2> QED BY <2>6, <2>8 DEF AccountInv
<1> QED BY <1>8, <1>9

\* A movement of the till belongs to no payment.
LEMMA MovementCommitsSafe ==
  ASSUME AccountInv, NEW t \in Hilos, MovementCommits(t)
  PROVE  AccountInv'
<1>1. /\ RowsOK /\ PaidOK /\ CallsOK /\ CallOK(t) /\ BalanceExplained /\ AnnulledOwesNothing /\ OkMeansPaid
      /\ CashMatchesPayments /\ ClosedIsFinal
  BY DEF AccountInv, BooksOK, CallsOK, MoneyExplained, AccountExplained, CashExplained
<1>2. PICK h, i : h = hilo[t] /\ i = IdleCall OBVIOUS
<1>3. h \in CallRows /\ h.pc = "commit" /\ h.kind = "movement"
  BY <1>1, <1>2, RowFields DEF MovementCommits
<1>4. i \in CallRows /\ i.pc = "idle" /\ Goes(t, i) BY <1>2, IdleCallTyped DEF MovementCommits, Ends
<1>5. PICK s, n : s = h.sesion /\ n = h.monto OBVIOUS
<1>6. s \in Sessions /\ n \in Int /\ viejas \subseteq viejas' /\ (viejas' = {} => sesiones[s].estado = "abierta")
  <2>1. s \in Sessions /\ n \in Int /\ Notes(t)
    BY <1>1, <1>2, <1>3, <1>5 DEF CallOK, CallRows, MovementCommits
  <2> QED BY <1>2, <1>3, <1>5, <2>1, Noted DEF Outdated, OpenOnes
<1>7. hilo'[t] = i /\ hilo' \in [Hilos -> CallRows] BY <1>1, <1>4, CallChanged
<1>8. UNCHANGED <<electronica, venta, baja, cuenta, cuotas, pagos, sesiones, candado, answered>>
  BY DEF MovementCommits
<1>9. PICK row : row = [caja[s] EXCEPT ![Otro] = caja[s][Otro] + n] OBVIOUS
<1>10. caja' = [caja EXCEPT ![s] = row] BY <1>2, <1>5, <1>9 DEF MovementCommits
<1>11. caja \in CajaRows /\ caja[s] \in [Requests \cup {Otro} -> Int]
  BY <1>1, <1>6 DEF RowsOK, CajaRows
<1>12. row \in [Requests \cup {Otro} -> Int] /\ row[Otro] = caja[s][Otro] + n /\ \A q \in Requests \cup {Otro} : q # Otro => row[q] = caja[s][q]
  BY <1>6, <1>9, <1>11
<1>13. PICK d : d = caja' OBVIOUS
<1>14. d \in CajaRows /\ d[s] = row /\ \A z \in Sessions : z # s => d[z] = caja[z]
  BY <1>6, <1>10, <1>11, <1>12, <1>13 DEF CajaRows
<1>15. d[s][Otro] = caja[s][Otro] + n /\ \A z \in Sessions : \A q \in Requests \cup {Otro} : q # Otro => d[z][q] = caja[z][q]
  BY <1>6, <1>11, <1>12, <1>14, CajaMoves
<1>16. \A q \in Requests \cup {Otro} : q # Otro => Net(d, q) = Net(caja, q)
  BY <1>6, <1>11, <1>14, <1>15, NetMoves
<1>17. RowsOK' BY <1>1, <1>7, <1>8, <1>13, <1>14 DEF RowsOK
<1>18. PaidOK' /\ BalanceExplained' /\ AnnulledOwesNothing' /\ OkMeansPaid'
  <2>1. PaidOK' BY <1>1, <1>8 DEF PaidOK
  <2>2. BalanceExplained' BY <1>1, <1>6, <1>8 DEF BalanceExplained, Activos, Blocked
  <2>3. AnnulledOwesNothing' /\ OkMeansPaid'
    BY <1>1, <1>6, <1>8 DEF AnnulledOwesNothing, OkMeansPaid, Activos
  <2> QED BY <2>1, <2>2, <2>3
<1>19. CashMatchesPayments'
  <2> SUFFICES ASSUME viejas \cap {"annulPayment", "annulSale", "void"} = {} PROVE CashMatchesPayments'
    BY <1>6 DEF CashMatchesPayments
  <2>1. CashOf(pagos, caja, sesiones) BY <1>1, CashNow
  <2>2. \A q \in Requests : Net(caja', q) = Net(caja, q) BY <1>13, <1>16, AccountFacts
  <2>3. CashOf(pagos', caja', sesiones') BY <1>8, <2>1, <2>2 DEF CashOf
  <2> QED BY <2>3, CashNext
<1>20. ClosedIsFinal' BY <1>1, <1>6, <1>8, <1>13, <1>14 DEF ClosedIsFinal
<1>21. CallsOK'
  <2>1. \A u \in Hilos : u # t /\ candado = u => candado' = u /\ cuenta' = cuenta /\ pagos' = pagos
    BY <1>8
  <2> QED BY <1>1, <1>4, <1>8, <2>1, CallsStay
<1> QED BY <1>17, <1>18, <1>19, <1>20, <1>21 DEF AccountInv, BooksOK, MoneyExplained, AccountExplained, CashExplained

\* A closing writes what the movements added up to: the sum, unless something changed meanwhile.
LEMMA CloseCommitsSafe ==
  ASSUME AccountInv, NEW t \in Hilos, CloseCommits(t)
  PROVE  AccountInv'
<1>1. /\ RowsOK /\ PaidOK /\ CallsOK /\ CallOK(t) /\ BalanceExplained /\ AnnulledOwesNothing /\ OkMeansPaid
      /\ CashMatchesPayments /\ ClosedIsFinal
  BY DEF AccountInv, BooksOK, CallsOK, MoneyExplained, AccountExplained, CashExplained
<1>2. PICK h, i : h = hilo[t] /\ i = IdleCall OBVIOUS
<1>3. h \in CallRows /\ h.pc = "commit" /\ h.kind = "close"
  BY <1>1, <1>2, RowFields DEF CloseCommits
<1>4. i \in CallRows /\ i.pc = "idle" /\ Goes(t, i) BY <1>2, IdleCallTyped DEF CloseCommits, Ends
<1>5. PICK s, n : s = h.sesion /\ n = h.monto OBVIOUS
<1>6. /\ s \in Sessions /\ n \in Int /\ viejas \subseteq viejas'
      /\ viejas' = {} => n = Sum(caja[s], Requests \cup {Otro})
  <2>1. s \in Sessions /\ n \in Int /\ Notes(t)
    BY <1>1, <1>2, <1>3, <1>5 DEF CallOK, CallRows, CloseCommits
  <2> QED BY <1>2, <1>3, <1>5, <2>1, Noted DEF Outdated
<1>7. hilo'[t] = i /\ hilo' \in [Hilos -> CallRows] BY <1>1, <1>4, CallChanged
<1>8. UNCHANGED <<electronica, venta, baja, cuenta, cuotas, pagos, caja, candado, answered>>
  BY DEF CloseCommits
<1>9. PICK z : z = [estado |-> "cerrada", esperado |-> n] OBVIOUS
<1>10. z \in [estado : {"none", "abierta", "cerrada"}, esperado : Int] /\ z.estado = "cerrada" /\ z.esperado = n
  BY <1>6, <1>9
<1>11. sesiones' = [sesiones EXCEPT ![s] = z] BY <1>2, <1>5, <1>9 DEF CloseCommits
<1>12. sesiones' \in SesionRows /\ sesiones'[s] = z /\ \A x \in Sessions : x # s => sesiones'[x] = sesiones[x]
  BY <1>1, <1>6, <1>10, <1>11 DEF RowsOK, SesionRows
<1>13. RowsOK' BY <1>1, <1>7, <1>8, <1>12 DEF RowsOK
<1>14. PaidOK' /\ BalanceExplained' /\ AnnulledOwesNothing' /\ OkMeansPaid'
  <2>1. ASSUME NEW r \in Requests, pagos'[r].estado # "none"
        PROVE  /\ pagos'[r].sesion \in Sessions /\ sesiones'[pagos'[r].sesion].estado # "none" /\ pagos'[r].monto > 0
               /\ pagos'[r].estado = "activo" => Sum(pagos'[r].aplicado, Cuotas) = pagos'[r].monto
    BY <1>1, <1>8, <1>10, <1>12, <2>1 DEF PaidOK
  <2>2. PaidOK' BY <1>1, <1>8, <2>1 DEF PaidOK
  <2>3. BalanceExplained' BY <1>1, <1>6, <1>8 DEF BalanceExplained, Activos, Blocked
  <2>4. AnnulledOwesNothing' /\ OkMeansPaid'
    BY <1>1, <1>6, <1>8 DEF AnnulledOwesNothing, OkMeansPaid, Activos
  <2> QED BY <2>2, <2>3, <2>4
<1>15. CashMatchesPayments'
  <2> SUFFICES ASSUME viejas \cap {"annulPayment", "annulSale", "void"} = {} PROVE CashMatchesPayments'
    BY <1>6 DEF CashMatchesPayments
  <2>1. CashOf(pagos, caja, sesiones) BY <1>1, CashNow
  <2>2. ASSUME NEW r \in Requests, pagos[r].estado = "anulado", sesiones[pagos[r].sesion].estado = "cerrada"
        PROVE  sesiones'[pagos[r].sesion].estado = "cerrada"
    BY <1>1, <1>10, <1>12, <2>2 DEF PaidOK
  <2>3. CashOf(pagos', caja', sesiones') BY <1>8, <2>1, <2>2 DEF CashOf
  <2> QED BY <2>3, CashNext
<1>16. ClosedIsFinal' BY <1>1, <1>6, <1>8, <1>10, <1>12 DEF ClosedIsFinal
<1>17. CallsOK'
  <2>1. \A x \in Sessions : sesiones[x].estado # "none" => sesiones'[x].estado # "none"
    BY <1>6, <1>10, <1>12
  <2>2. \A u \in Hilos : u # t /\ candado = u => candado' = u /\ cuenta' = cuenta /\ pagos' = pagos
    BY <1>8
  <2> QED BY <1>1, <1>4, <1>8, <2>1, <2>2, CallsStay
<1> QED BY <1>13, <1>14, <1>15, <1>16, <1>17 DEF AccountInv, BooksOK, MoneyExplained, AccountExplained, CashExplained

----------------------------------------
(* A payment is annulled.                                                  *)

\* The installments after a payment is taken back from them.
TakenBack(c, a) ==
  c = [i \in Cuotas |->
         IF a[i] = 0 THEN cuotas[i]
         ELSE [pagado |-> IF cuotas[i].pagado > a[i] THEN cuotas[i].pagado - a[i] ELSE 0,
               saldo |-> cuotas[i].saldo + a[i]]]

\* They lose what it applied to them, and owe it again.
LEMMA CuotasBack ==
  ASSUME RowsOK, NEW a \in [Cuotas -> Nat], \A i \in Cuotas : a[i] <= cuotas[i].pagado, NEW c, TakenBack(c, a)
  PROVE  /\ c \in CuotaRows
         /\ \A i \in Cuotas : c[i].pagado = cuotas[i].pagado - a[i] /\ c[i].saldo = cuotas[i].saldo + a[i]
         /\ Sum([i \in Cuotas |-> c[i].saldo], Cuotas) = Sum([i \in Cuotas |-> cuotas[i].saldo], Cuotas) + Sum(a, Cuotas)
<1>1. c = [i \in Cuotas |->
             IF a[i] = 0 THEN cuotas[i]
             ELSE [pagado |-> IF cuotas[i].pagado > a[i] THEN cuotas[i].pagado - a[i] ELSE 0,
                   saldo |-> cuotas[i].saldo + a[i]]]
  BY DEF TakenBack
<1>2. \A i \in Cuotas : cuotas[i].pagado \in Nat /\ cuotas[i].saldo \in Nat /\ cuotas[i] \in [pagado : Nat, saldo : Nat]
  BY RowFields DEF RowsOK, CuotaRows
<1>3. ASSUME NEW i \in Cuotas
      PROVE  c[i] \in [pagado : Nat, saldo : Nat] /\ c[i].pagado = cuotas[i].pagado - a[i] /\ c[i].saldo = cuotas[i].saldo + a[i]
  <2>1. CASE a[i] = 0
    <3>1. c[i] = cuotas[i] BY <1>1, <2>1
    <3> QED BY <1>2, <2>1, <3>1
  <2>2. CASE a[i] # 0
    <3>1. PICK n, k : n = (IF cuotas[i].pagado > a[i] THEN cuotas[i].pagado - a[i] ELSE 0) /\ k = cuotas[i].saldo + a[i]
      OBVIOUS
    <3>2. n = cuotas[i].pagado - a[i] /\ n \in Nat /\ k \in Nat
      <4>1. cuotas[i].pagado \in Nat /\ a[i] \in Nat /\ a[i] <= cuotas[i].pagado /\ cuotas[i].saldo \in Nat
        BY <1>2
      <4> QED BY <3>1, <4>1
    <3>3. c[i] = [pagado |-> n, saldo |-> k] BY <1>1, <2>2, <3>1
    <3> QED BY <3>1, <3>2, <3>3
  <2> QED BY <2>1, <2>2
<1>4. c \in CuotaRows BY <1>1, <1>3 DEF CuotaRows
<1>5. PICK f, g : f = [i \in Cuotas |-> cuotas[i].saldo] /\ g = [i \in Cuotas |-> c[i].saldo]
  OBVIOUS
<1>6. \A i \in Cuotas : f[i] \in Int /\ a[i] \in Int /\ g[i] = f[i] + a[i] BY <1>2, <1>3, <1>5
<1>7. IsFiniteSet(Cuotas) BY AccountFacts
<1>8. Sum(g, Cuotas) = Sum(f, Cuotas) + Sum(a, Cuotas) BY <1>6, <1>7, TotalSum
<1> QED BY <1>3, <1>4, <1>5, <1>8

\* What an installment received is no less than what one payment applied to it.
LEMMA AppliedBounded ==
  ASSUME RowsOK, BalanceOf(cuenta.saldo, cuotas, pagos, Activos), NEW r \in Activos, NEW i \in Cuotas
  PROVE  pagos[r].aplicado[i] <= cuotas[i].pagado
<1>1. PICK f, A : f = [x \in Requests |-> pagos[x].aplicado[i]] /\ A = Activos OBVIOUS
<1>2. A \subseteq Requests /\ IsFiniteSet(A) /\ r \in A BY <1>1, RowFields
<1>3. \A x \in A : f[x] \in Nat /\ f[x] \in Int BY <1>1, <1>2, RowFields
<1>4. PICK B : B = A \ {r} OBVIOUS
<1>5. Sum(f, A) = f[r] + Sum(f, B) BY <1>2, <1>3, <1>4, TotalWithout
<1>6. B \in SUBSET A BY <1>4
<1>7. Sum(f, B) \in Nat /\ f[r] \in Nat BY <1>2, <1>3, <1>6, TotalGrows
<1>8. cuotas[i].pagado = Sum(f, A) BY <1>1 DEF BalanceOf
<1>9. f[r] <= cuotas[i].pagado BY <1>5, <1>7, <1>8
<1> QED BY <1>1, <1>2, <1>9

\* The account says so after a payment less counts.
LEMMA BalanceBack ==
  ASSUME RowsOK, BalanceOf(cuenta.saldo, cuotas, pagos, Activos), NEW r \in Activos,
         NEW q, \A x \in Requests : x # r => q[x] = pagos[x], NEW a \in [Cuotas -> Nat], pagos[r].aplicado = a,
         pagos[r].monto = Sum(a, Cuotas),
         NEW c, \A i \in Cuotas : c[i].pagado = cuotas[i].pagado - a[i] /\ c[i].saldo = cuotas[i].saldo + a[i],
         Sum([i \in Cuotas |-> c[i].saldo], Cuotas) = Sum([i \in Cuotas |-> cuotas[i].saldo], Cuotas) + Sum(a, Cuotas)
  PROVE  BalanceOf(cuenta.saldo + pagos[r].monto, c, q, Activos \ {r})
<1>1. PICK A, n, v : A = Activos /\ n = cuenta.saldo /\ v = pagos[r].monto OBVIOUS
<1>2. A \subseteq Requests /\ IsFiniteSet(A) /\ n \in Nat /\ v \in Nat /\ r \in A /\ r \in Requests
  BY <1>1, RowFields
<1>3. \A x \in Requests : pagos[x].monto \in Nat /\ pagos[x].aplicado \in [Cuotas -> Nat]
  BY RowFields
<1>5. n + v = Total - Sum([x \in Requests |-> q[x].monto], A \ {r})
  <2>1. PICK f, g : f = [x \in Requests |-> pagos[x].monto] /\ g = [x \in Requests |-> q[x].monto]
    OBVIOUS
  <2>2. f[r] = v /\ (\A x \in A : f[x] \in Int) /\ \A x \in A \ {r} : g[x] = f[x]
    BY <1>1, <1>2, <1>3, <2>1
  <2>3. Sum(g, A \ {r}) = Sum(f, A) - f[r] BY <1>2, <2>2, PaidLess
  <2>4. Sum(f, A) \in Int BY <1>2, <2>2, TotalIsInt
  <2>5. n = Total - Sum(f, A) /\ Total \in Nat BY <1>1, <2>1, AccountFacts DEF BalanceOf
  <2>6. n + v = Total - Sum(g, A \ {r}) BY <1>2, <2>2, <2>3, <2>4, <2>5
  <2> QED BY <2>1, <2>6
<1>6. n + v = Sum([i \in Cuotas |-> c[i].saldo], Cuotas) BY <1>1 DEF BalanceOf
<1>7. ASSUME NEW i \in Cuotas
      PROVE  c[i].pagado = Sum([x \in Requests |-> q[x].aplicado[i]], A \ {r}) /\ c[i].pagado + c[i].saldo = Originals[i]
  <2>1. PICK f, g : f = [x \in Requests |-> pagos[x].aplicado[i]] /\ g = [x \in Requests |-> q[x].aplicado[i]]
    OBVIOUS
  <2>2. f[r] = a[i] /\ (\A x \in A : f[x] \in Int) /\ \A x \in A \ {r} : g[x] = f[x]
    BY <1>2, <1>3, <2>1
  <2>3. Sum(g, A \ {r}) = Sum(f, A) - f[r] BY <1>2, <2>2, PaidLess
  <2>4. cuotas[i].pagado = Sum(f, A) /\ cuotas[i].pagado + cuotas[i].saldo = Originals[i]
    BY <1>1, <2>1 DEF BalanceOf
  <2>5. cuotas[i].pagado \in Nat /\ cuotas[i].saldo \in Nat /\ a[i] \in Nat BY RowFields
  <2>6. c[i].pagado = Sum(g, A \ {r}) BY <2>2, <2>3, <2>4
  <2>7. c[i].pagado + c[i].saldo = Originals[i] BY <2>4, <2>5
  <2> QED BY <2>1, <2>6, <2>7
<1> QED BY <1>1, <1>5, <1>6, <1>7 DEF BalanceOf

\* What an annulled payment writes, from a payment and the installments that were read.
AnnulWrites(r, p, cu) ==
  LET a == p.aplicado IN
  /\ cuotas' = [i \in Cuotas |->
                  IF a[i] = 0 THEN cuotas[i]
                  ELSE [pagado |-> IF cu[i].pagado > a[i] THEN cu[i].pagado - a[i] ELSE 0,
                        saldo |-> cu[i].saldo + a[i]]]
  /\ pagos' = [pagos EXCEPT ![r].estado = "anulado", ![r].aplicado = NoPago.aplicado]
  /\ cuenta' = [saldo |-> cuenta.saldo + p.monto,
                estado |-> IF Activos \ {r} # {} THEN "parcial" ELSE "pendiente"]
  /\ caja' = [caja EXCEPT ![p.sesion][r] = @ - p.monto]
  /\ UNCHANGED <<electronica, venta, baja, sesiones>>

\* However old they are, the rows have their types and the account lives on.
LEMMA AnnulRows ==
  ASSUME RowsOK, PaidOK, OkMeansPaid, NEW r \in Requests, pagos[r].estado # "none", NEW p \in Pago, NEW cu \in CuotaRows,
         p.sesion \in Sessions, cuenta.estado # "anulada",
         AnnulWrites(r, p, cu), UNCHANGED <<candado, answered>>, hilo' \in [Hilos -> CallRows]
  PROVE  /\ RowsOK' /\ PaidOK' /\ AnnulledOwesNothing' /\ OkMeansPaid'
         /\ pagos'[r].estado = "anulado" /\ \A x \in Requests : x # r => pagos'[x] = pagos[x]
<1>1. PICK a, m, s : a = p.aplicado /\ m = p.monto /\ s = p.sesion OBVIOUS
<1>2. a \in [Cuotas -> Nat] /\ m \in Nat /\ s \in Sessions BY <1>1 DEF Pago
<1>3. UNCHANGED <<electronica, venta, baja, sesiones>> BY DEF AnnulWrites
<1>4. cuotas' \in CuotaRows
  <2>1. ASSUME NEW i \in Cuotas PROVE cuotas'[i] \in [pagado : Nat, saldo : Nat]
    <3>1. PICK n, k : n = (IF cu[i].pagado > a[i] THEN cu[i].pagado - a[i] ELSE 0) /\ k = cu[i].saldo + a[i]
      OBVIOUS
    <3>2. cu[i] \in [pagado : Nat, saldo : Nat] /\ cuotas[i] \in [pagado : Nat, saldo : Nat] /\ a[i] \in Nat
      BY <1>2 DEF RowsOK, CuotaRows
    <3>3. n \in Nat /\ k \in Nat BY <3>1, <3>2
    <3>4. cuotas'[i] = cuotas[i] \/ cuotas'[i] = [pagado |-> n, saldo |-> k]
      BY <1>1, <3>1 DEF AnnulWrites
    <3> QED BY <3>2, <3>3, <3>4
  <2>2. cuotas' = [i \in Cuotas |-> cuotas'[i]] BY DEF AnnulWrites
  <2> QED BY <2>1, <2>2 DEF CuotaRows
<1>5. PICK x, q : x = pagos[r] /\ q = [x EXCEPT !.estado = "anulado", !.aplicado = NoPago.aplicado]
  OBVIOUS
<1>6. pagos' = [pagos EXCEPT ![r] = q] BY <1>5 DEF AnnulWrites
<1>7. q \in Pago /\ q.estado = "anulado" /\ q.monto = x.monto /\ q.sesion = x.sesion
  <2>1. NoPago.aplicado \in [Cuotas -> Nat] BY DEF NoPago
  <2>2. x \in Pago BY <1>5, RowFields
  <2> QED BY <1>5, <2>1, <2>2 DEF Pago
<1>8. pagos' \in [Requests -> Pago] /\ pagos'[r] = q /\ \A z \in Requests : z # r => pagos'[z] = pagos[z]
  BY <1>6, <1>7 DEF RowsOK
<1>9. /\ cuenta' \in [estado : {"pendiente", "parcial", "pagada", "anulacion_pendiente", "anulada"}, saldo : Nat]
      /\ cuenta'.estado \in {"pendiente", "parcial"}
  <2>1. PICK n, e : n = cuenta.saldo + m /\ e = IF Activos \ {r} # {} THEN "parcial" ELSE "pendiente"
    OBVIOUS
  <2>2. n \in Nat /\ e \in {"pendiente", "parcial"} BY <1>2, <2>1, RowFields
  <2>3. cuenta' = [saldo |-> n, estado |-> e] BY <1>1, <2>1 DEF AnnulWrites
  <2> QED BY <2>2, <2>3
<1>10. caja' \in CajaRows
  <2>9. caja[s][r] \in Int BY <1>2, RowFields
  <2>5. caja \in CajaRows BY DEF RowsOK
  <2>6. caja[s] \in [Requests \cup {Otro} -> Int] BY <1>2, <2>5 DEF CajaRows
  <2>1. caja \in CajaRows /\ caja[s] \in [Requests \cup {Otro} -> Int] /\ caja[s][r] - m \in Int
    BY <1>2, <2>9, <2>5, <2>6
  <2>2. PICK row : row = [caja[s] EXCEPT ![r] = caja[s][r] - m] OBVIOUS
  <2>3. row \in [Requests \cup {Otro} -> Int] BY <2>1, <2>2
  <2>4. caja' = [caja EXCEPT ![s] = row] BY <1>1, <2>2 DEF AnnulWrites
  <2> QED BY <2>1, <2>3, <2>4 DEF CajaRows
<1>11. RowsOK' BY <1>3, <1>4, <1>8, <1>9, <1>10 DEF RowsOK
<1>12. PaidOK'
  <2>1. ASSUME NEW z \in Requests, pagos'[z].estado # "none"
        PROVE  /\ pagos'[z].sesion \in Sessions /\ sesiones'[pagos'[z].sesion].estado # "none" /\ pagos'[z].monto > 0
               /\ pagos'[z].estado = "activo" => Sum(pagos'[z].aplicado, Cuotas) = pagos'[z].monto
    <3>1. CASE z = r BY <1>3, <1>5, <1>7, <1>8, <3>1 DEF PaidOK
    <3>2. CASE z # r BY <1>3, <1>8, <2>1, <3>2 DEF PaidOK
    <3> QED BY <3>1, <3>2
  <2>2. /\ baja' # "none" => electronica'
        /\ baja' = "pendiente" => venta' # "anulada"
        /\ cuenta'.estado = "anulada" <=> venta' = "anulada"
    BY <1>3, <1>9 DEF PaidOK
  <2> QED BY <2>1, <2>2 DEF PaidOK
<1>13. AnnulledOwesNothing' /\ OkMeansPaid'
  BY <1>3, <1>7, <1>8 DEF AnnulledOwesNothing, OkMeansPaid, PaidOK, RowsOK
<1> QED BY <1>7, <1>8, <1>11, <1>12, <1>13

\* A payment that is annulled as it stands leaves the rows explained.
LEMMA AnnulBooks ==
  ASSUME BooksOK, NEW r \in Activos, NEW s \in OpenOnes, pagos[r].sesion = s, cuenta.estado # "anulada",
         AnnulWrites(r, pagos[r], cuotas), viejas' = viejas, UNCHANGED <<candado, answered>>, hilo' \in [Hilos -> CallRows]
  PROVE  BooksOK'
<1>1. RowsOK /\ PaidOK /\ BalanceExplained /\ AnnulledOwesNothing /\ OkMeansPaid /\ CashMatchesPayments /\ ClosedIsFinal
  BY DEF BooksOK, MoneyExplained, AccountExplained, CashExplained
<1>2. PICK p, a, m : p = pagos[r] /\ a = p.aplicado /\ m = p.monto OBVIOUS
<1>3. s \in Sessions /\ s \in 0..MaxSessions /\ sesiones[s].estado = "abierta"
  BY ReceivablesAssumption DEF OpenOnes, Sessions
<1>4. /\ r \in Requests /\ p \in Pago /\ p.estado = "activo" /\ p.sesion = s /\ m \in Nat /\ m > 0
      /\ a \in [Cuotas -> Nat] /\ Sum(a, Cuotas) = m
  BY <1>1, <1>2, RowFields DEF PaidOK, Activos
<1>5. TakenBack(cuotas', a) /\ UNCHANGED <<electronica, venta, baja, sesiones>>
  BY <1>2 DEF AnnulWrites, TakenBack
<1>6. PICK q : q = [p EXCEPT !.estado = "anulado", !.aplicado = NoPago.aplicado] OBVIOUS
<1>7. pagos' = [pagos EXCEPT ![r] = q] BY <1>2, <1>6 DEF AnnulWrites
<1>8. q \in Pago /\ q.estado = "anulado" /\ q.monto = m /\ q.sesion = s
  <2>1. NoPago.aplicado \in [Cuotas -> Nat] BY DEF NoPago
  <2> QED BY <1>2, <1>4, <1>6, <2>1 DEF Pago
<1>9. pagos' \in [Requests -> Pago] /\ pagos'[r] = q /\ \A x \in Requests : x # r => pagos'[x] = pagos[x]
  BY <1>1, <1>4, <1>7, <1>8 DEF RowsOK
<1>10. "annulPayment" \notin viejas => BalanceOf(cuenta.saldo, cuotas, pagos, Activos)
  BY <1>1, BalanceNow
<1>11. "annulPayment" \notin viejas => \A i \in Cuotas : a[i] <= cuotas[i].pagado
  BY <1>1, <1>2, <1>10, AppliedBounded
<1>12. PICK c, y : c = cuotas' /\ y = pagos' OBVIOUS
<1>13. "annulPayment" \notin viejas =>
       /\ \A i \in Cuotas : c[i].pagado = cuotas[i].pagado - a[i] /\ c[i].saldo = cuotas[i].saldo + a[i]
       /\ Sum([i \in Cuotas |-> c[i].saldo], Cuotas) = Sum([i \in Cuotas |-> cuotas[i].saldo], Cuotas) + Sum(a, Cuotas)
  <2>1. TakenBack(c, a) BY <1>5, <1>12
  <2> QED BY <1>1, <1>4, <1>11, <2>1, CuotasBack
<1>14. "annulPayment" \notin viejas => BalanceOf(cuenta.saldo + pagos[r].monto, c, y, Activos \ {r})
  <2>1. (\A x \in Requests : x # r => y[x] = pagos[x]) /\ pagos[r].aplicado = a /\ pagos[r].monto = Sum(a, Cuotas)
    BY <1>2, <1>4, <1>9, <1>12
  <2> QED BY <1>1, <1>4, <1>10, <1>13, <2>1, BalanceBack
<1>15. /\ cuenta' \in [estado : {"pendiente", "parcial", "pagada", "anulacion_pendiente", "anulada"}, saldo : Nat]
       /\ cuenta'.saldo = cuenta.saldo + m /\ cuenta'.estado \in {"pendiente", "parcial"} /\ cuenta'.saldo # 0
  <2>1. PICK n, e : n = cuenta.saldo + m /\ e = IF Activos \ {r} # {} THEN "parcial" ELSE "pendiente"
    OBVIOUS
  <2>2. n \in Nat /\ e \in {"pendiente", "parcial"} /\ n # 0 BY <1>1, <1>4, <2>1, RowFields
  <2>3. cuenta' = [saldo |-> n, estado |-> e] BY <1>2, <2>1 DEF AnnulWrites
  <2> QED BY <2>1, <2>2, <2>3
<1>16. caja \in CajaRows /\ 0 - m \in Int /\ r \in Requests \cup {Otro} /\ caja[s] \in [Requests \cup {Otro} -> Int]
  <2>1. caja \in [Sessions -> [Requests \cup {Otro} -> Int]] BY <1>1 DEF RowsOK, CajaRows
  <2>2. caja[s] \in [Requests \cup {Otro} -> Int] BY <1>3, <2>1
  <2>3. 0 - m \in Int BY <1>4
  <2> QED BY <1>1, <1>4, <2>2, <2>3 DEF RowsOK
<1>17. PICK row : row = [caja[s] EXCEPT ![r] = caja[s][r] - m] OBVIOUS
<1>18. caja' = [caja EXCEPT ![s] = row] BY <1>2, <1>17 DEF AnnulWrites
<1>19. row \in [Requests \cup {Otro} -> Int] /\ row[r] = caja[s][r] + (0 - m) /\ \A x \in Requests \cup {Otro} : x # r => row[x] = caja[s][x]
  BY <1>4, <1>16, <1>17
<1>20. PICK d : d = caja' OBVIOUS
<1>21. d \in CajaRows /\ d[s] = row /\ \A z \in Sessions : z # s => d[z] = caja[z]
  BY <1>3, <1>16, <1>18, <1>19, <1>20 DEF CajaRows
<1>22. d[s][r] = caja[s][r] + (0 - m) /\ \A z \in Sessions : \A x \in Requests \cup {Otro} : x # r => d[z][x] = caja[z][x]
  BY <1>3, <1>16, <1>19, <1>21, CajaMoves
<1>23. /\ Net(d, r) = Net(caja, r) + (0 - m)
       /\ \A x \in Requests \cup {Otro} : x # r => Net(d, x) = Net(caja, x)
       /\ \A x \in Requests \cup {Otro} : Net(caja, x) \in Int
  BY <1>3, <1>16, <1>21, <1>22, NetMoves
<1>24. RowsOK' /\ PaidOK' /\ AnnulledOwesNothing' /\ OkMeansPaid'
  <2>1. p \in Pago /\ cuotas \in CuotaRows /\ p.sesion \in Sessions /\ pagos[r].estado # "none" /\ r \in Requests
    BY <1>1, <1>2, <1>3, <1>4 DEF RowsOK
  <2> QED BY <1>1, <1>2, <2>1, AnnulRows
<1>26. BalanceExplained'
  <2> SUFFICES ASSUME "annulPayment" \notin viejas PROVE BalanceExplained' BY DEF BalanceExplained
  <2>1. PICK A : A = Activos \ {r} OBVIOUS
  <2>2. A = Activos' BY <1>4, <1>8, <1>9, <2>1 DEF Activos
  <2>3. BalanceOf(cuenta'.saldo, cuotas', pagos', A) BY <1>2, <1>12, <1>14, <1>15, <2>1
  <2> QED BY <1>15, <2>2, <2>3, BalanceNext
<1>29. CashMatchesPayments'
  <2> SUFFICES ASSUME viejas \cap {"annulPayment", "annulSale", "void"} = {} PROVE CashMatchesPayments'
    BY DEF CashMatchesPayments
  <2>1. CashOf(pagos, caja, sesiones) BY <1>1, CashNow
  <2>2. ASSUME NEW x \in Requests
        PROVE  /\ pagos'[x].estado \in {"none", "activo", "anulado"}
               /\ pagos'[x].estado = "none" => Net(caja', x) = 0
               /\ pagos'[x].estado = "activo" => Net(caja', x) = pagos'[x].monto
               /\ pagos'[x].estado = "anulado" =>
                    Net(caja', x) = 0 \/ (Net(caja', x) = pagos'[x].monto /\ sesiones'[pagos'[x].sesion].estado = "cerrada")
    <3>1. CASE x = r
      <4>1. Net(caja, r) = m BY <1>2, <1>4, <2>1 DEF CashOf
      <4>2. PICK k, l : k = Net(d, r) /\ l = Net(caja, r) OBVIOUS
      <4>3. k = l + (0 - m) /\ l = m BY <1>23, <4>1, <4>2
      <4>4. k = 0 BY <1>4, <4>3
      <4>5. Net(caja', r) = 0 BY <1>20, <4>2, <4>4
      <4> QED BY <1>8, <1>9, <3>1, <4>5
    <3>2. CASE x # r BY <1>5, <1>9, <1>20, <1>23, <2>1, <3>2 DEF CashOf
    <3> QED BY <3>1, <3>2
  <2> QED BY <2>2, CashNext DEF CashOf
<1>30. ClosedIsFinal' BY <1>1, <1>3, <1>5, <1>20, <1>21 DEF ClosedIsFinal
<1> QED BY <1>24, <1>26, <1>29, <1>30 DEF BooksOK, MoneyExplained, AccountExplained, CashExplained

\* A payment is annulled as it was read, or the account is closed already.
LEMMA AnnulPaymentCommitsSafe ==
  ASSUME AccountInv, NEW t \in Hilos, AnnulPaymentCommits(t)
  PROVE  AccountInv'
<1>1. RowsOK /\ PaidOK /\ BooksOK /\ CallsOK /\ CallOK(t) /\ OkMeansPaid
  BY DEF AccountInv, BooksOK, CallsOK, MoneyExplained, AccountExplained
<1>2. PICK h, i : h = hilo[t] /\ i = IdleCall OBVIOUS
<1>3. h \in CallRows /\ h.pc = "commit" /\ h.kind = "annulPayment" /\ UNCHANGED <<candado, answered>> /\ candado = None
  BY <1>1, <1>2, RowFields DEF AnnulPaymentCommits
<1>4. i \in CallRows /\ i.pc = "idle" /\ Goes(t, i)
  BY <1>2, IdleCallTyped DEF AnnulPaymentCommits, Ends
<1>5. hilo'[t] = i /\ hilo' \in [Hilos -> CallRows] BY <1>1, <1>4, CallChanged
<1>6. \A u \in Hilos : candado # u BY <1>3, AccountFacts
<1>7. CASE cuenta.estado = "anulada"
  <2>1. UNCHANGED books BY <1>7 DEF AnnulPaymentCommits
  <2>2. candado' \in Hilos \cup {None} /\ answered' \subseteq Requests /\ \A q \in answered' : pagos[q].estado # "none"
    BY <1>1, <1>3 DEF RowsOK, OkMeansPaid
  <2>3. BooksOK' BY <1>1, <1>5, <2>1, <2>2, BooksStay
  <2>4. electronica' = electronica /\ pagos' = pagos /\ sesiones' = sesiones BY <2>1 DEF books
  <2>5. CallsOK' BY <1>1, <1>4, <1>6, <2>4, CallsStay
  <2> QED BY <2>3, <2>5 DEF AccountInv
<1>8. CASE cuenta.estado # "anulada"
  <2>1. h.req \in Requests /\ pagos[h.req].estado # "none" /\ h.pago.estado = "activo" /\ h.pago.sesion \in Sessions
    BY <1>1, <1>2, <1>3 DEF CallOK
  <2>2. PICK r, p, cu : r = h.req /\ p = h.pago /\ cu = h.cuotas OBVIOUS
  <2>3. p \in Pago /\ cu \in CuotaRows BY <1>3, <2>2 DEF CallRows
  <2>4. AnnulWrites(r, p, cu) /\ Notes(t)
    <3>1. AnnulPaymentCommits(t) /\ cuenta.estado # "anulada" BY <1>8
    <3>2. hilo[t].req = r /\ hilo[t].pago = p /\ hilo[t].cuotas = cu BY <1>2, <2>2
    <3> QED BY <3>1, <3>2 DEF AnnulPaymentCommits, AnnulWrites
  <2>5. /\ RowsOK' /\ PaidOK' /\ AnnulledOwesNothing' /\ OkMeansPaid'
        /\ pagos'[r].estado = "anulado" /\ \A x \in Requests : x # r => pagos'[x] = pagos[x]
    BY <1>1, <1>3, <1>5, <1>8, <2>1, <2>2, <2>3, <2>4, AnnulRows
  <2>6. CallsOK'
    <3>1. electronica' = electronica /\ sesiones' = sesiones BY <2>4 DEF AnnulWrites
    <3>2. \A x \in Requests : pagos[x].estado # "none" => pagos'[x].estado # "none" BY <2>5
    <3> QED BY <1>1, <1>4, <1>6, <3>1, <3>2, CallsStay
  <2>7. CASE Outdated(h)
    <3>1. "annulPayment" \in viejas' BY <1>2, <1>3, <2>4, <2>7, Noted
    <3>2. BalanceExplained' /\ CashMatchesPayments' /\ ClosedIsFinal'
      BY <3>1 DEF BalanceExplained, CashMatchesPayments, ClosedIsFinal
    <3> QED BY <2>5, <2>6, <3>2 DEF AccountInv, BooksOK, MoneyExplained, AccountExplained, CashExplained
  <2>8. CASE ~Outdated(h)
    <3>1. viejas' = viejas BY <1>2, <2>4, <2>8 DEF Notes
    <3>2. PICK s : s = p.sesion OBVIOUS
    <3>3. p = pagos[r] /\ cu = cuotas /\ s \in OpenOnes /\ pagos[r].sesion = s
      BY <1>3, <2>2, <2>8, <3>2 DEF Outdated
    <3>4. r \in Activos BY <2>1, <2>2, <3>3 DEF Activos
    <3>5. AnnulWrites(r, pagos[r], cuotas) BY <2>4, <3>3
    <3>6. BooksOK' BY <1>1, <1>3, <1>5, <1>8, <3>1, <3>3, <3>4, <3>5, AnnulBooks
    <3> QED BY <2>6, <3>6 DEF AccountInv
  <2> QED BY <2>7, <2>8
<1> QED BY <1>7, <1>8

----------------------------------------
(* The sale is annulled.                                                   *)

\* The net of one payment after its till changed by n in one session, or did not change.
LEMMA NetAt ==
  ASSUME NEW c \in CajaRows, NEW d \in CajaRows, NEW r \in Requests \cup {Otro}
  PROVE  /\ Net(c, r) \in Int
         /\ (\A z \in Sessions : d[z][r] = c[z][r]) => Net(d, r) = Net(c, r)
         /\ \A s \in Sessions : \A n \in Int :
              (d[s][r] = c[s][r] - n /\ \A z \in Sessions : z # s => d[z][r] = c[z][r]) => Net(d, r) = Net(c, r) - n
<1>1. PICK f, g : f = [z \in Sessions |-> c[z][r]] /\ g = [z \in Sessions |-> d[z][r]] OBVIOUS
<1>2. \A z \in Sessions : f[z] = c[z][r] /\ g[z] = d[z][r] /\ f[z] \in Int /\ g[z] \in Int
  BY <1>1 DEF CajaRows
<1>3. IsFiniteSet(Sessions) /\ Net(c, r) = Sum(f, Sessions) /\ Net(d, r) = Sum(g, Sessions)
  BY <1>1, AccountFacts DEF Net
<1>4. Sum(f, Sessions) \in Int BY <1>2, <1>3, TotalIsInt
<1>5. (\A z \in Sessions : d[z][r] = c[z][r]) => Sum(g, Sessions) = Sum(f, Sessions)
  BY <1>2, TotalSame
<1>6. ASSUME NEW s \in Sessions, NEW n \in Int, d[s][r] = c[s][r] - n, \A z \in Sessions : z # s => d[z][r] = c[z][r]
      PROVE  Sum(g, Sessions) = Sum(f, Sessions) - n
  <2>1. \A z \in Sessions \ {s} : g[z] = f[z] BY <1>2, <1>6
  <2>2. Sum(g, Sessions) = Sum(f, Sessions) + g[s] - f[s] BY <1>2, <1>3, <2>1, TotalMoves
  <2>3. g[s] = f[s] - n /\ f[s] \in Int BY <1>2, <1>6
  <2> QED BY <1>4, <2>2, <2>3
<1> QED BY <1>3, <1>4, <1>5, <1>6

\* What the end of the sale writes.
SaleWrites(h) ==
  /\ venta' = "anulada"
  /\ baja' = IF h.kind = "void" THEN "aceptada" ELSE baja
  /\ caja' = [s \in Sessions |-> [r \in Requests \cup {Otro} |->
                IF r \in h.viejos /\ pagos[r].sesion = s THEN caja[s][r] - pagos[r].monto ELSE caja[s][r]]]
  /\ pagos' = [r \in Requests |-> IF r \in h.marcados THEN [pagos[r] EXCEPT !.estado = "anulado"] ELSE pagos[r]]
  /\ cuenta' = [estado |-> "anulada", saldo |-> 0]
  /\ cuotas' = [i \in Cuotas |-> [cuotas[i] EXCEPT !.saldo = 0]]
  /\ UNCHANGED <<electronica, sesiones, candado, answered>>

\* The sale is annulled with all of its payments; the money of those that were read leaves its till.
LEMMA SaleBooks ==
  ASSUME BooksOK, NEW h \in CallRows, SaleWrites(h), hilo' \in [Hilos -> CallRows],
         h.kind \in {"annulSale", "void"}, h.marcados \subseteq Existing, viejas \subseteq viejas',
         h.kind \notin viejas' => h.viejos = Returnable /\ h.marcados = Existing,
         electronica <=> h.kind = "void"
  PROVE  BooksOK'
<1>1. RowsOK /\ PaidOK /\ OkMeansPaid /\ CashMatchesPayments /\ ClosedIsFinal
  BY DEF BooksOK, MoneyExplained, AccountExplained, CashExplained
<1>2. UNCHANGED <<electronica, sesiones, candado, answered>> /\ venta' = "anulada" /\ cuenta' = [estado |-> "anulada", saldo |-> 0]
  BY DEF SaleWrites
<1>3. baja' \in {"none", "pendiente", "aceptada", "rechazada"} /\ baja' # "pendiente" /\ (baja' # "none" => electronica)
  <2>1. baja' = IF h.kind = "void" THEN "aceptada" ELSE baja BY DEF SaleWrites
  <2>2. baja # "none" => electronica BY <1>1 DEF PaidOK
  <2> QED BY <1>1, <2>1, <2>2 DEF RowsOK
<1>4. ASSUME NEW r \in Requests
      PROVE  /\ pagos'[r] \in Pago /\ pagos'[r].monto = pagos[r].monto /\ pagos'[r].sesion = pagos[r].sesion
             /\ pagos'[r].estado = IF r \in h.marcados THEN "anulado" ELSE pagos[r].estado
             /\ pagos'[r].aplicado = pagos[r].aplicado
  <2>1. pagos'[r] = IF r \in h.marcados THEN [pagos[r] EXCEPT !.estado = "anulado"] ELSE pagos[r]
    BY DEF SaleWrites
  <2>2. PICK p, q : p = pagos[r] /\ q = [p EXCEPT !.estado = "anulado"] OBVIOUS
  <2>3. p \in Pago BY <1>1, <2>2, RowFields
  <2>4. q \in Pago /\ q.estado = "anulado" /\ q.monto = p.monto /\ q.sesion = p.sesion /\ q.aplicado = p.aplicado
    BY <2>2, <2>3 DEF Pago
  <2>5. CASE r \notin h.marcados
    <3>1. pagos'[r] = p BY <2>1, <2>2, <2>5
    <3> QED BY <2>2, <2>3, <2>5, <3>1
  <2>6. CASE r \in h.marcados
    <3>1. pagos'[r] = q BY <2>1, <2>2, <2>6
    <3> QED BY <2>2, <2>4, <2>6, <3>1
  <2> QED BY <2>5, <2>6
<1>5. pagos' \in [Requests -> Pago]
  <2>1. pagos' = [r \in Requests |-> pagos'[r]] BY DEF SaleWrites
  <2> QED BY <1>4, <2>1
<1>6. cuotas' \in CuotaRows /\ \A i \in Cuotas : cuotas'[i].saldo = 0
  <2>1. ASSUME NEW i \in Cuotas PROVE cuotas'[i] \in [pagado : Nat, saldo : Nat] /\ cuotas'[i].saldo = 0
    <3>1. PICK p, q : p = cuotas[i] /\ q = [p EXCEPT !.saldo = 0] OBVIOUS
    <3>2. cuotas'[i] = q BY <3>1 DEF SaleWrites
    <3>3. p \in [pagado : Nat, saldo : Nat] BY <1>1, <3>1 DEF RowsOK, CuotaRows
    <3>4. q \in [pagado : Nat, saldo : Nat] /\ q.saldo = 0 BY <3>1, <3>3
    <3> QED BY <3>2, <3>4
  <2>2. cuotas' = [i \in Cuotas |-> cuotas'[i]] BY DEF SaleWrites
  <2> QED BY <2>1, <2>2 DEF CuotaRows
<1>7. PICK c, d, v : c = caja /\ d = caja' /\ v = h.viejos OBVIOUS
<1>8. ASSUME NEW s \in Sessions, NEW r \in Requests \cup {Otro}
      PROVE  /\ c[s][r] \in Int
             /\ d[s][r] = IF r \in v /\ pagos[r].sesion = s THEN c[s][r] - pagos[r].monto ELSE c[s][r]
             /\ d[s][r] \in Int
  <2>1. c[s][r] \in Int BY <1>1, <1>7, RowFields
  <2>2. d[s][r] = IF r \in v /\ pagos[r].sesion = s THEN c[s][r] - pagos[r].monto ELSE c[s][r]
    BY <1>7 DEF SaleWrites
  <2>4. v \subseteq Requests BY <1>7 DEF CallRows
  <2>3. r \in v => pagos[r].monto \in Int BY <1>1, <2>4, RowFields
  <2> QED BY <2>1, <2>2, <2>3
<1>9. c \in CajaRows /\ d \in CajaRows
  <2>1. c \in CajaRows BY <1>1, <1>7 DEF RowsOK
  <2>2. d = [s \in Sessions |-> [r \in Requests \cup {Otro} |-> d[s][r]]] BY <1>7 DEF SaleWrites
  <2>3. \A s \in Sessions : \A r \in Requests \cup {Otro} : d[s][r] \in Int BY <1>8
  <2> QED BY <2>1, <2>2, <2>3 DEF CajaRows
<1>10. RowsOK'
  <2>1. cuenta' \in [estado : {"pendiente", "parcial", "pagada", "anulacion_pendiente", "anulada"}, saldo : Nat]
    BY <1>2
  <2> QED BY <1>1, <1>2, <1>3, <1>5, <1>6, <1>7, <1>9, <2>1 DEF RowsOK
<1>11. PaidOK'
  <2>1. ASSUME NEW x \in Requests, pagos'[x].estado # "none"
        PROVE  /\ pagos'[x].sesion \in Sessions /\ sesiones'[pagos'[x].sesion].estado # "none" /\ pagos'[x].monto > 0
               /\ pagos'[x].estado = "activo" => Sum(pagos'[x].aplicado, Cuotas) = pagos'[x].monto
    BY <1>1, <1>2, <1>4, <2>1 DEF PaidOK, Existing
  <2> QED BY <1>2, <1>3, <2>1 DEF PaidOK
<1>12. BalanceExplained' BY <1>2 DEF BalanceExplained
<1>13. AnnulledOwesNothing'
  <2>1. viejas' \cap {"annulSale", "void"} = {} => Activos' = {} BY <1>4 DEF Activos, Existing
  <2> QED BY <1>2, <1>3, <1>6, <2>1 DEF AnnulledOwesNothing
<1>14. OkMeansPaid' BY <1>1, <1>2, <1>4 DEF OkMeansPaid, RowsOK
<1>17. ASSUME h.kind \notin viejas'
       PROVE  /\ \A r \in Requests : pagos'[r].estado = IF pagos[r].estado = "none" THEN "none" ELSE "anulado"
              /\ v \subseteq Activos
              /\ \A r \in Activos : IF r \in v THEN pagos[r].sesion \in OpenOnes
                                    ELSE sesiones[pagos[r].sesion].estado = "cerrada"
  <2>1. v = Returnable /\ h.marcados = Existing BY <1>7, <1>17
  <2>2. ASSUME NEW r \in Activos, r \notin v PROVE sesiones[pagos[r].sesion].estado = "cerrada"
    <3>1. pagos[r].sesion \in Sessions /\ sesiones[pagos[r].sesion].estado # "none"
      BY <1>1, <2>2 DEF PaidOK, Activos
    <3>2. sesiones[pagos[r].sesion].estado # "abierta" BY <2>1, <2>2, <3>1 DEF OpenOnes, Returnable
    <3>3. sesiones[pagos[r].sesion] \in [estado : {"none", "abierta", "cerrada"}, esperado : Int]
      BY <1>1, <3>1 DEF RowsOK, SesionRows
    <3> QED BY <3>2, <3>1, <3>3
  <2> QED BY <1>4, <2>1, <2>2 DEF Existing, Returnable
<1>15. CashMatchesPayments'
  <2> SUFFICES ASSUME viejas \cap {"annulPayment", "annulSale", "void"} = {}, h.kind \notin viejas' PROVE CashMatchesPayments'
    BY DEF CashMatchesPayments
  <2>1. CashOf(pagos, caja, sesiones) BY <1>1, CashNow
  <2>2. ASSUME NEW x \in Requests
        PROVE  /\ pagos'[x].estado \in {"none", "activo", "anulado"}
               /\ pagos'[x].estado = "none" => Net(caja', x) = 0
               /\ pagos'[x].estado = "activo" => Net(caja', x) = pagos'[x].monto
               /\ pagos'[x].estado = "anulado" =>
                    Net(caja', x) = 0 \/ (Net(caja', x) = pagos'[x].monto /\ sesiones'[pagos'[x].sesion].estado = "cerrada")
    <3>1. CASE x \in v
      <4>1. x \in Activos /\ pagos[x].estado = "activo" /\ pagos[x].sesion \in Sessions /\ pagos[x].monto \in Int
        BY <1>1, <1>7, <1>17, <3>1, RowFields DEF Activos, PaidOK
      <4>2. PICK s, n : s = pagos[x].sesion /\ n = pagos[x].monto OBVIOUS
      <4>3. d[s][x] = c[s][x] - n /\ \A z \in Sessions : z # s => d[z][x] = c[z][x]
        BY <1>8, <3>1, <4>1, <4>2
      <4>4. x \in Requests \cup {Otro} /\ s \in Sessions /\ n \in Int BY <4>1, <4>2
      <4>5. Net(d, x) = Net(c, x) - n BY <1>9, <4>3, <4>4, NetAt
      <4>6. Net(c, x) = n BY <1>7, <2>1, <4>1, <4>2 DEF CashOf
      <4>7. PICK k, l : k = Net(d, x) /\ l = Net(c, x) OBVIOUS
      <4>8. k = l - n /\ l = n BY <4>5, <4>6, <4>7
      <4>9. k = 0 BY <4>4, <4>8
      <4>10. Net(caja', x) = 0 /\ pagos'[x].estado = "anulado"
        BY <1>4, <1>7, <1>17, <4>1, <4>7, <4>9
      <4> QED BY <4>10
    <3>2. CASE x \notin v
      <4>1. \A z \in Sessions : d[z][x] = c[z][x] BY <1>8, <3>2
      <4>2. x \in Requests \cup {Otro} OBVIOUS
      <4>3. Net(caja', x) = Net(caja, x) BY <1>7, <1>9, <4>1, <4>2, NetAt
      <4>4. CASE pagos[x].estado = "activo"
        <5>1. x \in Activos /\ sesiones[pagos[x].sesion].estado = "cerrada"
          BY <1>7, <1>17, <3>2, <4>4 DEF Activos
        <5>2. Net(caja', x) = pagos'[x].monto BY <1>4, <2>1, <4>3, <4>4 DEF CashOf
        <5> QED BY <1>2, <1>4, <1>17, <4>4, <5>1, <5>2
      <4>5. CASE pagos[x].estado # "activo"
        <5>1. pagos[x].estado \in {"none", "anulado"} BY <2>1, <4>5 DEF CashOf
        <5>2. pagos'[x].estado = pagos[x].estado /\ pagos'[x].monto = pagos[x].monto /\ pagos'[x].sesion = pagos[x].sesion
          BY <1>4, <1>17, <5>1
        <5> QED BY <1>2, <2>1, <4>3, <5>1, <5>2 DEF CashOf
      <4> QED BY <4>4, <4>5
    <3> QED BY <3>1, <3>2
  <2> QED BY <2>2, CashNext DEF CashOf
<1>16. ClosedIsFinal'
  <2> SUFFICES ASSUME viejas = {}, h.kind \notin viejas' PROVE ClosedIsFinal' BY DEF ClosedIsFinal
  <2>1. ASSUME NEW s \in Sessions, sesiones[s].estado = "cerrada" PROVE Sum(d[s], Requests \cup {Otro}) = Sum(c[s], Requests \cup {Otro})
    <3>1. ASSUME NEW r \in Requests \cup {Otro} PROVE d[s][r] = c[s][r]
      <4>1. r \in v => pagos[r].sesion # s BY <1>7, <1>17, <2>1 DEF OpenOnes
      <4> QED BY <1>8, <4>1
    <3>2. PICK f, g : f = c[s] /\ g = d[s] OBVIOUS
    <3>3. \A r \in Requests \cup {Otro} : g[r] = f[r] BY <3>1, <3>2
    <3>4. Sum(g, Requests \cup {Otro}) = Sum(f, Requests \cup {Otro}) BY <3>3, TotalSame
    <3> QED BY <3>2, <3>4
  <2> QED BY <1>1, <1>2, <1>7, <2>1 DEF ClosedIsFinal
<1> QED BY <1>10, <1>11, <1>12, <1>13, <1>14, <1>15, <1>16 DEF BooksOK, MoneyExplained, AccountExplained, CashExplained

\* The end of the sale.
LEMMA SaleCommitsSafe ==
  ASSUME AccountInv, NEW t \in Hilos, SaleCommits(t)
  PROVE  AccountInv'
<1>1. RowsOK /\ BooksOK /\ CallsOK /\ CallOK(t) BY DEF AccountInv, BooksOK, CallsOK
<1>2. PICK h, i : h = hilo[t] /\ i = IdleCall OBVIOUS
<1>3. h \in CallRows /\ h.pc = "commit" /\ h.kind \in {"annulSale", "void"}
  BY <1>1, <1>2, RowFields DEF SaleCommits
<1>4. i \in CallRows /\ i.pc = "idle" /\ Goes(t, i) BY <1>2, IdleCallTyped DEF SaleCommits, Ends
<1>5. hilo'[t] = i /\ hilo' \in [Hilos -> CallRows] BY <1>1, <1>4, CallChanged
<1>6. /\ h.marcados \subseteq Existing /\ (electronica <=> h.kind = "void") /\ viejas \subseteq viejas'
      /\ h.kind \notin viejas' => h.viejos = Returnable /\ h.marcados = Existing
  <2>1. Notes(t) BY DEF SaleCommits
  <2> QED BY <1>1, <1>2, <1>3, <2>1, Noted DEF CallOK, Outdated
<1>7. SaleWrites(h) BY <1>2 DEF SaleCommits, SaleWrites
<1>8. BooksOK' BY <1>1, <1>3, <1>5, <1>6, <1>7, SaleBooks
<1>9. CallsOK'
  <2>1. \A r \in Requests : pagos'[r] = pagos[r] \/ pagos'[r] = [pagos[r] EXCEPT !.estado = "anulado"]
    BY <1>7 DEF SaleWrites
  <2>2. ASSUME NEW r \in Requests, pagos[r].estado # "none" PROVE pagos'[r].estado # "none"
    <3>1. pagos[r] \in Pago BY <1>1, RowFields
    <3> QED BY <2>1, <2>2, <3>1 DEF Pago
  <2>3. electronica' = electronica /\ sesiones' = sesiones /\ \A u \in Hilos : candado # u
    BY <1>7, AccountFacts DEF SaleWrites, SaleCommits
  <2> QED BY <1>1, <1>4, <2>2, <2>3, CallsStay
<1> QED BY <1>8, <1>9 DEF AccountInv

----------------------------------------
(* Voids and sessions; the theorem.                                        *)

\* A step of nobody's request: the lock is free, and nothing that was read changes.
LEMMA RequestsStay ==
  ASSUME RowsOK, CallsOK, hilo' = hilo, electronica' = electronica, pagos' = pagos,
         \A s \in Sessions : sesiones[s].estado # "none" => sesiones'[s].estado # "none",
         candado' = candado, candado = None \/ cuenta' = cuenta
  PROVE  CallsOK'
<1>1. ASSUME NEW u \in Hilos PROVE CallOK(u)'
  <2>1. CallOK(u) /\ hilo'[u] = hilo[u] /\ (candado = u => candado' = u /\ cuenta' = cuenta /\ pagos' = pagos)
    BY AccountFacts DEF CallsOK
  <2> QED BY <2>1, CallStays
<1> QED BY <1>1 DEF CallsOK

\* The void is requested, or rejected: the account changes its state and not its balance.
LEMMA VoidSafe ==
  ASSUME AccountInv, VoidRequested \/ VoidRejected
  PROVE  AccountInv'
<1>1. /\ RowsOK /\ PaidOK /\ CallsOK /\ BalanceExplained /\ AnnulledOwesNothing /\ OkMeansPaid
      /\ CashMatchesPayments /\ ClosedIsFinal
  BY DEF AccountInv, BooksOK, CallsOK, MoneyExplained, AccountExplained, CashExplained
<1>2. UNCHANGED <<electronica, venta, cuotas, pagos, sesiones, caja, viejas, candado, hilo, answered>> /\ candado = None
  BY DEF VoidRequested, VoidRejected
<1>3. CallsOK' BY <1>1, <1>2, RequestsStay
<1>4. venta # "anulada" /\ cuenta.estado # "anulada" /\ electronica
  <2>1. venta # "anulada" BY <1>1 DEF VoidRequested, VoidRejected, PaidOK
  <2>2. electronica BY <1>1 DEF VoidRequested, VoidRejected, PaidOK
  <2> QED BY <1>1, <2>1, <2>2 DEF PaidOK
<1>5. baja' \in {"pendiente", "rechazada"} BY DEF VoidRequested, VoidRejected
<1>6. PICK k : k = cuenta OBVIOUS
<1>7. k \in [estado : {"pendiente", "parcial", "pagada", "anulacion_pendiente", "anulada"}, saldo : Nat] /\ k.estado # "anulada" /\ k.saldo = cuenta.saldo
  BY <1>1, <1>4, <1>6 DEF RowsOK
<1>8. /\ cuenta' \in [estado : {"pendiente", "parcial", "pagada", "anulacion_pendiente", "anulada"}, saldo : Nat]
      /\ cuenta'.saldo = cuenta.saldo /\ cuenta'.estado # "anulada"
      /\ "annulPayment" \notin viejas => (~Blocked' => (cuenta'.estado = "pagada" <=> cuenta'.saldo = 0))
  <2>1. CASE VoidRequested
    <3>1. cuenta' = [k EXCEPT !.estado = "anulacion_pendiente"] BY <1>6, <2>1 DEF VoidRequested
    <3> QED BY <1>7, <3>1 DEF Blocked
  <2>2. CASE VoidRejected
    <3>1. CASE k.estado # "anulacion_pendiente"
      <4>1. cuenta' = cuenta BY <1>6, <2>2, <3>1 DEF VoidRejected
      <4>2. ~Blocked /\ ("annulPayment" \notin viejas => (cuenta.estado = "pagada" <=> cuenta.saldo = 0))
        BY <1>1, <1>4, <1>6, <3>1 DEF BalanceExplained, Blocked
      <4> QED BY <1>6, <1>7, <4>1, <4>2
    <3>2. CASE k.estado = "anulacion_pendiente"
      <4>1. PICK e : e = IF k.saldo = 0 THEN "pagada" ELSE "pendiente" OBVIOUS
      <4>2. cuenta' = [k EXCEPT !.estado = e] BY <1>6, <2>2, <3>2, <4>1 DEF VoidRejected
      <4>3. e \in {"pagada", "pendiente"} /\ (e = "pagada" <=> k.saldo = 0) BY <4>1
      <4> QED BY <1>7, <4>2, <4>3
    <3> QED BY <3>1, <3>2
  <2> QED BY <2>1, <2>2
<1>9. RowsOK' BY <1>1, <1>2, <1>5, <1>8 DEF RowsOK
<1>10. PaidOK' BY <1>1, <1>2, <1>4, <1>5, <1>8 DEF PaidOK
<1>11. BalanceExplained'
  <2> SUFFICES ASSUME "annulPayment" \notin viejas PROVE BalanceExplained'
    BY <1>2 DEF BalanceExplained
  <2>1. BalanceOf(cuenta.saldo, cuotas, pagos, Activos) BY <1>1, <1>4, BalanceNow
  <2>2. Activos = Activos' BY <1>2 DEF Activos
  <2>3. BalanceOf(cuenta'.saldo, cuotas', pagos', Activos) BY <1>2, <1>8, <2>1
  <2> QED BY <1>8, <2>2, <2>3, BalanceNext
<1>12. AnnulledOwesNothing' /\ OkMeansPaid' /\ ClosedIsFinal' /\ CashMatchesPayments'
  <2>1. CashMatchesPayments' BY <1>1, <1>2 DEF CashMatchesPayments
  <2> QED BY <1>1, <1>2, <1>4, <2>1 DEF AnnulledOwesNothing, OkMeansPaid, ClosedIsFinal
<1> QED BY <1>3, <1>9, <1>10, <1>11, <1>12 DEF AccountInv, BooksOK, MoneyExplained, AccountExplained, CashExplained

\* A session is opened.
LEMMA OpenSessionSafe ==
  ASSUME AccountInv, OpenSession
  PROVE  AccountInv'
<1>1. /\ RowsOK /\ PaidOK /\ CallsOK /\ BalanceExplained /\ AnnulledOwesNothing /\ OkMeansPaid
      /\ CashMatchesPayments /\ ClosedIsFinal
  BY DEF AccountInv, BooksOK, CallsOK, MoneyExplained, AccountExplained, CashExplained
<1>2. UNCHANGED <<electronica, venta, baja, cuenta, cuotas, pagos, caja, viejas, candado, hilo, answered>>
  BY DEF OpenSession
<1>3. PICK s \in Sessions : sesiones[s].estado = "none" /\ sesiones' = [sesiones EXCEPT ![s].estado = "abierta"]
  BY DEF OpenSession
<1>4. PICK z, y : z = sesiones[s] /\ y = [z EXCEPT !.estado = "abierta"] OBVIOUS
<1>5. z \in [estado : {"none", "abierta", "cerrada"}, esperado : Int]
  BY <1>1, <1>4 DEF RowsOK, SesionRows
<1>6. y \in [estado : {"none", "abierta", "cerrada"}, esperado : Int] /\ y.estado = "abierta"
  BY <1>4, <1>5
<1>7. sesiones' = [sesiones EXCEPT ![s] = y] BY <1>3, <1>4
<1>8. sesiones' \in SesionRows /\ sesiones'[s] = y /\ \A x \in Sessions : x # s => sesiones'[x] = sesiones[x]
  BY <1>1, <1>6, <1>7 DEF RowsOK, SesionRows
<1>9. \A x \in Sessions : sesiones[x].estado # "none" => sesiones'[x] = sesiones[x] BY <1>3, <1>8
<1>10. CallsOK'
  <2>1. \A x \in Sessions : sesiones[x].estado # "none" => sesiones'[x].estado # "none" BY <1>9
  <2> QED BY <1>1, <1>2, <2>1, RequestsStay
<1>11. RowsOK' BY <1>1, <1>2, <1>8 DEF RowsOK
<1>12. PaidOK'
  <2>1. ASSUME NEW r \in Requests, pagos'[r].estado # "none"
        PROVE  /\ pagos'[r].sesion \in Sessions /\ sesiones'[pagos'[r].sesion].estado # "none" /\ pagos'[r].monto > 0
               /\ pagos'[r].estado = "activo" => Sum(pagos'[r].aplicado, Cuotas) = pagos'[r].monto
    BY <1>1, <1>2, <1>9, <2>1 DEF PaidOK
  <2> QED BY <1>1, <1>2, <2>1 DEF PaidOK
<1>13. BalanceExplained' /\ AnnulledOwesNothing' /\ OkMeansPaid'
  <2>1. BalanceExplained' BY <1>1, <1>2 DEF BalanceExplained, Activos, Blocked
  <2> QED BY <1>1, <1>2, <2>1 DEF AnnulledOwesNothing, OkMeansPaid, Activos
<1>14. CashMatchesPayments'
  <2> SUFFICES ASSUME viejas \cap {"annulPayment", "annulSale", "void"} = {} PROVE CashMatchesPayments'
    BY <1>2 DEF CashMatchesPayments
  <2>1. CashOf(pagos, caja, sesiones) BY <1>1, CashNow
  <2>2. ASSUME NEW r \in Requests, pagos[r].estado = "anulado", sesiones[pagos[r].sesion].estado = "cerrada"
        PROVE  sesiones'[pagos[r].sesion].estado = "cerrada"
    BY <1>1, <1>9, <2>2 DEF PaidOK
  <2>3. CashOf(pagos', caja', sesiones') BY <1>2, <2>1, <2>2 DEF CashOf
  <2> QED BY <2>3, CashNext
<1>15. ClosedIsFinal' BY <1>1, <1>2, <1>6, <1>8 DEF ClosedIsFinal
<1> QED BY <1>10, <1>11, <1>12, <1>13, <1>14, <1>15 DEF AccountInv, BooksOK, MoneyExplained, AccountExplained, CashExplained

\* A sale on credit that was just made.
LEMMA AccountStarts == AccountInit => AccountInv
<1> SUFFICES ASSUME AccountInit PROVE AccountInv OBVIOUS
<1>1. /\ electronica \in BOOLEAN /\ venta = "completada" /\ baja = "none"
      /\ cuenta = [estado |-> "pendiente", saldo |-> Total]
      /\ cuotas = [i \in Cuotas |-> [pagado |-> 0, saldo |-> Originals[i]]]
      /\ pagos = [r \in Requests |-> NoPago]
      /\ sesiones = [s \in Sessions |-> [estado |-> "none", esperado |-> 0]]
      /\ caja = [s \in Sessions |-> [r \in Requests \cup {Otro} |-> 0]]
      /\ viejas = {} /\ candado = None /\ hilo = [t \in Hilos |-> IdleCall] /\ answered = {}
  BY DEF AccountInit
<1>2. \A r \in Requests : pagos[r] = NoPago BY <1>1
<1>3. NoPago \in Pago /\ NoPago.estado = "none" BY IdleCallTyped DEF NoPago
<1>4. \A i \in Cuotas : cuotas[i] \in [pagado : Nat, saldo : Nat] /\ cuotas[i].pagado = 0 /\ cuotas[i].saldo = Originals[i]
  <2> SUFFICES ASSUME NEW i \in Cuotas PROVE cuotas[i] \in [pagado : Nat, saldo : Nat] /\ cuotas[i].pagado = 0 /\ cuotas[i].saldo = Originals[i]
    OBVIOUS
  <2>1. cuotas[i] = [pagado |-> 0, saldo |-> Originals[i]] /\ Originals[i] \in Nat
    BY <1>1, AccountFacts
  <2> QED BY <2>1
<1>5. RowsOK
  <2>1. cuotas \in CuotaRows BY <1>1, <1>4 DEF CuotaRows
  <2>2. cuenta \in [estado : {"pendiente", "parcial", "pagada", "anulacion_pendiente", "anulada"}, saldo : Nat]
    BY <1>1, AccountFacts
  <2>3. pagos \in [Requests -> Pago] BY <1>1, <1>3
  <2>4. sesiones \in SesionRows /\ caja \in CajaRows BY <1>1 DEF SesionRows, CajaRows
  <2>5. hilo \in [Hilos -> CallRows] BY <1>1, IdleCallTyped
  <2> QED BY <1>1, <2>1, <2>2, <2>3, <2>4, <2>5 DEF RowsOK
<1>6. PaidOK BY <1>1, <1>2, <1>3 DEF PaidOK
<1>7. Activos = {} BY <1>2, <1>3 DEF Activos
<1>8. BalanceExplained
  <2>1. cuenta.saldo = Total /\ cuenta.estado = "pendiente" /\ Total \in Nat /\ Total > 0
    BY <1>1, AccountFacts
  <2>2. cuenta.saldo = Total - Sum([r \in Requests |-> pagos[r].monto], Activos)
    <3>1. Sum([r \in Requests |-> pagos[r].monto], Activos) = 0 BY <1>7, TotalNone
    <3> QED BY <2>1, <3>1
  <2>3. cuenta.saldo = Sum([i \in Cuotas |-> cuotas[i].saldo], Cuotas)
    <3>1. PICK f : f = [i \in Cuotas |-> cuotas[i].saldo] OBVIOUS
    <3>2. \A i \in Cuotas : f[i] = Originals[i] BY <1>4, <3>1
    <3>3. Sum(f, Cuotas) = Sum(Originals, Cuotas) BY <3>2, TotalSame
    <3> QED BY <2>1, <3>1, <3>3 DEF Total
  <2>4. ASSUME NEW i \in Cuotas
        PROVE  cuotas[i].pagado = Sum([r \in Requests |-> pagos[r].aplicado[i]], Activos) /\ cuotas[i].pagado + cuotas[i].saldo = Originals[i]
    <3>1. Sum([r \in Requests |-> pagos[r].aplicado[i]], Activos) = 0 BY <1>7, TotalNone
    <3>2. cuotas[i].pagado = 0 /\ cuotas[i].saldo = Originals[i] /\ Originals[i] \in Nat
      BY <1>4, AccountFacts
    <3> QED BY <3>1, <3>2
  <2> QED BY <2>1, <2>2, <2>3, <2>4 DEF BalanceExplained
<1>9. AnnulledOwesNothing /\ OkMeansPaid BY <1>1 DEF AnnulledOwesNothing, OkMeansPaid
<1>10. CashMatchesPayments
  <2> SUFFICES ASSUME NEW r \in Requests PROVE Sum([s \in Sessions |-> caja[s][r]], Sessions) = 0
    BY <1>2, <1>3 DEF CashMatchesPayments
  <2>1. PICK f : f = [s \in Sessions |-> caja[s][r]] OBVIOUS
  <2>2. \A s \in Sessions : f[s] = 0 BY <1>1, <2>1
  <2>3. IsFiniteSet(Sessions) BY AccountFacts
  <2>4. Sum(f, Sessions) = 0 BY <2>2, <2>3, TotalZero
  <2> QED BY <2>1, <2>4
<1>11. ClosedIsFinal BY <1>1 DEF ClosedIsFinal
<1>12. CallsOK
  <2>1. \A t \in Hilos : hilo[t].pc = "idle" BY <1>1, IdleCallTyped
  <2> QED BY <2>1 DEF CallsOK, CallOK
<1> QED BY <1>5, <1>6, <1>8, <1>9, <1>10, <1>11, <1>12 DEF AccountInv, BooksOK, MoneyExplained, AccountExplained, CashExplained

\* Every step keeps the invariant.
LEMMA AccountSteps ==
  ASSUME AccountInv, [AccountNext]_accountVars
  PROVE  AccountInv'
<1>1. CASE UNCHANGED accountVars
  <2>1. UNCHANGED books /\ candado' = candado /\ hilo' = hilo /\ answered' = answered
    BY <1>1 DEF accountVars, books
  <2>2. RowsOK /\ PaidOK /\ BooksOK /\ CallsOK /\ OkMeansPaid
    BY DEF AccountInv, BooksOK, MoneyExplained, AccountExplained
  <2>3. BooksOK'
    <3>1. candado' \in Hilos \cup {None} /\ hilo' \in [Hilos -> CallRows] /\ answered' \subseteq Requests
          /\ \A r \in answered' : pagos[r].estado # "none"
      BY <2>1, <2>2 DEF RowsOK, OkMeansPaid
    <3> QED BY <2>1, <2>2, <3>1, BooksStay
  <2>4. CallsOK'
    <3>1. electronica' = electronica /\ pagos' = pagos /\ sesiones' = sesiones /\ cuenta' = cuenta
      BY <2>1 DEF books
    <3> QED BY <2>1, <2>2, <3>1, RequestsStay
  <2> QED BY <2>3, <2>4 DEF AccountInv
<1>2. ASSUME NEW t \in Hilos, NEW r \in Requests, NEW m \in Amounts, PaymentArrives(t, r, m) PROVE AccountInv'
  BY <1>2, PaymentArrivesSafe
<1>3. ASSUME NEW t \in Hilos, PaymentLocks(t) PROVE AccountInv' BY <1>3, PaymentLocksSafe
<1>4. ASSUME NEW t \in Hilos, NEW lost \in BOOLEAN, PaymentCommits(t, lost) PROVE AccountInv'
  BY <1>4, PaymentCommitsSafe
<1>5. ASSUME NEW t \in Hilos, NEW r \in Requests, AnnulPaymentReads(t, r) PROVE AccountInv'
  BY <1>5, AnnulPaymentReadsSafe
<1>6. ASSUME NEW t \in Hilos, AnnulPaymentCommits(t) PROVE AccountInv'
  BY <1>6, AnnulPaymentCommitsSafe
<1>7. ASSUME NEW t \in Hilos, AnnulSaleReads(t) PROVE AccountInv' BY <1>7, AnnulSaleReadsSafe
<1>8. ASSUME NEW t \in Hilos, VoidReads(t) PROVE AccountInv' BY <1>8, VoidReadsSafe
<1>9. ASSUME NEW t \in Hilos, SaleMarksPayments(t) PROVE AccountInv' BY <1>9, SaleMarksPaymentsSafe
<1>10. ASSUME NEW t \in Hilos, SaleCommits(t) PROVE AccountInv' BY <1>10, SaleCommitsSafe
<1>11. ASSUME NEW t \in Hilos, NEW m \in Amounts, MovementReads(t, m) \/ MovementReads(t, -m) PROVE AccountInv'
  <2>1. m \in Int /\ -m \in Int BY ReceivablesAssumption
  <2> QED BY <1>11, <2>1, MovementReadsSafe
<1>12. ASSUME NEW t \in Hilos, MovementCommits(t) PROVE AccountInv' BY <1>12, MovementCommitsSafe
<1>13. ASSUME NEW t \in Hilos, CloseReads(t) PROVE AccountInv' BY <1>13, CloseReadsSafe
<1>14. ASSUME NEW t \in Hilos, CloseCommits(t) PROVE AccountInv' BY <1>14, CloseCommitsSafe
<1>15. ASSUME NEW t \in Hilos, Fails(t) PROVE AccountInv' BY <1>15, FailsSafe
<1>16. CASE VoidRequested \/ VoidRejected \/ OpenSession BY <1>16, VoidSafe, OpenSessionSafe
<1> QED BY <1>1, <1>2, <1>3, <1>4, <1>5, <1>6, <1>7, <1>8, <1>9, <1>10, <1>11, <1>12, <1>13, <1>14, <1>15, <1>16 DEF AccountNext

\* Account and till say the same of every payment, for every number of requests, payments,
\* installments and sessions that overlap in any order, until a request writes from what
\* another one has changed meanwhile, and of what that does not touch even then
\* (registerPayment, annulPayment, annul, the void, open, createMovement, close).
THEOREM MoneyIsExplained == AccountSpec => []MoneyExplained
<1>1. AccountInit => AccountInv BY AccountStarts
<1>2. AccountInv /\ [AccountNext]_accountVars => AccountInv' BY AccountSteps
<1>3. AccountInv => MoneyExplained BY DEF AccountInv, BooksOK
<1> QED BY <1>1, <1>2, <1>3, PTL DEF AccountSpec
=============================================================================
