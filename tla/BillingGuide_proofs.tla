-------------------------- MODULE BillingGuide_proofs --------------------------
(***************************************************************************)
(* Debit notes and despatch guides through Billing, for any number of      *)
(* executions, attempts, stamps, faults, emissions and edits: an account   *)
(* is charged a note once and only when SUNAT accepted it, an acceptance   *)
(* is charged unless something broke, and what was issued is what the      *)
(* guide says.                                                             *)
(*                                                                         *)
(* The rows come first, then where each action leaves the execution that   *)
(* takes it (Shows), then one lemma per part of the invariant.  A note is  *)
(* charged once because the execution that charges it holds its row        *)
(* (ChargeOK); its acceptance is charged because whoever writes it found   *)
(* it already charged or goes on to charge it (DueOK).  A guide is issued  *)
(* as written because nothing is claimed while it is a draft (DraftOK).    *)
(***************************************************************************)
EXTENDS BillingGuide, TLAPS

\* The types of what an execution does and has in hand.
Tareas == {"none", "process", "webhook", "voidWebhook", "get", "edita", "emite", "anula", "baja", "confirma"}
Pasos == {"idle", "claimed", "applying", "writing", "effects", "charging", "applied", "failing", "releasing", "requeue",
          "editing", "emitting", "annulling", "registering", "submitting", "asking", "asked", "confirming", "confirmed",
          "voiding"}
HiloRows == [task : Tareas, step : Pasos, doc : Documentos, visto : PapelRows, n : 0..MaxIntentos, dead : BOOLEAN]

PapersTypeOK ==
  /\ OutboxTypeOK /\ DebitTypeOK
  /\ clase \in Clases
  /\ hilo \in [Hilos -> HiloRows]
  /\ emisiones \in Nat /\ viejas \subseteq Tareas

\* Execution t does step s of task k, with document d and what it read of the paper; the
\* others go on with what they had.
Shows(t, k, s, d, v) ==
  /\ hilo' \in [Hilos -> HiloRows]
  /\ hilo'[t].task = k /\ hilo'[t].step = s /\ hilo'[t].doc = d /\ hilo'[t].visto = v
  /\ \A u \in Hilos : u # t => hilo'[u] = hilo[u]

----------------------------------------
(* Rows.                                                                   *)

\* The null values are of the types of what they stand for.
LEMMA NullRows ==
  /\ Nada \in Documentos /\ Nuevo \in PapelRows /\ Idle \in HiloRows
  /\ Idle.task = "none" /\ Idle.step = "idle" /\ Idle.doc = Nada /\ Idle.visto = Nuevo
  /\ Nada.status = "NONE" /\ Nada.baja = "NONE" /\ Nuevo.status = "NONE"
<1>1. 0 \in 0..MaxIntentos BY OutboxAssumption
<1>2. Nada \in Documentos /\ Nada.status = "NONE" /\ Nada.baja = "NONE"
  BY DEF Nada, Documentos, Estados, Bajas
<1>3. Nuevo \in PapelRows /\ Nuevo.status = "NONE" BY DEF Nuevo, PapelRows, Estados, Bajas
<1>4. Idle \in HiloRows /\ Idle.task = "none" /\ Idle.step = "idle" /\ Idle.doc = Nada /\ Idle.visto = Nuevo
  BY <1>1, <1>2, <1>3 DEF Idle, HiloRows, Tareas, Pasos
<1> QED BY <1>2, <1>3, <1>4

\* Where each way of moving an execution leaves it.
LEMMA RowShown ==
  ASSUME PapersTypeOK, NEW t \in Hilos, NEW x \in HiloRows, hilo' = [hilo EXCEPT ![t] = x]
  PROVE  Shows(t, x.task, x.step, x.doc, x.visto)
BY DEF PapersTypeOK, Shows

\* A handler or a cron starts.
LEMMA StartShown ==
  ASSUME PapersTypeOK, NEW t \in Hilos, NEW k \in Tareas, NEW s \in Pasos, NEW d \in Documentos,
         NEW v \in PapelRows, Starts(t, k, s, d, v)
  PROVE  hilo[t] = Idle /\ Shows(t, k, s, d, v)
<1>1. PICK x : x = Tarea(k, s, d, v) OBVIOUS
<1>2. PICK i \in HiloRows : i = Idle BY NullRows
<1>3. x = [i EXCEPT !.task = k, !.step = s, !.doc = d, !.visto = v] BY <1>1, <1>2 DEF Tarea
<1>4. x \in HiloRows /\ x.task = k /\ x.step = s /\ x.doc = d /\ x.visto = v BY <1>3 DEF HiloRows
<1>5. hilo[t] = Idle /\ hilo' = [hilo EXCEPT ![t] = x] BY <1>1 DEF Starts
<1> QED BY <1>4, <1>5, RowShown

\* It goes to another step.
LEMMA GotoShown ==
  ASSUME PapersTypeOK, NEW t \in Hilos, NEW s \in Pasos, Goto(t, s)
  PROVE  Shows(t, hilo[t].task, s, hilo[t].doc, hilo[t].visto)
BY DEF PapersTypeOK, Shows, Goto, HiloRows

\* It is answered a document.
LEMMA AnswersShown ==
  ASSUME PapersTypeOK, NEW t \in Hilos, NEW s \in Pasos, NEW d \in Documentos, Answers(t, s, d)
  PROVE  Shows(t, hilo[t].task, s, d, Nuevo)
<1>1. PICK v \in PapelRows : v = Nuevo BY NullRows
<1>2. hilo' = [hilo EXCEPT ![t].step = s, ![t].doc = d, ![t].visto = v] BY <1>1 DEF Answers
<1>3. Shows(t, hilo[t].task, s, d, v) BY <1>2 DEF PapersTypeOK, Shows, HiloRows
<1> QED BY <1>1, <1>3

\* It stored the answer.
LEMMA StoredShown ==
  ASSUME PapersTypeOK, NEW t \in Hilos, NEW s \in Pasos, Stored(t, s)
  PROVE  \E d \in {hilo[t].doc, Nada} : Shows(t, hilo[t].task, s, d, Nuevo)
<1>1. PICK v \in PapelRows : v = Nuevo BY NullRows
<1>2. PICK d \in Documentos : d \in {hilo[t].doc, Nada} /\ d = IF hilo[t].task = "webhook" THEN hilo[t].doc ELSE Nada
  BY NullRows DEF PapersTypeOK, HiloRows
<1>3. hilo' = [hilo EXCEPT ![t].step = s, ![t].visto = v, ![t].doc = d] BY <1>1, <1>2 DEF Stored
<1>4. Shows(t, hilo[t].task, s, d, v) BY <1>3 DEF PapersTypeOK, Shows, HiloRows
<1> QED BY <1>1, <1>2, <1>4

\* It ends.
LEMMA ReturnShown ==
  ASSUME PapersTypeOK, NEW t \in Hilos, Return(t)
  PROVE  Shows(t, "none", "idle", Nada, Nuevo)
BY NullRows, RowShown DEF Return

\* It fails.
LEMMA FailShown ==
  ASSUME PapersTypeOK, NEW t \in Hilos, NEW b \in BOOLEAN, FailWith(t, b)
  PROVE  Shows(t, "process", "failing", Nada, Nuevo)
<1>1. PICK i \in HiloRows : i = Idle /\ i.doc = Nada /\ i.visto = Nuevo BY NullRows
<1>2. PICK x : x = [i EXCEPT !.task = "process", !.step = "failing", !.dead = b] OBVIOUS
<1>3. x \in HiloRows /\ x.task = "process" /\ x.step = "failing" /\ x.doc = i.doc /\ x.visto = i.visto
  BY <1>2 DEF HiloRows, Tareas, Pasos
<1>4. hilo' = [hilo EXCEPT ![t] = x] BY <1>1, <1>2 DEF FailWith
<1> QED BY <1>1, <1>3, <1>4, RowShown

\* It fails, for good if no attempt is left or Billing says so.
LEMMA FailsShown ==
  ASSUME PapersTypeOK, NEW t \in Hilos,
         FailWith(t, OutOfAttempts(t)) \/ \E r \in BOOLEAN : FailWith(t, ~r \/ OutOfAttempts(t))
  PROVE  Shows(t, "process", "failing", Nada, Nuevo)
<1> DEFINE p == OutOfAttempts(t)
<1>1. p \in BOOLEAN BY DEF OutOfAttempts
<1>2. CASE FailWith(t, p) BY <1>1, <1>2, FailShown
<1>3. ASSUME NEW r \in BOOLEAN, FailWith(t, ~r \/ p) PROVE Shows(t, "process", "failing", Nada, Nuevo)
  <2>1. CASE r
    <3>1. FailWith(t, p) BY <1>1, <1>3, <2>1 DEF FailWith
    <3> QED BY <3>1, <1>2
  <2>2. CASE ~r
    <3>1. FailWith(t, TRUE) BY <1>3, <2>2 DEF FailWith
    <3> QED BY <3>1, FailShown
  <2> QED BY <2>1, <2>2
<1> QED BY <1>2, <1>3

\* Billing's and SUNAT's row.
LEMMA BillingRow ==
  ASSUME PapersTypeOK, NEW d \in {billing, Nada}, NEW e \in Estados, NEW i \in Nat, NEW b \in Bajas, NEW x \in Nat
  PROVE  /\ [d EXCEPT !.status = e] \in Documentos
         /\ [d EXCEPT !.status = e, !.at = i] \in Documentos
         /\ [d EXCEPT !.status = e, !.texto = x] \in Documentos
         /\ [d EXCEPT !.baja = b] \in Documentos
<1>1. PICK f \in Documentos : f = d BY NullRows DEF PapersTypeOK, OutboxTypeOK
<1>2. /\ [f EXCEPT !.status = e] \in Documentos
      /\ [f EXCEPT !.status = e, !.at = i] \in Documentos
      /\ [f EXCEPT !.status = e, !.texto = x] \in Documentos
      /\ [f EXCEPT !.baja = b] \in Documentos
  BY DEF Documentos
<1> QED BY <1>1, <1>2

\* The paper is known to Billing or not (d), in status s, says x, and the guide is in estado e.
Paper(d, s, x, e) ==
  papel' \in PapelRows /\ papel'.doc = d /\ papel'.status = s /\ papel'.texto = x /\ papel'.estado = e

\* Stamps are numbers.
LEMMA NowIsNat == ASSUME PapersTypeOK PROVE Now \in Nat
BY DEF PapersTypeOK, OutboxTypeOK, Now

\* Where every action that writes the paper leaves it.
LEMMA PaperMoves ==
  ASSUME PapersTypeOK, NEW t \in Hilos
  PROVE  /\ ApplyWrite(t) => Paper(TRUE, normalizeStatus(hilo[t].doc.status), papel.texto, papel.estado)
         /\ RetryRequeue(t) => Paper(papel.doc, "QUEUED", papel.texto, papel.estado)
         /\ HandleFailure(t) => \E s \in {"FAILED", "RETRY_SCHEDULED"} : Paper(papel.doc, s, papel.texto, papel.estado)
         /\ Create => Paper(papel.doc, papel.status, papel.texto, "borrador")
         /\ UpdateWrite(t) => Paper(papel.doc, papel.status, papel.texto + 1, papel.estado)
         /\ Enqueue(t) => Paper(papel.doc, "QUEUED", papel.texto, "emitida")
         /\ AnnulWrite(t) => Paper(papel.doc, papel.status, papel.texto, "anulada")
         /\ WriteRegistered(t) \/ WriteGuide(t) =>
              Paper(TRUE, hilo[t].doc.status, papel.texto, mapEstado(hilo[t].doc.status))
         /\ VoidWrite(t) => Paper(papel.doc, papel.status, papel.texto, papel.estado)
         /\ ConfirmWrite(t) => Paper(papel.doc, papel.status, papel.texto, "anulada")
         /\ VoidWebhookWrite(t) =>
              \E e : Paper(papel.doc, papel.status, papel.texto, e)
<1>t. papel \in PapelRows /\ Now \in Nat /\ hilo[t].doc \in Documentos /\ hilo[t].visto \in PapelRows
  BY NowIsNat DEF PapersTypeOK, OutboxTypeOK, HiloRows
<1>d. hilo[t].doc.status \in Estados /\ hilo[t].doc.at \in Nat /\ hilo[t].doc.baja \in Bajas
      /\ hilo[t].visto.estado \in {"ausente", "borrador", "emitida", "aceptada", "rechazada", "anulada"}
  BY <1>t DEF Documentos, PapelRows
<1>n. normalizeStatus(hilo[t].doc.status) \in Estados BY <1>d DEF normalizeStatus, Estados, Polled
<1>m. mapEstado(hilo[t].doc.status) \in {"emitida", "aceptada", "rechazada"} BY DEF mapEstado
<1>e. {"QUEUED", "FAILED", "RETRY_SCHEDULED"} \subseteq Estados BY DEF Estados, Polled
<1>a. ASSUME NEW d \in BOOLEAN, NEW s \in Estados, NEW i \in Nat, papel' = [papel EXCEPT !.doc = d, !.status = s, !.at = i]
      PROVE  Paper(d, s, papel.texto, papel.estado)
  BY <1>a, <1>t DEF Paper, PapelRows
<1>b. ASSUME NEW s \in Estados, NEW i \in Nat, papel' = [papel EXCEPT !.status = s, !.at = i]
      PROVE  Paper(papel.doc, s, papel.texto, papel.estado)
  BY <1>b, <1>t DEF Paper, PapelRows
<1>1. ApplyWrite(t) => Paper(TRUE, normalizeStatus(hilo[t].doc.status), papel.texto, papel.estado)
  BY <1>a, <1>d, <1>n DEF ApplyWrite
<1>2. RetryRequeue(t) => Paper(papel.doc, "QUEUED", papel.texto, papel.estado)
  BY <1>b, <1>e, <1>t DEF RetryRequeue
<1>3. HandleFailure(t) => \E s \in {"FAILED", "RETRY_SCHEDULED"} : Paper(papel.doc, s, papel.texto, papel.estado)
  <2>1. ASSUME HandleFailure(t)
        PROVE  \E s \in {"FAILED", "RETRY_SCHEDULED"} : papel' = [papel EXCEPT !.status = s, !.at = Now]
    BY <2>1 DEF HandleFailure
  <2> QED BY <2>1, <1>b, <1>e, <1>t
<1>4. Create => Paper(papel.doc, papel.status, papel.texto, "borrador")
  BY <1>t DEF Create, Paper, PapelRows
<1>5. UpdateWrite(t) => Paper(papel.doc, papel.status, papel.texto + 1, papel.estado)
  BY <1>t DEF UpdateWrite, Paper, PapelRows
<1>6. Enqueue(t) => Paper(papel.doc, "QUEUED", papel.texto, "emitida")
  <2>1. ASSUME NEW i \in Nat, papel' = [papel EXCEPT !.estado = "emitida", !.status = "QUEUED", !.at = i]
        PROVE  Paper(papel.doc, "QUEUED", papel.texto, "emitida")
    BY <2>1, <1>t, <1>e DEF Paper, PapelRows
  <2> QED BY <2>1, <1>t DEF Enqueue
<1>7. AnnulWrite(t) => Paper(papel.doc, papel.status, papel.texto, "anulada")
  BY <1>t DEF AnnulWrite, Paper, PapelRows
<1>8. WriteRegistered(t) \/ WriteGuide(t) =>
        Paper(TRUE, hilo[t].doc.status, papel.texto, mapEstado(hilo[t].doc.status))
  <2>1. ASSUME NEW s \in Estados, NEW i \in Nat, NEW e \in {"emitida", "aceptada", "rechazada"},
               papel' = [papel EXCEPT !.doc = TRUE, !.status = s, !.at = i, !.estado = e]
        PROVE  Paper(TRUE, s, papel.texto, e)
    BY <2>1, <1>t DEF Paper, PapelRows
  <2> QED BY <2>1, <1>d, <1>m DEF WriteRegistered, WriteGuide, ApplyGuide
<1>9. VoidWrite(t) => Paper(papel.doc, papel.status, papel.texto, papel.estado)
  BY <1>t, <1>d DEF VoidWrite, Paper, PapelRows
<1>10. ASSUME NEW b \in Bajas, NEW e \in {"ausente", "borrador", "emitida", "aceptada", "rechazada", "anulada"},
             papel' = [papel EXCEPT !.estado = e, !.baja = b] \/ papel' = [papel EXCEPT !.baja = b, !.estado = e]
       PROVE  Paper(papel.doc, papel.status, papel.texto, e)
  BY <1>10, <1>t DEF Paper, PapelRows
<1>11. ConfirmWrite(t) => Paper(papel.doc, papel.status, papel.texto, "anulada")
  BY <1>10, <1>d DEF ConfirmWrite
<1>12. VoidWebhookWrite(t) => \E e : Paper(papel.doc, papel.status, papel.texto, e)
  <2>1. ASSUME VoidWebhookWrite(t)
        PROVE  \E e \in {"ausente", "borrador", "emitida", "aceptada", "rechazada", "anulada"} :
                 papel' = [papel EXCEPT !.baja = hilo[t].doc.baja, !.estado = e]
    BY <2>1, <1>d DEF VoidWebhookWrite
  <2> QED BY <2>1, <1>10, <1>d
<1> QED BY <1>1, <1>2, <1>3, <1>4, <1>5, <1>6, <1>7, <1>8, <1>9, <1>11, <1>12

\* An execution ends, fails, goes to the closing of its row or lets its event go.
Quiet(t) ==
  \E k \in {hilo[t].task, "none", "process"}, s \in {"applied", "idle", "failing", "releasing"},
     d \in {hilo[t].doc, Nada}, v \in {hilo[t].visto, Nuevo} : Shows(t, k, s, d, v)

\* A quiet execution is at the end of something.
LEMMA QuietShown ==
  ASSUME NEW t, Quiet(t)
  PROVE  \E k, s, d, v : Shows(t, k, s, d, v) /\ s \in {"applied", "idle", "failing", "releasing"}
BY DEF Quiet

\* The forms in which an execution ends or fails are quiet.
LEMMA QuietForms ==
  ASSUME PapersTypeOK, NEW t \in Hilos,
         \/ Return(t) \/ Applied(t) \/ Goto(t, "releasing") \/ FailWith(t, TRUE)
         \/ FailWith(t, OutOfAttempts(t)) \/ \E r \in BOOLEAN : FailWith(t, ~r \/ OutOfAttempts(t))
  PROVE  Quiet(t)
<1>1. CASE Return(t) BY <1>1, ReturnShown DEF Quiet
<1>2. CASE Applied(t)
  <2>1. CASE hilo[t].task = "process"
    <3>1. Stored(t, "applied") /\ "applied" \in Pasos BY <1>2, <2>1 DEF Applied, Pasos
    <3> QED BY <3>1, StoredShown DEF Quiet
  <2>2. CASE hilo[t].task # "process" BY <1>2, <2>2, ReturnShown DEF Applied, Quiet
  <2> QED BY <2>1, <2>2
<1>3. CASE Goto(t, "releasing")
  <2>1. "releasing" \in Pasos BY DEF Pasos
  <2> QED BY <1>3, <2>1, GotoShown DEF Quiet
<1>4. CASE FailWith(t, TRUE) BY <1>4, FailShown DEF Quiet
<1>5. CASE FailWith(t, OutOfAttempts(t)) \/ \E r \in BOOLEAN : FailWith(t, ~r \/ OutOfAttempts(t))
  BY <1>5, FailsShown DEF Quiet
<1> QED BY <1>1, <1>2, <1>3, <1>4, <1>5

\* What is in hand is of its type.
LEMMA InHand ==
  ASSUME PapersTypeOK, NEW t \in Hilos
  PROVE  hilo[t].task \in Tareas /\ hilo[t].step \in Pasos /\ hilo[t].doc \in Documentos /\ hilo[t].visto \in PapelRows
BY DEF PapersTypeOK, HiloRows

\* Actions after which an execution is quiet.
LEMMA QuietActions ==
  ASSUME PapersTypeOK, NEW t \in Hilos,
         \/ MarkDone(t) \/ HandleFailure(t) \/ WebhookRelease(t)
         \/ PostFailed(t) \/ EffectsCommit(t) \/ RetryRequeue(t) \/ StoreError(t)
         \/ UpdateWrite(t) \/ Enqueue(t) \/ AnnulWrite(t) \/ CallFailed(t) \/ WriteGuide(t)
         \/ VoidWrite(t) \/ ConfirmWrite(t) \/ VoidWebhookWrite(t) \/ GuideError(t)
  PROVE  Quiet(t)
<1>1. CASE MarkDone(t) \/ HandleFailure(t) \/ WebhookRelease(t) \/ RetryRequeue(t)
  BY <1>1, QuietForms DEF MarkDone, HandleFailure, WebhookRelease, RetryRequeue
<1>2. CASE UpdateWrite(t) \/ Enqueue(t) \/ AnnulWrite(t) \/ VoidWrite(t) \/ ConfirmWrite(t) \/ VoidWebhookWrite(t)
  BY <1>2, QuietForms DEF UpdateWrite, Enqueue, AnnulWrite, VoidWrite, ConfirmWrite, VoidWebhookWrite, Writes
<1>3. CASE EffectsCommit(t) \/ WriteGuide(t) BY <1>3, QuietForms DEF EffectsCommit, WriteGuide
<1>4. CASE PostFailed(t) \/ CallFailed(t)
  <2>1. \E r \in BOOLEAN : FailWith(t, ~r \/ OutOfAttempts(t)) BY <1>4 DEF PostFailed, CallFailed
  <2> QED BY <2>1, QuietForms
<1>5. CASE StoreError(t)
  <2>1. FailWith(t, OutOfAttempts(t)) \/ Goto(t, "releasing") \/ Return(t) BY <1>5 DEF StoreError
  <2> QED BY <2>1, QuietForms
<1>6. CASE GuideError(t)
  <2>1. FailWith(t, TRUE) \/ Goto(t, "releasing") \/ Return(t) BY <1>6 DEF GuideError
  <2> QED BY <2>1, QuietForms
<1> QED BY <1>1, <1>2, <1>3, <1>4, <1>5, <1>6

\* Where Billing's document, its events and the clock are after any step.
LEMMA BillingMoves ==
  ASSUME PapersTypeOK, Next
  PROVE  /\ billing' \in Documentos /\ reloj' \in Nat
         /\ billing.status \in Accepted => billing'.status \in Accepted
         /\ avisos' \subseteq avisos \cup {billing'} \cup {hilo[t].doc : t \in Hilos}
<1> USE DEF outside
<1> DEFINE P == /\ billing' \in Documentos /\ reloj' \in Nat
                /\ billing.status \in Accepted => billing'.status \in Accepted
                /\ avisos' \subseteq avisos \cup {billing'} \cup {hilo[t].doc : t \in Hilos}
<1>t. billing \in Documentos /\ reloj \in Nat /\ Now \in Nat
  BY NowIsNat DEF PapersTypeOK, OutboxTypeOK
<1>f. billing.status \in Estados /\ billing.at \in Nat /\ billing.texto \in Nat /\ billing.baja \in Bajas
  BY <1>t DEF Documentos
<1>u. UNCHANGED outside => P BY <1>t
<1>v. ASSUME UNCHANGED <<billing, reloj>>, avisos' \subseteq avisos \cup {hilo[t].doc : t \in Hilos} PROVE P
  BY <1>v, <1>t
<1>e. {"RECEIVED", "REGISTERED", "PROCESSING"} \cap Accepted = {} BY DEF Accepted
<1>g. {"RECEIVED", "REGISTERED", "PROCESSING", "ACCEPTED", "REJECTED"} \subseteq Estados /\ {"PENDING", "ACCEPTED"} \subseteq Bajas
  BY DEF Estados, Polled, Verdicts, Accepted, Bajas
<1>n. Nada.status = "NONE" /\ "NONE" \notin Accepted BY NullRows DEF Accepted
<1>0. ASSUME NEW b \in Documentos, billing' = b, reloj' \in Nat,
             billing.status \in Accepted => b.status \in Accepted, avisos' \subseteq avisos \cup {billing'}
      PROVE  P
  BY <1>0
<1>1. ASSUME NEW t \in Hilos, Post(t) PROVE P
  <2>1. CASE billing # Nada BY <1>1, <2>1, <1>t DEF Post, Stores
  <2>2. CASE billing = Nada
    <3>1. PICK b : b = [Nada EXCEPT !.status = "RECEIVED", !.at = Now] OBVIOUS
    <3>2. b \in Documentos BY <3>1, <1>t, <1>f, <1>g, BillingRow
    <3>3. billing' = b /\ reloj' = Now /\ UNCHANGED avisos
      BY <1>1, <2>2, <3>1 DEF Post, Stores, Stamp
    <3> QED BY <2>2, <3>2, <3>3, <1>0, <1>t, <1>n
  <2> QED BY <2>1, <2>2
<1>2. ASSUME NEW t \in Hilos, RetryDocument(t) PROVE P
  <2>1. CASE billing.status # "REJECTED" BY <1>2, <2>1, <1>t DEF RetryDocument
  <2>2. CASE billing.status = "REJECTED"
    <3>1. PICK b : b = [billing EXCEPT !.status = "RECEIVED", !.at = Now] OBVIOUS
    <3>2. b \in Documentos BY <3>1, <1>t, <1>f, <1>g, BillingRow
    <3>3. billing' = b /\ reloj' = Now /\ UNCHANGED avisos
      BY <1>2, <2>2, <3>1 DEF RetryDocument, Stamp
    <3>4. billing.status \notin Accepted BY <2>2 DEF Accepted
    <3> QED BY <3>2, <3>3, <3>4, <1>0, <1>t
  <2> QED BY <2>1, <2>2
<1>3. ASSUME NEW t \in Hilos, PostGuide(t) PROVE P
  <2>1. CASE billing # Nada BY <1>3, <2>1, <1>t DEF PostGuide, Registers
  <2>2. CASE billing = Nada
    <3>1. PICK x \in Nat : x = hilo[t].visto.texto BY InHand DEF PapelRows
    <3>2. PICK b : b = [Nada EXCEPT !.status = "REGISTERED", !.texto = x] OBVIOUS
    <3>3. b \in Documentos BY <3>2, <1>t, <1>f, <1>g, BillingRow
    <3>4. billing' = b /\ UNCHANGED <<avisos, reloj>>
      BY <1>3, <2>2, <3>1, <3>2 DEF PostGuide, Registers
    <3> QED BY <2>2, <3>3, <3>4, <1>0, <1>t, <1>n
  <2> QED BY <2>1, <2>2
<1>4. ASSUME NEW t \in Hilos, Submit(t) PROVE P
  <2>1. CASE billing.status # "REGISTERED" BY <1>4, <2>1, <1>t DEF Submit
  <2>2. CASE billing.status = "REGISTERED"
    <3>1. PICK b : b = [billing EXCEPT !.status = "PROCESSING"] OBVIOUS
    <3>2. b \in Documentos BY <3>1, <1>t, <1>f, <1>g, BillingRow
    <3>3. billing' = b /\ UNCHANGED <<avisos, reloj>> BY <1>4, <2>2, <3>1 DEF Submit
    <3> QED BY <2>2, <3>2, <3>3, <1>0, <1>t, <1>e
  <2> QED BY <2>1, <2>2
<1>5. ASSUME NEW t \in Hilos, VoidAsked(t) \/ ConfirmAsked(t) PROVE P
  <2>1. PICK c \in Bajas : billing' = [billing EXCEPT !.baja = c]
    BY <1>5, <1>f, <1>g DEF VoidAsked, ConfirmAsked
  <2>2. PICK b : b = [billing EXCEPT !.baja = c] OBVIOUS
  <2>3. b \in Documentos /\ b.status = billing.status BY <2>2, <1>t DEF Documentos
  <2>4. avisos' = avisos \cup {billing'} /\ UNCHANGED reloj BY <1>5 DEF VoidAsked, ConfirmAsked
  <2> QED BY <2>1, <2>2, <2>3, <2>4, <1>0, <1>t
<1>6. ASSUME NEW s \in {"ACCEPTED", "REJECTED"}, BillingAdvances(s) PROVE P
  <2>1. PICK b : b = [billing EXCEPT !.status = s, !.at = Now] OBVIOUS
  <2>2. b \in Documentos BY <2>1, <1>t, <1>f, <1>g, BillingRow
  <2>3. billing' = b /\ reloj' = Now /\ avisos' = avisos \cup {billing'}
    BY <1>6, <2>1 DEF BillingAdvances, Stamp
  <2>4. billing.status \notin Accepted BY <1>6 DEF BillingAdvances, Accepted, Polled
  <2> QED BY <2>2, <2>3, <2>4, <1>0, <1>t
<1>7. ASSUME NEW t \in Hilos, Queue(t) PROVE P
  <2>1. CASE Claim(t) \/ MarkDone(t) BY <2>1, <1>u DEF Claim, MarkDone
  <2>2. CASE HandleFailure(t) BY <2>2, <1>t DEF HandleFailure, Stamp
  <2>3. CASE WebhookRelease(t) BY <2>3, <1>v DEF WebhookRelease
  <2> QED BY <1>7, <2>1, <2>2, <2>3 DEF Queue
<1>8. ASSUME NEW t \in Hilos, NEW e \in avisos, WebhookBegin(t, e) PROVE P
  BY <1>8, <1>v DEF WebhookBegin
<1>9. ASSUME NEW t \in Hilos, DebitNext(t) PROVE P
  <2>1. CASE PostFailed(t) \/ ApplyRead(t) \/ ApplyWrite(t) \/ EffectsBegin(t) \/ EffectsCommit(t)
    BY <2>1, <1>u DEF PostFailed, ApplyRead, ApplyWrite, EffectsBegin, EffectsCommit
  <2>2. CASE ReconcilePending(t) \/ RetryRead(t) \/ StoreError(t)
    BY <2>2, <1>u, <1>t DEF ReconcilePending, RetryRead, StoreError
  <2>3. CASE RetryRequeue(t) BY <2>3, <1>t DEF RetryRequeue, Stamp
  <2> QED BY <1>9, <1>1, <1>2, <2>1, <2>2, <2>3 DEF DebitNext, DebitStep
<1>10. ASSUME NEW t \in Hilos, GuideNext(t) PROVE P
  <2>1. CASE GetGuide(t) \/ CallFailed(t) \/ WriteRegistered(t) \/ WriteGuide(t) \/ ApplyWebhook(t) \/ VoidWebhookRead(t)
    BY <2>1, <1>u DEF GetGuide, CallFailed, WriteRegistered, WriteGuide, ApplyGuide, ApplyWebhook, VoidWebhookRead
  <2>2. CASE UpdateWrite(t) \/ AnnulWrite(t) \/ VoidWrite(t) \/ ConfirmWrite(t) \/ VoidWebhookWrite(t)
    BY <2>2, <1>u DEF UpdateWrite, AnnulWrite, VoidWrite, ConfirmWrite, VoidWebhookWrite
  <2>3. CASE GuideError(t) \/ Enqueue(t) BY <2>3, <1>t DEF GuideError, Enqueue, Stamp
  <2>4. CASE Annul(t) \/ Refresh(t) \/ UpdateRead(t) \/ Emit(t) \/ ReconcileGuide(t) \/ Void(t) \/ ConfirmVoid(t)
    BY <2>4, <1>u DEF Annul, Refresh, UpdateRead, Emit, ReconcileGuide, Void, ConfirmVoid, Reads
  <2> QED BY <1>10, <1>3, <1>4, <1>5, <2>1, <2>2, <2>3, <2>4 DEF GuideNext, GuideStep
<1>11. CASE Create \/ Crash BY <1>11, <1>u, <1>t DEF Create, Crash
<1> QED BY <1>6, <1>7, <1>8, <1>9, <1>10, <1>11 DEF Next

\* The other actions, and where they leave the execution.
LEMMA OtherMoves ==
  ASSUME PapersTypeOK, Next, NEW t \in Hilos
  PROVE  /\ Claim(t) => hilo[t] = Idle /\ \E v : /\ Shows(t, "process", "claimed", Nada, v)
                                                /\ v.texto = papel.texto /\ v.status = "NONE"
         /\ \A e \in avisos : WebhookBegin(t, e) =>
              /\ hilo[t] = Idle
              /\ Shows(t, IF e.baja = "NONE" THEN "webhook" ELSE "voidWebhook", "applying", e, Nuevo)
         /\ Post(t) => Quiet(t) \/ Shows(t, hilo[t].task, "applying", billing', Nuevo)
         /\ ApplyRead(t) =>
              Quiet(t) \/ \E v : Shows(t, hilo[t].task, "writing", hilo[t].doc, v) /\ v.status = papel.status
         /\ ApplyWrite(t) =>
              IF TriggersEffects(hilo[t].doc.status, hilo[t].visto.status)
                THEN \E d \in {hilo[t].doc, Nada} : Shows(t, hilo[t].task, "effects", d, Nuevo)
                ELSE Quiet(t)
         /\ EffectsBegin(t) => IF cuenta.aplicada THEN Quiet(t)
                               ELSE Shows(t, hilo[t].task, "charging", hilo[t].doc, hilo[t].visto)
         /\ ReconcilePending(t) \/ RetryDocument(t) =>
              hilo[t] = Idle /\ Shows(t, "get", "applying", billing', Nuevo)
         /\ RetryRead(t) => hilo[t] = Idle /\ Shows(t, "get", "requeue", Nada, Nuevo)
         /\ PostGuide(t) => Quiet(t) \/ Shows(t, hilo[t].task, "registering", billing', Nuevo)
         /\ GetGuide(t) \/ WriteRegistered(t) =>
              \E d \in {hilo[t].doc, Nada} : Shows(t, hilo[t].task, "submitting", d, Nuevo)
         /\ Submit(t) => Quiet(t) \/ Shows(t, hilo[t].task, "writing", billing', Nuevo)
         /\ ApplyWebhook(t) => Quiet(t) \/ Shows(t, hilo[t].task, "writing", hilo[t].doc, hilo[t].visto)
         /\ ReconcileGuide(t) \/ Refresh(t) => hilo[t] = Idle /\ Shows(t, "get", "writing", billing', Nuevo)
         /\ VoidAsked(t) => Shows(t, hilo[t].task, "asked", billing', Nuevo)
         /\ ConfirmAsked(t) => Shows(t, hilo[t].task, "confirmed", billing', Nuevo)
         /\ VoidWebhookRead(t) =>
              \E v : Shows(t, hilo[t].task, "voiding", hilo[t].doc, v) /\ v.status = "NONE"
<1>t. /\ papel \in PapelRows /\ billing \in Documentos /\ billing' \in Documentos /\ avisos \subseteq Documentos
      /\ cola \in OutboxRows
  BY BillingMoves DEF PapersTypeOK, OutboxTypeOK, Eventos
<1>p. {"claimed", "applying", "writing", "effects", "charging", "requeue", "registering", "submitting", "asked", "confirmed",
       "voiding"} \subseteq Pasos
  BY DEF Pasos
<1>k. {"process", "webhook", "voidWebhook", "get"} \subseteq Tareas BY DEF Tareas
<1>n. Nada \in Documentos /\ Nuevo \in PapelRows /\ Nuevo.status = "NONE" /\ Nuevo.texto = 0
  BY NullRows DEF Nuevo
<1>1. ASSUME Claim(t)
      PROVE  hilo[t] = Idle /\ \E v : /\ Shows(t, "process", "claimed", Nada, v)
                                      /\ v.texto = papel.texto /\ v.status = "NONE"
  <2>1. PICK n \in 0..MaxIntentos : n = OneMore BY <1>t, OutboxAssumption DEF OneMore, OutboxRows
  <2>2. PICK i \in HiloRows, w \in PapelRows : i = Idle /\ w = Nuevo /\ i.doc = Nada /\ w.status = "NONE"
    BY NullRows
  <2>3. PICK v : v = [w EXCEPT !.doc = papel.doc, !.texto = papel.texto] OBVIOUS
  <2>4. v \in PapelRows /\ v.texto = papel.texto /\ v.status = "NONE"
    BY <1>t, <2>2, <2>3 DEF PapelRows
  <2>5. PICK y : y = [i EXCEPT !.task = "process", !.step = "claimed", !.doc = Nada, !.visto = v]
    OBVIOUS
  <2>6. y \in HiloRows /\ y.task = "process" /\ y.step = "claimed" /\ y.doc = Nada /\ y.visto = v
    BY <1>p, <1>k, <1>n, <2>4, <2>5 DEF HiloRows
  <2>7. PICK x : x = [y EXCEPT !.n = n] OBVIOUS
  <2>8. x \in HiloRows /\ x.task = "process" /\ x.step = "claimed" /\ x.doc = Nada /\ x.visto = v
    BY <2>6, <2>7 DEF HiloRows
  <2>9. Tarea("process", "claimed", Nada, v) = y BY <2>2, <2>5 DEF Tarea
  <2>10. hilo' = [hilo EXCEPT ![t] = x] BY <1>1, <2>1, <2>2, <2>3, <2>7, <2>9 DEF Claim
  <2>11. Shows(t, "process", "claimed", Nada, v) BY <2>8, <2>10, RowShown
  <2> QED BY <1>1, <2>4, <2>11 DEF Claim
<1>2. ASSUME NEW e \in avisos, WebhookBegin(t, e)
      PROVE  /\ hilo[t] = Idle
             /\ Shows(t, IF e.baja = "NONE" THEN "webhook" ELSE "voidWebhook", "applying", e, Nuevo)
  BY <1>2, <1>t, <1>p, <1>k, <1>n, StartShown DEF WebhookBegin
<1>3. ASSUME Post(t) PROVE Quiet(t) \/ Shows(t, hilo[t].task, "applying", billing', Nuevo)
  BY <1>3, <1>t, <1>p, AnswersShown, QuietForms DEF Post
<1>4. ASSUME ApplyRead(t)
      PROVE  Quiet(t) \/ \E v : Shows(t, hilo[t].task, "writing", hilo[t].doc, v) /\ v.status = papel.status
  <2>1. CASE papel.at > hilo[t].doc.at BY <1>4, <2>1, QuietForms DEF ApplyRead
  <2>2. CASE ~(papel.at > hilo[t].doc.at)
    <3>1. PICK w \in PapelRows : w = Nuevo BY <1>n
    <3>2. PICK v : v = [w EXCEPT !.status = papel.status] OBVIOUS
    <3>3. v \in PapelRows /\ v.status = papel.status BY <1>t, <3>2 DEF PapelRows
    <3>4. hilo' = [hilo EXCEPT ![t].step = "writing", ![t].visto = v]
      BY <1>4, <2>2, <3>1, <3>2 DEF ApplyRead
    <3>5. Shows(t, hilo[t].task, "writing", hilo[t].doc, v)
      BY <1>p, <3>3, <3>4 DEF PapersTypeOK, Shows, HiloRows
    <3> QED BY <3>3, <3>5
  <2> QED BY <2>1, <2>2
<1>5. ASSUME ApplyWrite(t)
      PROVE  IF TriggersEffects(hilo[t].doc.status, hilo[t].visto.status)
               THEN \E d \in {hilo[t].doc, Nada} : Shows(t, hilo[t].task, "effects", d, Nuevo)
               ELSE Quiet(t)
  BY <1>5, <1>p, StoredShown, QuietForms DEF ApplyWrite
<1>6. ASSUME EffectsBegin(t)
      PROVE  IF cuenta.aplicada THEN Quiet(t) ELSE Shows(t, hilo[t].task, "charging", hilo[t].doc, hilo[t].visto)
  BY <1>6, <1>p, GotoShown, QuietForms DEF EffectsBegin
<1>7. ASSUME ReconcilePending(t) \/ RetryDocument(t)
      PROVE  hilo[t] = Idle /\ Shows(t, "get", "applying", billing', Nuevo)
  <2>1. Starts(t, "get", "applying", billing', Nuevo)
    BY <1>7 DEF ReconcilePending, RetryDocument, outside
  <2> QED BY <2>1, <1>t, <1>p, <1>k, <1>n, StartShown
<1>8. ASSUME RetryRead(t) PROVE hilo[t] = Idle /\ Shows(t, "get", "requeue", Nada, Nuevo)
  BY <1>8, <1>p, <1>k, <1>n, StartShown DEF RetryRead
<1>9. ASSUME PostGuide(t) PROVE Quiet(t) \/ Shows(t, hilo[t].task, "registering", billing', Nuevo)
  BY <1>9, <1>t, <1>p, AnswersShown, QuietForms DEF PostGuide
<1>10. ASSUME GetGuide(t) \/ WriteRegistered(t)
       PROVE  \E d \in {hilo[t].doc, Nada} : Shows(t, hilo[t].task, "submitting", d, Nuevo)
  BY <1>10, <1>p, StoredShown DEF GetGuide, WriteRegistered
<1>11. ASSUME Submit(t) PROVE Quiet(t) \/ Shows(t, hilo[t].task, "writing", billing', Nuevo)
  BY <1>11, <1>t, <1>p, AnswersShown, QuietForms DEF Submit
<1>12. ASSUME ApplyWebhook(t) PROVE Quiet(t) \/ Shows(t, hilo[t].task, "writing", hilo[t].doc, hilo[t].visto)
  BY <1>12, <1>p, GotoShown, QuietForms DEF ApplyWebhook
<1>13. ASSUME ReconcileGuide(t) \/ Refresh(t) PROVE hilo[t] = Idle /\ Shows(t, "get", "writing", billing', Nuevo)
  <2>1. Starts(t, "get", "writing", billing', Nuevo) BY <1>13 DEF ReconcileGuide, Refresh, outside
  <2> QED BY <2>1, <1>t, <1>p, <1>k, <1>n, StartShown
<1>14. ASSUME VoidAsked(t) PROVE Shows(t, hilo[t].task, "asked", billing', Nuevo)
  BY <1>14, <1>t, <1>p, AnswersShown DEF VoidAsked
<1>15. ASSUME ConfirmAsked(t) PROVE Shows(t, hilo[t].task, "confirmed", billing', Nuevo)
  BY <1>15, <1>t, <1>p, AnswersShown DEF ConfirmAsked
<1>16. ASSUME VoidWebhookRead(t)
       PROVE  \E v : Shows(t, hilo[t].task, "voiding", hilo[t].doc, v) /\ v.status = "NONE"
  <2>1. PICK w \in PapelRows : w = Nuevo /\ w.status = "NONE" BY <1>n
  <2>2. PICK v : v = [w EXCEPT !.estado = papel.estado] OBVIOUS
  <2>3. v \in PapelRows /\ v.status = "NONE" BY <1>t, <2>1, <2>2 DEF PapelRows
  <2>4. hilo' = [hilo EXCEPT ![t].step = "voiding", ![t].visto = v]
    BY <1>16, <2>1, <2>2 DEF VoidWebhookRead
  <2>5. Shows(t, hilo[t].task, "voiding", hilo[t].doc, v)
    BY <1>p, <2>3, <2>4 DEF PapersTypeOK, Shows, HiloRows
  <2> QED BY <2>3, <2>5
<1>17. QED
  BY <1>1, <1>2, <1>3, <1>4, <1>5, <1>6, <1>7, <1>8, <1>9, <1>10, <1>11, <1>12, <1>13, <1>14, <1>15, <1>16

\* A handler that reads the guide before it writes it.
LEMMA ReadsMoves ==
  ASSUME PapersTypeOK, NEW t \in Hilos, NEW k \in Tareas, NEW s \in Pasos, NEW es, Reads(t, k, s, es)
  PROVE  hilo[t] = Idle /\ \E v : /\ Shows(t, k, s, Nada, v) /\ v.status = "NONE"
                                  /\ papel.estado \in es => v.estado = papel.estado
<1>1. PICK w \in PapelRows : w = Nuevo /\ w.status = "NONE" BY NullRows
<1>2. PICK e : e = (IF papel.estado \in es THEN papel.estado ELSE w.estado) OBVIOUS
<1>3. PICK v : v = [w EXCEPT !.estado = e] OBVIOUS
<1>4. v = [Nuevo EXCEPT !.estado = IF papel.estado \in es THEN papel.estado ELSE @]
  BY <1>1, <1>2, <1>3
<1>5. v \in PapelRows /\ v.status = "NONE" /\ v.estado = e
  BY <1>1, <1>2, <1>3 DEF PapersTypeOK, OutboxTypeOK, PapelRows
<1>6. Starts(t, k, s, Nada, v) BY <1>4 DEF Reads
<1> QED BY <1>2, <1>5, <1>6, StartShown, NullRows

\* What each of those handlers has in hand.
LEMMA HandlersMove ==
  ASSUME PapersTypeOK, NEW t \in Hilos
  PROVE  /\ Annul(t) => hilo[t] = Idle /\ \E v : Shows(t, "anula", "annulling", Nada, v)
         /\ UpdateRead(t) => hilo[t] = Idle /\ \E v : Shows(t, "edita", "editing", Nada, v) /\ v.estado = "borrador"
         /\ Emit(t) => hilo[t] = Idle /\ \E v : Shows(t, "emite", "emitting", Nada, v)
         /\ Void(t) => hilo[t] = Idle /\ \E v : Shows(t, "baja", "asking", Nada, v)
         /\ ConfirmVoid(t) => hilo[t] = Idle /\ \E v : Shows(t, "confirma", "confirming", Nada, v)
<1>p. {"annulling", "editing", "emitting", "asking", "confirming"} \subseteq Pasos
      /\ {"anula", "edita", "emite", "baja", "confirma"} \subseteq Tareas
  BY DEF Pasos, Tareas
<1>1. Annul(t) => hilo[t] = Idle /\ \E v : Shows(t, "anula", "annulling", Nada, v)
  BY <1>p, ReadsMoves DEF Annul
<1>2. UpdateRead(t) => hilo[t] = Idle /\ \E v : Shows(t, "edita", "editing", Nada, v) /\ v.estado = "borrador"
  BY <1>p, ReadsMoves DEF UpdateRead
<1>3. Emit(t) => hilo[t] = Idle /\ \E v : Shows(t, "emite", "emitting", Nada, v)
  BY <1>p, ReadsMoves DEF Emit
<1>4. Void(t) => hilo[t] = Idle /\ \E v : Shows(t, "baja", "asking", Nada, v)
  BY <1>p, ReadsMoves DEF Void
<1>5. ConfirmVoid(t) => hilo[t] = Idle /\ \E v : Shows(t, "confirma", "confirming", Nada, v)
  BY <1>p, ReadsMoves DEF ConfirmVoid
<1> QED BY <1>1, <1>2, <1>3, <1>4, <1>5

----------------------------------------
(* Types.                                                                  *)

\* Whatever is done, every execution keeps a row of its type.
LEMMA HiloStep == ASSUME PapersTypeOK, Next PROVE hilo' \in [Hilos -> HiloRows]
<1>s. ASSUME NEW t \in Hilos, Quiet(t) \/ \E k, s, d, v : Shows(t, k, s, d, v) PROVE hilo' \in [Hilos -> HiloRows]
  BY <1>s DEF Quiet, Shows
<1>u. UNCHANGED hilo => hilo' \in [Hilos -> HiloRows] BY DEF PapersTypeOK
<1>1. ASSUME NEW t \in Hilos, Queue(t) PROVE hilo' \in [Hilos -> HiloRows]
  <2>1. CASE Claim(t) BY <2>1, <1>s, OtherMoves
  <2>2. CASE MarkDone(t) \/ HandleFailure(t) \/ WebhookRelease(t) BY <2>2, <1>s, QuietActions
  <2> QED BY <1>1, <2>1, <2>2 DEF Queue
<1>2. ASSUME NEW t \in Hilos, NEW e \in avisos, WebhookBegin(t, e) PROVE hilo' \in [Hilos -> HiloRows]
  BY <1>2, <1>s, OtherMoves
<1>3. ASSUME NEW t \in Hilos, DebitNext(t) PROVE hilo' \in [Hilos -> HiloRows]
  <2>1. CASE PostFailed(t) \/ EffectsCommit(t) \/ RetryRequeue(t) \/ StoreError(t)
    BY <2>1, <1>s, QuietActions
  <2>2. CASE Post(t) \/ ApplyRead(t) \/ ReconcilePending(t) \/ RetryDocument(t) \/ RetryRead(t)
    BY <2>2, <1>s, OtherMoves
  <2>3. CASE ApplyWrite(t) \/ EffectsBegin(t) BY <2>3, <1>s, OtherMoves
  <2> QED BY <1>3, <2>1, <2>2, <2>3 DEF DebitNext, DebitStep
<1>4. ASSUME NEW t \in Hilos, GuideNext(t) PROVE hilo' \in [Hilos -> HiloRows]
  <2>1. CASE UpdateWrite(t) \/ Enqueue(t) \/ AnnulWrite(t) \/ CallFailed(t) \/ WriteGuide(t) \/ VoidWrite(t)
             \/ ConfirmWrite(t) \/ VoidWebhookWrite(t) \/ GuideError(t)
    BY <2>1, <1>s, QuietActions
  <2>2. CASE PostGuide(t) \/ GetGuide(t) \/ Submit(t) \/ WriteRegistered(t) \/ ApplyWebhook(t)
    BY <2>2, <1>s, OtherMoves
  <2>3. CASE VoidAsked(t) \/ ConfirmAsked(t) \/ VoidWebhookRead(t) \/ Refresh(t) \/ ReconcileGuide(t)
    BY <2>3, <1>s, OtherMoves
  <2>4. CASE Annul(t) \/ UpdateRead(t) \/ Emit(t) \/ Void(t) \/ ConfirmVoid(t)
    <3>1. \E k, s, v : Shows(t, k, s, Nada, v) BY <2>4, HandlersMove
    <3> QED BY <3>1, <1>s
  <2> QED BY <1>4, <2>1, <2>2, <2>3, <2>4 DEF GuideNext, GuideStep
<1>5. CASE Create BY <1>5, <1>u DEF Create
<1>6. CASE Crash BY <1>6, NullRows DEF Crash
<1>7. ASSUME NEW s, BillingAdvances(s) PROVE hilo' \in [Hilos -> HiloRows]
  BY <1>7, <1>u DEF BillingAdvances
<1> QED BY <1>1, <1>2, <1>3, <1>4, <1>5, <1>6, <1>7 DEF Next

\* The paper keeps a row of its type.
LEMMA PaperStep == ASSUME PapersTypeOK, Next PROVE papel' \in PapelRows
<1>u. UNCHANGED papel => papel' \in PapelRows BY DEF PapersTypeOK, OutboxTypeOK
<1>s. ASSUME NEW d, NEW s, NEW x, NEW e, Paper(d, s, x, e) PROVE papel' \in PapelRows
  BY <1>s DEF Paper
<1>1. ASSUME NEW t \in Hilos, Queue(t) PROVE papel' \in PapelRows
  <2>1. CASE Claim(t) \/ MarkDone(t) \/ WebhookRelease(t)
    BY <2>1, <1>u DEF Claim, MarkDone, WebhookRelease, rows
  <2>2. CASE HandleFailure(t) BY <2>2, <1>s, PaperMoves
  <2> QED BY <1>1, <2>1, <2>2 DEF Queue
<1>2. ASSUME NEW t \in Hilos, DebitNext(t) PROVE papel' \in PapelRows
  <2>1. CASE Post(t) \/ PostFailed(t) \/ ApplyRead(t) \/ EffectsBegin(t) \/ EffectsCommit(t)
    BY <2>1, <1>u DEF Post, PostFailed, ApplyRead, EffectsBegin, EffectsCommit, rows
  <2>2. CASE ReconcilePending(t) \/ RetryDocument(t) \/ RetryRead(t) \/ StoreError(t)
    BY <2>2, <1>u DEF ReconcilePending, RetryDocument, RetryRead, StoreError, rows
  <2>3. CASE ApplyWrite(t) \/ RetryRequeue(t) BY <2>3, <1>s, PaperMoves
  <2> QED BY <1>2, <2>1, <2>2, <2>3 DEF DebitNext, DebitStep
<1>3. ASSUME NEW t \in Hilos, GuideNext(t) PROVE papel' \in PapelRows
  <2>1. CASE PostGuide(t) \/ GetGuide(t) \/ Submit(t) \/ CallFailed(t) \/ ApplyWebhook(t) \/ VoidAsked(t)
             \/ ConfirmAsked(t) \/ VoidWebhookRead(t) \/ GuideError(t)
    BY <2>1, <1>u DEF PostGuide, GetGuide, Submit, CallFailed, ApplyWebhook, VoidAsked, ConfirmAsked, VoidWebhookRead,
       GuideError, rows
  <2>2. CASE Annul(t) \/ Refresh(t) \/ UpdateRead(t) \/ Emit(t) \/ ReconcileGuide(t) \/ Void(t) \/ ConfirmVoid(t)
    BY <2>2, <1>u DEF Annul, Refresh, UpdateRead, Emit, ReconcileGuide, Void, ConfirmVoid, Reads, rows
  <2>3. CASE UpdateWrite(t) \/ Enqueue(t) \/ AnnulWrite(t) \/ WriteRegistered(t) \/ WriteGuide(t)
    BY <2>3, <1>s, PaperMoves
  <2>4. CASE VoidWrite(t) \/ ConfirmWrite(t) \/ VoidWebhookWrite(t) BY <2>4, <1>s, PaperMoves
  <2> QED BY <1>3, <2>1, <2>2, <2>3, <2>4 DEF GuideNext, GuideStep
<1>4. ASSUME NEW t \in Hilos, NEW e \in avisos, WebhookBegin(t, e) PROVE papel' \in PapelRows
  BY <1>4, <1>u DEF WebhookBegin, rows
<1>5. ASSUME NEW s, BillingAdvances(s) PROVE papel' \in PapelRows
  BY <1>5, <1>u DEF BillingAdvances, rows
<1>6. CASE Create
  <2>1. ASSUME NEW t \in Hilos PROVE papel' \in PapelRows BY <1>6, <1>s, PaperMoves
  <2>2. papel' = [papel EXCEPT !.estado = "borrador"] /\ papel \in PapelRows
    BY <1>6 DEF Create, PapersTypeOK, OutboxTypeOK
  <2> QED BY <2>2 DEF PapelRows
<1>7. CASE Crash BY <1>7, <1>u DEF Crash, rows
<1> QED BY <1>1, <1>2, <1>3, <1>4, <1>5, <1>6, <1>7 DEF Next

\* Every row, and what every execution has in hand, is of its type after any step.
LEMMA PapersTypeStep == ASSUME PapersTypeOK, Next PROVE PapersTypeOK'
<1>b. /\ billing' \in Documentos /\ reloj' \in Nat
      /\ avisos' \subseteq avisos \cup {billing'} \cup {hilo[t].doc : t \in Hilos}
  BY BillingMoves
<1>a. avisos' \subseteq Eventos BY <1>b, InHand DEF PapersTypeOK, OutboxTypeOK, Eventos
<1>t. /\ papel \in PapelRows /\ cola \in OutboxRows /\ fallas \in Nat /\ cuenta \in CuentaRows
      /\ candado \in Hilos \cup {NoHilo} /\ clase \in Clases /\ emisiones \in Nat /\ viejas \subseteq Tareas
  BY DEF PapersTypeOK, OutboxTypeOK, DebitTypeOK
<1>q. ASSUME cola' \in OutboxRows, fallas' \in Nat, cuenta' \in CuentaRows, candado' \in Hilos \cup {NoHilo},
             clase' = clase, emisiones' \in Nat, viejas' \subseteq Tareas
      PROVE  PapersTypeOK'
  BY <1>q, <1>a, <1>b, <1>t, HiloStep, PaperStep DEF PapersTypeOK, OutboxTypeOK, DebitTypeOK
<1>c. ASSUME NEW s \in {"PENDING", "DONE", "DEAD", "RETRY"}, cola' = [cola EXCEPT !.status = s] PROVE cola' \in OutboxRows
  BY <1>c, <1>t DEF OutboxRows
<1>1. ASSUME NEW t \in Hilos, Queue(t), UNCHANGED <<debitVars, guideVars>> PROVE PapersTypeOK'
  <2>1. OneMore \in 0..MaxIntentos BY <1>t, OutboxAssumption DEF OneMore, OutboxRows
  <2>2. cola' \in OutboxRows
    <3>1. CASE Claim(t) BY <2>1, <3>1 DEF Claim, OutboxRows
    <3>2. CASE MarkDone(t) BY <3>2, <1>c DEF MarkDone
    <3>3. CASE HandleFailure(t)
      <4>1. \E s \in {"DEAD", "RETRY"} : cola' = [cola EXCEPT !.status = s]
        BY <3>3 DEF HandleFailure
      <4> QED BY <4>1, <1>c
    <3>4. CASE WebhookRelease(t) BY <3>4, <1>t DEF WebhookRelease, rows
    <3> QED BY <1>1, <3>1, <3>2, <3>3, <3>4 DEF Queue
  <2>3. UNCHANGED <<clase, fallas>>
    BY <1>1 DEF Queue, Claim, MarkDone, HandleFailure, WebhookRelease, outside
  <2> QED BY <1>1, <1>q, <1>t, <2>2, <2>3 DEF debitVars, guideVars
<1>2. ASSUME NEW t \in Hilos, NEW e \in avisos, WebhookBegin(t, e), UNCHANGED <<debitVars, guideVars>>
      PROVE  PapersTypeOK'
  BY <1>2, <1>q, <1>t DEF WebhookBegin, rows, debitVars, guideVars
<1>3. ASSUME NEW t \in Hilos, DebitNext(t), UNCHANGED guideVars PROVE PapersTypeOK'
  <2>1. CASE Post(t) \/ PostFailed(t) \/ ApplyRead(t) \/ ApplyWrite(t) \/ ReconcilePending(t) \/ RetryDocument(t)
             \/ RetryRead(t)
    BY <1>3, <2>1, <1>q, <1>t DEF Post, PostFailed, ApplyRead, ApplyWrite, ReconcilePending, RetryDocument, RetryRead,
       rows, outside, debitVars, guideVars
  <2>2. CASE EffectsBegin(t) BY <1>3, <2>2, <1>q, <1>t DEF EffectsBegin, rows, outside, guideVars
  <2>3. CASE EffectsCommit(t)
    <3>1. cuenta' \in CuentaRows BY <2>3, <1>t DEF EffectsCommit, CuentaRows
    <3> QED BY <1>3, <2>3, <3>1, <1>q, <1>t DEF EffectsCommit, rows, outside, guideVars
  <2>4. CASE RetryRequeue(t) BY <1>3, <2>4, <1>c, <1>q, <1>t DEF RetryRequeue, debitVars, guideVars
  <2>5. CASE StoreError(t) BY <1>3, <2>5, <1>q, <1>t DEF StoreError, rows, guideVars
  <2> QED BY <1>3, <2>1, <2>2, <2>3, <2>4, <2>5 DEF DebitNext, DebitStep
<1>4. ASSUME NEW t \in Hilos, GuideNext(t) PROVE PapersTypeOK'
  <2>1. CASE PostGuide(t) \/ GetGuide(t) \/ Submit(t) \/ CallFailed(t) \/ WriteRegistered(t) \/ WriteGuide(t)
             \/ ApplyWebhook(t) \/ VoidAsked(t) \/ ConfirmAsked(t) \/ VoidWebhookRead(t)
    BY <2>1, <1>q, <1>t DEF PostGuide, GetGuide, Submit, CallFailed, WriteRegistered, WriteGuide, ApplyGuide,
       ApplyWebhook, VoidAsked, ConfirmAsked, VoidWebhookRead, rows, outside, debitVars, guideVars
  <2>2. CASE Annul(t) \/ Refresh(t) \/ UpdateRead(t) \/ Emit(t) \/ ReconcileGuide(t) \/ Void(t) \/ ConfirmVoid(t)
    BY <2>2, <1>q, <1>t DEF Annul, Refresh, UpdateRead, Emit, ReconcileGuide, Void, ConfirmVoid, Reads, rows, outside,
       debitVars, guideVars
  <2>3. CASE UpdateWrite(t) \/ AnnulWrite(t) \/ VoidWrite(t) \/ ConfirmWrite(t) \/ VoidWebhookWrite(t)
    BY <2>3, <1>q, <1>t, InHand DEF UpdateWrite, AnnulWrite, VoidWrite, ConfirmWrite, VoidWebhookWrite, Writes, outside,
       debitVars
  <2>4. CASE Enqueue(t)
    <3>1. cola' \in OutboxRows BY <2>4, <1>c DEF Enqueue
    <3>2. viejas' \subseteq Tareas BY <2>4, <1>t, InHand DEF Enqueue, Writes
    <3> QED BY <2>4, <3>1, <3>2, <1>q, <1>t DEF Enqueue, Writes, debitVars
  <2>5. CASE GuideError(t) BY <2>5, <1>q, <1>t DEF GuideError, Falla, rows, debitVars, guideVars
  <2> QED BY <1>4, <2>1, <2>2, <2>3, <2>4, <2>5 DEF GuideNext, GuideStep
<1>5. CASE Create BY <1>5, <1>q, <1>t DEF Create, outside, debitVars, guideVars
<1>6. CASE Crash BY <1>6, <1>q, <1>t DEF Crash, Falla, rows, guideVars
<1>7. ASSUME NEW s, BillingAdvances(s), UNCHANGED <<debitVars, guideVars>> PROVE PapersTypeOK'
  BY <1>7, <1>q, <1>t DEF BillingAdvances, rows, debitVars, guideVars
<1> QED BY <1>1, <1>2, <1>3, <1>4, <1>5, <1>6, <1>7 DEF Next

----------------------------------------
(* A debit note.                                                           *)

\* Whoever holds an accepted document, or carries out the effects of one, holds what Billing holds.
AcceptedOK ==
  /\ \A e \in avisos : e.status \in Accepted => billing.status \in Accepted
  /\ \A t \in Hilos : /\ hilo[t].doc.status \in Accepted => billing.status \in Accepted
                      /\ hilo[t].step \in {"effects", "charging"} => billing.status \in Accepted

\* The execution that charges the account holds the row of the note, and the note is not charged.
ChargeOK ==
  /\ \A t \in Hilos : hilo[t].step = "charging" <=> candado = t
  /\ candado # NoHilo => ~cuenta.aplicada
  /\ cuenta.cargos = (IF cuenta.aplicada THEN 1 ELSE 0)
  /\ cuenta.aplicada => billing.status \in Accepted

\* The account was charged, or somebody is about to.
Charged == cuenta.aplicada \/ \E t \in Hilos : hilo[t].step \in {"effects", "charging"}

\* While nothing broke, an acceptance that was written, or read before another is written, is charged.
DueOK ==
  clase = "debito" /\ fallas = 0 =>
    /\ papel.status \in Accepted => Charged
    /\ \A t \in Hilos : hilo[t].step = "writing" /\ hilo[t].visto.status \in Accepted => Charged

\* An acceptance somebody holds is Billing's after any step.
LEMMA AcceptedStep ==
  ASSUME PapersTypeOK, AcceptedOK, Next
  PROVE  AcceptedOK'
<1>b. /\ billing.status \in Accepted => billing'.status \in Accepted
      /\ avisos' \subseteq avisos \cup {billing'} \cup {hilo[t].doc : t \in Hilos}
  BY BillingMoves
<1>e. \A e \in avisos' : e.status \in Accepted => billing'.status \in Accepted
  BY <1>b DEF AcceptedOK
<1>n. Nada.status \notin Accepted /\ Idle.doc = Nada /\ Idle.step = "idle" BY NullRows DEF Accepted
<1>s. ASSUME NEW t \in Hilos, NEW k, NEW s, NEW d, NEW v, Shows(t, k, s, d, v),
             d.status \in Accepted => billing'.status \in Accepted,
             s \in {"effects", "charging"} => billing'.status \in Accepted
      PROVE  AcceptedOK'
  BY <1>s, <1>b, <1>e DEF AcceptedOK, Shows
<1>q. ASSUME NEW t \in Hilos, Quiet(t) PROVE AcceptedOK'
  <2>1. PICK k \in {hilo[t].task, "none", "process"}, s \in {"applied", "idle", "failing", "releasing"},
             d \in {hilo[t].doc, Nada}, v \in {hilo[t].visto, Nuevo} : Shows(t, k, s, d, v)
    BY <1>q DEF Quiet
  <2>2. d.status \in Accepted => billing'.status \in Accepted BY <2>1, <1>b, <1>n DEF AcceptedOK
  <2> QED BY <2>1, <2>2, <1>s
<1>d. ASSUME NEW t \in Hilos PROVE hilo[t].doc.status \in Accepted => billing'.status \in Accepted
  BY <1>d, <1>b DEF AcceptedOK
<1>u. ASSUME UNCHANGED hilo PROVE AcceptedOK' BY <1>u, <1>b, <1>e DEF AcceptedOK
<1>1. ASSUME NEW t \in Hilos, Queue(t) PROVE AcceptedOK'
  <2>1. CASE Claim(t)
    <3>1. \E v : Shows(t, "process", "claimed", Nada, v) BY <2>1, OtherMoves
    <3> QED BY <3>1, <1>n, <1>s
  <2>2. CASE MarkDone(t) \/ HandleFailure(t) \/ WebhookRelease(t) BY <2>2, <1>q, QuietActions
  <2> QED BY <1>1, <2>1, <2>2 DEF Queue
<1>2. ASSUME NEW t \in Hilos, NEW e \in avisos, WebhookBegin(t, e) PROVE AcceptedOK'
  <2>1. \E k : Shows(t, k, "applying", e, Nuevo) BY <1>2, OtherMoves
  <2>2. e.status \in Accepted => billing'.status \in Accepted BY <1>b DEF AcceptedOK
  <2> QED BY <2>1, <2>2, <1>s
<1>3. ASSUME NEW t \in Hilos, DebitNext(t) PROVE AcceptedOK'
  <2>1. CASE PostFailed(t) \/ EffectsCommit(t) \/ RetryRequeue(t) \/ StoreError(t)
    BY <2>1, <1>q, QuietActions
  <2>2. CASE Post(t)
    <3>1. Quiet(t) \/ Shows(t, hilo[t].task, "applying", billing', Nuevo) BY <2>2, OtherMoves
    <3> QED BY <3>1, <1>q, <1>s
  <2>3. CASE ApplyRead(t)
    <3>1. Quiet(t) \/ \E v : Shows(t, hilo[t].task, "writing", hilo[t].doc, v) BY <2>3, OtherMoves
    <3> QED BY <3>1, <1>q, <1>d, <1>s
  <2>4. CASE ApplyWrite(t)
    <3>1. CASE TriggersEffects(hilo[t].doc.status, hilo[t].visto.status)
      <4>1. PICK d \in {hilo[t].doc, Nada} : Shows(t, hilo[t].task, "effects", d, Nuevo)
        BY <2>4, <3>1, OtherMoves
      <4>2. billing'.status \in Accepted BY <3>1, <1>d DEF TriggersEffects
      <4> QED BY <4>1, <4>2, <1>s
    <3>2. CASE ~TriggersEffects(hilo[t].doc.status, hilo[t].visto.status)
      BY <2>4, <3>2, <1>q, OtherMoves
    <3> QED BY <3>1, <3>2
  <2>5. CASE EffectsBegin(t)
    <3>1. Quiet(t) \/ Shows(t, hilo[t].task, "charging", hilo[t].doc, hilo[t].visto)
      BY <2>5, OtherMoves
    <3>2. billing'.status \in Accepted BY <2>5, <1>b DEF EffectsBegin, At, AcceptedOK
    <3> QED BY <3>1, <3>2, <1>q, <1>s
  <2>6. CASE ReconcilePending(t) \/ RetryDocument(t)
    <3>1. Shows(t, "get", "applying", billing', Nuevo) BY <2>6, OtherMoves
    <3> QED BY <3>1, <1>s
  <2>7. CASE RetryRead(t)
    <3>1. Shows(t, "get", "requeue", Nada, Nuevo) BY <2>7, OtherMoves
    <3> QED BY <3>1, <1>n, <1>s
  <2> QED BY <1>3, <2>1, <2>2, <2>3, <2>4, <2>5, <2>6, <2>7 DEF DebitNext, DebitStep
<1>4. ASSUME NEW t \in Hilos, GuideNext(t) PROVE AcceptedOK'
  <2>1. CASE UpdateWrite(t) \/ Enqueue(t) \/ AnnulWrite(t) \/ CallFailed(t) \/ WriteGuide(t) \/ VoidWrite(t)
             \/ ConfirmWrite(t) \/ VoidWebhookWrite(t) \/ GuideError(t)
    BY <2>1, <1>q, QuietActions
  <2>2. CASE PostGuide(t) \/ Submit(t) \/ VoidAsked(t) \/ ConfirmAsked(t)
    <3>1. Quiet(t) \/ \E s \in {"registering", "writing", "asked", "confirmed"} :
                        Shows(t, hilo[t].task, s, billing', Nuevo)
      BY <2>2, OtherMoves
    <3> QED BY <3>1, <1>q, <1>s
  <2>3. CASE GetGuide(t) \/ WriteRegistered(t)
    <3>1. PICK d \in {hilo[t].doc, Nada} : Shows(t, hilo[t].task, "submitting", d, Nuevo)
      BY <2>3, OtherMoves
    <3> QED BY <3>1, <1>d, <1>n, <1>s
  <2>4. CASE ApplyWebhook(t) \/ VoidWebhookRead(t)
    <3>1. Quiet(t) \/ \E s, v : Shows(t, hilo[t].task, s, hilo[t].doc, v) /\ s \in {"writing", "voiding"}
      BY <2>4, OtherMoves
    <3> QED BY <3>1, <1>q, <1>d, <1>s
  <2>5. CASE Refresh(t) \/ ReconcileGuide(t)
    <3>1. Shows(t, "get", "writing", billing', Nuevo) BY <2>5, OtherMoves
    <3> QED BY <3>1, <1>s
  <2>6. CASE Annul(t) \/ UpdateRead(t) \/ Emit(t) \/ Void(t) \/ ConfirmVoid(t)
    <3>1. \E k, s, v : Shows(t, k, s, Nada, v) /\ s \in {"annulling", "editing", "emitting", "asking", "confirming"}
      BY <2>6, HandlersMove
    <3> QED BY <3>1, <1>n, <1>s
  <2> QED BY <1>4, <2>1, <2>2, <2>3, <2>4, <2>5, <2>6 DEF GuideNext, GuideStep
<1>5. CASE Create BY <1>5, <1>u DEF Create
<1>6. CASE Crash BY <1>6, <1>n, <1>e DEF Crash, AcceptedOK
<1>7. ASSUME NEW s, BillingAdvances(s) PROVE AcceptedOK' BY <1>7, <1>u DEF BillingAdvances
<1> QED BY <1>1, <1>2, <1>3, <1>4, <1>5, <1>6, <1>7 DEF Next

\* Actions that do not work on the account take an execution that does not charge it to another
\* such step.
LEMMA OffTheAccount ==
  ASSUME PapersTypeOK, Next, NEW t \in Hilos,
         \/ Queue(t) \/ (\E e \in avisos : WebhookBegin(t, e))
         \/ Post(t) \/ PostFailed(t) \/ ApplyRead(t) \/ RetryRequeue(t)
         \/ ReconcilePending(t) \/ RetryDocument(t) \/ RetryRead(t)
         \/ GuideNext(t)
         \/ ApplyWrite(t) /\ ~TriggersEffects(hilo[t].doc.status, hilo[t].visto.status)
  PROVE  /\ hilo[t].step \notin {"effects", "charging"}
         /\ \E k, s, d, v : Shows(t, k, s, d, v) /\ s \notin {"effects", "charging"}
<1>q. Quiet(t) => \E k, s, d, v : Shows(t, k, s, d, v) /\ s \notin {"effects", "charging"}
  BY DEF Quiet
<1>i. hilo[t] = Idle => hilo[t].step \notin {"effects", "charging"} BY NullRows
<1>1. CASE Queue(t) \/ \E e \in avisos : WebhookBegin(t, e)
  <2>1. CASE Claim(t) \/ \E e \in avisos : WebhookBegin(t, e)
    <3>1. hilo[t] = Idle /\ \E k, s, d, v : Shows(t, k, s, d, v) /\ s \in {"claimed", "applying"}
      BY <2>1, OtherMoves
    <3> QED BY <3>1, <1>i
  <2>2. CASE MarkDone(t) \/ HandleFailure(t) \/ WebhookRelease(t)
    <3>1. Quiet(t) BY <2>2, QuietActions
    <3>2. hilo[t].step \in {"applied", "failing", "releasing"}
      BY <2>2 DEF MarkDone, HandleFailure, WebhookRelease, At
    <3> QED BY <3>1, <3>2, <1>q
  <2> QED BY <1>1, <2>1, <2>2 DEF Queue
<1>2. CASE Post(t) \/ PostFailed(t) \/ RetryRequeue(t) \/ ApplyRead(t)
  <2>1. hilo[t].step \in {"claimed", "applying", "requeue"}
    BY <1>2 DEF Post, PostFailed, RetryRequeue, ApplyRead, At
  <2>2. Quiet(t) \/ \E k, s, d, v : Shows(t, k, s, d, v) /\ s \in {"applying", "writing"}
    <3>1. CASE PostFailed(t) \/ RetryRequeue(t) BY <3>1, QuietActions
    <3>2. CASE Post(t) \/ ApplyRead(t) BY <3>2, OtherMoves
    <3> QED BY <1>2, <3>1, <3>2
  <2> QED BY <2>1, <2>2, <1>q
<1>3. CASE ReconcilePending(t) \/ RetryDocument(t) \/ RetryRead(t)
  <2>1. hilo[t] = Idle /\ \E k, s, d, v : Shows(t, k, s, d, v) /\ s \in {"applying", "requeue"}
    BY <1>3, OtherMoves
  <2> QED BY <2>1, <1>i
<1>4. CASE ApplyWrite(t) /\ ~TriggersEffects(hilo[t].doc.status, hilo[t].visto.status)
  <2>1. Quiet(t) /\ hilo[t].step = "writing" BY <1>4, OtherMoves DEF ApplyWrite, At
  <2> QED BY <2>1, <1>q
<1>5. CASE GuideNext(t)
  <2>1. CASE UpdateWrite(t) \/ Enqueue(t) \/ AnnulWrite(t) \/ CallFailed(t) \/ WriteGuide(t) \/ VoidWrite(t)
             \/ ConfirmWrite(t) \/ VoidWebhookWrite(t) \/ GuideError(t)
    <3>1. Quiet(t) BY <2>1, QuietActions
    <3>2. hilo[t].step \notin {"effects", "charging"}
      BY <2>1 DEF UpdateWrite, Enqueue, AnnulWrite, CallFailed, WriteGuide, ApplyGuide, VoidWrite, ConfirmWrite,
         VoidWebhookWrite, GuideError, At
    <3> QED BY <3>1, <3>2, <1>q
  <2>2. CASE PostGuide(t) \/ GetGuide(t) \/ Submit(t) \/ WriteRegistered(t) \/ ApplyWebhook(t) \/ VoidAsked(t)
             \/ ConfirmAsked(t) \/ VoidWebhookRead(t)
    <3>1. hilo[t].step \notin {"effects", "charging"}
      BY <2>2 DEF PostGuide, GetGuide, Submit, WriteRegistered, ApplyGuide, ApplyWebhook, VoidAsked, ConfirmAsked,
         VoidWebhookRead, At
    <3>2. CASE PostGuide(t) \/ GetGuide(t) \/ Submit(t) \/ WriteRegistered(t)
      <4>1. Quiet(t) \/ \E k, s, d, v : Shows(t, k, s, d, v) /\ s \in {"registering", "submitting", "writing"}
        BY <3>2, OtherMoves
      <4> QED BY <3>1, <4>1, <1>q
    <3>3. CASE ApplyWebhook(t) \/ VoidAsked(t) \/ ConfirmAsked(t) \/ VoidWebhookRead(t)
      <4>1. Quiet(t) \/ \E k, s, d, v : Shows(t, k, s, d, v) /\ s \in {"writing", "asked", "confirmed", "voiding"}
        BY <3>3, OtherMoves
      <4> QED BY <3>1, <4>1, <1>q
    <3> QED BY <2>2, <3>2, <3>3
  <2>3. CASE Refresh(t) \/ ReconcileGuide(t)
    <3>1. hilo[t] = Idle /\ \E k, s, d, v : Shows(t, k, s, d, v) /\ s \in {"writing"}
      BY <2>3, OtherMoves
    <3> QED BY <3>1, <1>i
  <2>4. CASE Annul(t) \/ UpdateRead(t) \/ Emit(t) \/ Void(t) \/ ConfirmVoid(t)
    <3>1. hilo[t] = Idle
          /\ \E k, s, v : Shows(t, k, s, Nada, v) /\ s \in {"annulling", "editing", "emitting", "asking", "confirming"}
      BY <2>4, HandlersMove
    <3> QED BY <3>1, <1>i
  <2> QED BY <1>5, <2>1, <2>2, <2>3, <2>4 DEF GuideNext, GuideStep
<1> QED BY <1>1, <1>2, <1>3, <1>4, <1>5

\* One execution at a time charges the account, once, for an accepted note: after any step.
LEMMA ChargeStep ==
  ASSUME PapersTypeOK, AcceptedOK, ChargeOK, Next
  PROVE  ChargeOK'
<1>b. billing.status \in Accepted => billing'.status \in Accepted BY BillingMoves
<1>t. candado \in Hilos \cup {NoHilo} /\ cuenta \in CuentaRows /\ NoHilo \notin Hilos
  BY OutboxAssumption DEF PapersTypeOK, DebitTypeOK
<1>s. ASSUME NEW t \in Hilos, hilo[t].step # "charging", UNCHANGED debitVars,
             \E k, s, d, v : Shows(t, k, s, d, v) /\ s # "charging"
      PROVE  ChargeOK'
  BY <1>s, <1>b DEF ChargeOK, Shows, debitVars
<1>u. ASSUME UNCHANGED <<hilo, debitVars>> PROVE ChargeOK' BY <1>u, <1>b DEF ChargeOK, debitVars
<1>q. ASSUME NEW t \in Hilos, Quiet(t) PROVE \E k, s, d, v : Shows(t, k, s, d, v) /\ s # "charging"
  BY <1>q DEF Quiet
<1>o. ASSUME NEW t \in Hilos, UNCHANGED debitVars,
             \/ Queue(t) \/ (\E e \in avisos : WebhookBegin(t, e))
             \/ Post(t) \/ PostFailed(t) \/ ApplyRead(t) \/ RetryRequeue(t)
             \/ ReconcilePending(t) \/ RetryDocument(t) \/ RetryRead(t)
             \/ GuideNext(t)
             \/ ApplyWrite(t) /\ ~TriggersEffects(hilo[t].doc.status, hilo[t].visto.status)
      PROVE  ChargeOK'
  <2>1. hilo[t].step \notin {"effects", "charging"}
        /\ \E k, s, d, v : Shows(t, k, s, d, v) /\ s \notin {"effects", "charging"}
    BY <1>o, OffTheAccount
  <2> QED BY <1>o, <2>1, <1>s
<1>1. ASSUME NEW t \in Hilos, DebitNext(t) PROVE ChargeOK'
  <2>1. CASE Post(t) \/ PostFailed(t) \/ ApplyRead(t) \/ RetryRequeue(t) \/ ReconcilePending(t) \/ RetryDocument(t)
             \/ RetryRead(t)
    <3>1. UNCHANGED debitVars
      BY <2>1 DEF Post, PostFailed, ApplyRead, RetryRequeue, ReconcilePending, RetryDocument, RetryRead
    <3> QED BY <2>1, <3>1, <1>o
  <2>2. CASE ApplyWrite(t)
    <3>1. UNCHANGED debitVars /\ hilo[t].step = "writing" BY <2>2 DEF ApplyWrite, At
    <3>2. CASE TriggersEffects(hilo[t].doc.status, hilo[t].visto.status)
      <4>1. \E d : Shows(t, hilo[t].task, "effects", d, Nuevo) BY <2>2, <3>2, OtherMoves
      <4> QED BY <3>1, <4>1, <1>s
    <3>3. CASE ~TriggersEffects(hilo[t].doc.status, hilo[t].visto.status) BY <2>2, <3>1, <3>3, <1>o
    <3> QED BY <3>2, <3>3
  <2>3. CASE EffectsBegin(t)
    <3>1. hilo[t].step = "effects" /\ candado = NoHilo /\ cuenta' = cuenta
      BY <2>3 DEF EffectsBegin, At, Unlocked
    <3>2. CASE cuenta.aplicada
      <4>1. Quiet(t) /\ UNCHANGED debitVars
        BY <2>3, <3>1, <3>2, OtherMoves DEF EffectsBegin, debitVars
      <4> QED BY <3>1, <4>1, <1>q, <1>s
    <3>3. CASE ~cuenta.aplicada
      <4>1. Shows(t, hilo[t].task, "charging", hilo[t].doc, hilo[t].visto) /\ candado' = t
        BY <2>3, <3>3, OtherMoves DEF EffectsBegin
      <4>2. \A u \in Hilos : hilo[u].step # "charging" BY <3>1, <1>t DEF ChargeOK
      <4> QED BY <3>1, <3>3, <4>1, <4>2, <1>t, <1>b DEF ChargeOK, Shows
    <3> QED BY <3>2, <3>3
  <2>4. CASE EffectsCommit(t)
    <3>1. hilo[t].step = "charging" /\ candado' = NoHilo
          /\ cuenta' = [hay |-> TRUE, cargos |-> cuenta.cargos + 1, aplicada |-> TRUE]
      BY <2>4 DEF EffectsCommit, At
    <3>2. candado = t /\ ~cuenta.aplicada /\ cuenta.cargos = 0 BY <3>1, <1>t DEF ChargeOK
    <3>3. cuenta'.cargos = 1 /\ cuenta'.aplicada = TRUE BY <3>1, <3>2
    <3>4. billing'.status \in Accepted BY <3>1, <1>b DEF AcceptedOK
    <3>5. \E k, s, d, v : Shows(t, k, s, d, v) /\ s # "charging" BY <2>4, <1>q, QuietActions
    <3>6. \A u \in Hilos : hilo'[u].step # "charging" /\ candado' # u
      BY <3>1, <3>2, <3>5, <1>t DEF ChargeOK, Shows
    <3> QED BY <3>1, <3>3, <3>4, <3>6 DEF ChargeOK
  <2>5. CASE StoreError(t)
    <3>1. candado' = (IF candado = t THEN NoHilo ELSE candado) /\ cuenta' = cuenta
      BY <2>5 DEF StoreError
    <3>2. \E k, s, d, v : Shows(t, k, s, d, v) /\ s # "charging" BY <2>5, <1>q, QuietActions
    <3>3. \A u \in Hilos : hilo'[u].step = "charging" <=> candado' = u
      BY <3>1, <3>2, <1>t DEF ChargeOK, Shows
    <3> QED BY <3>1, <3>3, <1>t, <1>b DEF ChargeOK
  <2> QED BY <1>1, <2>1, <2>2, <2>3, <2>4, <2>5 DEF DebitNext, DebitStep
<1>2. ASSUME NEW t \in Hilos, GuideNext(t) PROVE ChargeOK'
  <2>1. UNCHANGED debitVars
    <3>1. CASE UpdateWrite(t) \/ Enqueue(t) \/ AnnulWrite(t) \/ VoidWrite(t) \/ ConfirmWrite(t) \/ VoidWebhookWrite(t)
      BY <3>1 DEF UpdateWrite, Enqueue, AnnulWrite, VoidWrite, ConfirmWrite, VoidWebhookWrite, Writes
    <3>2. CASE PostGuide(t) \/ GetGuide(t) \/ Submit(t) \/ CallFailed(t) \/ WriteRegistered(t) \/ WriteGuide(t)
               \/ ApplyWebhook(t) \/ VoidAsked(t) \/ ConfirmAsked(t) \/ VoidWebhookRead(t) \/ GuideError(t)
      BY <3>2 DEF PostGuide, GetGuide, Submit, CallFailed, WriteRegistered, WriteGuide, ApplyGuide, ApplyWebhook,
         VoidAsked, ConfirmAsked, VoidWebhookRead, GuideError
    <3>3. CASE Annul(t) \/ Refresh(t) \/ UpdateRead(t) \/ Emit(t) \/ ReconcileGuide(t) \/ Void(t) \/ ConfirmVoid(t)
      BY <3>3 DEF Annul, Refresh, UpdateRead, Emit, ReconcileGuide, Void, ConfirmVoid, Reads
    <3> QED BY <1>2, <3>1, <3>2, <3>3 DEF GuideNext, GuideStep
  <2> QED BY <1>2, <2>1, <1>o
<1>3. CASE Create BY <1>3, <1>u DEF Create
<1>4. CASE Crash BY <1>4, <1>b, <1>t, NullRows DEF Crash, ChargeOK
<1>5. ASSUME NEW s, BillingAdvances(s), UNCHANGED debitVars PROVE ChargeOK'
  BY <1>5, <1>u DEF BillingAdvances
<1> QED BY <1>o, <1>1, <1>2, <1>3, <1>4, <1>5 DEF Next

\* A paper does not change its kind, and faults are only counted.
LEMMA ClaseStays == ASSUME Next PROVE clase' = clase /\ fallas' \in {fallas, fallas + 1}
<1> USE DEF outside
<1> DEFINE P == clase' = clase /\ fallas' \in {fallas, fallas + 1}
<1>1. ASSUME NEW t \in Hilos, Queue(t) \/ \E e \in avisos : WebhookBegin(t, e) PROVE P
  BY <1>1 DEF Queue, Claim, MarkDone, HandleFailure, WebhookRelease, WebhookBegin
<1>2. ASSUME NEW t \in Hilos, DebitNext(t) PROVE P
  BY <1>2 DEF DebitNext, DebitStep, Post, PostFailed, ApplyRead, ApplyWrite, EffectsBegin, EffectsCommit, RetryRequeue,
     StoreError, ReconcilePending, RetryDocument, RetryRead
<1>3. ASSUME NEW t \in Hilos, GuideNext(t) PROVE P
  <2>1. CASE UpdateWrite(t) \/ Enqueue(t) \/ AnnulWrite(t) \/ VoidWrite(t) \/ ConfirmWrite(t) \/ VoidWebhookWrite(t)
    BY <2>1 DEF UpdateWrite, Enqueue, AnnulWrite, VoidWrite, ConfirmWrite, VoidWebhookWrite, Writes
  <2>2. CASE PostGuide(t) \/ GetGuide(t) \/ Submit(t) \/ CallFailed(t) \/ WriteRegistered(t) \/ WriteGuide(t)
             \/ ApplyWebhook(t) \/ VoidAsked(t) \/ ConfirmAsked(t) \/ VoidWebhookRead(t) \/ GuideError(t)
    BY <2>2 DEF PostGuide, GetGuide, Submit, CallFailed, WriteRegistered, WriteGuide, ApplyGuide, ApplyWebhook,
       VoidAsked, ConfirmAsked, VoidWebhookRead, GuideError, Falla
  <2>3. CASE Annul(t) \/ Refresh(t) \/ UpdateRead(t) \/ Emit(t) \/ ReconcileGuide(t) \/ Void(t) \/ ConfirmVoid(t)
    BY <2>3 DEF Annul, Refresh, UpdateRead, Emit, ReconcileGuide, Void, ConfirmVoid, Reads
  <2> QED BY <1>3, <2>1, <2>2, <2>3 DEF GuideNext, GuideStep
<1>4. CASE Create \/ Crash \/ \E s : BillingAdvances(s)
  BY <1>4 DEF Create, Crash, Falla, BillingAdvances
<1> QED BY <1>1, <1>2, <1>3, <1>4 DEF Next

\* No acceptance goes without its charge while nothing breaks: after any step.
LEMMA DueStep ==
  ASSUME PapersTypeOK, ChargeOK, DueOK, Next
  PROVE  DueOK'
<1>t. fallas \in Nat /\ clase' = clase /\ fallas' \in {fallas, fallas + 1}
  BY ClaseStays DEF PapersTypeOK, OutboxTypeOK
<1>f. fallas' # fallas => fallas' # 0 BY <1>t
<1>0. CASE clase # "debito" \/ fallas' # 0 BY <1>0, <1>t DEF DueOK
<1>1. CASE clase = "debito" /\ fallas = 0 /\ fallas' = 0
  <2>n. "NONE" \notin Accepted /\ {"FAILED", "RETRY_SCHEDULED", "QUEUED"} \cap Accepted = {} /\ Nuevo.status = "NONE"
    BY NullRows DEF Accepted
  <2>s. ASSUME NEW t \in Hilos, NEW k, NEW s, NEW d, NEW v, Shows(t, k, s, d, v),
               papel'.status \in Accepted => papel.status \in Accepted,
               s = "writing" => v.status = papel.status,
               Charged => Charged'
        PROVE  DueOK'
    <3>1. papel'.status \in Accepted => Charged' BY <1>1, <2>s DEF DueOK
    <3>2. ASSUME NEW u \in Hilos, hilo'[u].step = "writing", hilo'[u].visto.status \in Accepted PROVE Charged'
      BY <1>1, <2>s, <3>2 DEF DueOK, Shows
    <3> QED BY <3>1, <3>2 DEF DueOK
  <2>c. ASSUME NEW t \in Hilos, NEW k, NEW s, NEW d, NEW v, Shows(t, k, s, d, v),
               hilo[t].step \notin {"effects", "charging"} \/ s \in {"effects", "charging"}, cuenta' = cuenta
        PROVE  Charged => Charged'
    BY <2>c DEF Charged, Shows
  <2>q. ASSUME NEW t \in Hilos, Quiet(t), papel'.status \in Accepted => papel.status \in Accepted,
               (hilo[t].step \notin {"effects", "charging"} /\ cuenta' = cuenta) \/ cuenta'.aplicada
        PROVE  DueOK'
    <3>0. \E k, s, d, v : Shows(t, k, s, d, v) /\ s \in {"applied", "idle", "failing", "releasing"}
      BY <2>q, QuietShown
    <3>1. PICK k, s, d, v : Shows(t, k, s, d, v) /\ s \in {"applied", "idle", "failing", "releasing"}
      BY <3>0
    <3>2. Charged => Charged'
      <4>1. CASE cuenta'.aplicada BY <4>1 DEF Charged
      <4>2. CASE hilo[t].step \notin {"effects", "charging"} /\ cuenta' = cuenta BY <4>2, <3>1, <2>c
      <4> QED BY <2>q, <4>1, <4>2
    <3> QED BY <2>q, <3>1, <3>2, <2>s
  <2>1. ASSUME NEW t \in Hilos, Queue(t), UNCHANGED debitVars PROVE DueOK'
    <3>1. CASE Claim(t)
      <4>1. hilo[t] = Idle /\ \E v : Shows(t, "process", "claimed", Nada, v) BY <3>1, OtherMoves
      <4>2. papel' = papel /\ cuenta' = cuenta /\ hilo[t].step = "idle"
        BY <2>1, <3>1, <4>1, NullRows DEF Claim, debitVars
      <4>3. Charged => Charged' BY <4>1, <4>2, <2>c
      <4> QED BY <4>1, <4>2, <4>3, <2>s
    <3>2. CASE MarkDone(t) \/ WebhookRelease(t)
      <4>1. Quiet(t) /\ papel' = papel /\ cuenta' = cuenta /\ hilo[t].step \notin {"effects", "charging"}
        BY <2>1, <3>2, QuietActions DEF MarkDone, WebhookRelease, At, debitVars, rows
      <4> QED BY <4>1, <2>q
    <3>3. CASE HandleFailure(t)
      <4>1. Quiet(t) /\ cuenta' = cuenta /\ hilo[t].step \notin {"effects", "charging"}
        BY <2>1, <3>3, QuietActions DEF HandleFailure, At, debitVars
      <4>2. papel'.status \in {"FAILED", "RETRY_SCHEDULED"} BY <3>3, PaperMoves DEF Paper
      <4> QED BY <4>1, <4>2, <2>n, <2>q
    <3> QED BY <2>1, <3>1, <3>2, <3>3 DEF Queue
  <2>2. ASSUME NEW t \in Hilos, NEW e \in avisos, WebhookBegin(t, e), UNCHANGED debitVars PROVE DueOK'
    <3>1. hilo[t] = Idle /\ \E k : Shows(t, k, "applying", e, Nuevo) BY <2>2, OtherMoves
    <3>2. papel' = papel /\ cuenta' = cuenta /\ hilo[t].step = "idle"
      BY <2>2, <3>1, NullRows DEF WebhookBegin, debitVars, rows
    <3>3. Charged => Charged' BY <3>1, <3>2, <2>c
    <3> QED BY <3>1, <3>2, <3>3, <2>s
  <2>3. ASSUME NEW t \in Hilos, DebitNext(t) PROVE DueOK'
    <3>1. CASE PostFailed(t)
      <4>1. Quiet(t) /\ papel' = papel /\ cuenta' = cuenta /\ hilo[t].step \notin {"effects", "charging"}
        BY <3>1, QuietActions DEF PostFailed, At, debitVars, rows
      <4> QED BY <4>1, <2>q
    <3>2. CASE RetryRequeue(t)
      <4>1. Quiet(t) /\ cuenta' = cuenta /\ hilo[t].step \notin {"effects", "charging"}
        BY <3>2, QuietActions DEF RetryRequeue, At, debitVars
      <4>2. papel'.status = "QUEUED" BY <3>2, PaperMoves DEF Paper
      <4> QED BY <4>1, <4>2, <2>n, <2>q
    <3>3. CASE Post(t)
      <4>1. papel' = papel /\ cuenta' = cuenta /\ hilo[t].step = "claimed"
        BY <3>3 DEF Post, At, debitVars, rows
      <4>2. Quiet(t) \/ Shows(t, hilo[t].task, "applying", billing', Nuevo) BY <3>3, OtherMoves
      <4>3. Shows(t, hilo[t].task, "applying", billing', Nuevo) => (Charged => Charged')
        BY <4>1, <2>c
      <4> QED BY <4>1, <4>2, <4>3, <2>s, <2>q
    <3>4. CASE ApplyRead(t)
      <4>1. papel' = papel /\ cuenta' = cuenta /\ hilo[t].step = "applying"
        BY <3>4 DEF ApplyRead, At, debitVars, rows
      <4>2. CASE Quiet(t) BY <4>1, <4>2, <2>q
      <4>3. CASE \E v : Shows(t, hilo[t].task, "writing", hilo[t].doc, v) /\ v.status = papel.status
        <5>0. \E k, s, d, v : Shows(t, k, s, d, v) /\ s = "writing" /\ v.status = papel.status
          BY <4>3
        <5>1. PICK k, s, d, v : Shows(t, k, s, d, v) /\ s = "writing" /\ v.status = papel.status
          BY <5>0
        <5>2. Charged => Charged' BY <4>1, <5>1, <2>c
        <5>3. papel'.status \in Accepted => papel.status \in Accepted BY <4>1
        <5> QED BY <5>1, <5>2, <5>3, <2>s
      <4> QED BY <3>4, <4>2, <4>3, OtherMoves
    <3>5. CASE ApplyWrite(t)
      <4>1. cuenta' = cuenta /\ hilo[t].step = "writing" BY <3>5 DEF ApplyWrite, At, debitVars
      <4>2. papel'.status = normalizeStatus(hilo[t].doc.status) BY <3>5, PaperMoves DEF Paper
      <4>3. CASE TriggersEffects(hilo[t].doc.status, hilo[t].visto.status)
        <5>1. PICK d : Shows(t, hilo[t].task, "effects", d, Nuevo) BY <3>5, <4>3, OtherMoves
        <5>2. Charged' BY <5>1 DEF Charged, Shows
        <5> QED BY <5>2 DEF DueOK
      <4>4. CASE ~TriggersEffects(hilo[t].doc.status, hilo[t].visto.status)
        <5>0. \E k, s, d, v : Shows(t, k, s, d, v) /\ s \in {"applied", "idle", "failing", "releasing"}
          BY <3>5, <4>4, OtherMoves, QuietShown
        <5>1. PICK k, s, d, v : Shows(t, k, s, d, v) /\ s \in {"applied", "idle", "failing", "releasing"}
          BY <5>0
        <5>2. Charged => Charged' BY <4>1, <5>1, <2>c
        <5>3. papel'.status \in Accepted => hilo[t].visto.status \in Accepted
          BY <4>2, <4>4 DEF normalizeStatus, TriggersEffects, Accepted
        <5>4. papel'.status \in Accepted => Charged' BY <1>1, <4>1, <5>2, <5>3 DEF DueOK
        <5>5. \A u \in Hilos : hilo'[u].step = "writing" /\ hilo'[u].visto.status \in Accepted => Charged'
          BY <1>1, <5>1, <5>2 DEF DueOK, Shows
        <5> QED BY <5>4, <5>5 DEF DueOK
      <4> QED BY <4>3, <4>4
    <3>6. CASE EffectsBegin(t)
      <4>1. papel' = papel /\ cuenta' = cuenta BY <3>6 DEF EffectsBegin, rows
      <4>2. CASE cuenta.aplicada BY <3>6, <4>1, <4>2, <2>q, OtherMoves
      <4>3. CASE ~cuenta.aplicada
        <5>1. Shows(t, hilo[t].task, "charging", hilo[t].doc, hilo[t].visto)
          BY <3>6, <4>3, OtherMoves
        <5>2. Charged => Charged' BY <4>1, <5>1, <2>c
        <5> QED BY <4>1, <5>1, <5>2, <2>s
      <4> QED BY <4>2, <4>3
    <3>7. CASE EffectsCommit(t)
      <4>1. papel' = papel /\ cuenta'.aplicada = TRUE /\ Quiet(t)
        BY <3>7, QuietActions DEF EffectsCommit, rows
      <4> QED BY <4>1, <2>q
    <3>8. CASE ReconcilePending(t) \/ RetryDocument(t)
      <4>1. hilo[t] = Idle /\ Shows(t, "get", "applying", billing', Nuevo) BY <3>8, OtherMoves
      <4>2. papel' = papel /\ cuenta' = cuenta /\ hilo[t].step = "idle"
        BY <3>8, <4>1, NullRows DEF ReconcilePending, RetryDocument, debitVars, rows
      <4>3. Charged => Charged' BY <4>1, <4>2, <2>c
      <4> QED BY <4>1, <4>2, <4>3, <2>s
    <3>9. CASE RetryRead(t)
      <4>1. hilo[t] = Idle /\ Shows(t, "get", "requeue", Nada, Nuevo) BY <3>9, OtherMoves
      <4>2. papel' = papel /\ cuenta' = cuenta /\ hilo[t].step = "idle"
        BY <3>9, <4>1, NullRows DEF RetryRead, debitVars, rows
      <4>3. Charged => Charged' BY <4>1, <4>2, <2>c
      <4> QED BY <4>1, <4>2, <4>3, <2>s
    <3>10. ~StoreError(t) BY <1>1 DEF StoreError
    <3>11. QED
      BY <2>3, <3>1, <3>2, <3>3, <3>4, <3>5, <3>6, <3>7, <3>8, <3>9, <3>10 DEF DebitNext, DebitStep
  <2>4. ASSUME NEW s, BillingAdvances(s), UNCHANGED debitVars PROVE DueOK'
    BY <2>4, <1>1, <1>t DEF BillingAdvances, DueOK, Charged, rows, debitVars
  <2>5. ~Crash BY <1>1 DEF Crash, Falla
  <2> QED BY <1>1, <2>1, <2>2, <2>3, <2>4, <2>5 DEF Next
<1> QED BY <1>0, <1>1, <1>f

----------------------------------------
(* A guide.                                                                *)

Borradores == {"ausente", "borrador"}
Bajando == {"voiding", "asking", "asked", "confirming", "confirmed"}
Same(texto) == texto = papel.texto \/ "edita" \in viejas

\* A guide that is issued here is not voided, and whoever edits it read it as a draft.
NoVoidOK ==
  clase = "guia" =>
    /\ \A e \in avisos : e.baja = "NONE"
    /\ billing.baja = "NONE"
    /\ \A t \in Hilos : /\ hilo[t].doc.baja = "NONE"
                        /\ hilo[t].task \notin {"voidWebhook", "baja", "confirma"}
                        /\ hilo[t].step \notin Bajando
                        /\ hilo[t].step = "editing" => hilo[t].task = "edita" /\ hilo[t].visto.estado = "borrador"

\* Nothing was asked for a draft, and only its own handlers work on it.
DraftOK ==
  clase = "guia" /\ papel.estado \in Borradores =>
    /\ cola.status = "ABSENT" /\ billing = Nada /\ avisos = {} /\ ~papel.doc
    /\ \A t \in Hilos : hilo[t].step \in {"idle", "editing", "emitting", "annulling"}

\* What was read to be posted, and what was posted, is what the guide says.
SameOK ==
  clase = "guia" =>
    /\ \A t \in Hilos : hilo[t].step = "claimed" => Same(hilo[t].visto.texto)
    /\ billing # Nada => Same(billing.texto)

\* An execution goes on with a document that somebody had, and with what the paper says.
Proceeds(t, k, s, d, v) ==
  /\ Shows(t, k, s, d, v)
  /\ k \notin {"voidWebhook", "baja", "confirma"} /\ s \notin Bajando
  /\ s = "editing" => k = "edita" /\ v.estado = "borrador"
  /\ s = "claimed" => v.texto = papel.texto
  /\ d \in {billing', Nada, hilo[t].doc} \cup avisos

\* What a step may do with the executions on a guide.
LEMMA GuideShape ==
  ASSUME PapersTypeOK, NoVoidOK, Next, clase = "guia"
  PROVE  \/ hilo' = hilo
         \/ \A u \in Hilos : hilo'[u] = Idle
         \/ \E t \in Hilos : \E k, s, d, v : Proceeds(t, k, s, d, v)
<1> DEFINE P == \/ hilo' = hilo
                \/ \A u \in Hilos : hilo'[u] = Idle
                \/ \E t \in Hilos : \E k, s, d, v : Proceeds(t, k, s, d, v)
<1>n. \A t \in Hilos : /\ hilo[t].task \notin {"voidWebhook", "baja", "confirma"}
                       /\ hilo[t].step \notin Bajando
  BY DEF NoVoidOK
<1>q. ASSUME NEW t \in Hilos, Quiet(t) PROVE P
  <2>1. \E k, s, d, v : /\ Shows(t, k, s, d, v) /\ k \in {hilo[t].task, "none", "process"}
                        /\ s \in {"applied", "idle", "failing", "releasing"} /\ d \in {hilo[t].doc, Nada}
    BY <1>q DEF Quiet
  <2>2. PICK k, s, d, v : /\ Shows(t, k, s, d, v) /\ k \in {hilo[t].task, "none", "process"}
                          /\ s \in {"applied", "idle", "failing", "releasing"} /\ d \in {hilo[t].doc, Nada}
    BY <2>1
  <2>3. k \notin {"voidWebhook", "baja", "confirma"} /\ s \notin Bajando /\ s # "editing" /\ s # "claimed"
    BY <2>2, <1>n DEF Bajando
  <2>4. Proceeds(t, k, s, d, v) BY <2>2, <2>3 DEF Proceeds
  <2> QED BY <2>4
<1>s. ASSUME NEW t \in Hilos, NEW s, NEW d, NEW v, Shows(t, hilo[t].task, s, d, v),
             s \in {"applying", "registering", "submitting", "writing"}, d \in {billing', Nada, hilo[t].doc}
      PROVE  P
  <2>1. s \notin Bajando /\ s # "editing" /\ s # "claimed" BY <1>s DEF Bajando
  <2>2. Proceeds(t, hilo[t].task, s, d, v) BY <1>s, <1>n, <2>1 DEF Proceeds
  <2> QED BY <2>2
<1>1. ASSUME NEW t \in Hilos, Queue(t) PROVE P
  <2>1. CASE Claim(t)
    <3>1. PICK v : Shows(t, "process", "claimed", Nada, v) /\ v.texto = papel.texto
      BY <2>1, OtherMoves
    <3>2. Proceeds(t, "process", "claimed", Nada, v) BY <3>1 DEF Proceeds, Bajando
    <3> QED BY <3>2
  <2>2. CASE MarkDone(t) \/ HandleFailure(t) \/ WebhookRelease(t) BY <2>2, <1>q, QuietActions
  <2> QED BY <1>1, <2>1, <2>2 DEF Queue
<1>2. ASSUME NEW t \in Hilos, NEW e \in avisos, WebhookBegin(t, e) PROVE P
  <2>1. e.baja = "NONE" BY DEF NoVoidOK
  <2>2. Shows(t, "webhook", "applying", e, Nuevo) BY <1>2, <2>1, OtherMoves
  <2>3. Proceeds(t, "webhook", "applying", e, Nuevo) BY <2>2 DEF Proceeds, Bajando
  <2> QED BY <2>3
<1>3. ASSUME NEW t \in Hilos, GuideNext(t) PROVE P
  <2>1. CASE UpdateWrite(t) \/ Enqueue(t) \/ AnnulWrite(t) \/ CallFailed(t) \/ WriteGuide(t) \/ VoidWrite(t)
             \/ ConfirmWrite(t) \/ VoidWebhookWrite(t) \/ GuideError(t)
    BY <2>1, <1>q, QuietActions
  <2>2. CASE PostGuide(t) \/ Submit(t)
    <3>1. Quiet(t) \/ \E s : Shows(t, hilo[t].task, s, billing', Nuevo) /\ s \in {"registering", "writing"}
      BY <2>2, OtherMoves
    <3> QED BY <3>1, <1>q, <1>s
  <2>3. CASE GetGuide(t) \/ WriteRegistered(t)
    <3>1. \E d \in {hilo[t].doc, Nada} : Shows(t, hilo[t].task, "submitting", d, Nuevo)
      BY <2>3, OtherMoves
    <3> QED BY <3>1, <1>s
  <2>4. CASE ApplyWebhook(t)
    <3>1. Quiet(t) \/ Shows(t, hilo[t].task, "writing", hilo[t].doc, hilo[t].visto)
      BY <2>4, OtherMoves
    <3> QED BY <3>1, <1>q, <1>s
  <2>5. CASE Refresh(t) \/ ReconcileGuide(t)
    <3>1. Shows(t, "get", "writing", billing', Nuevo) BY <2>5, OtherMoves
    <3>2. Proceeds(t, "get", "writing", billing', Nuevo) BY <3>1 DEF Proceeds, Bajando
    <3> QED BY <3>2
  <2>6. CASE Annul(t) \/ Emit(t)
    <3>1. PICK k, s, v : Shows(t, k, s, Nada, v) /\ k \in {"anula", "emite"} /\ s \in {"annulling", "emitting"}
      BY <2>6, HandlersMove
    <3>2. Proceeds(t, k, s, Nada, v) BY <3>1 DEF Proceeds, Bajando
    <3> QED BY <3>2
  <2>7. CASE UpdateRead(t)
    <3>1. PICK v : Shows(t, "edita", "editing", Nada, v) /\ v.estado = "borrador"
      BY <2>7, HandlersMove
    <3>2. Proceeds(t, "edita", "editing", Nada, v) BY <3>1 DEF Proceeds, Bajando
    <3> QED BY <3>2
  <2>8. ~(VoidAsked(t) \/ ConfirmAsked(t) \/ VoidWebhookRead(t))
    BY <1>n DEF VoidAsked, ConfirmAsked, VoidWebhookRead, At, Bajando
  <2> QED BY <1>3, <2>1, <2>2, <2>3, <2>4, <2>5, <2>6, <2>7, <2>8 DEF GuideNext, GuideStep
<1>4. CASE Create BY <1>4 DEF Create
<1>5. CASE Crash BY <1>5 DEF Crash
<1>6. ASSUME NEW s, BillingAdvances(s) PROVE P BY <1>6 DEF BillingAdvances
<1> QED BY <1>1, <1>2, <1>3, <1>4, <1>5, <1>6 DEF Next

\* What a step may do with the document of a guide: nothing, move it on, or create it with
\* what the execution that had the row in hand read.
LEMMA GuideBilling ==
  ASSUME PapersTypeOK, NoVoidOK, Next, clase = "guia"
  PROVE  \/ billing' = billing
         \/ billing # Nada /\ billing'.texto = billing.texto /\ billing'.baja = billing.baja
         \/ /\ billing'.baja = "NONE" /\ papel' = papel
            /\ \E t \in Hilos : hilo[t].step = "claimed" /\ billing'.texto = hilo[t].visto.texto
<1> DEFINE P == \/ billing' = billing
                \/ billing # Nada /\ billing'.texto = billing.texto /\ billing'.baja = billing.baja
                \/ /\ billing'.baja = "NONE" /\ papel' = papel
                   /\ \E t \in Hilos : hilo[t].step = "claimed" /\ billing'.texto = hilo[t].visto.texto
<1>t. billing \in Documentos /\ Nada \in Documentos /\ Nada.baja = "NONE" /\ Nada.status = "NONE"
  BY NullRows DEF PapersTypeOK, OutboxTypeOK
<1>1. ASSUME NEW t \in Hilos, PostGuide(t) PROVE P
  <2>1. CASE billing # Nada BY <1>1, <2>1 DEF PostGuide, Registers
  <2>2. CASE billing = Nada
    <3>1. PICK b, x : b \in Documentos /\ b = Nada /\ b.baja = "NONE" /\ x = hilo[t].visto.texto
      BY <1>t
    <3>2. billing' = [b EXCEPT !.status = "REGISTERED", !.texto = x] /\ hilo[t].step = "claimed" /\ papel' = papel
      BY <1>1, <2>2, <3>1 DEF PostGuide, Registers, At, rows
    <3>3. billing'.baja = "NONE" /\ billing'.texto = x BY <3>1, <3>2 DEF Documentos
    <3> QED BY <3>1, <3>2, <3>3
  <2> QED BY <2>1, <2>2
<1>2. ASSUME NEW t \in Hilos, Submit(t) PROVE P
  <2>1. CASE billing.status # "REGISTERED" BY <1>2, <2>1 DEF Submit
  <2>2. CASE billing.status = "REGISTERED" BY <1>2, <2>2, <1>t DEF Submit, Documentos
  <2> QED BY <2>1, <2>2
<1>3. ASSUME NEW s, BillingAdvances(s) PROVE P
  <2>1. billing.status # "NONE" BY <1>3 DEF BillingAdvances, Polled
  <2>2. billing' = [billing EXCEPT !.status = s, !.at = Now] BY <1>3 DEF BillingAdvances
  <2>3. billing'.texto = billing.texto /\ billing'.baja = billing.baja BY <2>2, <1>t DEF Documentos
  <2> QED BY <2>1, <2>3, <1>t
<1>4. ASSUME NEW t \in Hilos, Queue(t) PROVE P
  BY <1>4 DEF Queue, Claim, MarkDone, HandleFailure, WebhookRelease, outside
<1>5. ASSUME NEW t \in Hilos, NEW e \in avisos, WebhookBegin(t, e) PROVE P BY <1>5 DEF WebhookBegin
<1>6. ASSUME NEW t \in Hilos, GuideNext(t) PROVE P
  <2>1. CASE GetGuide(t) \/ CallFailed(t) \/ WriteRegistered(t) \/ WriteGuide(t) \/ ApplyWebhook(t) \/ VoidWebhookRead(t)
    BY <2>1 DEF GetGuide, CallFailed, WriteRegistered, WriteGuide, ApplyGuide, ApplyWebhook, VoidWebhookRead, outside
  <2>2. CASE UpdateWrite(t) \/ AnnulWrite(t) \/ VoidWrite(t) \/ ConfirmWrite(t) \/ VoidWebhookWrite(t)
    BY <2>2 DEF UpdateWrite, AnnulWrite, VoidWrite, ConfirmWrite, VoidWebhookWrite, outside
  <2>3. CASE GuideError(t) \/ Enqueue(t) BY <2>3 DEF GuideError, Enqueue
  <2>4. CASE Annul(t) \/ Refresh(t) \/ UpdateRead(t) \/ Emit(t) \/ ReconcileGuide(t) \/ Void(t) \/ ConfirmVoid(t)
    BY <2>4 DEF Annul, Refresh, UpdateRead, Emit, ReconcileGuide, Void, ConfirmVoid, Reads, outside
  <2>5. ~(VoidAsked(t) \/ ConfirmAsked(t)) BY DEF VoidAsked, ConfirmAsked, At, NoVoidOK, Bajando
  <2> QED BY <1>6, <1>1, <1>2, <2>1, <2>2, <2>3, <2>4, <2>5 DEF GuideNext, GuideStep
<1>7. CASE Create \/ Crash BY <1>7 DEF Create, Crash, outside
<1> QED BY <1>1, <1>2, <1>3, <1>4, <1>5, <1>6, <1>7 DEF Next

\* A guide issued here stays one that is not voided: after any step.
LEMMA NoVoidStep ==
  ASSUME PapersTypeOK, NoVoidOK, Next
  PROVE  NoVoidOK'
<1>c. clase' = clase BY ClaseStays
<1>0. CASE clase # "guia" BY <1>0, <1>c DEF NoVoidOK
<1>1. CASE clase = "guia"
  <2>n. Nada.baja = "NONE" /\ Idle.doc = Nada /\ Idle.task = "none" /\ Idle.step = "idle"
    BY NullRows
  <2>b. billing'.baja = "NONE" BY <1>1, GuideBilling DEF NoVoidOK
  <2>e. \A e \in avisos' : e.baja = "NONE" BY <1>1, <2>b, BillingMoves DEF NoVoidOK
  <2>h. \A u \in Hilos : /\ hilo'[u].doc.baja = "NONE"
                         /\ hilo'[u].task \notin {"voidWebhook", "baja", "confirma"}
                         /\ hilo'[u].step \notin Bajando
                         /\ hilo'[u].step = "editing" => hilo'[u].task = "edita" /\ hilo'[u].visto.estado = "borrador"
    <3>1. CASE hilo' = hilo BY <1>1, <3>1 DEF NoVoidOK
    <3>2. CASE \A u \in Hilos : hilo'[u] = Idle BY <3>2, <2>n DEF Bajando
    <3>3. ASSUME NEW t \in Hilos, NEW k, NEW s, NEW d, NEW v, Proceeds(t, k, s, d, v), NEW u \in Hilos
          PROVE  /\ hilo'[u].doc.baja = "NONE"
                 /\ hilo'[u].task \notin {"voidWebhook", "baja", "confirma"}
                 /\ hilo'[u].step \notin Bajando
                 /\ hilo'[u].step = "editing" => hilo'[u].task = "edita" /\ hilo'[u].visto.estado = "borrador"
      <4>1. CASE u # t BY <1>1, <3>3, <4>1 DEF NoVoidOK, Proceeds, Shows
      <4>2. CASE u = t
        <5>1. d.baja = "NONE" BY <1>1, <2>n, <2>b, <3>3 DEF NoVoidOK, Proceeds
        <5> QED BY <3>3, <4>2, <5>1 DEF Proceeds, Shows
      <4> QED BY <4>1, <4>2
    <3> QED BY <1>1, <3>1, <3>2, <3>3, GuideShape
  <2> QED BY <2>b, <2>e, <2>h DEF NoVoidOK
<1> QED BY <1>0, <1>1

\* Only the handlers of the draft work on a draft: after any step.
LEMMA DraftStep ==
  ASSUME PapersTypeOK, NoVoidOK, DraftOK, Next
  PROVE  DraftOK'
<1>c. clase' = clase BY ClaseStays
<1>0. CASE clase # "guia" BY <1>0, <1>c DEF DraftOK
<1>v. clase = "guia" => \A t \in Hilos : hilo[t].step \notin Bajando BY DEF NoVoidOK
<1>1. CASE clase = "guia" /\ papel.estado \notin Borradores
  <2>s. ASSUME NEW d, NEW s, NEW x, NEW e, Paper(d, s, x, e), e \notin Borradores PROVE papel'.estado \notin Borradores
    BY <2>s DEF Paper
  <2>p. ASSUME NEW d, NEW s, NEW x, Paper(d, s, x, papel.estado) PROVE papel'.estado \notin Borradores
    BY <2>p, <1>1 DEF Paper
  <2>e. {"emitida", "aceptada", "rechazada", "anulada"} \cap Borradores = {} /\ "ausente" \in Borradores
    BY DEF Borradores
  <2>1. ASSUME NEW t \in Hilos, Queue(t) PROVE papel'.estado \notin Borradores
    <3>1. CASE Claim(t) \/ MarkDone(t) \/ WebhookRelease(t)
      BY <3>1, <1>1 DEF Claim, MarkDone, WebhookRelease, rows
    <3>2. CASE HandleFailure(t) BY <3>2, <2>p, PaperMoves
    <3> QED BY <2>1, <3>1, <3>2 DEF Queue
  <2>2. ASSUME NEW t \in Hilos, NEW e \in avisos, WebhookBegin(t, e) PROVE papel'.estado \notin Borradores
    BY <2>2, <1>1 DEF WebhookBegin, rows
  <2>3. ASSUME NEW t \in Hilos, GuideNext(t) PROVE papel'.estado \notin Borradores
    <3>1. CASE PostGuide(t) \/ GetGuide(t) \/ Submit(t) \/ CallFailed(t) \/ ApplyWebhook(t) \/ GuideError(t)
      BY <3>1, <1>1 DEF PostGuide, GetGuide, Submit, CallFailed, ApplyWebhook, GuideError, rows
    <3>2. CASE Annul(t) \/ Refresh(t) \/ UpdateRead(t) \/ Emit(t) \/ ReconcileGuide(t) \/ Void(t) \/ ConfirmVoid(t)
      BY <3>2, <1>1 DEF Annul, Refresh, UpdateRead, Emit, ReconcileGuide, Void, ConfirmVoid, Reads, rows
    <3>3. CASE UpdateWrite(t) BY <3>3, <2>p, PaperMoves
    <3>4. CASE Enqueue(t) \/ AnnulWrite(t) BY <3>4, <2>s, <2>e, PaperMoves
    <3>5. CASE WriteRegistered(t) \/ WriteGuide(t)
      <4>1. mapEstado(hilo[t].doc.status) \notin Borradores BY <2>e DEF mapEstado
      <4> QED BY <3>5, <4>1, <2>s, PaperMoves
    <3>6. ~(VoidAsked(t) \/ ConfirmAsked(t) \/ VoidWebhookRead(t) \/ VoidWrite(t) \/ ConfirmWrite(t) \/ VoidWebhookWrite(t))
      BY <1>1, <1>v DEF VoidAsked, ConfirmAsked, VoidWrite, ConfirmWrite, VoidWebhookWrite, VoidWebhookRead, At, NoVoidOK,
         Bajando
    <3> QED BY <2>3, <3>1, <3>2, <3>3, <3>4, <3>5, <3>6 DEF GuideNext, GuideStep
  <2>4. ASSUME NEW s, BillingAdvances(s) PROVE papel'.estado \notin Borradores
    BY <2>4, <1>1 DEF BillingAdvances, rows
  <2>5. ASSUME Crash PROVE papel'.estado \notin Borradores BY <2>5, <1>1 DEF Crash, rows
  <2>6. ~Create BY <1>1, <2>e DEF Create
  <2>7. papel'.estado \notin Borradores BY <1>1, <2>1, <2>2, <2>3, <2>4, <2>5, <2>6 DEF Next
  <2> QED BY <2>7 DEF DraftOK
<1>2. CASE clase = "guia" /\ papel.estado \in Borradores
  <2>d. /\ cola.status = "ABSENT" /\ billing = Nada /\ avisos = {} /\ ~papel.doc
        /\ \A t \in Hilos : hilo[t].step \in {"idle", "editing", "emitting", "annulling"}
    BY <1>2 DEF DraftOK
  <2>n. Nada.status = "NONE" /\ Idle.step = "idle" BY NullRows
  <2>s. ASSUME NEW t \in Hilos, \E k, s, d, v : Shows(t, k, s, d, v) /\ s \in {"idle", "editing", "emitting", "annulling"},
               UNCHANGED <<cola, billing, avisos>>, ~papel'.doc
        PROVE  DraftOK'
    BY <2>d, <2>s DEF DraftOK, Shows
  <2>1. ASSUME NEW t \in Hilos PROVE ~Queue(t) /\ \A e \in avisos : ~WebhookBegin(t, e)
    BY <2>d DEF Queue, Claim, MarkDone, HandleFailure, WebhookRelease, At
  <2>3. ASSUME NEW t \in Hilos, GuideNext(t) PROVE DraftOK'
    <3>1. CASE UpdateWrite(t)
      <4>1. Shows(t, "none", "idle", Nada, Nuevo) BY <3>1, ReturnShown DEF UpdateWrite, Writes
      <4>2. papel'.doc = papel.doc BY <3>1, PaperMoves DEF Paper
      <4>3. UNCHANGED <<cola, billing, avisos>> BY <3>1 DEF UpdateWrite, outside
      <4> QED BY <4>1, <4>2, <4>3, <2>d, <2>s
    <3>2. CASE Enqueue(t) \/ AnnulWrite(t)
      <4>1. papel'.estado \in {"emitida", "anulada"} BY <3>2, PaperMoves DEF Paper
      <4> QED BY <4>1 DEF DraftOK, Borradores
    <3>3. CASE Annul(t) \/ UpdateRead(t) \/ Emit(t)
      <4>1. \E k, s, v : Shows(t, k, s, Nada, v) /\ s \in {"editing", "emitting", "annulling"}
        BY <3>3, HandlersMove
      <4>2. UNCHANGED <<cola, billing, avisos, papel>>
        BY <3>3 DEF Annul, UpdateRead, Emit, Reads, rows, outside
      <4> QED BY <4>1, <4>2, <2>d, <2>s
    <3>4. ~(PostGuide(t) \/ GetGuide(t) \/ Submit(t) \/ CallFailed(t) \/ WriteRegistered(t) \/ WriteGuide(t)
            \/ ApplyWebhook(t) \/ VoidAsked(t) \/ VoidWrite(t) \/ ConfirmAsked(t) \/ ConfirmWrite(t)
            \/ VoidWebhookRead(t) \/ VoidWebhookWrite(t) \/ GuideError(t))
      BY <2>d DEF PostGuide, GetGuide, Submit, CallFailed, WriteRegistered, WriteGuide, ApplyGuide, ApplyWebhook,
         VoidAsked, VoidWrite, ConfirmAsked, ConfirmWrite, VoidWebhookRead, VoidWebhookWrite, GuideError, At
    <3>5. ~(Refresh(t) \/ ReconcileGuide(t)) BY <2>d DEF Refresh, ReconcileGuide
    <3> QED BY <1>2, <2>3, <3>1, <3>2, <3>3, <3>4, <3>5 DEF GuideNext, GuideStep
  <2>4. ~\E s : BillingAdvances(s) BY <2>d, <2>n DEF BillingAdvances, Polled
  <2>5. CASE Crash BY <2>5, <2>d, <2>n DEF Crash, DraftOK, rows
  <2>6. CASE Create
    <3>1. papel' = [papel EXCEPT !.estado = "borrador"] /\ papel \in PapelRows
      BY <2>6 DEF Create, PapersTypeOK, OutboxTypeOK
    <3>2. papel'.doc = papel.doc BY <3>1 DEF PapelRows
    <3>3. UNCHANGED <<cola, hilo, billing, avisos>> BY <2>6 DEF Create, outside
    <3> QED BY <3>2, <3>3, <2>d DEF DraftOK
  <2> QED BY <1>2, <2>1, <2>3, <2>4, <2>5, <2>6 DEF Next
<1> QED BY <1>0, <1>1, <1>2

\* What is posted is what the guide says, or it was edited by what was no longer so.
LEMMA SameStep ==
  ASSUME PapersTypeOK, NoVoidOK, DraftOK, SameOK, Next
  PROVE  SameOK'
<1>c. clase' = clase BY ClaseStays
<1>0. CASE clase # "guia" BY <1>0, <1>c DEF SameOK
<1>1. CASE clase = "guia"
  <2>i. Idle.step = "idle" BY NullRows
  <2>h. ASSUME NEW u \in Hilos, hilo'[u].step = "claimed"
        PROVE  hilo'[u].visto.texto = papel.texto \/ (hilo[u].step = "claimed" /\ hilo'[u] = hilo[u])
    <3>1. ASSUME NEW t \in Hilos, NEW k, NEW s, NEW d, NEW v, Proceeds(t, k, s, d, v)
          PROVE  hilo'[u].visto.texto = papel.texto \/ (hilo[u].step = "claimed" /\ hilo'[u] = hilo[u])
      BY <2>h, <3>1 DEF Proceeds, Shows
    <3> QED BY <1>1, <2>h, <2>i, <3>1, GuideShape
  <2>b. \/ billing' = billing
        \/ billing # Nada /\ billing'.texto = billing.texto
        \/ papel' = papel /\ \E t \in Hilos : hilo[t].step = "claimed" /\ billing'.texto = hilo[t].visto.texto
    BY <1>1, GuideBilling
  <2>1. ASSUME papel'.texto = papel.texto, viejas \subseteq viejas' PROVE SameOK'
    <3>1. \A x : Same(x) => Same(x)' BY <2>1 DEF Same
    <3>2. Same(papel.texto) BY DEF Same
    <3>3. \A t \in Hilos : hilo[t].step = "claimed" => Same(hilo[t].visto.texto) BY <1>1 DEF SameOK
    <3>4. ASSUME NEW u \in Hilos, hilo'[u].step = "claimed" PROVE Same(hilo'[u].visto.texto)
      BY <2>h, <3>2, <3>3, <3>4
    <3>5. billing' # Nada => Same(billing'.texto) BY <1>1, <2>b, <3>3 DEF SameOK
    <3> QED BY <2>1, <3>4, <3>5 DEF SameOK, Same
  <2>2. ASSUME NEW t \in Hilos, UpdateWrite(t) PROVE SameOK'
    <3>1. hilo[t].step = "editing" /\ billing' = billing
          /\ viejas' = IF hilo[t].visto.estado = "borrador" /\ papel.estado # "borrador"
                         THEN viejas \cup {hilo[t].task} ELSE viejas
      BY <2>2 DEF UpdateWrite, At, Writes, outside
    <3>2. hilo[t].task = "edita" /\ hilo[t].visto.estado = "borrador" BY <1>1, <3>1 DEF NoVoidOK
    <3>3. CASE papel.estado = "borrador"
      <4>1. billing = Nada /\ \A u \in Hilos : hilo[u].step # "claimed"
        BY <1>1, <3>3 DEF DraftOK, Borradores
      <4>2. Shows(t, "none", "idle", Nada, Nuevo) BY <2>2, ReturnShown DEF UpdateWrite, Writes
      <4>3. \A u \in Hilos : hilo'[u].step # "claimed" BY <4>1, <4>2 DEF Shows
      <4> QED BY <3>1, <4>1, <4>3 DEF SameOK
    <3>4. CASE papel.estado # "borrador"
      <4>1. "edita" \in viejas' BY <3>1, <3>2, <3>4
      <4> QED BY <4>1 DEF SameOK, Same
    <3> QED BY <3>3, <3>4
  <2>3. ASSUME NEW t \in Hilos, Queue(t), UNCHANGED guideVars PROVE papel'.texto = papel.texto /\ viejas \subseteq viejas'
    <3>1. CASE HandleFailure(t) BY <2>3, <3>1, PaperMoves DEF Paper, guideVars
    <3>2. CASE Claim(t) \/ MarkDone(t) \/ WebhookRelease(t)
      BY <2>3, <3>2 DEF Claim, MarkDone, WebhookRelease, rows, guideVars
    <3> QED BY <2>3, <3>1, <3>2 DEF Queue
  <2>4. ASSUME NEW t \in Hilos, GuideNext(t), ~UpdateWrite(t) PROVE papel'.texto = papel.texto /\ viejas \subseteq viejas'
    <3>1. CASE PostGuide(t) \/ GetGuide(t) \/ Submit(t) \/ CallFailed(t) \/ ApplyWebhook(t) \/ GuideError(t)
               \/ VoidAsked(t) \/ ConfirmAsked(t) \/ VoidWebhookRead(t)
      BY <3>1 DEF PostGuide, GetGuide, Submit, CallFailed, ApplyWebhook, GuideError, VoidAsked, ConfirmAsked,
         VoidWebhookRead, rows, guideVars
    <3>2. CASE Annul(t) \/ Refresh(t) \/ UpdateRead(t) \/ Emit(t) \/ ReconcileGuide(t) \/ Void(t) \/ ConfirmVoid(t)
      BY <3>2 DEF Annul, Refresh, UpdateRead, Emit, ReconcileGuide, Void, ConfirmVoid, Reads, rows, guideVars
    <3>3. CASE Enqueue(t) \/ AnnulWrite(t) \/ VoidWrite(t) \/ ConfirmWrite(t) \/ VoidWebhookWrite(t)
      <4>1. papel'.texto = papel.texto BY <3>3, PaperMoves DEF Paper
      <4>2. viejas \subseteq viejas'
        BY <3>3 DEF Enqueue, AnnulWrite, VoidWrite, ConfirmWrite, VoidWebhookWrite, Writes
      <4> QED BY <4>1, <4>2
    <3>4. CASE WriteRegistered(t) \/ WriteGuide(t)
      <4>1. papel'.texto = papel.texto BY <3>4, PaperMoves DEF Paper
      <4>2. viejas' = viejas BY <3>4 DEF WriteRegistered, WriteGuide, ApplyGuide, guideVars
      <4> QED BY <4>1, <4>2
    <3> QED BY <2>4, <3>1, <3>2, <3>3, <3>4 DEF GuideNext, GuideStep
  <2>5. ASSUME NEW t \in Hilos, NEW e \in avisos, WebhookBegin(t, e), UNCHANGED guideVars
        PROVE  papel'.texto = papel.texto /\ viejas \subseteq viejas'
    BY <2>5 DEF WebhookBegin, rows, guideVars
  <2>6. ASSUME NEW s, BillingAdvances(s), UNCHANGED guideVars PROVE papel'.texto = papel.texto /\ viejas \subseteq viejas'
    BY <2>6 DEF BillingAdvances, rows, guideVars
  <2>7. CASE Crash BY <2>7, <2>1 DEF Crash, rows, guideVars
  <2>8. CASE Create
    <3>1. papel' = [papel EXCEPT !.estado = "borrador"] /\ papel \in PapelRows /\ viejas' = viejas
      BY <2>8 DEF Create, PapersTypeOK, OutboxTypeOK, guideVars
    <3>2. papel'.texto = papel.texto BY <3>1 DEF PapelRows
    <3> QED BY <3>1, <3>2, <2>1
  <2> QED BY <1>1, <2>1, <2>2, <2>3, <2>4, <2>5, <2>6, <2>7, <2>8 DEF Next
<1> QED BY <1>0, <1>1

----------------------------------------
(* The invariant.                                                          *)

PapersIInv ==
  /\ PapersTypeOK
  /\ AcceptedOK /\ ChargeOK /\ DueOK
  /\ NoVoidOK /\ DraftOK /\ SameOK

\* It holds at the start.
LEMMA PapersStart == Init => PapersIInv
<1> SUFFICES ASSUME Init PROVE PapersIInv OBVIOUS
<1>n. /\ Nada \in Documentos /\ Nuevo \in PapelRows /\ Idle \in HiloRows
      /\ Idle.task = "none" /\ Idle.step = "idle" /\ Idle.doc = Nada /\ Idle.visto = Nuevo
      /\ Nada.status = "NONE" /\ Nada.baja = "NONE"
  BY NullRows
<1>c. clase \in Clases /\ clase \in {"debito", "guia", "baja"} BY OutboxAssumption DEF Init
<1>a. "ACCEPTED_WITH_OBSERVATIONS" \in Accepted /\ Accepted \subseteq Estados /\ {"QUEUED", "NONE"} \subseteq Estados
      /\ {"QUEUED", "NONE"} \cap Accepted = {}
  BY DEF Accepted, Estados, Polled, Verdicts
<1>d. PICK i : i \in Documentos /\ i = Nada BY <1>n
<1>e. Aceptada \in Documentos /\ Aceptada.status = "ACCEPTED_WITH_OBSERVATIONS"
  <2>1. Aceptada = [i EXCEPT !.status = "ACCEPTED_WITH_OBSERVATIONS"] BY <1>d DEF Aceptada
  <2> QED BY <2>1, <1>d, <1>a DEF Documentos
<1>p. PICK s \in Estados, o \in {"PENDING", "ABSENT", "DONE"}, e \in {"aceptada", "ausente"}, b \in BOOLEAN :
        /\ papel = [doc |-> b, at |-> 0, texto |-> 0, baja |-> "NONE", status |-> s, estado |-> e]
        /\ cola = [status |-> o, attempts |-> 0]
        /\ clase = "debito" => s = "QUEUED"
        /\ clase = "guia" => s = "NONE" /\ o = "ABSENT" /\ ~b
  <2>1. CASE clase = "debito" BY <2>1, <1>a DEF Init
  <2>2. CASE clase = "guia" BY <2>2, <1>a DEF Init
  <2>3. CASE clase = "baja" BY <2>3, <1>a, <1>e DEF Init
  <2> QED BY <1>c, <2>1, <2>2, <2>3
<1>r. papel \in PapelRows /\ cola \in OutboxRows
  <2>1. 0 \in 0..MaxIntentos /\ "NONE" \in Bajas BY OutboxAssumption DEF Bajas
  <2>2. papel \in PapelRows BY <1>p, <2>1 DEF PapelRows
  <2>3. cola \in OutboxRows BY <1>p, <2>1 DEF OutboxRows
  <2> QED BY <2>2, <2>3
<1>o. /\ hilo = [t \in Hilos |-> Idle] /\ avisos = {} /\ reloj = 0 /\ fallas = 0
      /\ billing \in {Aceptada, Nada} /\ (clase # "baja" => billing = Nada)
      /\ cuenta = [hay |-> FALSE, cargos |-> 0, aplicada |-> FALSE] /\ candado = NoHilo
      /\ emisiones = 0 /\ viejas = {}
  BY DEF Init, OutboxInit, DebitInit
<1>1. PapersTypeOK
  BY <1>n, <1>c, <1>e, <1>r, <1>o DEF PapersTypeOK, OutboxTypeOK, DebitTypeOK, CuentaRows
<1>2. AcceptedOK BY <1>n, <1>o, <1>a DEF AcceptedOK
<1>3. ChargeOK BY <1>n, <1>o, OutboxAssumption DEF ChargeOK
<1>4. DueOK BY <1>n, <1>o, <1>a, <1>p DEF DueOK
<1>5. NoVoidOK BY <1>n, <1>o DEF NoVoidOK, Bajando
<1>6. DraftOK BY <1>n, <1>o, <1>p DEF DraftOK
<1>7. SameOK BY <1>n, <1>o DEF SameOK
<1> QED BY <1>1, <1>2, <1>3, <1>4, <1>5, <1>6, <1>7 DEF PapersIInv

\* It is kept.
LEMMA PapersKept == PapersIInv /\ [Next]_vars => PapersIInv'
<1>1. ASSUME PapersIInv, Next PROVE PapersIInv'
  BY <1>1, PapersTypeStep, AcceptedStep, ChargeStep, DueStep, NoVoidStep, DraftStep, SameStep DEF PapersIInv
<1>2. ASSUME PapersIInv, UNCHANGED vars PROVE PapersIInv'
  <2>1. UNCHANGED <<clase, papel, cola, hilo, billing, avisos, reloj, fallas, cuenta, candado, emisiones, viejas>>
    BY <1>2 DEF vars, rows, outside, debitVars, guideVars
  <2>2. PapersTypeOK' /\ AcceptedOK' /\ ChargeOK' /\ DueOK'
    BY <1>2, <2>1 DEF PapersIInv, PapersTypeOK, OutboxTypeOK, DebitTypeOK, AcceptedOK, ChargeOK, DueOK, Charged
  <2>3. NoVoidOK' /\ DraftOK' /\ SameOK'
    BY <1>2, <2>1 DEF PapersIInv, NoVoidOK, DraftOK, SameOK, Same
  <2> QED BY <2>2, <2>3 DEF PapersIInv
<1> QED BY <1>1, <1>2

\* It always holds.
LEMMA PapersInvariant == Spec => []PapersIInv
BY PapersStart, PapersKept, PTL DEF Spec

\* Every row of a debit note or a guide is of its type, and so is what every execution has read.
THEOREM PapersTypes == Spec => [](OutboxTypeOK /\ DebitTypeOK)
<1>1. PapersIInv => OutboxTypeOK /\ DebitTypeOK BY DEF PapersIInv, PapersTypeOK
<1> QED BY <1>1, PapersInvariant, PTL

\* The account of a sale is charged a debit note that SUNAT accepted, once, and an acceptance
\* that was written is charged unless something broke (BillingDebitNoteService).
THEOREM ChargesFollowAcceptances == Spec => []ChargedAsAccepted
<1>1. PapersIInv => ChargedAsAccepted
  <2>1. ASSUME PapersIInv PROVE ChargedOnce
    <3>1. cuenta.cargos = (IF cuenta.aplicada THEN 1 ELSE 0) /\ (cuenta.aplicada => billing.status \in Accepted)
      BY <2>1 DEF PapersIInv, ChargeOK
    <3> QED BY <3>1 DEF ChargedOnce
  <2>2. ASSUME PapersIInv PROVE AcceptedIsCharged
    <3>1. cuenta.aplicada => cuenta.cargos = 1 BY <2>2 DEF PapersIInv, ChargeOK
    <3> QED BY <2>2, <3>1 DEF PapersIInv, DueOK, Charged, AcceptedIsCharged
  <2> QED BY <2>1, <2>2 DEF ChargedAsAccepted
<1> QED BY <1>1, PapersInvariant, PTL

\* What Billing and SUNAT were sent is what the guide says, unless a request that read it as a
\* draft edited it after it was emitted (GuiaRemisionService.update).
THEOREM GuidesAreIssuedAsWritten == Spec => []IssuedAsWritten
<1>1. PapersIInv => IssuedAsWritten BY DEF PapersIInv, SameOK, Same, IssuedAsWritten
<1> QED BY <1>1, PapersInvariant, PTL
=============================================================================
