----------------------------- MODULE Routes_proofs -----------------------------
(***************************************************************************)
(* The two routes by which a document reaches SUNAT, for any documents,    *)
(* threads and runners, and any bounds on retries and deaths.              *)
(*                                                                         *)
(* The direct one, SunatDocuments.  What a document says is compared with  *)
(* what SUNAT decided, so the invariant follows the verdict on its way: a  *)
(* runner that was answered holds what SUNAT holds (AnswersOK), and SUNAT  *)
(* does not change its mind (SunatKeeps); hence Record writes nothing      *)
(* else.  The effects of a note are counted by its mark (EffectsOK),       *)
(* whoever carries them out.  That an acceptance stays needs more: until   *)
(* an operator asks again, a document has one runner at most, and none     *)
(* once it is accepted and closed (FirstOK).                               *)
(*                                                                         *)
(* Through Billing, BillingVoid.  Nobody believes in an acceptance that    *)
(* Billing does not hold (KnowledgeInv).  What a thread read of the sale   *)
(* is true when it writes, or it was overtaken (OverlapInv): the void is a *)
(* reversal but for what overtaken threads do.                             *)
(*                                                                         *)
(* What they decide is announced by Notifications.  A change is covered by *)
(* each of the two ticks that can see it (EachTickCovers): the tick was    *)
(* missed, or its pass is still bound to announce the row, or the notices  *)
(* are there; the pass of the hour and the scan of the stock leave out     *)
(* nothing that was there when they began (HourSees, ScanSees).            *)
(***************************************************************************)
EXTENDS SunatDocuments, BillingVoid, Notifications, TLAPS

SunatSteps == {"idle", "claimed", "marking", "sending", "sent", "querying", "answered", "failed",
          "effects", "processed", "settling", "closing"}
WorkRows == [ticket : BOOLEAN, cdr : Verdicts \cup {"ninguno"}]
SunatEstados == Verdicts \cup {"ninguno", "en_proceso"}

On(r, j) == Busy(r) /\ Mine(r) = j

\* What a runner was answered is what SUNAT holds.
RunnerOK(r) ==
  /\ Busy(r) => Mine(r) \in Jobs
  /\ RunnerAt(r, "answered") => work[r].cdr \in Verdicts /\ sunat[Mine(r)] = work[r].cdr
  /\ RunnerAt(r, "effects") => sunat[Mine(r)] \in Aceptados
AnswersOK ==
  /\ \A r \in Runners : RunnerOK(r)
  /\ \A j \in Jobs : ~Guide(j) => sunat[j] # "en_proceso"

----------------------------------------
(* Rows.                                                                   *)

\* Whatever state and attempts are written into the row of a job, it stays a row.
LEMMA JobRow ==
  ASSUME QueueTypeOK, NEW j \in Jobs, NEW e \in JobEstados, NEW i \in 0..IntentosCap
  PROVE  /\ [job EXCEPT ![j] = [estado |-> e, intentos |-> i]] \in [Jobs -> JobRows]
         /\ [job EXCEPT ![j].estado = e] \in [Jobs -> JobRows]
BY DEF QueueTypeOK, JobRows

\* A runner that changes its step, or ends, keeps a row of its type.
LEMMA RunnerSteps ==
  ASSUME QueueTypeOK, NEW r \in Runners, NEW s \in SunatSteps
  PROVE  /\ [runner EXCEPT ![r].step = s] \in [Runners -> RunnerRows]
         /\ [runner EXCEPT ![r] = IdleRunner] \in [Runners -> RunnerRows]
<1>1. [runner EXCEPT ![r].step = s] \in [Runners -> RunnerRows]
  BY DEF QueueTypeOK, RunnerRows, SunatSteps
<1>2. 0 \in 0..IntentosCap BY QueueAssumption
<1>3. IdleRunner \in RunnerRows BY <1>2 DEF RunnerRows, IdleRunner, Estados
<1> QED BY <1>1, <1>3 DEF QueueTypeOK

\* So does one that claims a job, or reads one again.
LEMMA RunnerRow ==
  ASSUME QueueTypeOK, NEW r \in Runners, NEW j \in Jobs, NEW e \in Estados, NEW i \in 0..IntentosCap
  PROVE  /\ [IdleRunner EXCEPT !.step = "claimed", !.job = j] \in RunnerRows
         /\ [runner[r] EXCEPT !.step = "settling", !.estado = e, !.intentos = i] \in RunnerRows
<1>1. 0 \in 0..IntentosCap BY QueueAssumption
<1>2. [IdleRunner EXCEPT !.step = "claimed", !.job = j] \in RunnerRows
  BY <1>1 DEF RunnerRows, IdleRunner, Estados
<1>3. [runner[r] EXCEPT !.step = "settling", !.estado = e, !.intentos = i] \in RunnerRows
  BY DEF QueueTypeOK, RunnerRows
<1> QED BY <1>2, <1>3

\* The writes over a document that do not depend on what it held.
LEMMA DocRow ==
  ASSUME SunatTypeOK, NEW j \in Jobs, NEW e \in Estados,
         NEW l \in {"borrador", "emitida", "aceptada", "rechazada", "anulada"}, NEW t \in BOOLEAN
  PROVE  /\ [doc EXCEPT ![j].estado = e] \in [Jobs -> Documents]
         /\ [doc EXCEPT ![j].local = l] \in [Jobs -> Documents]
         /\ [doc EXCEPT ![j].applied = TRUE] \in [Jobs -> Documents]
         /\ [doc EXCEPT ![j] = [@ EXCEPT !.local = l, !.estado = e, !.ticket = t]] \in [Jobs -> Documents]
         /\ [doc EXCEPT ![j] = [@ EXCEPT !.estado = e, !.local = l]] \in [Jobs -> Documents]
<1> USE DEF SunatTypeOK
<1>1. [doc EXCEPT ![j].estado = e] \in [Jobs -> Documents] BY ZenonT(40) DEF Documents
<1>2. [doc EXCEPT ![j].local = l] \in [Jobs -> Documents] BY DEF Documents
<1>3. [doc EXCEPT ![j].applied = TRUE] \in [Jobs -> Documents] BY ZenonT(40) DEF Documents
<1>4. doc[j] \in Documents OBVIOUS
<1>5. ASSUME NEW d \in Documents PROVE [d EXCEPT !.local = l, !.estado = e, !.ticket = t] \in Documents
  BY DEF Documents
<1>6. ASSUME NEW d \in Documents PROVE [d EXCEPT !.estado = e, !.local = l] \in Documents
  BY DEF Documents
<1>7. PICK x : x = [doc[j] EXCEPT !.local = l, !.estado = e, !.ticket = t] OBVIOUS
<1>8. PICK y : y = [doc[j] EXCEPT !.estado = e, !.local = l] OBVIOUS
<1>9. [doc EXCEPT ![j] = [@ EXCEPT !.local = l, !.estado = e, !.ticket = t]] = [doc EXCEPT ![j] = x]
  BY <1>7
<1>10. [doc EXCEPT ![j] = [@ EXCEPT !.estado = e, !.local = l]] = [doc EXCEPT ![j] = y] BY <1>8
<1>11. x \in Documents /\ y \in Documents BY <1>4, <1>5, <1>6, <1>7, <1>8
<1> QED BY <1>1, <1>2, <1>3, <1>9, <1>10, <1>11

\* The row Record writes over the document of j.
VerdictOn(j, v) ==
  [doc[j] EXCEPT !.estado = v,
                 !.local = IF ~Guide(j) THEN @ ELSE IF v = "rechazado" THEN "rechazada" ELSE "aceptada"]

\* It is a document in the state of the verdict, with its mark as it was.
LEMMA VerdictRow ==
  ASSUME SunatTypeOK, NEW j \in Jobs, NEW v \in Estados
  PROVE  VerdictOn(j, v) \in Documents /\ VerdictOn(j, v).estado = v /\ VerdictOn(j, v).applied = doc[j].applied
<1> DEFINE x == VerdictOn(j, v)
<1> USE DEF VerdictOn
<1>1. PICK d \in Documents : d = doc[j] BY DEF SunatTypeOK
<1>2. CASE Guide(j)
  <2>1. CASE v = "rechazado"
    <3>1. x = [d EXCEPT !.estado = v, !.local = "rechazada"] BY <1>1, <1>2, <2>1
    <3> QED BY <1>1, <3>1 DEF Documents
  <2>2. CASE v # "rechazado"
    <3>1. x = [d EXCEPT !.estado = v, !.local = "aceptada"] BY <1>1, <1>2, <2>2
    <3> QED BY <1>1, <3>1 DEF Documents
  <2> QED BY <2>1, <2>2
<1>3. CASE ~Guide(j)
  <2>1. x = [d EXCEPT !.estado = v, !.local = @] BY <1>1, <1>3
  <2> QED BY <1>1, <2>1 DEF Documents
<1> QED BY <1>2, <1>3

\* The row MarkError writes over the document of j.
ErrorOn(j, c) ==
  [doc[j] EXCEPT !.estado = IF c THEN "error_definitivo" ELSE "error_transitorio",
                 !.local  = IF Guide(j) THEN "emitida" ELSE @]

\* It is a document in error, with its mark as it was.
LEMMA ErrorRow ==
  ASSUME SunatTypeOK, NEW j \in Jobs, NEW c \in BOOLEAN
  PROVE  /\ ErrorOn(j, c) \in Documents /\ ErrorOn(j, c).applied = doc[j].applied
         /\ ErrorOn(j, c).estado \in {"error_definitivo", "error_transitorio"}
<1> DEFINE x == ErrorOn(j, c)
<1> USE DEF ErrorOn
<1>1. PICK d \in Documents : d = doc[j] BY DEF SunatTypeOK
<1>2. PICK e \in Estados : e = IF c THEN "error_definitivo" ELSE "error_transitorio" BY DEF Estados
<1>3. CASE Guide(j)
  <2>1. x = [d EXCEPT !.estado = e, !.local = "emitida"] BY <1>1, <1>2, <1>3
  <2> QED BY <1>1, <1>2, <2>1 DEF Documents
<1>4. CASE ~Guide(j)
  <2>1. x = [d EXCEPT !.estado = e, !.local = @] BY <1>1, <1>2, <1>4
  <2> QED BY <1>1, <1>2, <2>1 DEF Documents
<1> QED BY <1>3, <1>4

\* What a runner remembers of its document stays of its type.
LEMMA WorkRow ==
  ASSUME SunatTypeOK, NEW r \in Runners, NEW t \in BOOLEAN, NEW c \in Verdicts \cup {"ninguno"}
  PROVE  /\ [work EXCEPT ![r] = NoWork] \in [Runners -> WorkRows]
         /\ [work EXCEPT ![r] = [NoWork EXCEPT !.ticket = t]] \in [Runners -> WorkRows]
         /\ [work EXCEPT ![r].cdr = c] \in [Runners -> WorkRows]
BY DEF SunatTypeOK, WorkRows, NoWork

----------------------------------------
(* Types, and answers.                                                     *)

\* Every row is of its type after any step.
LEMMA SunatTypeStep ==
  ASSUME SunatTypeOK, AnswersOK, SunatNext
  PROVE  SunatTypeOK'
<1> USE DEF docVars
<1>t. /\ QueueTypeOK /\ job \in [Jobs -> JobRows] /\ runner \in [Runners -> RunnerRows]
      /\ kind \in [Jobs -> Kinds] /\ doc \in [Jobs -> Documents]
      /\ work \in [Runners -> WorkRows]
      /\ request \in [Jobs -> {"none", "emit", "enqueue", "annul"}]
      /\ requests \in 0..MaxRequests /\ requests \in Nat /\ MaxRequests \in Nat
      /\ sunat \in [Jobs -> SunatEstados]
      /\ effects \in [Jobs -> Nat] /\ deaths \in 0..MaxDeaths /\ deaths \in Nat /\ MaxDeaths \in Nat
  BY DocumentsAssumption DEF SunatTypeOK, QueueTypeOK, WorkRows, SunatEstados
<1>m. \A r \in Runners : Busy(r) => Mine(r) \in Jobs BY DEF AnswersOK, RunnerOK
<1>q. ASSUME job' \in [Jobs -> JobRows], runner' \in [Runners -> RunnerRows], doc' \in [Jobs -> Documents],
             work' \in [Runners -> WorkRows], request' \in [Jobs -> {"none", "emit", "enqueue", "annul"}],
             requests' \in 0..MaxRequests, sunat' \in [Jobs -> SunatEstados], effects' \in [Jobs -> Nat],
             deaths' \in 0..MaxDeaths, UNCHANGED kind
      PROVE  SunatTypeOK'
  BY <1>q, <1>t DEF SunatTypeOK, QueueTypeOK, WorkRows, SunatEstados
<1>z. 0 \in 0..IntentosCap BY QueueAssumption
<1>u. ASSUME NEW j \in Jobs, Upsert(j) PROVE job' \in [Jobs -> JobRows]
  BY <1>u, <1>t, <1>z, JobRow DEF Upsert, Pending, JobEstados
<1>s. ASSUME NEW r \in Runners, NEW s \in SunatSteps, StepTo(r, s) PROVE runner' \in [Runners -> RunnerRows]
  BY <1>s, <1>t, RunnerSteps DEF StepTo
<1>e. ASSUME NEW j \in Jobs, NEW e \in Estados, SetEstado(j, e) PROVE doc' \in [Jobs -> Documents]
  BY <1>e, DocRow DEF SetEstado
<1>n. requests < MaxRequests => requests + 1 \in 0..MaxRequests BY <1>t
<1>1. ASSUME NEW j \in Jobs, Create(j) PROVE SunatTypeOK' BY <1>1, <1>t, <1>q, <1>u DEF Create
<1>2. ASSUME NEW j \in Jobs, Retry(j) PROVE SunatTypeOK'
  <2>1. doc' \in [Jobs -> Documents] /\ job' \in [Jobs -> JobRows]
    BY <1>2, <1>e, <1>u DEF Retry, Estados
  <2> QED BY <1>2, <1>t, <1>q, <1>n, <2>1 DEF Retry
<1>3. ASSUME NEW j \in Jobs, EmitRead(j) \/ ConsultGuide(j) \/ AnnulRead(j) PROVE SunatTypeOK'
  <2>1. requests' \in 0..MaxRequests BY <1>3, <1>n, <1>t DEF EmitRead, ConsultGuide, AnnulRead
  <2> QED BY <1>3, <1>t, <1>q, <2>1 DEF EmitRead, ConsultGuide, AnnulRead
<1>4. ASSUME NEW j \in Jobs, EmitWrite(j) \/ AnnulWrite(j) PROVE SunatTypeOK'
  <2>1. ASSUME EmitWrite(j) PROVE doc' \in [Jobs -> Documents]
    <3>1. "pendiente_envio" \in Estados /\ FALSE \in BOOLEAN BY DEF Estados
    <3>2. [doc EXCEPT ![j] = [@ EXCEPT !.local = "emitida", !.estado = "pendiente_envio", !.ticket = FALSE]]
            \in [Jobs -> Documents]
      BY <3>1, DocRow
    <3> QED BY <2>1, <3>2 DEF EmitWrite
  <2>2. ASSUME AnnulWrite(j) PROVE doc' \in [Jobs -> Documents]
    BY <2>2, <1>t DEF AnnulWrite, Documents
  <2> QED BY <1>4, <1>t, <1>q, <2>1, <2>2 DEF EmitWrite, AnnulWrite
<1>5. ASSUME NEW j \in Jobs, Enqueue(j) PROVE SunatTypeOK' BY <1>5, <1>t, <1>q, <1>u DEF Enqueue
<1>6. ASSUME NEW r \in Runners, NEW j \in Jobs, Take(r, j) PROVE SunatTypeOK'
  <2>1. PICK n \in 0..IntentosCap : n = job[j].intentos + 1
    BY <1>6, <1>t, QueueAssumption DEF Take, ClaimJob, JobRows
  <2>2. job' = [job EXCEPT ![j] = [estado |-> "procesando", intentos |-> n]]
    BY <1>6, <2>1, <1>t DEF Take, ClaimJob
  <2>3. job' \in [Jobs -> JobRows] BY <1>t, <2>2, JobRow DEF JobEstados
  <2>4. PICK x : x = [IdleRunner EXCEPT !.step = "claimed", !.job = j] OBVIOUS
  <2>5. x \in RunnerRows BY <1>t, <1>z, <2>4, RunnerRow DEF Estados
  <2>6. runner' = [runner EXCEPT ![r] = x] BY <1>6, <2>4 DEF Take, ClaimJob
  <2>7. runner' \in [Runners -> RunnerRows] BY <1>t, <2>5, <2>6
  <2> QED BY <1>6, <1>t, <1>q, <2>3, <2>7 DEF Take
<1>7. ASSUME NEW r \in Runners, Begin(r) PROVE SunatTypeOK'
  <2>1. Mine(r) \in Jobs BY <1>7, <1>m DEF Begin, RunnerAt, Busy
  <2>2. PICK asks \in BOOLEAN :
          /\ SetEstado(Mine(r), IF asks THEN "pendiente_cdr" ELSE "enviando")
          /\ work' = [work EXCEPT ![r] = [NoWork EXCEPT !.ticket = asks]]
          /\ StepTo(r, IF asks THEN "querying" ELSE "sending")
    BY <1>7, <1>t, <2>1 DEF Begin, Documents
  <2>3. doc' \in [Jobs -> Documents] BY <2>1, <2>2, <1>e DEF Estados
  <2>4. work' \in [Runners -> WorkRows] /\ runner' \in [Runners -> RunnerRows]
    BY <2>2, <1>s, WorkRow DEF SunatSteps
  <2> QED BY <1>7, <1>t, <1>q, <2>3, <2>4 DEF Begin
<1>b. ASSUME NEW r \in Runners, BeginSimulated(r) \/ BeginDisabled(r) PROVE SunatTypeOK'
  <2>1. Mine(r) \in Jobs BY <1>b, <1>m DEF BeginSimulated, BeginDisabled, RunnerAt, Busy
  <2>2. "aceptado" \in Estados /\ "error_definitivo" \in Estados /\ TRUE \in BOOLEAN BY DEF Estados
  <2>3. doc' \in [Jobs -> Documents]
    <3>1. CASE BeginSimulated(r) BY <2>1, <2>2, <3>1, DocRow DEF BeginSimulated
    <3>2. CASE BeginDisabled(r) BY <2>1, <2>2, <3>2, DocRow DEF BeginDisabled
    <3> QED BY <1>b, <3>1, <3>2
  <2>4. runner' \in [Runners -> RunnerRows]
    BY <1>b, <1>s DEF BeginSimulated, BeginDisabled, SunatSteps
  <2> QED BY <1>b, <1>t, <1>q, <2>3, <2>4 DEF BeginSimulated, BeginDisabled
<1>v. ASSUME NEW j \in Jobs, SunatTakes(j)
      PROVE  sunat' \in [Jobs -> SunatEstados] /\ (~Guide(j) => sunat'[j] \in Verdicts)
  <2>1. CASE sunat[j] # "ninguno" BY <1>v, <2>1, <1>t DEF SunatTakes, SunatEstados, AnswersOK
  <2>2. CASE sunat[j] = "ninguno"
    <3>1. PICK v \in IF Guide(j) THEN {"en_proceso"} ELSE Verdicts : sunat' = [sunat EXCEPT ![j] = v]
      BY <1>v, <2>2 DEF SunatTakes
    <3>2. v \in SunatEstados BY <3>1 DEF SunatEstados
    <3> QED BY <1>t, <3>1, <3>2
  <2> QED BY <2>1, <2>2
<1>8. ASSUME NEW r \in Runners, SendBill(r) PROVE SunatTypeOK'
  <2>1. Mine(r) \in Jobs /\ ~Guide(Mine(r)) /\ SunatTakes(Mine(r))
    BY <1>8, <1>m DEF SendBill, RunnerAt, Busy
  <2>2. sunat' \in [Jobs -> SunatEstados] /\ sunat'[Mine(r)] \in Verdicts BY <2>1, <1>v
  <2>3. work' \in [Runners -> WorkRows] /\ runner' \in [Runners -> RunnerRows]
    BY <1>8, <2>2, <1>s, WorkRow DEF SendBill, SunatSteps
  <2> QED BY <1>8, <1>t, <1>q, <2>2, <2>3 DEF SendBill
<1>9. ASSUME NEW r \in Runners, SendGuide(r) \/ SendLost(r) PROVE SunatTypeOK'
  <2>1. Mine(r) \in Jobs /\ SunatTakes(Mine(r))
    BY <1>9, <1>m DEF SendGuide, SendLost, RunnerAt, Busy
  <2>2. sunat' \in [Jobs -> SunatEstados] /\ runner' \in [Runners -> RunnerRows]
    BY <1>9, <2>1, <1>v, <1>s DEF SendGuide, SendLost, SunatSteps
  <2> QED BY <1>9, <1>t, <1>q, <2>2 DEF SendGuide, SendLost
<1>10. ASSUME NEW r \in Runners, SendFailed(r) \/ StoreFailed(r) PROVE SunatTypeOK'
  <2>1. runner' \in [Runners -> RunnerRows] BY <1>10, <1>s DEF SendFailed, StoreFailed, SunatSteps
  <2> QED BY <1>10, <1>t, <1>q, <2>1 DEF SendFailed, StoreFailed
<1>11. ASSUME NEW r \in Runners, StoreTicket(r) PROVE SunatTypeOK'
  <2>1. Mine(r) \in Jobs BY <1>11, <1>m DEF StoreTicket, RunnerAt, Busy
  <2>2. doc' \in [Jobs -> Documents] /\ runner' \in [Runners -> RunnerRows]
    BY <1>11, <2>1, <1>s, DocRow DEF StoreTicket, SunatSteps, Estados
  <2> QED BY <1>11, <1>t, <1>q, <2>2 DEF StoreTicket
<1>12. ASSUME NEW r \in Runners, QueryAnswered(r) PROVE SunatTypeOK'
  <2>1. work' \in [Runners -> WorkRows] /\ runner' \in [Runners -> RunnerRows]
    BY <1>12, <1>s, WorkRow DEF QueryAnswered, SunatSteps
  <2> QED BY <1>12, <1>t, <1>q, <2>1 DEF QueryAnswered
<1>13. ASSUME NEW r \in Runners, QueryNoCdr(r) PROVE SunatTypeOK'
  <2>1. Mine(r) \in Jobs BY <1>13, <1>m DEF QueryNoCdr, QueryNoCdrFrom, RunnerAt, Busy
  <2>2. doc' \in [Jobs -> Documents] /\ runner' \in [Runners -> RunnerRows]
    BY <1>13, <2>1, <1>s, <1>e DEF QueryNoCdr, QueryNoCdrFrom, SunatSteps, Estados
  <2> QED BY <1>13, <1>t, <1>q, <2>2 DEF QueryNoCdr, QueryNoCdrFrom
<1>14. ASSUME NEW r \in Runners, Record(r) PROVE SunatTypeOK'
  <2>1. Mine(r) \in Jobs /\ work[r].cdr \in Estados
    BY <1>14, <1>m DEF Record, RunnerAt, Busy, AnswersOK, RunnerOK, Verdicts, Aceptados, Estados
  <2>2. PICK x : x = VerdictOn(Mine(r), work[r].cdr) OBVIOUS
  <2>b. x \in Documents BY <2>1, <2>2, VerdictRow
  <2>c. doc' = [doc EXCEPT ![Mine(r)] = x] BY <1>14, <2>2 DEF Record, VerdictOn
  <2>3. doc' \in [Jobs -> Documents] BY <1>t, <2>1, <2>b, <2>c
  <2>4. runner' \in [Runners -> RunnerRows] BY <1>14, <1>s DEF Record, SunatSteps
  <2> QED BY <1>14, <1>t, <1>q, <2>3, <2>4 DEF Record
<1>15. ASSUME NEW r \in Runners, ApplyEffects(r) PROVE SunatTypeOK'
  <2>1. Mine(r) \in Jobs BY <1>15, <1>m DEF ApplyEffects, RunnerAt, Busy
  <2>2. runner' \in [Runners -> RunnerRows] BY <1>15, <1>s DEF ApplyEffects, SunatSteps
  <2>3. doc' \in [Jobs -> Documents] /\ effects' \in [Jobs -> Nat]
    <3>1. [doc EXCEPT ![Mine(r)].applied = TRUE] \in [Jobs -> Documents] BY <1>t, <2>1 DEF Documents
    <3>2. [effects EXCEPT ![Mine(r)] = @ + 1] \in [Jobs -> Nat] BY <1>t, <2>1
    <3> QED BY <1>15, <1>t, <3>1, <3>2 DEF ApplyEffects, CarryOut
  <2> QED BY <1>15, <1>t, <1>q, <2>2, <2>3 DEF ApplyEffects
<1>16. ASSUME NEW r \in Runners, NEW d \in BOOLEAN, MarkError(r, d) PROVE SunatTypeOK'
  <2>1. Mine(r) \in Jobs BY <1>16, <1>m DEF MarkError, RunnerAt, Busy
  <2>2. PICK x : x = ErrorOn(Mine(r), d) OBVIOUS
  <2>b. x \in Documents BY <2>1, <2>2, ErrorRow
  <2>c. doc' = [doc EXCEPT ![Mine(r)] = x] BY <1>16, <2>2 DEF MarkError, ErrorOn
  <2>d. doc' \in [Jobs -> Documents] BY <1>t, <2>1, <2>b, <2>c
  <2>3. doc' \in [Jobs -> Documents] /\ runner' \in [Runners -> RunnerRows]
    BY <1>16, <2>d, <1>s DEF MarkError, SunatSteps
  <2> QED BY <1>16, <1>t, <1>q, <2>3 DEF MarkError
<1>w. \A r \in Runners : [work EXCEPT ![r] = NoWork] \in [Runners -> WorkRows]
  BY <1>t DEF WorkRows, NoWork
<1>17. ASSUME NEW r \in Runners, ReadBack(r) PROVE SunatTypeOK'
  <2>1. Mine(r) \in Jobs BY <1>17, <1>m DEF ReadBack, Reread, RunnerAt, Busy
  <2>2. doc[Mine(r)].estado \in Estados /\ job[Mine(r)].intentos \in 0..IntentosCap
    BY <2>1, <1>t DEF Documents, JobRows
  <2>3. PICK x : x = [runner[r] EXCEPT !.step = "settling", !.estado = doc[Mine(r)].estado,
                                       !.intentos = job[Mine(r)].intentos]
    OBVIOUS
  <2>4. x \in RunnerRows BY <1>t, <2>1, <2>2, <2>3, RunnerRow
  <2>5. runner' = [runner EXCEPT ![r] = x] /\ job' = job BY <1>17, <2>3 DEF ReadBack, Reread, Mine
  <2>6. runner' \in [Runners -> RunnerRows] BY <1>t, <2>4, <2>5
  <2> QED BY <1>17, <1>t, <1>q, <1>w, <2>5, <2>6 DEF ReadBack, Forget
<1>c. ASSUME NEW r \in Runners, NEW e \in JobEstados, Busy(r), Close(r, e)
      PROVE  job' \in [Jobs -> JobRows] /\ runner' \in [Runners -> RunnerRows]
  <2>1. Mine(r) \in Jobs BY <1>c, <1>m
  <2>2. job' = [job EXCEPT ![Mine(r)].estado = e] /\ runner' = [runner EXCEPT ![r] = IdleRunner]
    BY <1>c DEF Close, Mine
  <2> QED BY <1>c, <1>t, <1>z, <2>1, <2>2, JobRow, RunnerSteps DEF SunatSteps
<1>18. ASSUME NEW r \in Runners, Finish(r) PROVE SunatTypeOK'
  <2>1. PICK e \in JobEstados : Busy(r) /\ Close(r, e) /\ UNCHANGED docVars
    BY <1>18 DEF Finish, SettleFinal, PutBack, Settled, Remaining, RunnerAt, Busy, JobEstados
  <2> QED BY <2>1, <1>t, <1>q, <1>c
<1>19. ASSUME NEW r \in Runners, GiveUp(r) PROVE SunatTypeOK'
  <2>1. Busy(r) /\ Close(r, "error_definitivo") /\ SetEstado(Mine(r), "error_definitivo")
    BY <1>19 DEF GiveUp, GiveUpOn, Exhausted, RunnerAt, Busy
  <2>2. doc' \in [Jobs -> Documents] BY <2>1, <1>m, <1>e DEF Estados
  <2> QED BY <1>19, <2>1, <2>2, <1>t, <1>q, <1>c DEF GiveUp, GiveUpOn, JobEstados
<1>20. ASSUME NEW r \in Runners, Die(r) PROVE SunatTypeOK'
  <2>a. "idle" \in SunatSteps BY DEF SunatSteps
  <2>b. [runner EXCEPT ![r] = IdleRunner] \in [Runners -> RunnerRows] BY <2>a, <1>t, RunnerSteps
  <2>1. runner' \in [Runners -> RunnerRows] /\ deaths' \in 0..MaxDeaths
    BY <1>20, <1>t, <2>b DEF Die, Abandon
  <2> QED BY <1>20, <2>1, <1>t, <1>q, <1>w DEF Die, Abandon, Forget
<1>21. ASSUME NEW j \in Jobs, NEW v \in Verdicts, SunatDecides(j, v) PROVE SunatTypeOK'
  <2>1. sunat' \in [Jobs -> SunatEstados] BY <1>21, <1>t DEF SunatDecides, SunatEstados
  <2> QED BY <1>21, <2>1, <1>t, <1>q DEF SunatDecides
<1>22. QED
  BY <1>1, <1>2, <1>3, <1>4, <1>5, <1>6, <1>7, <1>8, <1>9, <1>10, <1>11, <1>12, <1>13, <1>14, <1>15, <1>16,
     <1>17, <1>18, <1>19, <1>20, <1>21, <1>b DEF SunatNext, OperatorStep, Process

\* A verdict of SUNAT stays, and only a guide is ever being decided.
SunatKeeps ==
  \A j \in Jobs : /\ sunat[j] \in Verdicts => sunat'[j] = sunat[j]
                  /\ ~Guide(j) => sunat'[j] # "en_proceso"
\* The runners other than r go on with what they had.
OnlyRunner(r) ==
  \A u \in Runners : u # r => runner'[u] = runner[u] /\ work'[u] = work[u]

\* A runner goes on to another step, or ends.
LEMMA StepShape ==
  ASSUME QueueTypeOK, NEW r \in Runners
  PROVE  /\ \A s : StepTo(r, s) => /\ runner'[r].step = s /\ runner'[r].job = runner[r].job
                                   /\ runner'[r].estado = runner[r].estado
                                   /\ \A u \in Runners : u # r => runner'[u] = runner[u]
         /\ runner' = [runner EXCEPT ![r] = IdleRunner] =>
              /\ runner'[r].step = "idle" /\ \A u \in Runners : u # r => runner'[u] = runner[u]
<1>1. ASSUME NEW s, StepTo(r, s)
      PROVE  /\ runner'[r].step = s /\ runner'[r].job = runner[r].job
             /\ runner'[r].estado = runner[r].estado
             /\ \A u \in Runners : u # r => runner'[u] = runner[u]
  BY <1>1 DEF StepTo, QueueTypeOK, RunnerRows
<1>2. ASSUME runner' = [runner EXCEPT ![r] = IdleRunner]
      PROVE  runner'[r].step = "idle" /\ \A u \in Runners : u # r => runner'[u] = runner[u]
  BY <1>2 DEF QueueTypeOK, IdleRunner
<1> QED BY <1>1, <1>2

\* What SUNAT is sent it decides at once, or takes in; what it had decided stays.
LEMMA TakesKeeps ==
  ASSUME SunatTypeOK, AnswersOK, NEW j \in Jobs, SunatTakes(j)
  PROVE  SunatKeeps /\ (~Guide(j) => sunat'[j] \in Verdicts)
<1>t. sunat \in [Jobs -> SunatEstados] BY DEF SunatTypeOK, SunatEstados
<1>1. CASE sunat[j] # "ninguno" BY <1>1, <1>t DEF SunatTakes, SunatEstados, AnswersOK, SunatKeeps
<1>2. CASE sunat[j] = "ninguno"
  <2>1. PICK v \in IF Guide(j) THEN {"en_proceso"} ELSE Verdicts : sunat' = [sunat EXCEPT ![j] = v]
    BY <1>2 DEF SunatTakes
  <2>2. sunat'[j] = v /\ \A k \in Jobs : k # j => sunat'[k] = sunat[k] BY <1>t, <2>1
  <2>3. "ninguno" \notin Verdicts /\ "en_proceso" \notin Verdicts BY DEF Verdicts, Aceptados
  <2> QED BY <1>2, <2>1, <2>2, <2>3 DEF SunatKeeps, AnswersOK
<1> QED BY <1>1, <1>2

\* What SUNAT decided stays, after any step.
LEMMA SunatStays ==
  ASSUME SunatTypeOK, AnswersOK, SunatNext
  PROVE  SunatKeeps
<1> USE DEF docVars
<1>1. CASE UNCHANGED sunat BY <1>1 DEF SunatKeeps, AnswersOK
<1>m. \A r \in Runners : Busy(r) => Mine(r) \in Jobs BY DEF AnswersOK, RunnerOK
<1>2. ASSUME NEW r \in Runners, SendBill(r) \/ SendGuide(r) \/ SendLost(r) PROVE SunatKeeps
  <2>1. Mine(r) \in Jobs /\ SunatTakes(Mine(r))
    BY <1>2, <1>m DEF SendBill, SendGuide, SendLost, RunnerAt, Busy
  <2> QED BY <2>1, TakesKeeps
<1>3. ASSUME NEW j \in Jobs, NEW v \in Verdicts, SunatDecides(j, v) PROVE SunatKeeps
  <2>1. sunat'[j] = v /\ \A k \in Jobs : k # j => sunat'[k] = sunat[k]
    BY <1>3 DEF SunatDecides, SunatTypeOK
  <2>2. sunat[j] = "en_proceso" /\ "en_proceso" \notin Verdicts
    BY <1>3 DEF SunatDecides, Verdicts, Aceptados
  <2> QED BY <2>1, <2>2 DEF SunatKeeps, AnswersOK
<1>4. ASSUME NEW r \in Runners, Finish(r) \/ ReadBack(r) \/ Die(r) \/ GiveUp(r) PROVE SunatKeeps
  BY <1>4, <1>1 DEF Finish, ReadBack, Die, GiveUp, GiveUpOn
<1>5. ASSUME NEW j \in Jobs, OperatorStep(j) PROVE SunatKeeps
  BY <1>5, <1>1 DEF OperatorStep, Create, Retry, EmitRead, EmitWrite, Enqueue, ConsultGuide, AnnulRead, AnnulWrite
<1>6. ASSUME NEW r \in Runners, NEW j \in Jobs, Take(r, j) PROVE SunatKeeps BY <1>6, <1>1 DEF Take
<1>7. ASSUME NEW r \in Runners, Process(r) PROVE SunatKeeps
  <2>1. SendFailed(r) \/ Begin(r) \/ BeginSimulated(r) \/ BeginDisabled(r) \/ StoreTicket(r) \/ QueryAnswered(r)
        \/ QueryNoCdr(r) => SunatKeeps
    BY <1>1 DEF SendFailed, Begin, BeginSimulated, BeginDisabled, StoreTicket, QueryAnswered, QueryNoCdr, QueryNoCdrFrom
  <2>2. Record(r) \/ ApplyEffects(r) \/ StoreFailed(r) \/ (\E d \in BOOLEAN : MarkError(r, d)) => SunatKeeps
    BY <1>1 DEF Record, ApplyEffects, StoreFailed, MarkError
  <2> QED BY <1>7, <1>2, <1>4, <2>1, <2>2 DEF Process
<1> QED BY <1>3, <1>4, <1>5, <1>6, <1>7 DEF SunatNext

\* A document keeps its kind.
LEMMA KindStays == ASSUME SunatNext PROVE kind' = kind
BY DEF docVars, SunatNext, OperatorStep, Create, Retry, EmitRead, EmitWrite, Enqueue, ConsultGuide, AnnulRead,
   AnnulWrite, Take, Process, Begin, BeginSimulated, BeginDisabled, SendBill, SendGuide, SendLost, SendFailed,
   StoreTicket, QueryAnswered, QueryNoCdr, QueryNoCdrFrom, Record, ApplyEffects, StoreFailed, MarkError, ReadBack,
   Finish, GiveUp, GiveUpOn, Die, SunatDecides

\* What a runner was answered is still what SUNAT holds after any step.
LEMMA AnswersStep ==
  ASSUME SunatTypeOK, AnswersOK, SunatNext
  PROVE  AnswersOK'
<1> USE DEF docVars
<1>k. SunatKeeps /\ kind' = kind BY SunatStays, KindStays
<1>v. Aceptados \subseteq Verdicts BY DEF Verdicts
<1>t. QueueTypeOK /\ runner \in [Runners -> RunnerRows] /\ work \in [Runners -> WorkRows]
  BY DEF SunatTypeOK, QueueTypeOK, WorkRows
<1>o. ASSUME NEW u \in Runners, runner'[u] = runner[u], work'[u] = work[u] PROVE RunnerOK(u)'
  BY <1>o, <1>k, <1>v DEF AnswersOK, RunnerOK, SunatKeeps, RunnerAt, Busy, Mine
<1>a. ASSUME NEW r \in Runners, OnlyRunner(r), RunnerOK(r)' PROVE AnswersOK'
  BY <1>a, <1>o, <1>k DEF AnswersOK, OnlyRunner, SunatKeeps, Guide
<1>b. ASSUME UNCHANGED <<runner, work>> PROVE AnswersOK'
  BY <1>b, <1>o, <1>k DEF AnswersOK, SunatKeeps, Guide
<1>c. ASSUME NEW r \in Runners, Busy(r), NEW s \in SunatSteps \ {"answered", "effects"}, StepTo(r, s),
             work' = work \/ \E w \in WorkRows : work' = [work EXCEPT ![r] = w]
      PROVE  AnswersOK'
  <2>1. /\ runner'[r].step = s /\ runner'[r].job = runner[r].job
        /\ \A u \in Runners : u # r => runner'[u] = runner[u]
    BY <1>c, <1>t, StepShape
  <2>2. OnlyRunner(r) BY <1>c, <1>t, <2>1 DEF OnlyRunner
  <2>3. RunnerOK(r)' BY <1>c, <2>1 DEF RunnerOK, RunnerAt, Busy, Mine, AnswersOK
  <2> QED BY <1>a, <2>2, <2>3
<1>d. ASSUME NEW r \in Runners, runner' = [runner EXCEPT ![r] = IdleRunner],
             work' = work \/ \E w \in WorkRows : work' = [work EXCEPT ![r] = w]
      PROVE  AnswersOK'
  <2>1. runner'[r].step = "idle" /\ \A u \in Runners : u # r => runner'[u] = runner[u]
    BY <1>d, <1>t, StepShape
  <2>2. OnlyRunner(r) BY <1>d, <1>t, <2>1 DEF OnlyRunner
  <2>3. RunnerOK(r)' BY <2>1 DEF RunnerOK, RunnerAt, Busy
  <2> QED BY <1>a, <2>2, <2>3
<1>w. NoWork \in WorkRows /\ \A b \in BOOLEAN : [NoWork EXCEPT !.ticket = b] \in WorkRows
  BY DEF NoWork, WorkRows
<1>1. ASSUME NEW j \in Jobs, OperatorStep(j) PROVE AnswersOK'
  BY <1>1, <1>b DEF OperatorStep, Create, Retry, EmitRead, EmitWrite, Enqueue, ConsultGuide, AnnulRead, AnnulWrite
<1>2. ASSUME NEW r \in Runners, NEW j \in Jobs, Take(r, j) PROVE AnswersOK'
  <2>1. runner'[r].step = "claimed" /\ runner'[r].job = j /\ work' = work
        /\ \A u \in Runners : u # r => runner'[u] = runner[u]
    BY <1>2, <1>t DEF Take, ClaimJob, IdleRunner
  <2>2. RunnerOK(r)' /\ OnlyRunner(r) BY <2>1 DEF RunnerOK, RunnerAt, Busy, Mine, OnlyRunner
  <2> QED BY <1>a, <2>2
<1>3. ASSUME NEW r \in Runners, Begin(r) PROVE AnswersOK'
  <2>1. Mine(r) \in Jobs /\ Busy(r) BY <1>3 DEF Begin, RunnerAt, Busy, AnswersOK, RunnerOK
  <2>2. PICK asks \in BOOLEAN :
          /\ work' = [work EXCEPT ![r] = [NoWork EXCEPT !.ticket = asks]]
          /\ StepTo(r, IF asks THEN "querying" ELSE "sending")
    BY <1>3, <2>1 DEF Begin, Documents, SunatTypeOK
  <2>3. PICK w \in WorkRows : work' = [work EXCEPT ![r] = w] BY <2>2, <1>w
  <2>4. PICK s \in SunatSteps \ {"answered", "effects"} : StepTo(r, s) BY <2>2 DEF SunatSteps
  <2> QED BY <2>1, <2>3, <2>4, <1>c
<1>4. ASSUME NEW r \in Runners, SendBill(r) PROVE AnswersOK'
  <2>1. Mine(r) \in Jobs /\ ~Guide(Mine(r)) /\ SunatTakes(Mine(r))
    BY <1>4 DEF SendBill, RunnerAt, Busy, AnswersOK, RunnerOK
  <2>2. sunat'[Mine(r)] \in Verdicts BY <2>1, TakesKeeps
  <2>3. /\ runner'[r].step = "answered" /\ runner'[r].job = runner[r].job
        /\ \A u \in Runners : u # r => runner'[u] = runner[u]
    BY <1>4, <1>t, StepShape DEF SendBill
  <2>4. work'[r].cdr = sunat'[Mine(r)] /\ \A u \in Runners : u # r => work'[u] = work[u]
    BY <1>4, <1>t DEF SendBill, WorkRows
  <2>5. RunnerOK(r)' /\ OnlyRunner(r)
    BY <2>1, <2>2, <2>3, <2>4 DEF RunnerOK, RunnerAt, Busy, Mine, OnlyRunner
  <2> QED BY <1>a, <2>5
<1>5. ASSUME NEW r \in Runners,
             SendGuide(r) \/ SendLost(r) \/ SendFailed(r) \/ StoreTicket(r) \/ QueryNoCdr(r) \/ StoreFailed(r)
             \/ ApplyEffects(r) \/ BeginSimulated(r) \/ BeginDisabled(r) \/ \E d \in BOOLEAN : MarkError(r, d)
      PROVE  AnswersOK'
  <2>1. Busy(r) /\ work' = work
    BY <1>5 DEF SendGuide, SendLost, SendFailed, StoreTicket, QueryNoCdr, QueryNoCdrFrom, StoreFailed, ApplyEffects,
       BeginSimulated, BeginDisabled, MarkError, RunnerAt, Busy
  <2>2. PICK s \in SunatSteps \ {"answered", "effects"} : StepTo(r, s)
    BY <1>5 DEF SendGuide, SendLost, SendFailed, StoreTicket, QueryNoCdr, QueryNoCdrFrom, StoreFailed, ApplyEffects,
       BeginSimulated, BeginDisabled, MarkError, SunatSteps
  <2> QED BY <2>1, <2>2, <1>c
<1>6. ASSUME NEW r \in Runners, QueryAnswered(r) PROVE AnswersOK'
  <2>1. Mine(r) \in Jobs /\ sunat[Mine(r)] \in Verdicts /\ sunat' = sunat
    BY <1>6 DEF QueryAnswered, RunnerAt, Busy, AnswersOK, RunnerOK
  <2>2. /\ runner'[r].step = "answered" /\ runner'[r].job = runner[r].job
        /\ \A u \in Runners : u # r => runner'[u] = runner[u]
    BY <1>6, <1>t, StepShape DEF QueryAnswered
  <2>3. work'[r].cdr = sunat[Mine(r)] /\ \A u \in Runners : u # r => work'[u] = work[u]
    BY <1>6, <1>t DEF QueryAnswered, WorkRows
  <2>4. RunnerOK(r)' /\ OnlyRunner(r)
    BY <2>1, <2>2, <2>3 DEF RunnerOK, RunnerAt, Busy, Mine, OnlyRunner
  <2> QED BY <1>a, <2>4
<1>7. ASSUME NEW r \in Runners, Record(r) PROVE AnswersOK'
  <2>1. Mine(r) \in Jobs /\ sunat[Mine(r)] = work[r].cdr /\ sunat' = sunat /\ work' = work
    BY <1>7 DEF Record, RunnerAt, Busy, AnswersOK, RunnerOK
  <2>2. PICK s \in {"effects", "processed"} : StepTo(r, s) /\ (s = "effects" => work[r].cdr \in Aceptados)
    BY <1>7 DEF Record
  <2>3. /\ runner'[r].step = s /\ runner'[r].job = runner[r].job
        /\ \A u \in Runners : u # r => runner'[u] = runner[u]
    BY <2>2, <1>t, StepShape
  <2>4. RunnerOK(r)' /\ OnlyRunner(r)
    BY <2>1, <2>2, <2>3 DEF RunnerOK, RunnerAt, Busy, Mine, OnlyRunner
  <2> QED BY <1>a, <2>4
<1>8. ASSUME NEW r \in Runners, ReadBack(r) PROVE AnswersOK'
  <2>1. Mine(r) \in Jobs BY <1>8 DEF ReadBack, Reread, RunnerAt, Busy, AnswersOK, RunnerOK
  <2>2. /\ runner'[r].step = "settling" /\ runner'[r].job = runner[r].job
        /\ \A u \in Runners : u # r => runner'[u] = runner[u]
    BY <1>8, <1>t DEF ReadBack, Reread, RunnerRows
  <2>3. \A u \in Runners : u # r => work'[u] = work[u] BY <1>8, <1>t DEF ReadBack, Forget
  <2>4. RunnerOK(r)' /\ OnlyRunner(r)
    BY <2>1, <2>2, <2>3 DEF RunnerOK, RunnerAt, Busy, Mine, OnlyRunner
  <2> QED BY <1>a, <2>4
<1>9. ASSUME NEW r \in Runners, Finish(r) \/ GiveUp(r) \/ Die(r) PROVE AnswersOK'
  <2>1. runner' = [runner EXCEPT ![r] = IdleRunner]
    BY <1>9 DEF Finish, SettleFinal, PutBack, GiveUp, GiveUpOn, Close, Die, Abandon
  <2>2. work' = work \/ work' = [work EXCEPT ![r] = NoWork]
    BY <1>9 DEF Finish, GiveUp, GiveUpOn, Die, Forget
  <2> QED BY <2>1, <2>2, <1>d, <1>w
<1>10. ASSUME NEW j \in Jobs, NEW v \in Verdicts, SunatDecides(j, v) PROVE AnswersOK'
  BY <1>10, <1>b DEF SunatDecides
<1> QED BY <1>1, <1>2, <1>3, <1>4, <1>5, <1>6, <1>7, <1>8, <1>9, <1>10 DEF SunatNext, Process

----------------------------------------
(* Verdicts and effects.                                                   *)

\* Only the document of j moves, to estado e, and its mark stays.
DocAt(j, e) ==
  /\ doc'[j].estado = e /\ doc'[j].applied = doc[j].applied
  /\ \A k \in Jobs : k # j => doc'[k] = doc[k]

\* Where every action that writes a document leaves it.
LEMMA DocMoves ==
  ASSUME SunatTypeOK, AnswersOK
  PROVE  /\ \A j \in Jobs, e \in Estados : SetEstado(j, e) => DocAt(j, e)
         /\ \A j \in Jobs : EmitWrite(j) => DocAt(j, "pendiente_envio")
         /\ \A j \in Jobs : AnnulWrite(j) => DocAt(j, doc[j].estado)
         /\ \A r \in Runners : StoreTicket(r) => DocAt(Mine(r), "pendiente_cdr")
         /\ \A r \in Runners : BeginSimulated(r) => DocAt(Mine(r), "aceptado")
         /\ \A r \in Runners : BeginDisabled(r) => DocAt(Mine(r), "error_definitivo")
         /\ \A r \in Runners : Record(r) => DocAt(Mine(r), work[r].cdr)
         /\ \A r \in Runners, c \in BOOLEAN : MarkError(r, c) =>
              \E e \in {"error_definitivo", "error_transitorio"} : DocAt(Mine(r), e)
<1>t. doc \in [Jobs -> Documents] BY DEF SunatTypeOK
<1>m. \A r \in Runners : Busy(r) => Mine(r) \in Jobs BY DEF AnswersOK, RunnerOK
<1>w. ASSUME NEW j \in Jobs, NEW x, doc' = [doc EXCEPT ![j] = x], NEW e, x.estado = e, x.applied = doc[j].applied
      PROVE  DocAt(j, e)
  BY <1>w, <1>t DEF DocAt
<1>1. ASSUME NEW j \in Jobs, NEW e \in Estados, SetEstado(j, e) PROVE DocAt(j, e)
  BY <1>1, <1>t DEF SetEstado, DocAt, Documents
<1>2. ASSUME NEW j \in Jobs, NEW l \in {"emitida", "aceptada"}, NEW t \in BOOLEAN,
             NEW e \in {"pendiente_envio", "pendiente_cdr", "aceptado"},
             doc' = [doc EXCEPT ![j] = [@ EXCEPT !.local = l, !.estado = e, !.ticket = t]]
      PROVE  DocAt(j, e)
  <2>1. PICK d \in Documents : d = doc[j] BY <1>t
  <2>2. PICK x : x = [d EXCEPT !.local = l, !.estado = e, !.ticket = t] OBVIOUS
  <2>3. x.estado = e /\ x.applied = d.applied BY <2>2 DEF Documents
  <2>4. doc' = [doc EXCEPT ![j] = x] BY <1>2, <2>1, <2>2
  <2> QED BY <1>w, <2>1, <2>3, <2>4
<1>3. ASSUME NEW j \in Jobs, EmitWrite(j) PROVE DocAt(j, "pendiente_envio")
  BY <1>3, <1>2 DEF EmitWrite
<1>4. ASSUME NEW j \in Jobs, AnnulWrite(j) PROVE DocAt(j, doc[j].estado)
  BY <1>4, <1>t DEF AnnulWrite, DocAt, Documents
<1>5. ASSUME NEW r \in Runners, StoreTicket(r) PROVE DocAt(Mine(r), "pendiente_cdr")
  <2>1. Mine(r) \in Jobs BY <1>5, <1>m DEF StoreTicket, RunnerAt, Busy
  <2> QED BY <1>5, <1>2, <2>1 DEF StoreTicket
<1>6. ASSUME NEW r \in Runners, Record(r) PROVE DocAt(Mine(r), work[r].cdr)
  <2>1. Mine(r) \in Jobs /\ work[r].cdr \in Estados
    BY <1>6, <1>m DEF Record, RunnerAt, Busy, AnswersOK, RunnerOK, Verdicts, Aceptados, Estados
  <2>2. PICK x : x = VerdictOn(Mine(r), work[r].cdr) OBVIOUS
  <2>3. x.estado = work[r].cdr /\ x.applied = doc[Mine(r)].applied BY <2>1, <2>2, VerdictRow
  <2>4. doc' = [doc EXCEPT ![Mine(r)] = x] BY <1>6, <2>2 DEF Record, VerdictOn
  <2> QED BY <1>w, <2>1, <2>3, <2>4
<1>7. ASSUME NEW r \in Runners, NEW c \in BOOLEAN, MarkError(r, c)
      PROVE  \E e \in {"error_definitivo", "error_transitorio"} : DocAt(Mine(r), e)
  <2>1. Mine(r) \in Jobs BY <1>7, <1>m DEF MarkError, RunnerAt, Busy
  <2>2. PICK x : x = ErrorOn(Mine(r), c) OBVIOUS
  <2>3. x.applied = doc[Mine(r)].applied /\ x.estado \in {"error_definitivo", "error_transitorio"}
    BY <2>1, <2>2, ErrorRow
  <2>4. doc' = [doc EXCEPT ![Mine(r)] = x] BY <1>7, <2>2 DEF MarkError, ErrorOn
  <2>5. DocAt(Mine(r), x.estado) BY <1>w, <2>1, <2>3, <2>4
  <2> QED BY <2>3, <2>5
<1>8. ASSUME NEW r \in Runners, BeginSimulated(r) PROVE DocAt(Mine(r), "aceptado")
  <2>1. Mine(r) \in Jobs BY <1>8, <1>m DEF BeginSimulated, RunnerAt, Busy
  <2> QED BY <1>8, <1>2, <2>1 DEF BeginSimulated
<1>9. ASSUME NEW r \in Runners, BeginDisabled(r) PROVE DocAt(Mine(r), "error_definitivo")
  <2>1. Mine(r) \in Jobs BY <1>9, <1>m DEF BeginDisabled, RunnerAt, Busy
  <2>2. PICK d \in Documents : d = doc[Mine(r)] BY <2>1, <1>t
  <2>3. PICK x : x = [d EXCEPT !.estado = "error_definitivo", !.local = "emitida"] OBVIOUS
  <2>4. x.estado = "error_definitivo" /\ x.applied = d.applied BY <2>3 DEF Documents
  <2>5. doc' = [doc EXCEPT ![Mine(r)] = x] BY <1>9, <2>2, <2>3 DEF BeginDisabled
  <2> QED BY <1>w, <2>1, <2>2, <2>4, <2>5
<1> QED BY <1>1, <1>3, <1>4, <1>5, <1>6, <1>7, <1>8, <1>9

\* A verdict e that may be written over j: SUNAT's, the one it has, or a simulated one.
Decided(j, e) == sunat[j] = e \/ doc[j].estado = e \/ kind[j] = "simulada"

\* A document is left alone, or one moves, or the effects of one are carried out.
LEMMA DocSteps ==
  ASSUME SunatTypeOK, AnswersOK, SunatNext
  PROVE  \/ UNCHANGED <<doc, effects>>
         \/ \E j \in Jobs, e \in Estados : /\ DocAt(j, e) /\ UNCHANGED effects
                                           /\ e \in Verdicts => Decided(j, e)
         \/ \E r \in Runners : RunnerAt(r, "effects") /\ ~doc[Mine(r)].applied /\ CarryOut(r)
<1> USE DEF docVars, Decided
<1> DEFINE Moves == \E j \in Jobs, e \in Estados : /\ DocAt(j, e) /\ UNCHANGED effects
                                                   /\ e \in Verdicts => Decided(j, e)
<1>m. \A r \in Runners : Busy(r) => Mine(r) \in Jobs BY DEF AnswersOK, RunnerOK
<1>e. {"pendiente_envio", "pendiente_cdr", "enviando", "error_definitivo", "error_transitorio"} \cap Verdicts = {}
  BY DEF Verdicts, Aceptados
<1>f. {"pendiente_envio", "pendiente_cdr", "enviando", "error_definitivo", "error_transitorio"} \subseteq Estados
  BY DEF Estados
<1>a. ASSUME NEW j \in Jobs,
             NEW e \in {"pendiente_envio", "pendiente_cdr", "enviando", "error_definitivo", "error_transitorio"},
             DocAt(j, e), UNCHANGED effects
      PROVE  Moves
  BY <1>a, <1>e, <1>f
<1>b. ASSUME NEW j \in Jobs,
             NEW e \in {"pendiente_envio", "pendiente_cdr", "enviando", "error_definitivo", "error_transitorio"},
             SetEstado(j, e), UNCHANGED effects
      PROVE  Moves
  <2>1. DocAt(j, e) BY <1>b, <1>f, DocMoves
  <2> QED BY <1>a, <1>b, <2>1
<1>1. ASSUME NEW j \in Jobs, OperatorStep(j) PROVE UNCHANGED <<doc, effects>> \/ Moves
  <2>1. ASSUME Retry(j) PROVE Moves BY <2>1, <1>b DEF Retry
  <2>2. ASSUME EmitWrite(j) PROVE Moves
    <3>1. DocAt(j, "pendiente_envio") /\ UNCHANGED effects BY <2>2, DocMoves DEF EmitWrite
    <3> QED BY <3>1, <1>a
  <2>3. ASSUME AnnulWrite(j) PROVE Moves
    <3>1. DocAt(j, doc[j].estado) /\ UNCHANGED effects BY <2>3, DocMoves DEF AnnulWrite
    <3>2. doc[j].estado \in Estados BY DEF SunatTypeOK, Documents
    <3> QED BY <3>1, <3>2
  <2>4. QED
    BY <1>1, <2>1, <2>2, <2>3 DEF OperatorStep, Create, EmitRead, Enqueue, ConsultGuide, AnnulRead
<1>2. ASSUME NEW r \in Runners, Begin(r) \/ QueryNoCdr(r) \/ GiveUp(r) PROVE Moves
  <2>1. Mine(r) \in Jobs
    BY <1>2, <1>m DEF Begin, QueryNoCdr, QueryNoCdrFrom, GiveUp, Exhausted, RunnerAt, Busy
  <2>2. PICK e \in {"pendiente_cdr", "enviando", "error_definitivo"} : SetEstado(Mine(r), e) /\ UNCHANGED effects
    BY <1>2 DEF Begin, QueryNoCdr, QueryNoCdrFrom, GiveUp, GiveUpOn
  <2> QED BY <2>1, <2>2, <1>b
<1>3. ASSUME NEW r \in Runners, StoreTicket(r) PROVE Moves
  <2>1. Mine(r) \in Jobs /\ DocAt(Mine(r), "pendiente_cdr") /\ UNCHANGED effects
    BY <1>3, <1>m, DocMoves DEF StoreTicket, RunnerAt, Busy
  <2> QED BY <2>1, <1>a
<1>4. ASSUME NEW r \in Runners, NEW c \in BOOLEAN, MarkError(r, c) PROVE Moves
  <2>1. Mine(r) \in Jobs /\ UNCHANGED effects BY <1>4, <1>m DEF MarkError, RunnerAt, Busy
  <2>2. PICK e \in {"error_definitivo", "error_transitorio"} : DocAt(Mine(r), e) BY <1>4, DocMoves
  <2> QED BY <2>1, <2>2, <1>a
<1>5. ASSUME NEW r \in Runners, Record(r) PROVE Moves
  <2>1. Mine(r) \in Jobs /\ UNCHANGED effects /\ sunat[Mine(r)] = work[r].cdr /\ work[r].cdr \in Verdicts
    BY <1>5, <1>m DEF Record, RunnerAt, Busy, AnswersOK, RunnerOK
  <2>2. DocAt(Mine(r), work[r].cdr) BY <1>5, DocMoves
  <2>3. Verdicts \subseteq Estados BY DEF Verdicts, Aceptados, Estados
  <2> QED BY <2>1, <2>2, <2>3
<1>6. ASSUME NEW r \in Runners, ApplyEffects(r)
      PROVE  \/ UNCHANGED <<doc, effects>>
             \/ \E u \in Runners : RunnerAt(u, "effects") /\ ~doc[Mine(u)].applied /\ CarryOut(u)
  BY <1>6 DEF ApplyEffects
<1>c. ASSUME NEW r \in Runners, BeginSimulated(r) \/ BeginDisabled(r) PROVE Moves
  <2>1. Mine(r) \in Jobs /\ UNCHANGED effects
    BY <1>c, <1>m DEF BeginSimulated, BeginDisabled, RunnerAt, Busy
  <2>2. CASE BeginSimulated(r)
    <3>1. DocAt(Mine(r), "aceptado") /\ kind[Mine(r)] = "simulada"
      BY <2>2, DocMoves DEF BeginSimulated
    <3>2. "aceptado" \in Estados BY DEF Estados
    <3> QED BY <2>1, <3>1, <3>2
  <2>3. CASE BeginDisabled(r)
    <3>1. DocAt(Mine(r), "error_definitivo") BY <2>3, DocMoves
    <3> QED BY <2>1, <3>1, <1>a
  <2> QED BY <1>c, <2>2, <2>3
<1>7. ASSUME NEW r \in Runners,
             SendBill(r) \/ SendGuide(r) \/ SendLost(r) \/ SendFailed(r) \/ QueryAnswered(r) \/ StoreFailed(r)
             \/ ReadBack(r) \/ Finish(r) \/ Die(r)
      PROVE  UNCHANGED <<doc, effects>>
  BY <1>7 DEF SendBill, SendGuide, SendLost, SendFailed, QueryAnswered, StoreFailed, ReadBack, Finish, Die
<1>8. ASSUME NEW r \in Runners, NEW j \in Jobs, Take(r, j) PROVE UNCHANGED <<doc, effects>>
  BY <1>8 DEF Take
<1>9. ASSUME NEW j \in Jobs, NEW v \in Verdicts, SunatDecides(j, v) PROVE UNCHANGED <<doc, effects>>
  BY <1>9 DEF SunatDecides
<1>10. ASSUME NEW r \in Runners, Process(r)
       PROVE  \/ UNCHANGED <<doc, effects>> \/ Moves
              \/ \E u \in Runners : RunnerAt(u, "effects") /\ ~doc[Mine(u)].applied /\ CarryOut(u)
  BY <1>10, <1>2, <1>3, <1>4, <1>5, <1>6, <1>7, <1>c DEF Process
<1> QED BY <1>1, <1>7, <1>8, <1>9, <1>10 DEF SunatNext

\* The mark of a note says whether its effects were carried out.
EffectsOK ==
  \A j \in Jobs : /\ effects[j] = (IF doc[j].applied THEN 1 ELSE 0)
                  /\ doc[j].applied => sunat[j] \in Aceptados

\* No verdict is invented and no effect repeated by any step.
LEMMA DecidedStep ==
  ASSUME SunatTypeOK, AnswersOK, VerdictsAreSunats, EffectsOK, SunatNext
  PROVE  VerdictsAreSunats' /\ EffectsOK'
<1>k. SunatKeeps /\ Aceptados \subseteq Verdicts /\ kind' = kind
  BY SunatStays, KindStays DEF Verdicts
<1>1. CASE UNCHANGED <<doc, effects>> BY <1>1, <1>k DEF VerdictsAreSunats, EffectsOK, SunatKeeps
<1>2. CASE \E j \in Jobs, e \in Estados : /\ DocAt(j, e) /\ UNCHANGED effects
                                          /\ e \in Verdicts => Decided(j, e)
  <2>1. PICK j \in Jobs, e \in Estados : /\ DocAt(j, e) /\ UNCHANGED effects
                                         /\ e \in Verdicts => Decided(j, e)
    BY <1>2
  <2>2. \A k \in Jobs : doc'[k].applied = doc[k].applied BY <2>1 DEF DocAt
  <2>3. EffectsOK' BY <2>1, <2>2, <1>k DEF EffectsOK, SunatKeeps
  <2>4. e \in Verdicts => kind[j] = "simulada" \/ sunat'[j] = e
    BY <2>1, <1>k DEF Decided, VerdictsAreSunats, SunatKeeps
  <2>5. \A k \in Jobs : doc'[k].estado \in Verdicts => kind[k] = "simulada" \/ sunat'[k] = doc'[k].estado
    BY <2>1, <2>4, <1>k DEF DocAt, VerdictsAreSunats, SunatKeeps
  <2> QED BY <1>k, <2>3, <2>5 DEF VerdictsAreSunats
<1>3. CASE \E r \in Runners : RunnerAt(r, "effects") /\ ~doc[Mine(r)].applied /\ CarryOut(r)
  <2>1. PICK r \in Runners : RunnerAt(r, "effects") /\ ~doc[Mine(r)].applied /\ CarryOut(r) BY <1>3
  <2>2. Mine(r) \in Jobs /\ sunat[Mine(r)] \in Aceptados
    BY <2>1 DEF AnswersOK, RunnerOK, RunnerAt, Busy
  <2>3. PICK j \in Jobs : j = Mine(r) BY <2>2
  <2>4. doc' = [doc EXCEPT ![j].applied = TRUE] /\ effects' = [effects EXCEPT ![j] = @ + 1]
    BY <2>1, <2>3 DEF CarryOut
  <2>5. /\ doc'[j].applied = TRUE /\ doc'[j].estado = doc[j].estado
        /\ \A k \in Jobs : k # j => doc'[k] = doc[k]
    BY <2>4 DEF SunatTypeOK, Documents
  <2>6. effects'[j] = 1 /\ \A k \in Jobs : k # j => effects'[k] = effects[k]
    BY <2>1, <2>3, <2>4 DEF EffectsOK, SunatTypeOK
  <2>7. sunat'[j] \in Aceptados BY <2>2, <2>3, <1>k DEF SunatKeeps
  <2>8. EffectsOK' BY <2>5, <2>6, <2>7, <1>k DEF EffectsOK, SunatKeeps
  <2> QED BY <2>5, <2>8, <1>k DEF VerdictsAreSunats, SunatKeeps
<1> QED BY <1>1, <1>2, <1>3, DocSteps

----------------------------------------
(* Before the first request of an operator.                                *)

\* A document in the hands of a runner is in nobody else's, and is not accepted
\* before this runner records it.
Handling(r, j) ==
  On(r, j) =>
    /\ job[j].estado = "procesando" /\ request[j] = "none"
    /\ runner[r].step \in {"claimed", "sending", "sent", "querying", "answered"}
         => doc[j].estado \notin Aceptados
    /\ runner[r].step = "failed" /\ doc[j].estado \in Aceptados => kind[j] = "nota"
    /\ runner[r].step = "effects" => kind[j] = "nota" /\ doc[j].estado \in Aceptados
    /\ runner[r].step = "settling" => runner[r].estado = doc[j].estado
    /\ doc[j].applied => runner[r].step \in {"processed", "settling"} /\ doc[j].estado \in Aceptados
    /\ \A s \in Runners : On(s, j) => s = r

\* A document that waits to be taken is not accepted, and is not being edited.
Untouched(j) ==
  /\ request[j] \in {"emit", "enqueue"} => job[j].estado = "ausente"
  /\ request[j] # "annul" /\ (~Guide(j) => request[j] = "none")
  /\ job[j].estado \in {"ausente", "pendiente_envio"} => doc[j].estado \notin Aceptados /\ ~doc[j].applied

FirstOK == requests = 0 => \A j \in Jobs : Untouched(j) /\ \A r \in Runners : Handling(r, j)

\* Only the document of j, its job, its request and its runners move.
OnlyDocument(j) ==
  \A k \in Jobs : k # j => /\ doc'[k] = doc[k] /\ job'[k] = job[k] /\ request'[k] = request[k]
                           /\ \A u \in Runners : runner'[u] = runner[u]
                                \/ (runner[u].job # k /\ (runner'[u].job # k \/ runner'[u].step = "idle"))
                                \/ (runner[u].step = "idle" /\ runner'[u].job # k)

\* What a step on the document of j need not look at: the other documents.
LEMMA OthersStay ==
  ASSUME SunatTypeOK, FirstOK, requests = 0, kind' = kind, NEW j \in Jobs, OnlyDocument(j),
         Untouched(j)', \A u \in Runners : Handling(u, j)'
  PROVE  FirstOK'
<1>1. ASSUME NEW k \in Jobs, k # j, NEW u \in Runners, On(u, k)' PROVE runner'[u] = runner[u] /\ On(u, k)
  BY <1>1 DEF OnlyDocument, On, Busy, Mine
<1>2. ASSUME NEW k \in Jobs, k # j PROVE Untouched(k)'
  BY <1>2 DEF OnlyDocument, FirstOK, Untouched, Guide
<1>3. ASSUME NEW k \in Jobs, k # j, NEW u \in Runners PROVE Handling(u, k)'
  <2>1. CASE ~On(u, k)' BY <2>1 DEF Handling
  <2>2. CASE On(u, k)'
    <3>1. runner'[u] = runner[u] /\ On(u, k) /\ Handling(u, k) BY <1>1, <1>3, <2>2 DEF FirstOK
    <3>2. \A s \in Runners : On(s, k)' => s = u BY <1>1, <1>3, <3>1 DEF Handling
    <3>3. doc'[k] = doc[k] /\ job'[k] = job[k] /\ request'[k] = request[k] BY <1>3 DEF OnlyDocument
    <3> QED BY <3>1, <3>2, <3>3 DEF Handling
  <2> QED BY <2>1, <2>2
<1> QED BY <1>2, <1>3 DEF FirstOK

\* A runner that goes on to step s with its document in estado e.
LEMMA RunnerGoesOn ==
  ASSUME SunatTypeOK, AnswersOK, FirstOK, requests = 0, NEW r \in Runners, Busy(r), NEW s \in SunatSteps \ {"idle"},
         StepTo(r, s), UNCHANGED <<job, kind, request>>,
         \A k \in Jobs : k # Mine(r) => doc'[k] = doc[k],
         s \in {"sending", "sent", "querying", "answered"} => doc'[Mine(r)].estado \notin Aceptados,
         s \in {"failed", "effects"} => kind[Mine(r)] = "nota" \/ doc'[Mine(r)].estado \notin Aceptados,
         s = "effects" => kind[Mine(r)] = "nota" /\ doc'[Mine(r)].estado \in Aceptados,
         s \notin {"claimed", "settling"},
         doc'[Mine(r)].applied => s = "processed" /\ doc'[Mine(r)].estado \in Aceptados
  PROVE  FirstOK'
<1>1. PICK j \in Jobs : j = Mine(r) /\ On(r, j) BY DEF AnswersOK, RunnerOK, On
<1>2. /\ runner'[r].step = s /\ runner'[r].job = j
      /\ \A u \in Runners : u # r => runner'[u] = runner[u]
  BY <1>1, StepShape DEF SunatTypeOK, Mine
<1>3. \A k \in Jobs : k # j => doc'[k] = doc[k] BY <1>1
<1>4. Handling(r, j) /\ Untouched(j) BY <1>1 DEF FirstOK
<1>5. OnlyDocument(j) BY <1>1, <1>2, <1>3 DEF OnlyDocument, On, Mine
<1>6. Untouched(j)' BY <1>1, <1>4 DEF Untouched, Handling, Guide
<1>7. \A u \in Runners : u # r => ~On(u, j)' BY <1>1, <1>2, <1>4 DEF Handling, On, Busy, Mine
<1>8. Handling(r, j)'
  <2>1. \A u \in Runners : On(u, j)' => u = r BY <1>7
  <2>2. job'[j].estado = "procesando" /\ request'[j] = "none" BY <1>1, <1>4 DEF Handling
  <2> QED BY <1>1, <1>2, <1>3, <2>1, <2>2 DEF Handling
<1>9. \A u \in Runners : Handling(u, j)' BY <1>7, <1>8 DEF Handling
<1> QED BY <1>5, <1>6, <1>9, OthersStay

\* A runner that lets its document go, with the row of its job in estado e.
LEMMA RunnerLetsGo ==
  ASSUME SunatTypeOK, AnswersOK, FirstOK, requests = 0, NEW r \in Runners, Busy(r),
         runner' = [runner EXCEPT ![r] = IdleRunner], UNCHANGED <<kind, request>>,
         NEW e \in JobEstados, job' = job \/ job' = [job EXCEPT ![Mine(r)].estado = e],
         UNCHANGED doc \/ \E d \in Estados : DocAt(Mine(r), d),
         e # "ausente", e = "pendiente_envio" => doc'[Mine(r)].estado \notin Aceptados /\ ~doc'[Mine(r)].applied
  PROVE  FirstOK'
<1>1. PICK j \in Jobs : j = Mine(r) /\ On(r, j) BY DEF AnswersOK, RunnerOK, On
<1>2. runner'[r].step = "idle" /\ \A u \in Runners : u # r => runner'[u] = runner[u]
  BY StepShape DEF SunatTypeOK
<1>3. Handling(r, j) /\ Untouched(j) BY <1>1 DEF FirstOK
<1>4. job'[j].estado \in {e, "procesando"} /\ \A k \in Jobs : k # j => job'[k] = job[k]
  BY <1>1, <1>3 DEF SunatTypeOK, QueueTypeOK, JobRows, Handling
<1>5. \A k \in Jobs : k # j => doc'[k] = doc[k] BY <1>1 DEF DocAt
<1>6. OnlyDocument(j) BY <1>1, <1>2, <1>4, <1>5 DEF OnlyDocument, On, Mine
<1>7. Untouched(j)' BY <1>1, <1>3, <1>4 DEF Untouched, Handling, Guide
<1>8. \A u \in Runners : ~On(u, j)' BY <1>1, <1>2, <1>3 DEF Handling, On, Busy, Mine
<1>9. \A u \in Runners : Handling(u, j)' BY <1>8 DEF Handling
<1> QED BY <1>6, <1>7, <1>9, OthersStay

\* Before the first request, no step disturbs what the runners and the rows agree on.
LEMMA FirstStep ==
  ASSUME SunatTypeOK, AnswersOK, FirstOK, SunatNext
  PROVE  FirstOK'
<1> USE DEF docVars
<1>t. /\ QueueTypeOK /\ job \in [Jobs -> JobRows] /\ doc \in [Jobs -> Documents] /\ requests \in Nat
      /\ request \in [Jobs -> {"none", "emit", "enqueue", "annul"}] /\ runner \in [Runners -> RunnerRows]
  BY DocumentsAssumption DEF SunatTypeOK, QueueTypeOK
<1>p. requests' > 0 => FirstOK' BY DEF FirstOK
<1>m. \A r \in Runners : Busy(r) => Mine(r) \in Jobs BY DEF AnswersOK, RunnerOK
<1>a. {"pendiente_cdr", "enviando", "error_definitivo", "error_transitorio", "pendiente_envio"} \cap Aceptados = {}
  BY DEF Aceptados
<1>f. {"pendiente_envio", "pendiente_cdr", "enviando", "error_definitivo", "error_transitorio"} \subseteq Estados
  BY DEF Estados
<1>h. ASSUME requests = 0, NEW r \in Runners, Busy(r) PROVE Handling(r, Mine(r)) /\ On(r, Mine(r))
  BY <1>h, <1>m DEF FirstOK, On
<1>i. ASSUME requests = 0, NEW j \in Jobs, job[j].estado # "procesando" PROVE \A r \in Runners : ~On(r, j)
  BY <1>i DEF FirstOK, Handling
<1>0. ASSUME NEW j \in Jobs, requests = 0, requests' = 0, UNCHANGED <<runner, kind>>, job[j].estado # "procesando",
             \A k \in Jobs : k # j => doc'[k] = doc[k] /\ job'[k] = job[k] /\ request'[k] = request[k],
             Untouched(j)'
      PROVE  FirstOK'
  <2>1. \A u \in Runners : ~On(u, j)' BY <1>0, <1>i DEF On, Busy, Mine
  <2>2. \A u \in Runners : Handling(u, j)' BY <2>1 DEF Handling
  <2>3. OnlyDocument(j) BY <1>0 DEF OnlyDocument
  <2> QED BY <1>0, <2>2, <2>3, OthersStay
<1>1. ASSUME NEW j \in Jobs, OperatorStep(j) PROVE FirstOK'
  <2>1. CASE Retry(j) \/ ConsultGuide(j) \/ AnnulRead(j)
    BY <2>1, <1>t, <1>p DEF Retry, ConsultGuide, AnnulRead
  <2>2. CASE requests # 0 /\ UNCHANGED requests BY <2>2, <1>t, <1>p
  <2>3. CASE requests = 0 /\ Create(j)
    <3>1. Untouched(j) BY <2>3 DEF FirstOK
    <3>2. /\ job'[j].estado = "pendiente_envio" /\ \A k \in Jobs : k # j => job'[k] = job[k]
      BY <2>3, <1>t DEF Create, Upsert, Pending
    <3>3. Untouched(j)' BY <2>3, <3>1, <3>2 DEF Untouched, Create, Guide
    <3> QED BY <2>3, <1>0, <3>2, <3>3 DEF Create
  <2>4. CASE EmitRead(j)
    <3>1. CASE job[j].estado # "ausente" BY <2>4, <3>1, <1>t, <1>p DEF EmitRead
    <3>2. CASE job[j].estado = "ausente" /\ requests = 0
      <4>1. Untouched(j) BY <3>2 DEF FirstOK
      <4>2. request'[j] = "emit" /\ \A k \in Jobs : k # j => request'[k] = request[k]
        BY <2>4, <1>t DEF EmitRead
      <4>3. Untouched(j)' BY <2>4, <3>2, <4>1, <4>2 DEF Untouched, EmitRead, Guide
      <4> QED BY <2>4, <3>2, <1>0, <4>2, <4>3 DEF EmitRead
    <3>3. CASE job[j].estado = "ausente" /\ requests # 0 BY <2>4, <3>3, <1>t, <1>p DEF EmitRead
    <3> QED BY <3>1, <3>2, <3>3
  <2>5. CASE requests = 0 /\ EmitWrite(j)
    <3>1. Untouched(j) /\ request[j] = "emit" /\ job[j].estado = "ausente"
      BY <2>5 DEF FirstOK, EmitWrite, Untouched
    <3>2. DocAt(j, "pendiente_envio") BY <2>5, DocMoves
    <3>3. request'[j] = "enqueue" /\ \A k \in Jobs : k # j => request'[k] = request[k]
      BY <2>5, <1>t DEF EmitWrite
    <3>4. Untouched(j)' BY <2>5, <3>1, <3>2, <3>3, <1>a DEF Untouched, EmitWrite, Guide, DocAt
    <3> QED BY <2>5, <1>0, <3>1, <3>2, <3>3, <3>4 DEF EmitWrite, DocAt
  <2>6. CASE requests = 0 /\ Enqueue(j)
    <3>1. Untouched(j) /\ request[j] = "enqueue" /\ job[j].estado = "ausente"
      BY <2>6 DEF FirstOK, Enqueue, Untouched
    <3>2. /\ job'[j].estado = "pendiente_envio" /\ \A k \in Jobs : k # j => job'[k] = job[k]
      BY <2>6, <1>t DEF Enqueue, Upsert, Pending
    <3>3. request'[j] = "none" /\ \A k \in Jobs : k # j => request'[k] = request[k]
      BY <2>6, <1>t DEF Enqueue
    <3>4. Untouched(j)' BY <2>6, <3>1, <3>2, <3>3 DEF Untouched, Enqueue, Guide
    <3> QED BY <2>6, <1>0, <3>1, <3>2, <3>3, <3>4 DEF Enqueue
  <2>7. CASE requests = 0 /\ AnnulWrite(j) BY <2>7 DEF AnnulWrite, FirstOK, Untouched
  <2>8. QED
    BY <1>1, <2>1, <2>2, <2>3, <2>4, <2>5, <2>6, <2>7 DEF OperatorStep, Create, EmitWrite, Enqueue, AnnulWrite
<1>2. ASSUME NEW r \in Runners, NEW j \in Jobs, Take(r, j), requests = 0 PROVE FirstOK'
  <2>1. /\ ~Busy(r) /\ job[j].estado = "pendiente_envio" /\ UNCHANGED <<kind, doc, request, requests>>
    BY <1>2 DEF Take, ClaimJob
  <2>2. Untouched(j) /\ \A u \in Runners : ~On(u, j) BY <1>2, <2>1, <1>i DEF FirstOK
  <2>3. /\ runner'[r].step = "claimed" /\ runner'[r].job = j
        /\ \A u \in Runners : u # r => runner'[u] = runner[u]
    BY <1>2, <1>t DEF Take, ClaimJob, IdleRunner
  <2>4. job'[j].estado = "procesando" /\ \A k \in Jobs : k # j => job'[k] = job[k]
    BY <1>2, <1>t DEF Take, ClaimJob
  <2>5. OnlyDocument(j) BY <2>1, <2>3, <2>4 DEF OnlyDocument, Busy
  <2>6. Untouched(j)' BY <2>1, <2>2, <2>4 DEF Untouched, Guide
  <2>7. \A u \in Runners : u # r => ~On(u, j)' BY <2>2, <2>3 DEF On, Busy, Mine
  <2>8. request[j] = "none" /\ doc[j].estado \notin Aceptados /\ ~doc[j].applied
    BY <1>t, <2>1, <2>2 DEF Untouched
  <2>9. Handling(r, j)' BY <2>1, <2>3, <2>4, <2>7, <2>8 DEF Handling
  <2>10. \A u \in Runners : Handling(u, j)' BY <2>7, <2>9 DEF Handling
  <2> QED BY <1>2, <2>1, <2>5, <2>6, <2>10, OthersStay
<1>s. SunatSteps \ {"idle"} = {"claimed", "marking", "sending", "sent", "querying", "answered", "failed",
                          "effects", "processed", "settling", "closing"}
  BY DEF SunatSteps
<1>3. ASSUME NEW r \in Runners, Begin(r), requests = 0 PROVE FirstOK'
  <2>1. Busy(r) /\ runner[r].step = "claimed" /\ UNCHANGED <<job, kind, request>>
    BY <1>3 DEF Begin, RunnerAt, Busy
  <2>2. PICK e \in {"pendiente_cdr", "enviando"}, s \in {"querying", "sending"} :
          SetEstado(Mine(r), e) /\ StepTo(r, s)
    BY <1>3 DEF Begin
  <2>3. DocAt(Mine(r), e) /\ e \in Estados /\ doc'[Mine(r)].estado \notin Aceptados
    BY <2>1, <2>2, <1>m, <1>f, <1>a, DocMoves DEF DocAt
  <2>4. ~doc[Mine(r)].applied BY <1>3, <1>h, <2>1 DEF Handling
  <2>5. ~doc'[Mine(r)].applied /\ \A k \in Jobs : k # Mine(r) => doc'[k] = doc[k]
    BY <2>3, <2>4 DEF DocAt
  <2> QED BY <1>3, <2>1, <2>2, <2>3, <2>5, <1>s, RunnerGoesOn
<1>b. ASSUME NEW r \in Runners, BeginSimulated(r) \/ BeginDisabled(r), requests = 0 PROVE FirstOK'
  <2>1. Busy(r) /\ runner[r].step = "claimed" /\ UNCHANGED <<job, kind, request>> /\ StepTo(r, "processed")
    BY <1>b DEF BeginSimulated, BeginDisabled, RunnerAt, Busy
  <2>2. \E e : DocAt(Mine(r), e) BY <1>b, DocMoves
  <2>3. ~doc[Mine(r)].applied BY <1>b, <1>h, <2>1 DEF Handling
  <2>4. ~doc'[Mine(r)].applied /\ \A k \in Jobs : k # Mine(r) => doc'[k] = doc[k]
    BY <2>2, <2>3 DEF DocAt
  <2> QED BY <1>b, <2>1, <2>4, <1>s, RunnerGoesOn
<1>4. ASSUME NEW r \in Runners, SendBill(r) \/ SendGuide(r) \/ SendLost(r) \/ SendFailed(r) \/ QueryAnswered(r),
             requests = 0
      PROVE  FirstOK'
  <2>1. Busy(r) /\ runner[r].step \in {"sending", "querying"} /\ UNCHANGED <<job, kind, request, doc>>
    BY <1>4 DEF SendBill, SendGuide, SendLost, SendFailed, QueryAnswered, RunnerAt, Busy
  <2>2. PICK s \in {"answered", "sent", "failed"} : StepTo(r, s)
    BY <1>4 DEF SendBill, SendGuide, SendLost, SendFailed, QueryAnswered
  <2>3. doc[Mine(r)].estado \notin Aceptados /\ ~doc[Mine(r)].applied
    BY <1>4, <1>h, <2>1 DEF Handling
  <2> QED BY <1>4, <2>1, <2>2, <2>3, <1>s, RunnerGoesOn
<1>5. ASSUME NEW r \in Runners, StoreFailed(r), requests = 0 PROVE FirstOK'
  <2>1. Busy(r) /\ runner[r].step \in {"sent", "answered", "effects"} /\ UNCHANGED <<job, kind, request, doc>>
        /\ StepTo(r, "failed")
    BY <1>5 DEF StoreFailed, Busy
  <2>2. (kind[Mine(r)] = "nota" \/ doc[Mine(r)].estado \notin Aceptados) /\ ~doc[Mine(r)].applied
    BY <1>5, <1>h, <2>1 DEF Handling
  <2> QED BY <1>5, <2>1, <2>2, <1>s, RunnerGoesOn
<1>6. ASSUME NEW r \in Runners, requests = 0,
             StoreTicket(r) \/ QueryNoCdr(r) \/ \E c \in BOOLEAN : MarkError(r, c)
      PROVE  FirstOK'
  <2>1. Busy(r) /\ runner[r].step \in {"sent", "querying", "failed"} /\ UNCHANGED <<job, kind, request>>
        /\ StepTo(r, "processed")
    BY <1>6 DEF StoreTicket, QueryNoCdr, QueryNoCdrFrom, MarkError, RunnerAt, Busy
  <2>2. \E e \in Estados : DocAt(Mine(r), e)
    <3>1. CASE StoreTicket(r) BY <3>1, <1>f, DocMoves
    <3>2. CASE QueryNoCdr(r) BY <3>2, <2>1, <1>m, <1>f, DocMoves DEF QueryNoCdr, QueryNoCdrFrom
    <3>3. CASE \E c \in BOOLEAN : MarkError(r, c) BY <3>3, <1>f, DocMoves
    <3> QED BY <1>6, <3>1, <3>2, <3>3
  <2>3. ~doc[Mine(r)].applied BY <1>6, <1>h, <2>1 DEF Handling
  <2>4. ~doc'[Mine(r)].applied /\ \A k \in Jobs : k # Mine(r) => doc'[k] = doc[k]
    BY <2>2, <2>3 DEF DocAt
  <2> QED BY <1>6, <2>1, <2>4, <1>s, RunnerGoesOn
<1>7. ASSUME NEW r \in Runners, Record(r), requests = 0 PROVE FirstOK'
  <2>1. Busy(r) /\ runner[r].step = "answered" /\ UNCHANGED <<job, kind, request>>
    BY <1>7 DEF Record, RunnerAt, Busy
  <2>2. DocAt(Mine(r), work[r].cdr) /\ work[r].cdr \in Estados
    BY <1>7, DocMoves DEF Record, RunnerAt, Busy, AnswersOK, RunnerOK, Verdicts, Aceptados, Estados
  <2>3. PICK s \in {"effects", "processed"} :
          StepTo(r, s) /\ (s = "effects" => kind[Mine(r)] = "nota" /\ work[r].cdr \in Aceptados)
    BY <1>7 DEF Record
  <2>4. ~doc[Mine(r)].applied BY <1>7, <1>h, <2>1 DEF Handling
  <2>5. /\ ~doc'[Mine(r)].applied /\ doc'[Mine(r)].estado = work[r].cdr
        /\ \A k \in Jobs : k # Mine(r) => doc'[k] = doc[k]
    BY <2>2, <2>4 DEF DocAt
  <2> QED BY <1>7, <2>1, <2>3, <2>5, <1>s, RunnerGoesOn
<1>8. ASSUME NEW r \in Runners, ApplyEffects(r), requests = 0 PROVE FirstOK'
  <2>1. Busy(r) /\ runner[r].step = "effects" /\ UNCHANGED <<job, kind, request>> /\ StepTo(r, "processed")
    BY <1>8 DEF ApplyEffects, RunnerAt, Busy
  <2>2. doc[Mine(r)].estado \in Aceptados BY <1>8, <1>h, <2>1 DEF Handling
  <2>3. Mine(r) \in Jobs BY <2>1, <1>m
  <2>4. doc'[Mine(r)].estado = doc[Mine(r)].estado /\ \A k \in Jobs : k # Mine(r) => doc'[k] = doc[k]
    BY <1>8, <1>t, <2>3 DEF ApplyEffects, CarryOut, Documents
  <2> QED BY <1>8, <2>1, <2>2, <2>4, <1>s, RunnerGoesOn
<1>9. ASSUME NEW r \in Runners, ReadBack(r), requests = 0 PROVE FirstOK'
  <2>1. Busy(r) /\ runner[r].step = "processed" /\ UNCHANGED <<job, kind, request, doc>>
    BY <1>9 DEF ReadBack, Reread, RunnerAt, Busy
  <2>2. PICK j \in Jobs : j = Mine(r) /\ On(r, j) BY <2>1, <1>m DEF On
  <2>3. Handling(r, j) /\ Untouched(j) BY <1>9 DEF FirstOK
  <2>4. /\ runner'[r].step = "settling" /\ runner'[r].job = j /\ runner'[r].estado = doc[j].estado
        /\ \A u \in Runners : u # r => runner'[u] = runner[u]
    BY <1>9, <1>t, <2>2 DEF ReadBack, Reread, RunnerRows, Mine
  <2>5. OnlyDocument(j) BY <2>1, <2>2, <2>4 DEF OnlyDocument, On, Mine
  <2>6. kind' = kind BY <1>9 DEF ReadBack
  <2>7. Untouched(j)' BY <2>1, <2>3, <2>6 DEF Untouched, Guide
  <2>8. \A u \in Runners : u # r => ~On(u, j)' BY <2>2, <2>3, <2>4 DEF Handling, On, Busy, Mine
  <2>9. Handling(r, j)' BY <2>1, <2>2, <2>3, <2>4, <2>6, <2>8 DEF Handling
  <2>10. \A u \in Runners : Handling(u, j)' BY <2>8, <2>9 DEF Handling
  <2> QED BY <1>9, <2>5, <2>6, <2>7, <2>10, OthersStay
<1>10. ASSUME NEW r \in Runners, Finish(r), requests = 0 PROVE FirstOK'
  <2>1. Busy(r) /\ runner[r].step = "settling" /\ UNCHANGED <<kind, request, doc>>
    BY <1>10 DEF Finish, SettleFinal, PutBack, Settled, Remaining, RunnerAt, Busy
  <2>2. PICK e \in {"error_definitivo", "finalizado", "pendiente_envio"} :
          Close(r, e) /\ (e = "pendiente_envio" => runner[r].estado \notin Finales)
    BY <1>10 DEF Finish, SettleFinal, PutBack, Remaining
  <2>3. Handling(r, Mine(r)) /\ On(r, Mine(r)) BY <1>10, <1>h, <2>1
  <2>4. e = "pendiente_envio" => doc[Mine(r)].estado \notin Aceptados /\ ~doc[Mine(r)].applied
    BY <2>1, <2>2, <2>3 DEF Handling, Finales, Verdicts
  <2>5. runner' = [runner EXCEPT ![r] = IdleRunner] /\ job' = [job EXCEPT ![Mine(r)].estado = e]
    BY <2>2 DEF Close, Mine
  <2>6. e \in JobEstados BY DEF JobEstados
  <2> QED BY <1>10, <2>1, <2>4, <2>5, <2>6, RunnerLetsGo
<1>11. ASSUME NEW r \in Runners, GiveUp(r), requests = 0 PROVE FirstOK'
  <2>1. Busy(r) /\ UNCHANGED <<kind, request>> /\ Close(r, "error_definitivo") /\ SetEstado(Mine(r), "error_definitivo")
    BY <1>11 DEF GiveUp, GiveUpOn, Exhausted, RunnerAt, Busy
  <2>2. \E d \in Estados : DocAt(Mine(r), d) BY <2>1, <1>m, <1>f, DocMoves
  <2>3. runner' = [runner EXCEPT ![r] = IdleRunner] /\ job' = [job EXCEPT ![Mine(r)].estado = "error_definitivo"]
    BY <2>1 DEF Close, Mine
  <2>4. "error_definitivo" \in JobEstados BY DEF JobEstados
  <2> QED BY <1>11, <2>1, <2>2, <2>3, <2>4, RunnerLetsGo
<1>12. ASSUME NEW r \in Runners, Die(r), requests = 0 PROVE FirstOK'
  <2>1. Busy(r) /\ runner' = [runner EXCEPT ![r] = IdleRunner] /\ UNCHANGED <<job, kind, request, doc>>
    BY <1>12 DEF Die, Abandon
  <2>2. "procesando" \in JobEstados BY DEF JobEstados
  <2> QED BY <1>12, <2>1, <2>2, RunnerLetsGo
<1>13. ASSUME NEW j \in Jobs, NEW v \in Verdicts, SunatDecides(j, v) PROVE FirstOK'
  BY <1>13 DEF SunatDecides, FirstOK, Untouched, Handling, On, Busy, Mine, Guide
<1>14. ASSUME requests # 0, UNCHANGED requests PROVE FirstOK' BY <1>14 DEF FirstOK
<1>15. ASSUME NEW r \in Runners, Process(r) \/ Die(r) \/ \E j \in Jobs : Take(r, j) PROVE UNCHANGED requests
  <2>1. Begin(r) \/ BeginSimulated(r) \/ BeginDisabled(r) \/ SendBill(r) \/ SendGuide(r) \/ SendLost(r)
        \/ SendFailed(r) \/ StoreTicket(r) \/ QueryAnswered(r) \/ QueryNoCdr(r) \/ Record(r) => UNCHANGED requests
    BY DEF Begin, BeginSimulated, BeginDisabled, SendBill, SendGuide, SendLost, SendFailed, StoreTicket, QueryAnswered,
       QueryNoCdr, QueryNoCdrFrom, Record
  <2>2. ApplyEffects(r) \/ StoreFailed(r) \/ (\E c \in BOOLEAN : MarkError(r, c)) \/ ReadBack(r) \/ Finish(r) \/ GiveUp(r)
        \/ Die(r) \/ (\E j \in Jobs : Take(r, j)) => UNCHANGED requests
    BY DEF ApplyEffects, StoreFailed, MarkError, ReadBack, Finish, GiveUp, GiveUpOn, Die, Take
  <2> QED BY <1>15, <2>1, <2>2 DEF Process
<1>16. ASSUME NEW r \in Runners, Process(r), requests = 0 PROVE FirstOK'
  BY <1>16, <1>b, <1>3, <1>4, <1>5, <1>6, <1>7, <1>8, <1>9, <1>10, <1>11 DEF Process
<1> QED BY <1>1, <1>2, <1>12, <1>13, <1>14, <1>15, <1>16 DEF SunatNext

----------------------------------------
(* The specification.                                                      *)

\* Everything the theorems need to know of a reachable state.
SunatIInv == SunatTypeOK /\ AnswersOK /\ VerdictsAreSunats /\ EffectsOK /\ FirstOK

\* It holds when nothing has been queued yet.
LEMMA SunatStarts == ASSUME SunatInit PROVE SunatIInv
<1> USE DEF SunatInit, QueueInit
<1>1. 0 \in 0..IntentosCap /\ 0 \in 0..MaxRequests /\ 0 \in 0..MaxDeaths /\ 0 \in Nat
  BY QueueAssumption, DocumentsAssumption
<1>2. IdleRunner \in RunnerRows BY <1>1 DEF RunnerRows, IdleRunner, Estados
<1>3. QueueTypeOK BY <1>1, <1>2 DEF QueueTypeOK, JobRows, JobEstados
<1>4. NoWork \in WorkRows /\ doc \in [Jobs -> Documents] BY DEF NoWork, WorkRows, Documents, Estados
<1>5. SunatTypeOK BY <1>1, <1>3, <1>4 DEF SunatTypeOK, WorkRows
<1>6. \A r \in Runners : runner[r].step = "idle" /\ ~Busy(r) BY DEF IdleRunner, Busy
<1>7. AnswersOK BY <1>6 DEF AnswersOK, RunnerOK, RunnerAt, Busy
<1>8. VerdictsAreSunats /\ EffectsOK BY DEF VerdictsAreSunats, EffectsOK, Verdicts, Aceptados
<1>9. \A j \in Jobs : Untouched(j) BY DEF Untouched, Aceptados
<1>10. FirstOK BY <1>6, <1>9 DEF FirstOK, Handling, On
<1> QED BY <1>5, <1>7, <1>8, <1>10 DEF SunatIInv

\* Every step keeps it.
LEMMA SunatKept == ASSUME SunatIInv, [SunatNext]_sunatVars PROVE SunatIInv'
<1>1. CASE SunatNext BY <1>1, SunatTypeStep, AnswersStep, DecidedStep, FirstStep DEF SunatIInv
<1>2. CASE UNCHANGED sunatVars
  <2>1. SunatTypeOK' BY <1>2 DEF sunatVars, docVars, SunatIInv, SunatTypeOK, QueueTypeOK
  <2>2. AnswersOK'
    BY <1>2 DEF sunatVars, docVars, SunatIInv, AnswersOK, RunnerOK, RunnerAt, Busy, Mine, Guide
  <2>3. VerdictsAreSunats' /\ EffectsOK'
    BY <1>2 DEF sunatVars, docVars, SunatIInv, VerdictsAreSunats, EffectsOK
  <2>4. FirstOK'
    BY <1>2 DEF sunatVars, docVars, SunatIInv, FirstOK, Untouched, Handling, On, Busy, Mine, Guide
  <2> QED BY <2>1, <2>2, <2>3, <2>4 DEF SunatIInv
<1> QED BY <1>1, <1>2

\* An accepted document is only written by what the property allows.
LEMMA AcceptedStays ==
  ASSUME SunatIInv, SunatNext, NEW j \in Jobs, doc[j].estado \in Aceptados, doc'[j].estado \notin Aceptados
  PROVE  requests' > 0 \/ (kind[j] = "nota" /\ ~doc[j].applied)
<1> USE DEF docVars, SunatIInv
<1>1. CASE requests' > 0 BY <1>1
<1>t. requests \in Nat /\ requests' \in Nat BY SunatTypeStep, DocumentsAssumption DEF SunatTypeOK
<1>c. doc'[j] # doc[j] OBVIOUS
<1>m. \A r \in Runners : Busy(r) => Mine(r) \in Jobs BY DEF AnswersOK, RunnerOK
<1>2. CASE requests = 0
  <2>1. ASSUME NEW k \in Jobs, OperatorStep(k) PROVE requests' > 0
    <3>1. CASE Retry(k) BY <3>1, <1>t DEF Retry
    <3>2. CASE EmitWrite(k)
      <4>1. DocAt(k, "pendiente_envio") BY <3>2, DocMoves
      <4>2. k = j BY <4>1, <1>c DEF DocAt
      <4> QED BY <1>2, <3>2, <4>2 DEF EmitWrite, FirstOK, Untouched
    <3>3. CASE AnnulWrite(k) BY <1>2, <3>3 DEF AnnulWrite, FirstOK, Untouched
    <3>4. CASE UNCHANGED doc BY <3>4, <1>c
    <3>5. QED
      BY <2>1, <3>1, <3>2, <3>3, <3>4 DEF OperatorStep, Create, EmitRead, Enqueue, ConsultGuide, AnnulRead
  <2>2. ASSUME NEW r \in Runners,
               Begin(r) \/ BeginSimulated(r) \/ BeginDisabled(r) \/ StoreTicket(r) \/ QueryNoCdr(r) \/ Record(r)
        PROVE  FALSE
    <3>1. Busy(r) /\ runner[r].step \in {"claimed", "sent", "querying", "answered"}
      BY <2>2 DEF Begin, BeginSimulated, BeginDisabled, StoreTicket, QueryNoCdr, QueryNoCdrFrom, Record, RunnerAt, Busy
    <3>2. \E e : DocAt(Mine(r), e)
      <4>1. {"pendiente_cdr", "enviando"} \subseteq Estados BY DEF Estados
      <4>2. CASE Begin(r) BY <3>1, <4>1, <4>2, <1>m, DocMoves DEF Begin
      <4>3. CASE QueryNoCdr(r) BY <3>1, <4>1, <4>3, <1>m, DocMoves DEF QueryNoCdr, QueryNoCdrFrom
      <4> QED BY <2>2, <4>2, <4>3, DocMoves
    <3>3. Mine(r) = j BY <3>2, <1>c DEF DocAt
    <3> QED BY <1>2, <3>1, <3>3 DEF FirstOK, Handling, On
  <2>3. ASSUME NEW r \in Runners, NEW c \in BOOLEAN, MarkError(r, c)
        PROVE  kind[j] = "nota" /\ ~doc[j].applied
    <3>1. Busy(r) /\ runner[r].step = "failed" BY <2>3 DEF MarkError, RunnerAt, Busy
    <3>2. Mine(r) = j BY <2>3, <1>c, DocMoves DEF DocAt
    <3> QED BY <1>2, <3>1, <3>2 DEF FirstOK, Handling, On
  <2>4. ASSUME NEW r \in Runners, ApplyEffects(r) PROVE FALSE
    <3>1. Mine(r) \in Jobs BY <2>4, <1>m DEF ApplyEffects, RunnerAt, Busy
    <3>2. doc'[j].estado = doc[j].estado
      BY <2>4, <3>1 DEF ApplyEffects, CarryOut, SunatTypeOK, Documents
    <3> QED BY <3>2
  <2>5. ASSUME NEW r \in Runners, GiveUp(r) PROVE FALSE
    <3>1. Busy(r) /\ runner[r].step = "settling" /\ runner[r].estado \notin Finales
          /\ SetEstado(Mine(r), "error_definitivo")
      BY <2>5 DEF GiveUp, GiveUpOn, Exhausted, RunnerAt, Busy
    <3>2. Mine(r) = j BY <3>1, <1>m, <1>c, DocMoves DEF DocAt, Estados
    <3> QED BY <1>2, <3>1, <3>2 DEF FirstOK, Handling, On, Finales, Verdicts
  <2>6. ASSUME NEW r \in Runners,
               SendBill(r) \/ SendGuide(r) \/ SendLost(r) \/ SendFailed(r) \/ QueryAnswered(r) \/ StoreFailed(r)
               \/ ReadBack(r) \/ Finish(r) \/ Die(r) \/ \E k \in Jobs : Take(r, k)
        PROVE  FALSE
    BY <2>6, <1>c DEF SendBill, SendGuide, SendLost, SendFailed, QueryAnswered, StoreFailed, ReadBack, Finish, Die, Take
  <2>7. ASSUME NEW k \in Jobs, NEW v \in Verdicts, SunatDecides(k, v) PROVE FALSE
    BY <2>7, <1>c DEF SunatDecides
  <2>8. ASSUME NEW r \in Runners, Process(r) PROVE kind[j] = "nota" /\ ~doc[j].applied
    BY <2>8, <2>2, <2>3, <2>4, <2>5, <2>6 DEF Process
  <2> QED BY <2>1, <2>6, <2>7, <2>8 DEF SunatNext
<1>3. CASE requests # 0
  <2>1. requests' >= requests
    <3>1. ASSUME NEW k \in Jobs, OperatorStep(k) PROVE requests' >= requests
      BY <3>1, <1>t DEF OperatorStep, Create, Retry, EmitRead, EmitWrite, Enqueue, ConsultGuide, AnnulRead, AnnulWrite
    <3>2. ASSUME NEW r \in Runners, Process(r) PROVE requests' = requests
      <4>1. Begin(r) \/ BeginSimulated(r) \/ BeginDisabled(r) \/ SendBill(r) \/ SendGuide(r) \/ SendLost(r)
            \/ SendFailed(r) \/ StoreTicket(r) \/ QueryAnswered(r) \/ QueryNoCdr(r) \/ Record(r) => UNCHANGED requests
        BY DEF Begin, BeginSimulated, BeginDisabled, SendBill, SendGuide, SendLost, SendFailed, StoreTicket, QueryAnswered, QueryNoCdr, QueryNoCdrFrom,
           Record
      <4>2. ApplyEffects(r) \/ StoreFailed(r) \/ (\E c \in BOOLEAN : MarkError(r, c)) \/ ReadBack(r) \/ Finish(r)
            \/ GiveUp(r) => UNCHANGED requests
        BY DEF ApplyEffects, StoreFailed, MarkError, ReadBack, Finish, GiveUp, GiveUpOn
      <4> QED BY <3>2, <4>1, <4>2 DEF Process
    <3> QED BY <1>t, <3>1, <3>2 DEF SunatNext, Take, Die, SunatDecides
  <2> QED BY <1>3, <1>t, <2>1
<1> QED BY <1>2, <1>3

(* Every row of the queue and of the documents is of its type, whatever the *)
(* kinds of the documents and however many runners overlap.                 *)
THEOREM SunatTypes == SunatSpec => []SunatTypeOK
<1>1. SunatInit => SunatIInv BY SunatStarts
<1>2. SunatIInv /\ [SunatNext]_sunatVars => SunatIInv' BY SunatKept
<1>3. SunatIInv => SunatTypeOK BY DEF SunatIInv
<1> QED BY <1>1, <1>2, <1>3, PTL DEF SunatSpec

(* What a document says SUNAT decided is what SUNAT decided, and the        *)
(* effects of a note are carried out at most once, for a note it accepted:  *)
(* for any number of overlapping runners, retries and deaths.               *)
THEOREM DocumentsSayWhatSunatDecided == SunatSpec => []AsSunatDecided
<1>1. SunatInit => SunatIInv BY SunatStarts
<1>2. SunatIInv /\ [SunatNext]_sunatVars => SunatIInv' BY SunatKept
<1>3. SunatIInv => AsSunatDecided BY DEF SunatIInv, AsSunatDecided, EffectsOK, EffectsOnce
<1> QED BY <1>1, <1>2, <1>3, PTL DEF SunatSpec

(* Before an operator asks for anything again, the queue unwrites no        *)
(* acceptance, save that of a note whose effects have not been carried out. *)
THEOREM AcceptancesStick == SunatSpec => AcceptanceSticks
<1>1. SunatInit => SunatIInv BY SunatStarts
<1>2. SunatIInv /\ [SunatNext]_sunatVars => SunatIInv' BY SunatKept
<1>3. ASSUME SunatIInv, [SunatNext]_sunatVars
      PROVE  [\A j \in Jobs :
                (doc[j].estado \in Aceptados /\ doc'[j].estado \notin Aceptados)
                  => requests' > 0 \/ (kind[j] = "nota" /\ ~doc[j].applied)]_sunatVars
  BY <1>3, AcceptedStays
<1> QED BY <1>1, <1>2, <1>3, PTL DEF SunatSpec, AcceptanceSticks

----------------------------------------
(* The inductive invariant: nobody believes in an acceptance that Billing   *)
(* does not hold, and only who believes in one annuls.                      *)

Known(x) == x.status = "ACCEPTED" => billing.status = "ACCEPTED"
KnownNext(x) == x.status = "ACCEPTED" => billing'.status = "ACCEPTED"

Annuls(r) == r.step \in {"finalizing", "annulling"}

KnowledgeInv ==
  /\ \A t \in Threads : /\ Known(thread[t].doc)
                        /\ Annuls(thread[t]) => billing.status = "ACCEPTED"
  /\ \A e \in events : Known(e)

IInv ==
  /\ TypeOK
  /\ KnowledgeInv
  /\ NoAnnulBeforeAcceptance
  /\ NoFalseAcceptance

----------------------------------------
\* The states and steps that the model names are members of its sets.
LEMMA Literals ==
  /\ Bajas = {"none", "pendiente_envio", "pendiente_cdr", "aceptado",
              "rechazado", "error_transitorio", "error_definitivo"}
  /\ JobStates = {"ABSENT", "PENDING", "PROCESSING", "RETRY", "DONE", "DEAD"}
  /\ Tasks = {"none", "request", "process", "webhook", "reconcile", "consult",
              "retry"}
  /\ Steps = {"idle", "requesting", "claimed", "submitting", "applying",
              "writing", "finalizing", "annulling", "restoring", "releasing",
              "applied", "failing", "unrecording", "requeue"}
  /\ VoidStatuses = {"NONE", "PENDING", "SUBMITTED", "ACCEPTED", "REJECTED",
                     "FAILED"}
  /\ Accounts = {"viva", "anulacion_pendiente", "anulada"}
  BY DEF Bajas, JobStates, Tasks, Steps, VoidStatuses, Accounts

\* What is stored for an answer is a baja state, and the accepted one only for
\* an acceptance.
LEMMA States ==
  ASSUME NEW status \in VoidStatuses
  PROVE  /\ voidState(status) \in Bajas
         /\ voidState(status) = "aceptado" => status = "ACCEPTED"
<1>1. CASE status = "PENDING"
  <2>1. voidState(status) = "pendiente_envio" BY <1>1 DEF voidState
  <2> QED BY <2>1 DEF Bajas
<1>2. CASE status = "SUBMITTED"
  <2>1. voidState(status) = "pendiente_cdr" BY <1>2 DEF voidState
  <2> QED BY <2>1 DEF Bajas
<1>3. CASE status = "ACCEPTED"
  <2>1. voidState(status) = "aceptado" BY <1>3 DEF voidState
  <2> QED BY <2>1, <1>3 DEF Bajas
<1>4. CASE status = "REJECTED"
  <2>1. voidState(status) = "rechazado" BY <1>4 DEF voidState
  <2> QED BY <2>1 DEF Bajas
<1>5. CASE status \in {"NONE", "FAILED"}
  <2>1. voidState(status) = "error_definitivo" BY <1>5 DEF voidState
  <2> QED BY <2>1 DEF Bajas
<1> QED BY <1>1, <1>2, <1>3, <1>4, <1>5 DEF VoidStatuses

\* A thread at rest has its type and knows nothing.
LEMMA IdleGood ==
  /\ Idle \in ThreadStates
  /\ Idle.step = "idle"
  /\ Idle.doc = NoRequest
  /\ NoRequest \in Requests
  /\ NoRequest.status = "NONE"
  BY VoidAssumption, Literals
  DEF Idle, Task, ThreadStates, NoRequest, Requests, Stamps

\* A thread that starts a task has its type and knows what it starts from.
LEMMA TaskGood ==
  ASSUME NEW task \in Tasks, NEW step \in Steps, NEW d \in Requests
  PROVE  /\ Task(task, step, d) \in ThreadStates
         /\ Task(task, step, d).step = step
         /\ Task(task, step, d).doc = d
         /\ \A n \in 0..AttemptCap :
              LET r == [Task(task, step, d) EXCEPT !.attempts = n]
              IN  r \in ThreadStates /\ r.step = step /\ r.doc = d
<1> DEFINE r == [task |-> task, step |-> step, after |-> "return", doc |-> d,
                 attempts |-> 0, dead |-> FALSE]
<1>1. r \in ThreadStates BY VoidAssumption, Literals DEF ThreadStates
<1>2. \A n \in 0..AttemptCap :
        /\ [r EXCEPT !.attempts = n] \in ThreadStates
        /\ [r EXCEPT !.attempts = n].step = step
        /\ [r EXCEPT !.attempts = n].doc = d
  BY <1>1 DEF ThreadStates
<1> QED BY <1>1, <1>2 DEF Task

\* A clock that may still tick has a next stamp.
LEMMA Ticks ==
  ASSUME TypeOK, clock < MaxClock
  PROVE  clock + 1 \in Stamps
  BY VoidAssumption DEF TypeOK, Stamps

\* A fault counts within its bound.
LEMMA Faulted ==
  ASSUME TypeOK, NEW fault, Fault(fault)
  PROVE  faults' \in 0..MaxFaults
  BY VoidAssumption DEF TypeOK, Fault

----------------------------------------
\* A sale whose void nobody asked for satisfies the invariant.
LEMMA InvInit == Init => IInv
<1> SUFFICES ASSUME Init PROVE IInv OBVIOUS
<1>1. TypeOK
  BY VoidAssumption, IdleGood, Literals
  DEF Init, TypeOK, VentaRows, OutboxRows, Requests, Stamps
<1>2. KnowledgeInv BY IdleGood DEF Init, KnowledgeInv, Annuls, Known
<1>3. NoAnnulBeforeAcceptance /\ NoFalseAcceptance
  BY DEF Init, NoAnnulBeforeAcceptance, NoFalseAcceptance
<1> QED BY <1>1, <1>2, <1>3 DEF IInv

----------------------------------------
(* A step of one thread that takes no acceptance back, believes only in a   *)
(* real one, and annuls nothing before it.                                  *)

\* The history has its type.
HistoryTyped == overtaken \subseteq Threads /\ repeats \in Nat /\ late \subseteq {"queue", "answer", "release"}

\* No step takes it out of its type.
LEMMA HistoryStep == ASSUME IInv, [Next]_vars PROVE HistoryTyped'
<1>1. overtaken \subseteq Threads /\ repeats \in Nat /\ late \subseteq {"queue", "answer", "release"}
  BY DEF IInv, TypeOK
<1>2. CASE UNCHANGED history BY <1>1, <1>2 DEF history, HistoryTyped
<1>3. ASSUME NEW t \in Threads,
             \/ RequestCommit(t) \/ RetryRequeue(t) \/ HandleFailure(t) \/ ApplyWrite(t)
             \/ FinalizeCommit(t) \/ RestoreWrite(t) \/ StoreError(t)
      PROVE  HistoryTyped'
  <2>1. \E S : Overtakes(t, S)
    BY <1>3 DEF RequestCommit, RetryRequeue, HandleFailure, ApplyWrite, FinalizeCommit, RestoreWrite,
       StoreError
  <2>2. late' = late \/ \E w \in {"queue", "answer", "release"} : WritesLate(t, w)
    BY <1>3 DEF RequestCommit, RetryRequeue, HandleFailure, ApplyWrite, FinalizeCommit, RestoreWrite,
       StoreError
  <2>3. repeats' \in {repeats, repeats + 1}
    BY <1>3 DEF RequestCommit, RetryRequeue, HandleFailure, ApplyWrite, FinalizeCommit, RestoreWrite,
       StoreError
  <2>4. overtaken' \subseteq Threads BY <2>1 DEF Overtakes
  <2>5. late' \subseteq {"queue", "answer", "release"} BY <1>1, <2>2 DEF WritesLate
  <2>6. repeats' \in Nat BY <1>1, <2>3
  <2> QED BY <2>4, <2>5, <2>6 DEF HistoryTyped
<1>4. CASE Crash BY <1>1, <1>4 DEF Crash, HistoryTyped
<1>5. ASSUME NEW t \in Threads,
             \/ ThreadStep(t) \/ ThreadFault(t) \/ Cron(t) \/ Operator(t)
             \/ \E e \in events : WebhookBegin(t, e),
             ~RequestCommit(t), ~RetryRequeue(t), ~HandleFailure(t), ~ApplyWrite(t),
             ~FinalizeCommit(t), ~RestoreWrite(t), ~StoreError(t)
      PROVE  UNCHANGED history
  BY <1>5 DEF ThreadStep, ThreadFault, Cron, Operator, GetKnown, PostAnswered, SubmitAnswered, MarkDone,
     ApplyRead, FinalizeRead, RestoreRead, WebhookRelease, AnswerLost, CallFailed, Claim, Reconcile,
     Consult, Poll, Request, RetryDocument, RetryRead, WebhookBegin
<1>6. ASSUME NEW status \in Answers, BillingSettles(status) PROVE UNCHANGED history
  BY <1>6 DEF BillingSettles
<1>7. CASE UNCHANGED vars BY <1>2, <1>7 DEF vars, history
<1> QED BY <1>2, <1>3, <1>4, <1>5, <1>6, <1>7 DEF Next

\* A step that moves one thread, and says of the void no more than Billing accepted.
LEMMA OneStep ==
  ASSUME IInv, HistoryTyped', NEW t \in Threads, NEW q \in ThreadStates,
         thread' = [thread EXCEPT ![t] = q],
         venta' \in VentaRows, cuenta' \in Accounts, outbox' \in OutboxRows,
         billing' \in Requests, events' \subseteq Requests, returned' \in Nat,
         clock' \in Stamps, faults' \in 0..MaxFaults,
         billing.status = "ACCEPTED" => billing'.status = "ACCEPTED",
         KnownNext(q.doc),
         Annuls(q) => billing'.status = "ACCEPTED",
         \A e \in events' : KnownNext(e),
         (venta'.anulada \/ returned' > 0 \/ cuenta' = "anulada")
           => billing'.status = "ACCEPTED",
         venta'.baja = "aceptado" => billing'.status = "ACCEPTED"
  PROVE  IInv'
<1>1. TypeOK' BY DEF IInv, TypeOK, HistoryTyped
<1>2. KnowledgeInv' BY DEF IInv, TypeOK, KnowledgeInv, Known, KnownNext, Annuls
<1>3. NoAnnulBeforeAcceptance' /\ NoFalseAcceptance'
  BY DEF NoAnnulBeforeAcceptance, NoFalseAcceptance
<1> QED BY <1>1, <1>2, <1>3 DEF IInv

\* The same, for a step that annuls nothing and leaves the stored state of the
\* void as it is or unaccepted.
LEMMA QuietStep ==
  ASSUME IInv, HistoryTyped', NEW t \in Threads, NEW q \in ThreadStates,
         thread' = [thread EXCEPT ![t] = q], ~Annuls(q),
         venta' \in VentaRows, venta'.anulada = venta.anulada,
         venta'.baja \in {venta.baja, "pendiente_envio", "error_transitorio",
                          "error_definitivo"},
         cuenta' \in {cuenta, "viva", "anulacion_pendiente"},
         outbox' \in OutboxRows, returned' = returned,
         billing' \in Requests, events' \subseteq Requests,
         clock' \in Stamps, faults' \in 0..MaxFaults,
         billing.status = "ACCEPTED" => billing'.status = "ACCEPTED",
         KnownNext(q.doc), \A e \in events' : KnownNext(e)
  PROVE  IInv'
<1>1. returned' \in Nat /\ cuenta' \in Accounts BY Literals DEF IInv, TypeOK
<1>2. (venta'.anulada \/ returned' > 0 \/ cuenta' = "anulada")
        => billing'.status = "ACCEPTED"
  BY DEF IInv, NoAnnulBeforeAcceptance
<1>3. venta'.baja = "aceptado" => billing'.status = "ACCEPTED" BY DEF IInv, NoFalseAcceptance
<1> QED BY <1>1, <1>2, <1>3, OneStep

\* What the unchanged state has for such a step.
LEMMA Unmoved ==
  ASSUME IInv
  PROVE  /\ venta \in VentaRows /\ outbox \in OutboxRows /\ billing \in Requests
         /\ events \subseteq Requests /\ clock \in Stamps /\ faults \in 0..MaxFaults
         /\ \A t \in Threads : thread[t] \in ThreadStates
         /\ \A t \in Threads : thread[t].doc \in Requests
         /\ \A e \in events : Known(e)
         /\ \A t \in Threads : Known(thread[t].doc)
  BY DEF IInv, TypeOK, KnowledgeInv, ThreadStates

\* A step that only moves a thread, to a state that annuls nothing.
LEMMA ThreadOnly ==
  ASSUME IInv, HistoryTyped', NEW t \in Threads, NEW q \in ThreadStates,
         thread' = [thread EXCEPT ![t] = q], ~Annuls(q),
         q.doc \in {thread[t].doc, billing, NoRequest} \/ q.doc \in events,
         UNCHANGED <<venta, cuenta, billing, returned, clock>>,
         outbox' \in OutboxRows, events' \subseteq events, faults' \in 0..MaxFaults
  PROVE  IInv'
<1>1. KnownNext(q.doc) BY Unmoved, IdleGood DEF Known, KnownNext
<1>2. \A e \in events' : KnownNext(e) BY Unmoved DEF Known, KnownNext
<1> QED BY <1>1, <1>2, Unmoved, QuietStep

\* apply() returning to its caller.
LEMMA AppliedMoves ==
  ASSUME IInv, NEW t \in Threads, Applied(t)
  PROVE  \E q \in ThreadStates :
           /\ thread' = [thread EXCEPT ![t] = q]
           /\ ~Annuls(q)
           /\ q.doc \in {thread[t].doc, NoRequest}
<1>1. CASE thread[t].after = "return" BY <1>1, IdleGood DEF Applied, Return, Annuls
<1>2. CASE thread[t].after # "return"
  <2> DEFINE q == [thread[t] EXCEPT !.step = thread[t].after]
  <2>1. thread[t].after \in {"submitting", "applied"} /\ thread[t] \in ThreadStates
    BY <1>2, Unmoved DEF ThreadStates
  <2>2. q \in ThreadStates /\ ~Annuls(q) /\ q.doc = thread[t].doc
    BY <2>1, Literals DEF ThreadStates, Annuls
  <2>3. thread' = [thread EXCEPT ![t] = q] BY <1>2 DEF IInv, TypeOK, Applied, Goto
  <2> QED BY <2>2, <2>3
<1> QED BY <1>1, <1>2

\* Moving to a step of one's own.
LEMMA GotoMoves ==
  ASSUME IInv, NEW t \in Threads, NEW step \in Steps
  PROVE  LET q == [thread[t] EXCEPT !.step = step]
         IN  /\ q \in ThreadStates /\ q.step = step /\ q.doc = thread[t].doc
             /\ Goto(t, step) => thread' = [thread EXCEPT ![t] = q]
  BY Unmoved, Literals DEF ThreadStates, IInv, TypeOK, Goto

\* A thread whose call failed has its type.
LEMMA FailMoves ==
  ASSUME IInv, NEW t \in Threads, NEW dead \in BOOLEAN
  PROVE  LET q == [thread[t] EXCEPT !.step = "failing", !.dead = dead]
         IN  /\ q \in ThreadStates /\ q.step = "failing" /\ q.doc = thread[t].doc
             /\ FailWith(t, dead) => thread' = [thread EXCEPT ![t] = q]
  BY Unmoved, Literals DEF ThreadStates, IInv, TypeOK, FailWith

----------------------------------------
(* Each action preserves the invariant.                                    *)

\* The steps that start a call.
LEMMA StartStep ==
  ASSUME IInv, HistoryTyped', NEW t \in Threads,
         \/ Request(t) \/ Claim(t) \/ Consult(t) \/ Reconcile(t) \/ RetryRead(t)
         \/ \E e \in events : WebhookBegin(t, e)
  PROVE  IInv'
<1> USE Unmoved, IdleGood, Literals
<1>1. CASE Request(t)
  <2>1. /\ thread' = [thread EXCEPT ![t] = Task("request", "requesting", NoRequest)]
        /\ outbox' = outbox /\ events' = events /\ faults' = faults
        /\ UNCHANGED <<venta, cuenta, billing, returned, clock>>
    BY <1>1 DEF Request
  <2> DEFINE q == Task("request", "requesting", NoRequest)
  <2>9. q \in ThreadStates /\ ~Annuls(q) /\ q.doc = NoRequest BY SMTT(20), TaskGood DEF Annuls
  <2>8. thread' = [thread EXCEPT ![t] = q] BY <2>1
  <2> HIDE DEF q
  <2> QED BY <2>1, <2>8, <2>9, ThreadOnly
<1>2. CASE Claim(t)
  <2> DEFINE q == [Task("process", "claimed", NoRequest)
                     EXCEPT !.attempts = outbox.attempts + 1]
  <2>1. outbox.attempts + 1 \in 0..AttemptCap /\ outbox' \in OutboxRows
    BY <1>2, VoidAssumption DEF Claim, OutboxRows
  <2>2. q \in ThreadStates /\ q.step = "claimed" /\ q.doc = NoRequest BY SMTT(20), <2>1, TaskGood
  <2>3. /\ thread' = [thread EXCEPT ![t] = q]
        /\ events' = events /\ faults' = faults
        /\ UNCHANGED <<venta, cuenta, billing, returned, clock>>
    BY <1>2 DEF Claim
  <2> HIDE DEF q
  <2> QED BY <2>1, <2>2, <2>3, ThreadOnly DEF Annuls
<1>3. CASE Consult(t) \/ Reconcile(t)
  <2>1. PICK task \in {"consult", "reconcile"} : Poll(t, task) BY <1>3 DEF Consult, Reconcile
  <2>2. /\ thread' = [thread EXCEPT ![t] = Task(task, "applying", billing)]
        /\ outbox' = outbox /\ events' = events /\ faults' = faults
        /\ UNCHANGED <<venta, cuenta, billing, returned, clock>>
    BY <2>1 DEF Poll
  <2> DEFINE q == Task(task, "applying", billing)
  <2>9. q \in ThreadStates /\ ~Annuls(q) /\ q.doc = billing BY SMTT(20), TaskGood DEF Annuls
  <2>8. thread' = [thread EXCEPT ![t] = q] BY <2>2
  <2> HIDE DEF q
  <2> QED BY <2>2, <2>8, <2>9, ThreadOnly
<1>4. CASE RetryRead(t)
  <2>1. /\ thread' = [thread EXCEPT ![t] = Task("retry", "requeue", NoRequest)]
        /\ outbox' = outbox /\ events' = events /\ faults' = faults
        /\ UNCHANGED <<venta, cuenta, billing, returned, clock>>
    BY <1>4 DEF RetryRead
  <2> DEFINE q == Task("retry", "requeue", NoRequest)
  <2>9. q \in ThreadStates /\ ~Annuls(q) /\ q.doc = NoRequest BY TaskGood DEF Annuls
  <2>8. thread' = [thread EXCEPT ![t] = q] BY <2>1
  <2> HIDE DEF q
  <2> QED BY <2>1, <2>8, <2>9, ThreadOnly
<1>5. CASE \E e \in events : WebhookBegin(t, e)
  <2>1. PICK e \in events : WebhookBegin(t, e) BY <1>5
  <2>2. /\ thread' = [thread EXCEPT ![t] = Task("webhook", "applying", e)]
        /\ outbox' = outbox /\ events' \subseteq events /\ faults' = faults
        /\ UNCHANGED <<venta, cuenta, billing, returned, clock>>
    BY <2>1 DEF WebhookBegin
  <2>3. e \in Requests OBVIOUS
  <2> DEFINE q == Task("webhook", "applying", e)
  <2>5. "webhook" \in Tasks /\ "applying" \in Steps BY Literals
  <2>4. q \in ThreadStates /\ q.step = "applying" /\ q.doc = e BY ONLY <2>3, <2>5, TaskGood
  <2>9. q \in ThreadStates /\ ~Annuls(q) /\ q.doc = e BY ONLY <2>4 DEF Annuls
  <2>8. thread' = [thread EXCEPT ![t] = q] BY <2>2
  <2> HIDE DEF q
  <2> QED BY <2>2, <2>8, <2>3, <2>9, ThreadOnly
<1> QED BY <1>1, <1>2, <1>3, <1>4, <1>5

\* The steps that only end or move a call.
LEMMA MoveStep ==
  ASSUME IInv, HistoryTyped', NEW t \in Threads,
         \/ GetKnown(t) \/ MarkDone(t) \/ ApplyRead(t) \/ RestoreRead(t)
         \/ StoreError(t) \/ \E retryable \in BOOLEAN : CallFailed(t, retryable)
  PROVE  IInv'
<1> USE Unmoved
<1>0. OutOfAttempts(t) \in BOOLEAN BY DEF OutOfAttempts
<1>1. CASE GetKnown(t)
  <2> DEFINE q == [thread[t] EXCEPT !.step = "submitting", !.doc = billing]
  <2>1. q \in ThreadStates /\ ~Annuls(q) /\ q.doc = billing BY Literals DEF ThreadStates, Annuls
  <2>2. /\ thread' = [thread EXCEPT ![t] = q]
        /\ outbox' = outbox /\ events' = events /\ faults' = faults
        /\ UNCHANGED <<venta, cuenta, billing, returned, clock>>
    BY <1>1 DEF GetKnown, IInv, TypeOK
  <2> HIDE DEF q
  <2> QED BY <2>1, <2>2, ThreadOnly
<1>2. CASE MarkDone(t)
  <2>1. /\ thread' = [thread EXCEPT ![t] = Idle]
        /\ outbox' \in OutboxRows /\ events' = events /\ faults' = faults
        /\ UNCHANGED <<venta, cuenta, billing, returned, clock>>
    BY <1>2, Literals DEF MarkDone, Return, OutboxRows
  <2> QED BY <2>1, IdleGood, ThreadOnly DEF Annuls
<1>3. CASE ApplyRead(t) \/ RestoreRead(t)
  <2>1. /\ outbox' = outbox /\ events' = events /\ faults' = faults
        /\ UNCHANGED <<venta, cuenta, billing, returned, clock>>
    BY <1>3 DEF ApplyRead, RestoreRead
  <2>2. Applied(t) \/ Goto(t, "writing") \/ Goto(t, "releasing") BY <1>3 DEF ApplyRead, RestoreRead
  <2>3. CASE Applied(t) BY <2>1, <2>3, AppliedMoves, ThreadOnly
  <2>4. CASE \E step \in {"writing", "releasing"} : Goto(t, step)
    <3>1. PICK step \in {"writing", "releasing"} : Goto(t, step) BY <2>4
    <3>2. step \in Steps BY Literals
    <3> DEFINE q == [thread[t] EXCEPT !.step = step]
    <3>3. q \in ThreadStates /\ ~Annuls(q) /\ q.doc = thread[t].doc BY <3>2, GotoMoves DEF Annuls
    <3>4. thread' = [thread EXCEPT ![t] = q] BY <3>1, <3>2, GotoMoves
    <3> HIDE DEF q
    <3> QED BY <2>1, <3>3, <3>4, ThreadOnly
  <2> QED BY <2>2, <2>3, <2>4
<1>4. CASE StoreError(t)
  <2>1. /\ outbox' = outbox /\ events' = events /\ faults' \in 0..MaxFaults
        /\ UNCHANGED <<venta, cuenta, billing, returned, clock>>
    BY <1>4, Faulted DEF StoreError, IInv
  <2>2. \/ FailWith(t, OutOfAttempts(t)) \/ Goto(t, "unrecording") \/ Return(t)
    BY <1>4 DEF StoreError
  <2>3. CASE FailWith(t, OutOfAttempts(t))
    <3> DEFINE q == [thread[t] EXCEPT !.step = "failing", !.dead = OutOfAttempts(t)]
    <3>1. /\ q \in ThreadStates /\ ~Annuls(q) /\ q.doc = thread[t].doc
          /\ thread' = [thread EXCEPT ![t] = q]
      BY <1>0, <2>3, FailMoves DEF Annuls
    <3> HIDE DEF q
    <3> QED BY <2>1, <3>1, ThreadOnly
  <2>4. CASE Goto(t, "unrecording")
    <3> DEFINE q == [thread[t] EXCEPT !.step = "unrecording"]
    <3>1. /\ q \in ThreadStates /\ ~Annuls(q) /\ q.doc = thread[t].doc
          /\ thread' = [thread EXCEPT ![t] = q]
      BY <2>4, Literals, GotoMoves DEF Annuls
    <3> HIDE DEF q
    <3> QED BY <2>1, <3>1, ThreadOnly
  <2>5. CASE Return(t) BY <2>1, <2>5, IdleGood, ThreadOnly DEF Return, Annuls
  <2> QED BY <2>2, <2>3, <2>4, <2>5
<1>5. CASE \E retryable \in BOOLEAN : CallFailed(t, retryable)
  <2>1. PICK retryable \in BOOLEAN : CallFailed(t, retryable) BY <1>5
  <2>2. /\ outbox' = outbox /\ events' = events /\ faults' \in 0..MaxFaults
        /\ UNCHANGED <<venta, cuenta, billing, returned, clock>>
    BY <2>1, Faulted DEF CallFailed, IInv
  <2> DEFINE dead == ~retryable \/ OutOfAttempts(t)
             q == [thread[t] EXCEPT !.step = "failing", !.dead = dead]
  <2>3. dead \in BOOLEAN BY <1>0
  <2>4. FailWith(t, dead) BY <2>1 DEF CallFailed
  <2> HIDE DEF dead
  <2>5. /\ q \in ThreadStates /\ ~Annuls(q) /\ q.doc = thread[t].doc
        /\ thread' = [thread EXCEPT ![t] = q]
    BY <2>3, <2>4, FailMoves DEF Annuls
  <2> HIDE DEF q
  <2> QED BY <2>2, <2>5, ThreadOnly
<1> QED BY <1>1, <1>2, <1>3, <1>4, <1>5

\* What a call to Billing leaves there: nothing takes an acceptance back.
LEMMA Moved ==
  ASSUME IInv, NEW from \in {"NONE", "PENDING"}, NEW to \in {"PENDING", "SUBMITTED"},
         BillingMoves(from, to)
  PROVE  /\ billing' \in Requests /\ clock' \in Stamps
         /\ billing.status = "ACCEPTED" => billing'.status = "ACCEPTED"
         /\ \A x : Known(x) => KnownNext(x)
<1>1. CASE UNCHANGED <<billing, clock>> BY <1>1, Unmoved DEF Known, KnownNext
<1>2. CASE /\ billing.status = from /\ clock < MaxClock /\ clock' = clock + 1
           /\ billing' = [status |-> to, at |-> clock + 1]
  <2>1. clock + 1 \in Stamps BY <1>2, Ticks DEF IInv
  <2>2. to \in VoidStatuses BY Literals
  <2>3. billing' \in Requests /\ clock' \in Stamps BY <1>2, <2>1, <2>2 DEF Requests
  <2> QED BY <1>2, <2>3 DEF Known, KnownNext
<1> QED BY <1>1, <1>2 DEF BillingMoves

\* The calls to Billing.
LEMMA CallStep ==
  ASSUME IInv, HistoryTyped', NEW t \in Threads,
         PostAnswered(t) \/ SubmitAnswered(t) \/ AnswerLost(t)
  PROVE  IInv'
<1> USE Unmoved
<1>1. /\ venta' = venta /\ cuenta' = cuenta /\ outbox' = outbox
      /\ events' = events /\ returned' = returned
      /\ venta'.anulada = venta.anulada /\ venta'.baja = venta.baja
  BY DEF PostAnswered, SubmitAnswered, AnswerLost
<1>2. faults' \in 0..MaxFaults BY Faulted DEF PostAnswered, SubmitAnswered, AnswerLost, IInv
<1>3. BillingMoves("NONE", "PENDING") \/ BillingMoves("PENDING", "SUBMITTED")
  BY DEF PostAnswered, SubmitAnswered, AnswerLost
<1>4. /\ billing' \in Requests /\ clock' \in Stamps
      /\ billing.status = "ACCEPTED" => billing'.status = "ACCEPTED"
      /\ \A x : Known(x) => KnownNext(x)
  BY <1>3, Moved
<1>5. \A e \in events' : KnownNext(e) BY <1>1, <1>4
<1>6. KnownNext(billing') BY DEF KnownNext
<1>7. CASE \E after \in {"submitting", "applied"} : Apply(t, billing', after)
  <2>1. PICK after \in {"submitting", "applied"} : Apply(t, billing', after) BY <1>7
  <2> DEFINE q == [thread[t] EXCEPT !.step = "applying", !.doc = billing',
                                    !.after = after]
  <2>2. q \in ThreadStates /\ ~Annuls(q) /\ q.doc = billing'
    BY <1>4, Literals DEF ThreadStates, Annuls
  <2>3. thread' = [thread EXCEPT ![t] = q] BY <2>1 DEF Apply, IInv, TypeOK
  <2> HIDE DEF q
  <2> QED BY <1>1, <1>2, <1>4, <1>5, <1>6, <2>2, <2>3, QuietStep
<1>8. CASE FailWith(t, OutOfAttempts(t))
  <2> DEFINE q == [thread[t] EXCEPT !.step = "failing", !.dead = OutOfAttempts(t)]
  <2>0. OutOfAttempts(t) \in BOOLEAN BY DEF OutOfAttempts
  <2>1. /\ q \in ThreadStates /\ ~Annuls(q) /\ q.doc = thread[t].doc
        /\ thread' = [thread EXCEPT ![t] = q]
    BY <1>8, <2>0, FailMoves DEF Annuls
  <2> HIDE DEF q
  <2>2. KnownNext(q.doc) BY <1>4, <2>1
  <2> QED BY <1>1, <1>2, <1>4, <1>5, <2>1, <2>2, QuietStep
<1> QED BY <1>7, <1>8 DEF PostAnswered, SubmitAnswered, AnswerLost

\* The steps that write the sale or its account and annul nothing.
LEMMA WriteStep ==
  ASSUME IInv, HistoryTyped', NEW t \in Threads,
         \/ RequestCommit(t) \/ RetryRequeue(t) \/ HandleFailure(t)
         \/ RestoreWrite(t)
  PROVE  IInv'
<1> USE Unmoved
<1>1. CASE RequestCommit(t) \/ RetryRequeue(t)
  <2>1. clock + 1 \in Stamps BY <1>1, Ticks DEF RequestCommit, RetryRequeue, IInv
  <2>2. PICK known \in BOOLEAN : Queue(clock + 1, known)
    BY <1>1 DEF RequestCommit, RetryRequeue, VentaRows
  <2>3. /\ venta' \in VentaRows /\ venta'.anulada = venta.anulada
        /\ venta'.baja = "pendiente_envio" /\ cuenta' = "anulacion_pendiente"
        /\ outbox' \in OutboxRows
    <3>1. outbox' \in OutboxRows BY <2>2, Literals, VoidAssumption DEF Queue, OutboxRows
    <3>2. venta' \in VentaRows /\ venta'.anulada = venta.anulada
          /\ venta'.baja = "pendiente_envio"
      BY <2>1, <2>2, Literals DEF Queue, VentaRows
    <3> QED BY <2>2, <3>1, <3>2 DEF Queue
  <2>4. /\ thread' = [thread EXCEPT ![t] = Idle] /\ clock' = clock + 1
        /\ billing' = billing /\ events' = events /\ returned' = returned
        /\ faults' = faults
    BY <1>1 DEF RequestCommit, RetryRequeue, Return
  <2>5. ~Annuls(Idle) /\ KnownNext(Idle.doc) /\ \A e \in events' : KnownNext(e)
    BY <2>4, IdleGood DEF Annuls, Known, KnownNext
  <2> QED BY <2>1, <2>3, <2>4, <2>5, IdleGood, QuietStep
<1>2. CASE HandleFailure(t)
  <2>1. clock + 1 \in Stamps BY <1>2, Ticks DEF HandleFailure, IInv
  <2>2. /\ venta' \in VentaRows /\ venta'.anulada = venta.anulada
        /\ venta'.baja \in {"error_definitivo", "error_transitorio"}
        /\ outbox' \in OutboxRows
    BY <1>2, <2>1, Literals DEF HandleFailure, VentaRows, OutboxRows
  <2>3. /\ clock' = clock + 1 /\ cuenta' = cuenta /\ billing' = billing
        /\ events' = events /\ returned' = returned /\ faults' = faults
    BY <1>2 DEF HandleFailure
  <2>4. \A e \in events' : KnownNext(e) BY <2>3 DEF Known, KnownNext
  <2> DEFINE d == [thread[t] EXCEPT !.step = "restoring", !.after = "return"]
  <2>5. \/ thread' = [thread EXCEPT ![t] = Idle]
        \/ thread' = [thread EXCEPT ![t] = d]
    BY <1>2 DEF HandleFailure, Return, IInv, TypeOK
  <2>6. d \in ThreadStates /\ ~Annuls(d) /\ d.doc = thread[t].doc
    BY Literals DEF ThreadStates, Annuls
  <2>7. PICK q \in ThreadStates : /\ thread' = [thread EXCEPT ![t] = q]
                                  /\ ~Annuls(q) /\ KnownNext(q.doc)
    <3>1. ~Annuls(Idle) /\ KnownNext(Idle.doc) /\ KnownNext(d.doc)
      BY <2>3, <2>6, IdleGood DEF Annuls, Known, KnownNext
    <3> HIDE DEF d
    <3> QED BY <2>5, <2>6, <3>1, IdleGood
  <2> QED BY <2>1, <2>2, <2>3, <2>4, <2>7, QuietStep
<1>3. CASE RestoreWrite(t)
  <2>1. /\ cuenta' = "viva" /\ venta' = venta /\ outbox' = outbox
        /\ billing' = billing /\ events' = events /\ returned' = returned
        /\ clock' = clock /\ faults' = faults
        /\ venta'.anulada = venta.anulada /\ venta'.baja = venta.baja
    BY <1>3 DEF RestoreWrite
  <2>2. PICK q \in ThreadStates : /\ thread' = [thread EXCEPT ![t] = q]
                                  /\ ~Annuls(q) /\ q.doc \in {thread[t].doc, NoRequest}
    BY <1>3, AppliedMoves DEF RestoreWrite
  <2>3. KnownNext(q.doc) /\ \A e \in events' : KnownNext(e)
    BY <2>1, <2>2, IdleGood DEF Known, KnownNext
  <2> QED BY <2>1, <2>2, <2>3, QuietStep
<1> QED BY <1>1, <1>2, <1>3

\* Storing an answer, and the annulment.
LEMMA ApplyStep ==
  ASSUME IInv, HistoryTyped', NEW t \in Threads,
         ApplyWrite(t) \/ FinalizeRead(t) \/ FinalizeCommit(t)
  PROVE  IInv'
<1> USE Unmoved
<1>1. CASE ApplyWrite(t)
  <2> DEFINE answer == thread[t].doc
  <2>1. answer.status \in VoidStatuses /\ answer.at \in Stamps BY DEF Requests
  <2>2. /\ voidState(answer.status) \in Bajas
        /\ voidState(answer.status) = "aceptado" => answer.status = "ACCEPTED"
    BY <2>1, States
  <2>3. /\ venta' \in VentaRows /\ venta'.anulada = venta.anulada
        /\ venta'.baja = voidState(answer.status)
    BY <1>1, <2>1, <2>2 DEF ApplyWrite, VentaRows
  <2>4. /\ cuenta' = cuenta /\ outbox' = outbox /\ billing' = billing
        /\ events' = events /\ returned' = returned /\ clock' = clock
        /\ faults' = faults
    BY <1>1 DEF ApplyWrite
  <2>5. \/ answer.status = "ACCEPTED" /\ Goto(t, "finalizing")
        \/ Goto(t, "restoring")
        \/ Applied(t)
    BY <1>1 DEF ApplyWrite
  <2>6. PICK q \in ThreadStates :
          /\ thread' = [thread EXCEPT ![t] = q]
          /\ q.doc \in {answer, NoRequest}
          /\ Annuls(q) => answer.status = "ACCEPTED"
    <3>1. CASE Applied(t) BY <3>1, AppliedMoves
    <3>2. CASE Goto(t, "restoring")
      <4> DEFINE r == [thread[t] EXCEPT !.step = "restoring"]
      <4>1. /\ r \in ThreadStates /\ r.step = "restoring" /\ r.doc = answer
            /\ thread' = [thread EXCEPT ![t] = r]
        BY <3>2, Literals, GotoMoves
      <4> QED BY <4>1 DEF Annuls
    <3>3. CASE answer.status = "ACCEPTED" /\ Goto(t, "finalizing")
      <4> DEFINE r == [thread[t] EXCEPT !.step = "finalizing"]
      <4>1. /\ r \in ThreadStates /\ r.doc = answer
            /\ thread' = [thread EXCEPT ![t] = r]
        BY <3>3, Literals, GotoMoves
      <4> QED BY <4>1, <3>3
    <3> QED BY <2>5, <3>1, <3>2, <3>3
  <2>7. Known(answer) OBVIOUS
  <2>8. /\ KnownNext(q.doc) /\ \A e \in events' : KnownNext(e)
        /\ Annuls(q) => billing'.status = "ACCEPTED"
        /\ venta'.baja = "aceptado" => billing'.status = "ACCEPTED"
    BY <2>2, <2>3, <2>4, <2>6, <2>7, IdleGood DEF Known, KnownNext
  <2>9. /\ (venta'.anulada \/ returned' > 0 \/ cuenta' = "anulada")
             => billing'.status = "ACCEPTED"
        /\ returned' \in Nat /\ cuenta' \in Accounts
    BY <2>3, <2>4 DEF IInv, TypeOK, NoAnnulBeforeAcceptance
  <2> QED BY <2>3, <2>4, <2>6, <2>8, <2>9, OneStep
<1>2. CASE FinalizeRead(t)
  <2>1. /\ venta' = venta /\ cuenta' = cuenta /\ outbox' = outbox
        /\ billing' = billing /\ events' = events /\ returned' = returned
        /\ clock' = clock /\ faults' = faults /\ thread[t].step = "finalizing"
    BY <1>2 DEF FinalizeRead
  <2>2. billing'.status = "ACCEPTED" BY <2>1 DEF IInv, KnowledgeInv, Annuls
  <2>3. PICK q \in ThreadStates : thread' = [thread EXCEPT ![t] = q]
    <3>1. CASE Applied(t) BY <3>1, AppliedMoves
    <3>2. CASE Goto(t, "annulling")
      <4> DEFINE r == [thread[t] EXCEPT !.step = "annulling"]
      <4>1. r \in ThreadStates /\ thread' = [thread EXCEPT ![t] = r] BY <3>2, Literals, GotoMoves
      <4> QED BY <4>1
    <3> QED BY <1>2, <3>1, <3>2 DEF FinalizeRead
  <2>4. returned' \in Nat /\ cuenta' \in Accounts BY <2>1 DEF IInv, TypeOK
  <2> QED BY <2>1, <2>2, <2>3, <2>4, OneStep DEF KnownNext
<1>3. CASE FinalizeCommit(t)
  <2>1. /\ cuenta' = "anulada" /\ outbox' = outbox /\ billing' = billing
        /\ events' = events /\ returned' = returned + 1
        /\ clock' = clock /\ faults' = faults /\ thread[t].step = "annulling"
    BY <1>3 DEF FinalizeCommit
  <2>2. billing'.status = "ACCEPTED" BY <2>1 DEF IInv, KnowledgeInv, Annuls
  <2>3. PICK q \in ThreadStates : thread' = [thread EXCEPT ![t] = q]
    BY <1>3, AppliedMoves DEF FinalizeCommit
  <2>4. returned' \in Nat /\ cuenta' \in Accounts /\ venta' \in VentaRows
    <3>1. returned \in Nat BY DEF IInv, TypeOK
    <3>2. venta' = [venta EXCEPT !.anulada = TRUE] BY <1>3 DEF FinalizeCommit
    <3>3. venta' \in VentaRows BY <3>2 DEF VentaRows
    <3> QED BY <2>1, <3>1, <3>3, Literals
  <2> QED BY <2>1, <2>2, <2>3, <2>4, OneStep DEF KnownNext
<1> QED BY <1>1, <1>2, <1>3

\* The end of a webhook and the retry of a request.
LEMMA RemainingStep ==
  ASSUME IInv, HistoryTyped', NEW t \in Threads, WebhookRelease(t) \/ RetryDocument(t)
  PROVE  IInv'
<1> USE Unmoved
<1>1. CASE WebhookRelease(t)
  <2>1. /\ thread' = [thread EXCEPT ![t] = Idle]
        /\ venta' = venta /\ cuenta' = cuenta /\ outbox' = outbox
        /\ billing' = billing /\ events' = events \cup {thread[t].doc}
        /\ returned' = returned /\ clock' = clock /\ faults' = faults
        /\ venta'.anulada = venta.anulada /\ venta'.baja = venta.baja
    BY <1>1 DEF WebhookRelease, Return
  <2>2. \A e \in events' : KnownNext(e) BY <2>1 DEF Known, KnownNext
  <2>3. KnownNext(Idle.doc) /\ ~Annuls(Idle) /\ events' \subseteq Requests
    BY <2>1, IdleGood DEF KnownNext, Annuls
  <2> QED BY <2>1, <2>2, <2>3, IdleGood, QuietStep
<1>2. CASE RetryDocument(t)
  <2>1. /\ venta' = venta /\ cuenta' = cuenta /\ outbox' = outbox
        /\ events' = events /\ returned' = returned /\ faults' = faults
        /\ venta'.anulada = venta.anulada /\ venta'.baja = venta.baja
        /\ thread' = [thread EXCEPT ![t] = Task("retry", "applying", billing')]
    BY <1>2 DEF RetryDocument
  <2>2. \/ UNCHANGED <<billing, clock>>
        \/ /\ clock < MaxClock /\ clock' = clock + 1
           /\ billing.status # "ACCEPTED"
           /\ billing' = [status |-> "SUBMITTED", at |-> clock + 1]
    BY <1>2 DEF RetryDocument
  <2>3. /\ billing' \in Requests /\ clock' \in Stamps
        /\ billing.status = "ACCEPTED" => billing'.status = "ACCEPTED"
    <3>1. CASE UNCHANGED <<billing, clock>> BY <3>1
    <3>2. CASE /\ clock < MaxClock /\ clock' = clock + 1
               /\ billing.status # "ACCEPTED"
               /\ billing' = [status |-> "SUBMITTED", at |-> clock + 1]
      <4>1. clock + 1 \in Stamps BY <3>2, Ticks DEF IInv
      <4> QED BY <3>2, <4>1, Literals DEF Requests
    <3> QED BY <2>2, <3>1, <3>2
  <2> DEFINE q == Task("retry", "applying", billing')
  <2>4. q \in ThreadStates /\ ~Annuls(q) /\ q.doc = billing' BY <2>3, Literals, TaskGood DEF Annuls
  <2>5. thread' = [thread EXCEPT ![t] = q] BY <2>1
  <2> HIDE DEF q
  <2>6. KnownNext(q.doc) /\ \A e \in events' : KnownNext(e) BY <2>1, <2>3, <2>4 DEF Known, KnownNext
  <2> QED BY <2>1, <2>3, <2>4, <2>5, <2>6, QuietStep
<1> QED BY <1>1, <1>2

\* What no thread does: an answer of SUNAT, and the death of the process.
LEMMA WorldStep ==
  ASSUME IInv, HistoryTyped', Crash \/ \E status \in Answers : BillingSettles(status)
  PROVE  IInv'
<1> USE Unmoved
<1>1. CASE Crash
  <2>1. /\ thread' = [t \in Threads |-> Idle] /\ faults' \in 0..MaxFaults
        /\ UNCHANGED <<venta, cuenta, outbox, billing, events, returned, clock>>
    BY <1>1, Faulted DEF Crash, IInv
  <2>2. TypeOK' BY <2>1, IdleGood DEF IInv, TypeOK, HistoryTyped
  <2>3. KnowledgeInv' BY <2>1, IdleGood DEF KnowledgeInv, Known, Annuls
  <2> QED BY <2>1, <2>2, <2>3 DEF IInv, NoAnnulBeforeAcceptance, NoFalseAcceptance
<1>2. CASE \E status \in Answers : BillingSettles(status)
  <2>1. PICK status \in Answers : BillingSettles(status) BY <1>2
  <2>2. clock + 1 \in Stamps BY <2>1, Ticks DEF BillingSettles, IInv
  <2>3. status \in VoidStatuses BY VoidAssumption, Literals
  <2>4. /\ billing' \in Requests /\ billing.status # "ACCEPTED"
        /\ events' = events \cup {billing'} /\ clock' = clock + 1
        /\ UNCHANGED <<venta, cuenta, outbox, thread, returned, faults>>
    BY <2>1, <2>2, <2>3 DEF BillingSettles, Requests
  <2>5. TypeOK' BY <2>2, <2>4 DEF IInv, TypeOK, HistoryTyped
  <2>6. KnowledgeInv' BY <2>4 DEF IInv, KnowledgeInv, Known, Annuls
  <2> QED BY <2>4, <2>5, <2>6 DEF IInv, NoAnnulBeforeAcceptance, NoFalseAcceptance
<1> QED BY <1>1, <1>2

\* Every step keeps the invariant.
LEMMA InvNext == IInv /\ [Next]_vars => IInv'
<1> SUFFICES ASSUME IInv, [Next]_vars PROVE IInv' OBVIOUS
<1>0. HistoryTyped' BY HistoryStep
<1>1. CASE \E t \in Threads : ThreadStep(t)
  BY <1>0, <1>1, MoveStep, CallStep, WriteStep, ApplyStep, RemainingStep DEF ThreadStep
<1>2. CASE \E t \in Threads : ThreadFault(t) BY <1>0, <1>2, MoveStep, CallStep DEF ThreadFault
<1>3. CASE \E t \in Threads :
             Cron(t) \/ Operator(t) \/ \E e \in events : WebhookBegin(t, e)
  BY <1>0, <1>3, StartStep, RemainingStep DEF Cron, Operator
<1>4. CASE Crash \/ \E status \in Answers : BillingSettles(status) BY <1>0, <1>4, WorldStep
<1>5. CASE UNCHANGED vars
  BY <1>5 DEF vars, IInv, TypeOK, KnowledgeInv, Known, NoAnnulBeforeAcceptance,
     NoFalseAcceptance
<1> QED BY <1>1, <1>2, <1>3, <1>4, <1>5 DEF Next

\* The invariant of the protocol.
THEOREM Invariance == Spec => []IInv
  BY InvInit, InvNext, PTL DEF Spec

\* The sale, its account, the outbox row and the threads keep their types.
THEOREM TypeCorrect == Spec => []TypeOK
<1>1. IInv => TypeOK BY DEF IInv
<1> QED BY <1>1, Invariance, PTL

\* The sale is not annulled, its account not closed and its goods not returned
\* before SUNAT accepts the void, whatever threads, retries and faults.
THEOREM AnnulsOnAcceptance == Spec => []NoAnnulBeforeAcceptance
<1>1. IInv => NoAnnulBeforeAcceptance BY DEF IInv
<1> QED BY <1>1, Invariance, PTL

\* The sale never shows an acceptance that SUNAT did not give.
THEOREM AcceptanceIsReal == Spec => []NoFalseAcceptance
<1>1. IInv => NoFalseAcceptance BY DEF IInv
<1> QED BY <1>1, Invariance, PTL

----------------------------------------
(* When calls overlap.  What a thread read of the sale is still true when   *)
(* it writes, or another thread wrote between and it counts as overtaken.   *)

\* No overtaken request or release has written the account.
Clean == late \cap {"queue", "release"} = {}

\* What holds of a thread between two awaits.
Sure(t) ==
  /\ t \in overtaken => thread[t].step \in AnnulWriters
  /\ thread[t].step = "annulling" => (t \in overtaken <=> venta.anulada)
  /\ Clean /\ Annuls(thread[t]) => venta.req
  /\ Clean /\ t \notin overtaken =>
       /\ thread[t].step \in {"requesting", "requeue"} => ~venta.req
       /\ thread[t].step = "releasing" => ~venta.anulada

OverlapInv ==
  /\ IInv
  /\ ReturnedOnce
  /\ Clean /\ venta.anulada => venta.req /\ cuenta = "anulada"
  /\ \A t \in Threads : Sure(t)

\* The threads that a step of t has overtaken.
Passed(t, steps) ==
  \A u \in Threads \ {t} : u \in overtaken' <=> u \in overtaken \/ thread[u].step \in steps

\* The step that a thread moves to agrees with the sale as it is.
Agrees(q) ==
  /\ q.step = "annulling" => ~venta.anulada
  /\ q.step \in {"requesting", "requeue"} => ~venta.req
  /\ Clean /\ Annuls(q) => venta.req
  /\ Clean /\ q.step = "releasing" => ~venta.anulada

\* A step that overtakes nobody, of a thread that nobody overtook or that gives up.
Steady(t) == (overtaken' = overtaken /\ t \notin overtaken) \/ Overtakes(t, {})

\* A write of an overtaken thread is recorded, and nothing is forgotten.
LEMMA LateWrites ==
  ASSUME NEW t, NEW w, WritesLate(t, w)
  PROVE  /\ late \subseteq late'
         /\ Clean' => Clean /\ (w \in {"queue", "release"} => t \notin overtaken)
  BY DEF WritesLate, Clean

\* A step that annuls nothing.
LEMMA OverlapStep ==
  ASSUME OverlapInv, IInv', NEW t \in Threads, NEW q \in ThreadStates,
         thread' = [thread EXCEPT ![t] = q], Sure(t)',
         NEW S, S = {} \/ S = SaleWriters, Passed(t, S),
         venta'.anulada = venta.anulada, late \subseteq late',
         Clean' /\ venta.req => venta'.req,
         venta'.req => venta.req \/ S = SaleWriters,
         Clean' /\ venta.anulada => cuenta' = "anulada",
         returned' = returned, repeats' = repeats
  PROVE  OverlapInv'
<1>1. Clean' => Clean BY DEF Clean
<1>2. ASSUME NEW u \in Threads \ {t} PROVE Sure(u)'
  <2>1. thread'[u] = thread[u] BY DEF OverlapInv, IInv, TypeOK
  <2>2. Sure(u) BY DEF OverlapInv
  <2>3. u \in overtaken' <=> u \in overtaken \/ thread[u].step \in S BY DEF Passed
  <2>4. u \in overtaken' => thread'[u].step \in AnnulWriters
    BY <2>1, <2>2, <2>3 DEF Sure, AnnulWriters
  <2>5. thread'[u].step = "annulling" => (u \in overtaken' <=> venta'.anulada)
    <3>1. thread[u].step = "annulling" => thread[u].step \notin S BY DEF SaleWriters
    <3> QED BY <2>1, <2>2, <2>3, <3>1 DEF Sure
  <2>6. Clean' /\ Annuls(thread'[u]) => venta'.req BY <1>1, <2>1, <2>2 DEF Sure
  <2>7. Clean' /\ u \notin overtaken' =>
          /\ thread'[u].step \in {"requesting", "requeue"} => ~venta'.req
          /\ thread'[u].step = "releasing" => ~venta'.anulada
    BY <1>1, <2>1, <2>2, <2>3 DEF Sure, SaleWriters
  <2> QED BY <2>4, <2>5, <2>6, <2>7 DEF Sure
<1>3. ReturnedOnce' BY DEF OverlapInv, ReturnedOnce
<1>4. Clean' /\ venta'.anulada => venta'.req /\ cuenta' = "anulada" BY <1>1 DEF OverlapInv
<1>5. \A u \in Threads : Sure(u)' BY <1>2
<1> QED BY <1>3, <1>4, <1>5 DEF OverlapInv

\* A step that leaves the sale, its account and the stock alone.
LEMMA OverlapQuiet ==
  ASSUME OverlapInv, IInv', NEW t \in Threads, NEW q \in ThreadStates,
         thread' = [thread EXCEPT ![t] = q], Agrees(q), Steady(t),
         UNCHANGED <<venta, cuenta, returned, repeats, late>>
  PROVE  OverlapInv'
<1>1. thread'[t] = q /\ Clean' = Clean BY DEF OverlapInv, IInv, TypeOK, Clean
<1>2. t \notin overtaken' /\ Passed(t, {}) BY DEF Steady, Overtakes, Passed
<1>3. Sure(t)' BY <1>1, <1>2 DEF Sure, Agrees
<1>4. Clean' /\ venta.anulada => cuenta' = "anulada" BY <1>1 DEF OverlapInv
<1> QED BY <1>2, <1>3, <1>4, OverlapStep

\* apply() returning to its caller leaves nothing to be sure of.
LEMMA AppliedAgrees ==
  ASSUME IInv, NEW t \in Threads, Applied(t)
  PROVE  \E q \in ThreadStates :
           /\ thread' = [thread EXCEPT ![t] = q]
           /\ q.step \in {"idle", "submitting", "applied"}
<1>1. CASE thread[t].after = "return" BY <1>1, IdleGood DEF Applied, Return
<1>2. CASE thread[t].after # "return"
  <2> DEFINE q == [thread[t] EXCEPT !.step = thread[t].after]
  <2>1. thread[t].after \in {"submitting", "applied"} /\ thread[t] \in ThreadStates
    BY <1>2, Unmoved DEF ThreadStates
  <2>2. q \in ThreadStates /\ q.step = thread[t].after BY <2>1, Literals DEF ThreadStates
  <2>3. thread' = [thread EXCEPT ![t] = q] BY <1>2 DEF IInv, TypeOK, Applied, Goto
  <2> QED BY <2>1, <2>2, <2>3
<1> QED BY <1>1, <1>2

\* Where the thread goes, for the steps that do not touch the sale.
LEMMA OverlapMoves ==
  ASSUME OverlapInv, IInv', NEW t \in Threads,
         \/ GetKnown(t) \/ PostAnswered(t) \/ SubmitAnswered(t) \/ MarkDone(t)
         \/ ApplyRead(t) \/ FinalizeRead(t) \/ RestoreRead(t)
         \/ WebhookRelease(t) \/ AnswerLost(t) \/ StoreError(t)
         \/ \E retryable \in BOOLEAN : CallFailed(t, retryable)
  PROVE  OverlapInv'
<1>1. IInv BY DEF OverlapInv
<1>2. UNCHANGED <<venta, cuenta, returned, repeats, late>> /\ Steady(t)
  <2>1. Sure(t) BY DEF OverlapInv
  <2>2. CASE StoreError(t) BY <2>2 DEF StoreError, Steady
  <2>3. CASE ~StoreError(t)
    <3>1. /\ UNCHANGED <<venta, cuenta, returned, history>>
          /\ thread[t].step \in {"claimed", "submitting", "applied", "applying", "finalizing",
                                 "restoring", "unrecording"}
      BY <2>3 DEF GetKnown, PostAnswered, SubmitAnswered, MarkDone, ApplyRead, FinalizeRead,
         RestoreRead, WebhookRelease, AnswerLost, CallFailed, Posting, Submitting, At
    <3>2. t \notin overtaken BY <2>1, <3>1 DEF Sure, AnnulWriters, SaleWriters
    <3> QED BY <3>1, <3>2 DEF history, Steady
  <2> QED BY <2>2, <2>3
<1>0. thread[t] \in ThreadStates BY <1>1, Unmoved
<1>3. CASE Applied(t) \/ Return(t)
  <2>1. PICK q \in ThreadStates :
          /\ thread' = [thread EXCEPT ![t] = q]
          /\ q.step \in {"idle", "submitting", "applied"}
    BY <1>1, <1>3, AppliedAgrees, IdleGood DEF Return
  <2> QED BY <1>2, <2>1, OverlapQuiet DEF Agrees, Annuls
<1>4. CASE \E dead \in BOOLEAN : FailWith(t, dead)
  <2>1. PICK dead \in BOOLEAN : FailWith(t, dead) BY <1>4
  <2> DEFINE q == [thread[t] EXCEPT !.step = "failing", !.dead = dead]
  <2>2. /\ q \in ThreadStates /\ q.step = "failing"
        /\ thread' = [thread EXCEPT ![t] = q]
    BY <1>1, <2>1, FailMoves
  <2> HIDE DEF q
  <2> QED BY <1>2, <2>2, OverlapQuiet DEF Agrees, Annuls
<1>5. CASE GetKnown(t) \/ PostAnswered(t) \/ SubmitAnswered(t)
  <2>1. PICK r \in [step : {"submitting", "applying"}, doc : Requests,
                    after : {"return", "submitting", "applied"}] :
          thread' = [thread EXCEPT ![t] = [thread[t] EXCEPT !.step = r.step,
                                               !.doc = r.doc, !.after = r.after]]
    <3>1. CASE GetKnown(t)
      <4> DEFINE r == [step |-> "submitting", doc |-> billing,
                       after |-> thread[t].after]
      <4>1. r \in [step : {"submitting", "applying"}, doc : Requests,
                   after : {"return", "submitting", "applied"}]
        BY <1>0, <1>1, Unmoved DEF ThreadStates
      <4>2. [thread[t] EXCEPT !.step = "submitting", !.doc = billing]
              = [thread[t] EXCEPT !.step = r.step, !.doc = r.doc, !.after = r.after]
        BY <1>0 DEF ThreadStates
      <4>3. thread' = [thread EXCEPT ![t] =
              [thread[t] EXCEPT !.step = "submitting", !.doc = billing]]
        BY <1>1, <3>1 DEF GetKnown, IInv, TypeOK
      <4> QED BY <4>1, <4>2, <4>3
    <3>2. CASE PostAnswered(t) \/ SubmitAnswered(t)
      <4>1. PICK after \in {"submitting", "applied"} : Apply(t, billing', after)
        BY <3>2 DEF PostAnswered, SubmitAnswered
      <4> DEFINE r == [step |-> "applying", doc |-> billing', after |-> after]
      <4>2. r \in [step : {"submitting", "applying"}, doc : Requests,
                   after : {"return", "submitting", "applied"}]
        BY DEF IInv, TypeOK
      <4>3. thread' = [thread EXCEPT ![t] =
              [thread[t] EXCEPT !.step = r.step, !.doc = r.doc, !.after = r.after]]
        BY <1>1, <4>1 DEF Apply, IInv, TypeOK
      <4> QED BY <4>2, <4>3
    <3> QED BY <1>5, <3>1, <3>2
  <2> DEFINE q == [thread[t] EXCEPT !.step = r.step, !.doc = r.doc, !.after = r.after]
  <2>2. q \in ThreadStates /\ q.step \in {"submitting", "applying"}
    BY <1>0, Literals DEF ThreadStates
  <2>3. thread' = [thread EXCEPT ![t] = q] BY <2>1
  <2> HIDE DEF q
  <2> QED BY <1>2, <2>2, <2>3, OverlapQuiet DEF Agrees, Annuls
<1>6. CASE \E step \in {"writing", "annulling", "releasing", "unrecording"} :
             /\ Goto(t, step)
             /\ step = "annulling" => ~venta.anulada /\ thread[t].step = "finalizing"
             /\ step = "releasing" => (Clean => ~venta.anulada)
  <2>1. PICK step \in {"writing", "annulling", "releasing", "unrecording"} :
             /\ Goto(t, step)
             /\ step = "annulling" => ~venta.anulada /\ thread[t].step = "finalizing"
             /\ step = "releasing" => (Clean => ~venta.anulada)
    BY <1>6
  <2>2. step \in Steps BY Literals
  <2> DEFINE q == [thread[t] EXCEPT !.step = step]
  <2>3. /\ q \in ThreadStates /\ q.step = step
        /\ thread' = [thread EXCEPT ![t] = q]
    BY <1>1, <2>1, <2>2, GotoMoves
  <2> HIDE DEF q
  <2>4. Agrees(q) BY <2>1, <2>3 DEF OverlapInv, Sure, Agrees, Annuls
  <2> QED BY <1>2, <2>3, <2>4, OverlapQuiet
<1>7. OutOfAttempts(t) \in BOOLEAN BY DEF OutOfAttempts
<1>8. CASE ApplyRead(t) \/ FinalizeRead(t) \/ RestoreRead(t)
  <2>1. cuenta = "anulacion_pendiente" => (Clean => ~venta.anulada) BY DEF OverlapInv
  <2> QED BY <1>3, <1>6, <1>8, <2>1 DEF ApplyRead, FinalizeRead, RestoreRead
<1>9. CASE StoreError(t)
  <2>1. FailWith(t, OutOfAttempts(t)) \/ Goto(t, "unrecording") \/ Return(t) BY <1>9 DEF StoreError
  <2> QED BY <1>3, <1>4, <1>6, <1>7, <2>1
<1>10. CASE \E retryable \in BOOLEAN : CallFailed(t, retryable)
  <2>1. PICK retryable \in BOOLEAN : CallFailed(t, retryable) BY <1>10
  <2>2. (~retryable \/ OutOfAttempts(t)) \in BOOLEAN BY <1>7
  <2> QED BY <1>4, <2>1, <2>2 DEF CallFailed
<1>11. CASE AnswerLost(t) \/ WebhookRelease(t) \/ MarkDone(t)
  BY <1>3, <1>4, <1>7, <1>11 DEF AnswerLost, WebhookRelease, MarkDone
<1> QED BY <1>5, <1>8, <1>9, <1>10, <1>11

\* The steps that start a call.
LEMMA OverlapStarts ==
  ASSUME OverlapInv, IInv', NEW t \in Threads,
         \/ Request(t) \/ Claim(t) \/ Consult(t) \/ Reconcile(t) \/ RetryRead(t)
         \/ RetryDocument(t) \/ \E e \in events : WebhookBegin(t, e)
  PROVE  OverlapInv'
<1>1. IInv BY DEF OverlapInv
<1> USE <1>1, Unmoved, Literals, IdleGood
<1>2. UNCHANGED <<venta, cuenta, returned, repeats, late>> /\ Steady(t)
  <2>1. UNCHANGED <<venta, cuenta, returned, history>> /\ thread[t] = Idle
    BY DEF Request, Claim, Consult, Reconcile, Poll, RetryRead, RetryDocument, WebhookBegin
  <2>2. t \notin overtaken BY <2>1 DEF OverlapInv, Sure, AnnulWriters, SaleWriters
  <2> QED BY <2>1, <2>2 DEF history, Steady
<1>3. CASE \E task \in Tasks, d \in Requests,
              step \in {"requesting", "requeue", "applying"} :
             /\ thread' = [thread EXCEPT ![t] = Task(task, step, d)]
             /\ step # "applying" => ~venta.req
  <2>1. PICK task \in Tasks, d \in Requests,
             step \in {"requesting", "requeue", "applying"} :
             /\ thread' = [thread EXCEPT ![t] = Task(task, step, d)]
             /\ step # "applying" => ~venta.req
    BY <1>3
  <2> DEFINE q == Task(task, step, d)
  <2>2. task \in Tasks /\ step \in Steps /\ d \in Requests OBVIOUS
  <2>3. q \in ThreadStates /\ q.step = step BY ONLY <2>2, TaskGood
  <2>4. Agrees(q) /\ thread' = [thread EXCEPT ![t] = q] BY <2>1, <2>3 DEF Agrees, Annuls
  <2> HIDE DEF q
  <2> QED BY <1>2, <2>3, <2>4, OverlapQuiet
<1>4. CASE Claim(t)
  <2> DEFINE q == [Task("process", "claimed", NoRequest)
                     EXCEPT !.attempts = outbox.attempts + 1]
  <2>1. outbox.attempts + 1 \in 0..AttemptCap BY <1>4, VoidAssumption DEF Claim, OutboxRows
  <2>2. q \in ThreadStates /\ q.step = "claimed" BY SMTT(20), <2>1, TaskGood
  <2>3. thread' = [thread EXCEPT ![t] = q] BY <1>4 DEF Claim
  <2>4. Agrees(q) BY <2>2 DEF Agrees, Annuls
  <2> HIDE DEF q
  <2> QED BY <1>2, <2>2, <2>3, <2>4, OverlapQuiet
<1>5. CASE Request(t)
  <2>1. thread' = [thread EXCEPT ![t] = Task("request", "requesting", NoRequest)]
    BY <1>5 DEF Request
  <2> QED BY <1>3, <1>5, <2>1 DEF Request
<1>6. CASE RetryRead(t)
  <2>1. thread' = [thread EXCEPT ![t] = Task("retry", "requeue", NoRequest)] BY <1>6 DEF RetryRead
  <2> QED BY <1>3, <1>6, <2>1 DEF RetryRead
<1>7. CASE Consult(t) \/ Reconcile(t)
  <2>1. PICK task \in {"consult", "reconcile"} : Poll(t, task) BY <1>7 DEF Consult, Reconcile
  <2>2. thread' = [thread EXCEPT ![t] = Task(task, "applying", billing)] BY <2>1 DEF Poll
  <2> QED BY <1>3, <2>2
<1>8. CASE RetryDocument(t)
  <2>1. thread' = [thread EXCEPT ![t] = Task("retry", "applying", billing')]
    BY <1>8 DEF RetryDocument
  <2>2. billing' \in Requests BY DEF IInv, TypeOK
  <2> QED BY <1>3, <2>1, <2>2
<1>9. CASE \E e \in events : WebhookBegin(t, e)
  <2>1. PICK e \in events : WebhookBegin(t, e) BY <1>9
  <2>2. thread' = [thread EXCEPT ![t] = Task("webhook", "applying", e)] BY <2>1 DEF WebhookBegin
  <2> QED BY <1>3, <2>2
<1> QED BY <1>4, <1>5, <1>6, <1>7, <1>8, <1>9

\* The steps that write the sale or its account and annul nothing.
LEMMA OverlapWrites ==
  ASSUME OverlapInv, IInv', NEW t \in Threads,
         \/ RequestCommit(t) \/ RetryRequeue(t) \/ HandleFailure(t)
         \/ ApplyWrite(t) \/ RestoreWrite(t)
  PROVE  OverlapInv'
<1>1. IInv /\ Sure(t) BY DEF OverlapInv
<1> USE <1>1, Unmoved, Literals, IdleGood
<1>2. ASSUME NEW q \in ThreadStates, thread' = [thread EXCEPT ![t] = q],
             NEW S, Overtakes(t, S), q.step \notin {"annulling", "requesting", "requeue", "releasing"},
             Clean' /\ Annuls(q) => venta'.req
      PROVE  Sure(t)' /\ Passed(t, S)
  <2>1. thread'[t] = q /\ t \notin overtaken' BY <1>2 DEF IInv, TypeOK, Overtakes
  <2>2. Passed(t, S) BY <1>2 DEF Overtakes, Passed
  <2> QED BY <1>2, <2>1, <2>2 DEF Sure
<1>3. CASE RequestCommit(t) \/ RetryRequeue(t)
  <2>1. /\ Overtakes(t, SaleWriters) /\ WritesLate(t, "queue")
        /\ thread[t].step \in {"requesting", "requeue"}
        /\ thread' = [thread EXCEPT ![t] = Idle] /\ returned' = returned /\ repeats' = repeats
    BY <1>3 DEF RequestCommit, RetryRequeue, Return, At
  <2>2. PICK known \in BOOLEAN : Queue(clock + 1, known)
    BY <1>3 DEF RequestCommit, RetryRequeue, VentaRows
  <2>3. venta'.anulada = venta.anulada BY <2>2 DEF Queue, VentaRows
  <2>4. late \subseteq late' /\ (Clean' => Clean /\ t \notin overtaken) BY <2>1, LateWrites
  <2>5. Clean' => ~venta.req /\ ~venta.anulada BY <2>1, <2>4 DEF Sure, OverlapInv
  <2>6. Sure(t)' /\ Passed(t, SaleWriters) BY <1>2, <2>1 DEF Annuls
  <2> QED BY <2>1, <2>3, <2>4, <2>5, <2>6, OverlapStep
<1>4. CASE HandleFailure(t)
  <2>1. /\ venta'.anulada = venta.anulada /\ venta'.req = venta.req /\ late' = late /\ repeats' = repeats
        /\ cuenta' = cuenta /\ returned' = returned /\ Overtakes(t, SaleWriters)
    BY <1>4 DEF HandleFailure, VentaRows
  <2> DEFINE d == [thread[t] EXCEPT !.step = "restoring", !.after = "return"]
  <2>2. d \in ThreadStates /\ d.step = "restoring" BY DEF ThreadStates
  <2>3. \/ thread' = [thread EXCEPT ![t] = Idle]
        \/ thread' = [thread EXCEPT ![t] = d]
    BY <1>4 DEF HandleFailure, Return, IInv, TypeOK
  <2>4. PICK q \in ThreadStates :
          thread' = [thread EXCEPT ![t] = q] /\ q.step \in {"idle", "restoring"}
    <3> HIDE DEF d
    <3> QED BY <2>2, <2>3
  <2>5. Sure(t)' /\ Passed(t, SaleWriters) BY <1>2, <2>1, <2>4 DEF Annuls
  <2>6. Clean' => Clean BY <2>1 DEF Clean
  <2>7. Clean' /\ venta.anulada => cuenta' = "anulada" BY <2>1, <2>6 DEF OverlapInv
  <2> QED BY <2>1, <2>4, <2>5, <2>7, OverlapStep
<1>5. CASE ApplyWrite(t)
  <2>1. /\ venta'.anulada = venta.anulada /\ venta'.req /\ repeats' = repeats
        /\ cuenta' = cuenta /\ returned' = returned
        /\ Overtakes(t, SaleWriters) /\ WritesLate(t, "answer")
    BY <1>5 DEF ApplyWrite, VentaRows
  <2>2. Applied(t) \/ \E step \in {"finalizing", "restoring"} : Goto(t, step) BY <1>5 DEF ApplyWrite
  <2>3. PICK q \in ThreadStates :
          /\ thread' = [thread EXCEPT ![t] = q]
          /\ q.step \in {"idle", "submitting", "applied", "finalizing", "restoring"}
    <3>1. CASE Applied(t) BY <3>1, AppliedAgrees
    <3>2. CASE \E step \in {"finalizing", "restoring"} : Goto(t, step)
      <4>1. PICK step \in {"finalizing", "restoring"} : Goto(t, step) BY <3>2
      <4>2. step \in Steps OBVIOUS
      <4> DEFINE r == [thread[t] EXCEPT !.step = step]
      <4>3. /\ r \in ThreadStates /\ r.step = step
            /\ thread' = [thread EXCEPT ![t] = r]
        BY ONLY <1>1, <4>1, <4>2, GotoMoves, t \in Threads
      <4> HIDE DEF r
      <4> QED BY <4>3
    <3> QED BY <2>2, <3>1, <3>2
  <2>4. late \subseteq late' /\ (Clean' => Clean) BY <2>1, LateWrites
  <2>5. Sure(t)' /\ Passed(t, SaleWriters) BY <1>2, <2>1, <2>3
  <2>6. Clean' /\ venta.anulada => cuenta' = "anulada" BY <2>1, <2>4 DEF OverlapInv
  <2> QED BY <2>1, <2>3, <2>4, <2>5, <2>6, OverlapStep
<1>6. CASE RestoreWrite(t)
  <2>1. /\ venta' = venta /\ returned' = returned /\ repeats' = repeats /\ thread[t].step = "releasing"
        /\ Overtakes(t, {}) /\ WritesLate(t, "release")
    BY <1>6 DEF RestoreWrite
  <2>2. PICK q \in ThreadStates :
          /\ thread' = [thread EXCEPT ![t] = q]
          /\ q.step \in {"idle", "submitting", "applied"}
    BY <1>6, AppliedAgrees DEF RestoreWrite
  <2>3. late \subseteq late' /\ (Clean' => Clean /\ t \notin overtaken) BY <2>1, LateWrites
  <2>4. Clean' => ~venta.anulada BY <2>1, <2>3 DEF Sure
  <2>5. Sure(t)' /\ Passed(t, {}) BY <1>2, <2>1, <2>2 DEF Annuls
  <2> QED BY <2>1, <2>2, <2>3, <2>4, <2>5, OverlapStep
<1> QED BY <1>3, <1>4, <1>5, <1>6

\* The annulment: it overtakes whoever was to write, and counts itself as one
\* more if the sale was annulled after its own read.
LEMMA OverlapAnnuls ==
  ASSUME OverlapInv, IInv', NEW t \in Threads, FinalizeCommit(t)
  PROVE  OverlapInv'
<1>1. IInv /\ Sure(t) /\ thread[t].step = "annulling" BY DEF OverlapInv, FinalizeCommit
<1>2. /\ venta'.anulada /\ venta'.req = venta.req /\ cuenta' = "anulada"
      /\ returned' = returned + 1 /\ late' = late /\ Overtakes(t, AnnulWriters)
      /\ repeats' = IF t \in overtaken THEN repeats + 1 ELSE repeats
  BY <1>1, Unmoved DEF FinalizeCommit, VentaRows
<1>3. Clean' = Clean BY <1>2 DEF Clean
<1>4. PICK q \in ThreadStates :
        /\ thread' = [thread EXCEPT ![t] = q]
        /\ q.step \in {"idle", "submitting", "applied"}
  BY <1>1, AppliedAgrees DEF FinalizeCommit
<1>5. thread'[t] = q /\ \A u \in Threads \ {t} : thread'[u] = thread[u]
  BY <1>1, <1>4 DEF IInv, TypeOK
<1>6. t \notin overtaken' /\ Passed(t, AnnulWriters) BY <1>2 DEF Overtakes, Passed
<1>7. ASSUME NEW u \in Threads PROVE Sure(u)'
  <2>1. CASE u = t BY <1>4, <1>5, <1>6, <2>1 DEF Sure, Annuls
  <2>2. CASE u # t
    <3>1. thread'[u] = thread[u] /\ Sure(u) /\ (u \in overtaken' <=> u \in overtaken \/ thread[u].step \in AnnulWriters)
      BY <1>5, <1>6, <2>2 DEF Passed, OverlapInv
    <3> QED BY <1>2, <1>3, <3>1 DEF Sure, AnnulWriters, SaleWriters
  <2> QED BY <2>1, <2>2
<1>8. ReturnedOnce'
  <2>1. t \in overtaken <=> venta.anulada BY <1>1 DEF Sure
  <2>2. returned = repeats + (IF venta.anulada THEN 1 ELSE 0) /\ returned \in Nat /\ repeats \in Nat
    BY DEF OverlapInv, ReturnedOnce, IInv, TypeOK
  <2> QED BY <1>2, <2>1, <2>2 DEF ReturnedOnce
<1>9. Clean' => venta'.req BY <1>1, <1>2, <1>3 DEF Sure, Annuls
<1> QED BY <1>2, <1>7, <1>8, <1>9 DEF OverlapInv

\* Nobody is overtaken at first.
LEMMA OverlapInit == Init => OverlapInv
  BY InvInit, IdleGood DEF Init, OverlapInv, Sure, Annuls, Clean, ReturnedOnce

\* Every step keeps what the threads are sure of.
LEMMA OverlapNext == OverlapInv /\ [Next]_vars => OverlapInv'
<1> SUFFICES ASSUME OverlapInv, [Next]_vars PROVE OverlapInv' OBVIOUS
<1>1. IInv' BY InvNext DEF OverlapInv
<1>2. CASE \E t \in Threads : ThreadStep(t) \/ ThreadFault(t)
  BY <1>1, <1>2, OverlapMoves, OverlapWrites, OverlapAnnuls DEF ThreadStep, ThreadFault
<1>3. CASE \E t \in Threads :
             Cron(t) \/ Operator(t) \/ \E e \in events : WebhookBegin(t, e)
  BY <1>1, <1>3, OverlapStarts DEF Cron, Operator
<1>4. CASE Crash
  <2>1. \A t \in Threads : thread'[t] = Idle BY <1>4 DEF Crash
  <2>2. UNCHANGED <<venta, cuenta, returned, repeats, late>> /\ overtaken' = {} BY <1>4 DEF Crash
  <2> QED BY <1>1, <2>1, <2>2, IdleGood DEF OverlapInv, Sure, Annuls, Clean, ReturnedOnce
<1>5. CASE \E status \in Answers : BillingSettles(status)
  <2>1. UNCHANGED <<venta, cuenta, thread, returned, overtaken, repeats, late>>
    BY <1>5 DEF BillingSettles, history
  <2> QED BY <1>1, <2>1 DEF OverlapInv, Sure, Clean, ReturnedOnce
<1>6. CASE UNCHANGED vars BY <1>1, <1>6 DEF vars, OverlapInv, Sure, Clean, ReturnedOnce
<1> QED BY <1>2, <1>3, <1>4, <1>5, <1>6 DEF Next

\* The goods come back with the annulment and once, and once more for each
\* annulment whose thread was overtaken, whatever overlaps, is lost, repeated or
\* interrupted.
THEOREM ReturnsOnce == Spec => []ReturnedOnce
<1>1. OverlapInv => ReturnedOnce BY DEF OverlapInv
<1> QED BY <1>1, OverlapInit, OverlapNext, PTL DEF Spec

\* An annulled sale leaves nothing to collect, unless an overtaken request or
\* release wrote its account.
THEOREM OwesNothing == Spec => []AnnulledOwesNothing
<1>1. OverlapInv => AnnulledOwesNothing BY DEF OverlapInv, AnnulledOwesNothing, Clean
<1> QED BY <1>1, OverlapInit, OverlapNext, PTL DEF Spec

----------------------------------------
(* The refinement: what Billing does with the request is Decide or Resubmit *)
(* of CommercialEffects, the first annulment is Apply, the rest stutters.   *)

\* A sale whose void nobody asked for is a pending reversal.
LEMMA ReversalInit == Init => Reversal!Init
  BY DEF Init, NoRequest, Verdict, Reversal!Init

\* To be asked for and to be sent are the same to the shop: no answer yet.
LEMMA AskingIsPending ==
  ASSUME BillingMoves("NONE", "PENDING") \/ BillingMoves("PENDING", "SUBMITTED")
  PROVE  Verdict' = Verdict
  BY DEF BillingMoves, Verdict

\* A step of the void is a step of the abstract reversal or leaves it as it is.
LEMMA ReversalStep ==
  OverlapInv /\ OverlapInv' /\ [Next]_vars => [Reversal!Next]_<<Verdict, returned - repeats>>
<1> SUFFICES ASSUME OverlapInv, OverlapInv', [Next]_vars
             PROVE  Reversal!Next \/ UNCHANGED <<Verdict, returned - repeats>>
  OBVIOUS
<1>0. /\ returned - repeats = IF venta.anulada THEN 1 ELSE 0
      /\ (returned - repeats)' = IF venta'.anulada THEN 1 ELSE 0
  <2>1. returned = repeats + (IF venta.anulada THEN 1 ELSE 0) /\ repeats \in Nat
    BY DEF OverlapInv, ReturnedOnce, IInv, TypeOK
  <2>2. returned' = repeats' + (IF venta'.anulada THEN 1 ELSE 0) /\ repeats' \in Nat
    BY DEF OverlapInv, ReturnedOnce, IInv, TypeOK
  <2>3. PICK n, m : n = (IF venta.anulada THEN 1 ELSE 0) /\ m = (IF venta'.anulada THEN 1 ELSE 0)
    OBVIOUS
  <2>4. \A a \in Nat : \A c \in {0, 1} : (a + c) - a = c OBVIOUS
  <2>5. returned = repeats + n /\ returned' = repeats' + m /\ n \in {0, 1} /\ m \in {0, 1}
    BY <2>1, <2>2, <2>3
  <2>6. returned - repeats = n /\ returned' - repeats' = m BY <2>1, <2>2, <2>4, <2>5
  <2> QED BY <2>3, <2>6
<1>1. ASSUME NEW t \in Threads,
             PostAnswered(t) \/ SubmitAnswered(t) \/ AnswerLost(t)
      PROVE  UNCHANGED <<Verdict, returned - repeats>>
  BY <1>1, AskingIsPending DEF PostAnswered, SubmitAnswered, AnswerLost, history
<1>2. ASSUME billing' = billing, returned' = returned, repeats' = repeats
      PROVE  UNCHANGED <<Verdict, returned - repeats>>
  BY <1>2 DEF Verdict
<1>3. ASSUME NEW t \in Threads, FinalizeCommit(t)
      PROVE  Reversal!Next \/ UNCHANGED <<Verdict, returned - repeats>>
  <2>1. billing.status = "ACCEPTED"
    BY <1>3 DEF FinalizeCommit, OverlapInv, IInv, KnowledgeInv, Annuls
  <2>2. billing' = billing BY <1>3 DEF FinalizeCommit
  <2>3. Verdict = "accepted" /\ Verdict' = Verdict BY <2>1, <2>2 DEF Verdict
  <2>4. venta'.anulada BY <1>3 DEF FinalizeCommit, OverlapInv, IInv, TypeOK, VentaRows
  <2>5. (returned - repeats)' = 1 /\ returned - repeats \in {0, 1} BY <1>0, <2>4
  <2> QED BY <2>3, <2>5 DEF Reversal!Next, Reversal!Apply
<1>4. ASSUME NEW t \in Threads, RetryDocument(t)
      PROVE  Reversal!Next \/ UNCHANGED <<Verdict, returned - repeats>>
  <2>0. returned' = returned /\ repeats' = repeats BY <1>4 DEF RetryDocument, history
  <2>1. CASE billing.status \in {"REJECTED", "FAILED"}
    <3>1. Verdict = "rejected" /\ Verdict' = "pending" BY <1>4, <2>1 DEF RetryDocument, Verdict
    <3> QED BY <2>0, <3>1 DEF Reversal!Next, Reversal!Resubmit
  <2>2. CASE billing.status \notin {"REJECTED", "FAILED"}
    BY <1>2, <1>4, <2>0, <2>2 DEF RetryDocument
  <2> QED BY <2>1, <2>2
<1>5. ASSUME NEW status \in Answers, BillingSettles(status)
      PROVE  Reversal!Next \/ UNCHANGED <<Verdict, returned - repeats>>
  <2>1. Verdict = "pending" /\ returned' = returned /\ repeats' = repeats
    BY <1>5 DEF BillingSettles, Verdict, history
  <2>2. Verdict' \in {"pending", "accepted", "rejected"} BY DEF Verdict
  <2> QED BY <2>1, <2>2 DEF Reversal!Next, Reversal!Decide
<1>6. ASSUME NEW t \in Threads,
             \/ ThreadStep(t) \/ ThreadFault(t) \/ Cron(t) \/ Operator(t)
             \/ \E e \in events : WebhookBegin(t, e),
             ~PostAnswered(t), ~SubmitAnswered(t), ~AnswerLost(t),
             ~FinalizeCommit(t), ~RetryDocument(t)
      PROVE  billing' = billing /\ returned' = returned /\ repeats' = repeats
  <2>1. CASE ThreadStep(t) \/ ThreadFault(t)
    BY <1>6, <2>1
    DEF ThreadStep, ThreadFault, RequestCommit, GetKnown, MarkDone,
        HandleFailure, ApplyRead, ApplyWrite, FinalizeRead, RestoreRead,
        RestoreWrite, WebhookRelease, RetryRequeue, StoreError, CallFailed, history
  <2>2. CASE \/ Cron(t) \/ Operator(t)
             \/ \E e \in events : WebhookBegin(t, e)
    BY <1>6, <2>2
    DEF Cron, Operator, Claim, Reconcile, Poll, Request, Consult, RetryRead,
        WebhookBegin, history
  <2> QED BY <1>6, <2>1, <2>2
<1>7. CASE Crash \/ UNCHANGED vars BY <1>2, <1>7 DEF Crash, vars
<1> QED BY <1>1, <1>2, <1>3, <1>4, <1>5, <1>6, <1>7 DEF Next

\* The void implements the abstract reversal: whatever overlaps, is lost,
\* repeated or interrupted, and but for the annulments of overtaken threads, the
\* goods come back after one acceptance of SUNAT, once.
THEOREM VoidImplementsReversal == Spec => ImplementsReversal
<1>1. OverlapInv /\ OverlapInv' /\ [Next]_vars => [Reversal!Next]_<<Verdict, returned - repeats>>
  BY ReversalStep
<1> QED BY <1>1, OverlapInit, OverlapNext, ReversalInit, PTL
        DEF Spec, ImplementsReversal, Reversal!Spec

----------------------------------------
(* What the routes decide is announced by Notifications: no event tells it, *)
(* so a change is covered by the two ticks whose passes can see it.         *)

LasFuentes == {"empresa", "venta", "nota", "recibo", "pago", "liquidacion", "stock"}
Dominio    == LasFuentes \cup {"plan", "limite"}
Palabras   == {"pendiente", "aceptado", "rechazado", "error", "ninguna", "pagado", "anulado", "creada",
               "bastante", "poco", "agotado", "vigente", "porVencer", "vencido", "bajo", "80", "100"}
FilaRows   == [estado : Palabras, at : Nat, creada : Nat]
ClaveRows  == Dominio \X Palabras \X Nat \X {"empresa", "admin"}
Apuntes    == [clave : ClaveRows, para : (SUBSET (Usuarios \cup {"admin"})) \ {{}}]
PasoRows(S) == [tick : Nat, desde : Int, leer : Seq(S), escribir : Seq(Apuntes),
                luego : BOOLEAN, entero : BOOLEAN]
Pasadas    == Pases \cup {"hora"}
Lee(p)     == IF p = "hora" THEN {"plan", "limite"} ELSE LasFuentes \cap Filas

\* The rows, the members and the passes.  A pass that lasts belongs to a process that is up.
RowsTyped ==
  /\ jornada \in Jornadas /\ reloj \in Nat
  /\ filas \in [Filas -> FilaRows]
  /\ \A d \in Filas : filas[d].at <= reloj /\ filas[d].creada <= reloj
  /\ Propietario \in activos /\ activos \subseteq Usuarios
  /\ limpia \in [hora : Nat, stock : Nat] /\ limpia.stock <= reloj /\ limpia.hora <= reloj
PasoOK(p) ==
  /\ pases[p] \in PasoRows(Lee(p))
  /\ pases[p].tick <= reloj
  /\ p = "hora" => ~pases[p].luego
  /\ (p = "hora" \/ pases[p].luego) => pases[p].desde = 0
PasesTyped ==
  /\ pases = [p \in Pasadas |-> pases[p]]
  /\ \A p \in Pasadas : PasoOK(p)
  /\ ~encendido => \A p \in Pasadas : pases[p] = Ocioso
Typed == RowsTyped /\ PasesTyped

\* What a step of a pass has still to read, or to write, of a row.
InLeer(d, paso) == \E n \in DOMAIN paso.leer : paso.leer[n] = d
Told(d, paso) ==
  \A i \in DOMAIN Claves(d) :
     \/ Noticed(Claves(d)[i])
     \/ \E n \in DOMAIN paso.escribir : paso.escribir[n].clave = Claves(d)[i]
Still(d, paso)  == InLeer(d, paso) \/ Told(d, paso)
StillTold(d, p) == InLeer(d, pases[p]) \/ Told(d, pases[p])
Announced(d) == filas[d].estado \in Anuncia(d)

\* Each of the two ticks that can see a change was missed, or its pass is still at it,
\* or the notices are there.
Covered(d, t) ==
  \/ t \in faltas \/ AllNoticed(d)
  \/ \E p \in Pases \ {"hora"} :
       pases[p].tick = t /\ ~pases[p].luego /\ pases[p].desde <= Marca(d) /\ StillTold(d, p)
EachTickCovers ==
  \A i \in DOMAIN Fuentes : Announced(Fuentes[i]) =>
    \A t \in {Marca(Fuentes[i]) + 1, Marca(Fuentes[i]) + 2} : t <= reloj => Covered(Fuentes[i], t)

\* The pass of the hour and the initial scan leave nothing out that was there when they began.
OfTheHour(d) == d \in {"plan", "limite"} /\ Announced(d) /\ (d = "limite" => filas["plan"].estado # "vencido")
HourSees ==
  \A d \in {"plan", "limite"} : OfTheHour(d) =>
    /\ filas[d].at < pases["hora"].tick => StillTold(d, "hora")
    /\ filas[d].at < limpia.hora => AllNoticed(d)
ScanSees ==
  Announced("stock") =>
    /\ \A p \in Pases \ {"hora"} :
         pases[p].luego /\ filas["stock"].at < pases[p].tick => StillTold("stock", p)
    /\ filas["stock"].at < limpia.stock => AllNoticed("stock")
NoticeInv == Typed /\ EachTickCovers /\ HourSees /\ ScanSees

----------------------------------------
\* The sources of a day are rows, and so are the plan, its limit and the stock.
LEMMA SourcesAreRows ==
  ASSUME Typed
  PROVE  /\ Filas \subseteq Dominio /\ {"stock", "plan", "limite"} \subseteq Filas
         /\ Fuentes \in Seq(LasFuentes)
         /\ \A i \in DOMAIN Fuentes : Fuentes[i] \in LasFuentes \cap Filas
<1>1. jornada \in Jornadas BY DEF Typed, RowsTyped
<1>2. Fuentes \in Seq(LasFuentes) BY <1>1, NotificationsAssumption DEF Fuentes, LasFuentes
<1>3. \A i \in DOMAIN Fuentes : Fuentes[i] \in LasFuentes BY <1>2
<1>4. Seguidas \subseteq Dominio BY <1>3 DEF Seguidas, Dominio
<1>5. \A i \in DOMAIN Fuentes : Fuentes[i] \in Seguidas BY DEF Seguidas
<1>6. Seguidas \subseteq Filas /\ {"stock", "plan", "limite"} \subseteq Filas BY DEF Filas
<1>7. Filas \subseteq Dominio BY <1>4 DEF Filas, Dominio, LasFuentes
<1> QED BY <1>2, <1>3, <1>5, <1>6, <1>7

\* What is followed does not change while the day lasts.
LEMMA SourcesStay ==
  ASSUME jornada' = jornada
  PROVE  /\ Fuentes' = Fuentes /\ Filas' = Filas /\ Seguidas' = Seguidas
         /\ \A p \in Pasadas : Lee(p)' = Lee(p)
BY DEF Fuentes, Filas, Seguidas, Lee

\* Whoever a row is announced to is a company or the platform.
LEMMA AudiencesTyped ==
  ASSUME NEW d
  PROVE  /\ Audiencias(d) \in Seq({"empresa", "admin"})
         /\ \A i \in DOMAIN Audiencias(d) : Audiencias(d)[i] \in {"empresa", "admin"}
         /\ DOMAIN Audiencias(d) = 1..Len(Audiencias(d)) /\ Len(Audiencias(d)) \in Nat
<1>1. Audiencias(d) \in {<<"empresa">>, <<"admin">>, <<"empresa", "admin">>} BY DEF Audiencias
<1>2. Audiencias(d) \in Seq({"empresa", "admin"})
  <2>1. <<"empresa">> \in Seq({"empresa", "admin"}) /\ <<"admin">> \in Seq({"empresa", "admin"})
    OBVIOUS
  <2>2. <<"empresa", "admin">> \in Seq({"empresa", "admin"}) OBVIOUS
  <2> QED BY <1>1, <2>1, <2>2
<1> QED BY <1>2

\* A row has a key for each of its audiences, and somebody to tell: the owner stays.
LEMMA KeysTyped ==
  ASSUME Typed, NEW d \in Filas
  PROVE  /\ DOMAIN Claves(d) = 1..Len(Audiencias(d))
         /\ \A i \in DOMAIN Claves(d) : Claves(d)[i] \in ClaveRows
         /\ \A i \in DOMAIN Claves(d) :
              /\ Destinatarios(Claves(d)[i]) # {}
              /\ Destinatarios(Claves(d)[i]) \subseteq Usuarios \cup {"admin"}
<1>1. DOMAIN Claves(d) = 1..Len(Audiencias(d)) BY AudiencesTyped DEF Claves
<1>2. filas[d] \in FilaRows /\ d \in Dominio BY SourcesAreRows DEF Typed, RowsTyped
<1>3. filas[d].estado \in Palabras /\ filas[d].at \in Nat BY <1>2 DEF FilaRows
<1>4. ASSUME NEW i \in DOMAIN Claves(d)
      PROVE  Claves(d)[i] \in ClaveRows
  <2>1. Audiencias(d)[i] \in {"empresa", "admin"} /\ i \in DOMAIN Audiencias(d)
    BY <1>1, <1>4, AudiencesTyped
  <2>2. Claves(d)[i] = <<d, filas[d].estado, IF d = "stock" THEN filas[d].at ELSE 0, Audiencias(d)[i]>>
    BY <2>1 DEF Claves
  <2> QED BY <1>2, <1>3, <2>1, <2>2 DEF ClaveRows
<1>5. Propietario \in activos /\ activos \subseteq Usuarios BY DEF Typed, RowsTyped
<1>6. ASSUME NEW k PROVE Destinatarios(k) # {} /\ Destinatarios(k) \subseteq Usuarios \cup {"admin"}
  BY <1>5 DEF Destinatarios
<1> QED BY <1>1, <1>4, <1>6

\* A pass that is not under way is a pass.
LEMMA IdleTyped ==
  ASSUME NEW S
  PROVE  /\ Ocioso \in PasoRows(S) /\ Ocioso.tick = 0 /\ Ocioso.luego = FALSE /\ Ocioso.desde = 0
BY DEF Ocioso, PasoRows

\* It has no tick and scans nothing.
LEMMA IdleFields == Ocioso.tick = 0 /\ Ocioso.luego = FALSE
BY DEF Ocioso

\* A pass of what is recent reads every source from two ticks back.
LEMMA RecentTyped ==
  ASSUME NEW tick \in Nat, NEW S, Fuentes \in Seq(S)
  PROVE  /\ Recent(tick) \in PasoRows(S) /\ Recent(tick).tick = tick /\ ~Recent(tick).luego
         /\ Recent(tick).desde = tick - 2 /\ Recent(tick).leer = Fuentes
<1>1. PICK f \in Seq(S) : f = Fuentes OBVIOUS
<1>2. PICK m \in Int : m = tick - 2 OBVIOUS
<1>3. PICK T : T = Seq(S) OBVIOUS
<1>4. PICK E : E = Seq(Apuntes) OBVIOUS
<1>5. PICK R : R = [tick : Nat, desde : Int, leer : T, escribir : E, luego : BOOLEAN, entero : BOOLEAN]
  OBVIOUS
<1>6. R = PasoRows(S) BY <1>3, <1>4, <1>5 DEF PasoRows
<1>7. PICK o \in R : o = Ocioso /\ o.luego = FALSE BY <1>6, IdleTyped
<1>8. PICK r : r = [o EXCEPT !.tick = tick, !.leer = f, !.desde = m] OBVIOUS
<1>9. r \in R BY <1>1, <1>2, <1>3, <1>5, <1>7, <1>8
<1>10. r.tick = tick /\ r.leer = f /\ r.desde = m /\ r.luego = o.luego BY <1>5, <1>7, <1>8
<1>11. r = Recent(tick) BY <1>1, <1>2, <1>7, <1>8 DEF Recent, Ventana
<1> QED BY <1>1, <1>2, <1>6, <1>7, <1>9, <1>10, <1>11

----------------------------------------
\* What stays noticed, and in hand.
NoticesStay == DOMAIN avisos \subseteq DOMAIN avisos'
RowStays(d) == filas'[d] = filas[d]
\* If a row does not change, neither do its keys; what was noticed stays so, and a pass that was
\* at it still is.
LEMMA NoticedStays ==
  ASSUME NoticesStay, NEW d, RowStays(d)
  PROVE  /\ Claves(d)' = Claves(d) /\ Marca(d)' = Marca(d) /\ Announced(d)' = Announced(d)
         /\ AllNoticed(d) => AllNoticed(d)'
         /\ \A p \in Pasadas : pases'[p] = pases[p] /\ StillTold(d, p) => StillTold(d, p)'
<1>1. Claves(d)' = Claves(d) /\ Marca(d)' = Marca(d) /\ Announced(d)' = Announced(d)
  BY DEF RowStays, Claves, Marca, Announced, Audiencias, Anuncia
<1>2. AllNoticed(d) => AllNoticed(d)' BY <1>1 DEF AllNoticed, Noticed, NoticesStay
<1>3. ASSUME NEW p \in Pasadas, pases'[p] = pases[p], StillTold(d, p)
      PROVE  StillTold(d, p)'
  BY <1>1, <1>3 DEF StillTold, InLeer, Told, Noticed, NoticesStay
<1> QED BY <1>1, <1>2, <1>3

\* A pass goes on with a row: its notices are there, its tick was lost, or the pass
\* is the same one and still at it.
SamePass(p) == /\ pases'[p].tick = pases[p].tick /\ pases'[p].desde = pases[p].desde
               /\ pases'[p].luego = pases[p].luego
CarriesOn(p, d) ==
  StillTold(d, p) => \/ AllNoticed(d)'
                     \/ pases[p].tick \in faltas'
                     \/ SamePass(p) /\ StillTold(d, p)'
\* When no row and no clock moves, a tick still covers a change if each pass that covered it goes
\* on, ends with the notices made, or leaves its tick among the missed ones.
LEMMA CoverKept ==
  ASSUME Typed, EachTickCovers, NoticesStay, filas' = filas, jornada' = jornada, reloj' = reloj,
         faltas \subseteq faltas',
         \A d \in LasFuentes \cap Filas : \A p \in Pases \ {"hora"} :
            pases[p].tick >= 1 /\ ~pases[p].luego /\ pases[p].desde <= Marca(d) /\ Announced(d)
              => CarriesOn(p, d)
  PROVE  EachTickCovers'
<1> SUFFICES ASSUME NEW i \in DOMAIN Fuentes, Announced(Fuentes[i])',
                    NEW t \in {Marca(Fuentes[i])' + 1, Marca(Fuentes[i])' + 2}, t <= reloj'
             PROVE  Covered(Fuentes[i], t)'
  BY SourcesStay DEF EachTickCovers
<1>1. PICK d \in LasFuentes \cap Filas : d = Fuentes[i] BY SourcesAreRows
<1>2. Fuentes' = Fuentes BY SourcesStay
<1>3. Marca(d)' = Marca(d) /\ Announced(d)' = Announced(d) BY NoticedStays DEF RowStays
<1>4. Announced(d) /\ t \in {Marca(d) + 1, Marca(d) + 2} /\ t <= reloj BY <1>1, <1>2, <1>3
<1>5. Covered(d, t) BY <1>1, <1>4 DEF EachTickCovers
<1>6. filas[d] \in FilaRows /\ Marca(d) \in Nat BY DEF Typed, RowsTyped, FilaRows, Marca
<1>7. Covered(d, t)'
  <2>1. CASE t \in faltas \/ AllNoticed(d) BY <2>1, NoticedStays DEF Covered, RowStays
  <2>2. CASE ~(t \in faltas \/ AllNoticed(d))
    <3>1. PICK p \in Pases \ {"hora"} :
             pases[p].tick = t /\ ~pases[p].luego /\ pases[p].desde <= Marca(d) /\ StillTold(d, p)
      BY <1>5, <2>2 DEF Covered
    <3>2. CarriesOn(p, d) BY <1>1, <1>4, <1>6, <3>1
    <3>3. CASE AllNoticed(d)' \/ t \in faltas' BY <3>3 DEF Covered
    <3>4. CASE SamePass(p) /\ StillTold(d, p)' BY <1>3, <3>1, <3>4 DEF Covered, SamePass
    <3> QED BY <3>1, <3>2, <3>3, <3>4 DEF CarriesOn
  <2> QED BY <2>1, <2>2
<1> QED BY <1>1, <1>2, <1>7

----------------------------------------
\* A pass that goes on, or ends, keeps its type; what it leaves in limpia is its own tick, if it
\* was whole.
LEMMA StepTyped ==
  ASSUME Typed, NEW p \in Pasadas, NEW paso \in PasoRows(Lee(p)), pases[p] # Ocioso,
         paso.tick = pases[p].tick, paso.desde = pases[p].desde, paso.luego = pases[p].luego,
         GoesOn(p, paso), filas' = filas, jornada' = jornada, reloj' = reloj, activos' = activos,
         encendido' = encendido
  PROVE  /\ Typed'
         /\ \A q \in Pasadas : q # p => pases'[q] = pases[q]
         /\ \/ /\ ~(paso.leer = <<>> /\ paso.escribir = <<>>)
               /\ pases'[p] = paso /\ limpia' = limpia
            \/ /\ paso.leer = <<>> /\ paso.escribir = <<>>
               /\ ~pases'[p].luego
               /\ p = "hora" => pases'[p].tick = 0
               /\ p = "hora" => limpia'.stock = limpia.stock /\ limpia'.hora \in {limpia.hora, paso.tick}
               /\ p # "hora" => limpia'.hora = limpia.hora
               /\ p # "hora" => \/ limpia'.stock = limpia.stock
                                \/ paso.luego /\ limpia'.stock = paso.tick
               /\ ~paso.entero => limpia' = limpia
<1> DEFINE fin == paso.leer = <<>> /\ paso.escribir = <<>>
<1>1. PasoOK(p) /\ reloj \in Nat /\ pases = [q \in Pasadas |-> pases[q]] /\ DOMAIN pases = Pasadas
  BY DEF Typed, PasesTyped, RowsTyped
<1>2. pases[p].tick \in Nat /\ paso.tick \in Nat BY DEF PasoRows
<1>3. encendido BY DEF Typed, PasesTyped
<1>4. /\ pases'[p] = IF ~fin THEN paso ELSE IF paso.luego THEN Recent(reloj) ELSE Ocioso
      /\ \A q \in Pasadas : q # p => pases'[q] = pases[q]
      /\ pases' = [q \in Pasadas |-> pases'[q]]
  BY <1>1 DEF GoesOn
<1>5. p # "hora" => /\ Recent(reloj) \in PasoRows(Lee(p)) /\ Recent(reloj).tick = reloj
                    /\ ~Recent(reloj).luego
  BY <1>1, RecentTyped, SourcesAreRows DEF Lee
<1>6. p = "hora" => ~paso.luego BY <1>1 DEF PasoOK
<1>7. PasoOK(p)'
  <2>1. Lee(p)' = Lee(p) BY SourcesStay
  <2>2. CASE ~fin BY <1>1, <1>4, <2>1, <2>2 DEF PasoOK
  <2>3. CASE fin /\ paso.luego BY <1>1, <1>4, <1>5, <1>6, <2>1, <2>3 DEF PasoOK
  <2>4. CASE fin /\ ~paso.luego
    <3>1. pases'[p] = Ocioso BY <1>4, <2>4
    <3>2. /\ Ocioso \in PasoRows(Lee(p)) /\ Ocioso.tick = 0 /\ Ocioso.luego = FALSE /\ Ocioso.desde = 0
      BY IdleTyped
    <3> QED BY <1>1, <2>1, <3>1, <3>2 DEF PasoOK
  <2> QED BY <2>2, <2>3, <2>4
<1>8. ASSUME NEW q \in Pasadas PROVE PasoOK(q)'
  <2>1. Lee(q)' = Lee(q) BY SourcesStay
  <2>2. CASE q # p BY <1>4, <2>1, <2>2 DEF Typed, PasesTyped, PasoOK
  <2> QED BY <1>7, <2>2
<1>9. PasesTyped' BY <1>3, <1>4, <1>8 DEF PasesTyped
<1>10. limpia \in [hora : Nat, stock : Nat] /\ limpia.stock <= reloj /\ limpia.hora <= reloj
  BY DEF Typed, RowsTyped
<1>11. limpia' = IF ~fin \/ ~paso.entero THEN limpia
                  ELSE IF p = "hora" THEN [limpia EXCEPT !.hora = paso.tick]
                  ELSE IF paso.luego THEN [limpia EXCEPT !.stock = paso.tick] ELSE limpia
  BY DEF GoesOn
<1>12. paso.tick <= reloj BY <1>1 DEF PasoOK
<1>13. limpia' \in [hora : Nat, stock : Nat] /\ limpia'.stock <= reloj /\ limpia'.hora <= reloj
  BY <1>2, <1>10, <1>11, <1>12
<1>14. RowsTyped' BY <1>13, SourcesStay DEF Typed, RowsTyped
<1>15. CASE ~fin BY <1>4, <1>9, <1>11, <1>14, <1>15 DEF Typed
<1>16. CASE fin
  <2>1. ~pases'[p].luego /\ (p = "hora" => pases'[p].tick = 0) BY <1>4, <1>5, <1>6, <1>16, IdleTyped
  <2>2. /\ p = "hora" => limpia'.stock = limpia.stock /\ limpia'.hora \in {limpia.hora, paso.tick}
        /\ p # "hora" => limpia'.hora = limpia.hora
        /\ p # "hora" => \/ limpia'.stock = limpia.stock
                         \/ paso.luego /\ limpia'.stock = paso.tick
        /\ ~paso.entero => limpia' = limpia
    BY <1>10, <1>11, <1>16
  <2> QED BY <1>4, <1>9, <1>14, <1>16, <2>1, <2>2 DEF Typed
<1> QED BY <1>15, <1>16

\* What a pass is bound to announce of a row.
Bound(p, d) ==
  /\ Announced(d) /\ pases[p].desde <= Marca(d) /\ StillTold(d, p)
  /\ p = "hora" => OfTheHour(d)
\* A pass that goes on with all that it was bound to announce keeps the invariant.
LEMMA StepKeeps ==
  ASSUME NoticeInv, NEW p \in Pasadas, NEW paso \in PasoRows(Lee(p)), pases[p] # Ocioso,
         paso.tick = pases[p].tick, paso.desde = pases[p].desde, paso.luego = pases[p].luego,
         GoesOn(p, paso), filas' = filas, jornada' = jornada, reloj' = reloj, activos' = activos,
         encendido' = encendido, NoticesStay, faltas' = faltas,
         \A d \in Filas : Bound(p, d) => Still(d, paso)'
  PROVE  NoticeInv'
<1> DEFINE fin == paso.leer = <<>> /\ paso.escribir = <<>>
<1>0. Typed /\ Typed' BY StepTyped DEF NoticeInv
<1>1. /\ \A q \in Pasadas : q # p => pases'[q] = pases[q]
      /\ ~fin => pases'[p] = paso /\ limpia' = limpia
      /\ fin => /\ ~pases'[p].luego
                /\ p = "hora" => pases'[p].tick = 0
                /\ p = "hora" => limpia'.stock = limpia.stock /\ limpia'.hora \in {limpia.hora, paso.tick}
                /\ p # "hora" => limpia'.hora = limpia.hora
                /\ p # "hora" => \/ limpia'.stock = limpia.stock
                                 \/ paso.luego /\ limpia'.stock = paso.tick
  BY <1>0, StepTyped
<1>2. ASSUME NEW d \in Filas, Bound(p, d)
      PROVE  IF fin THEN AllNoticed(d)' ELSE StillTold(d, p)' /\ SamePass(p)
  <2>1. Still(d, paso)' BY <1>2
  <2>2. CASE fin BY <2>1, <2>2 DEF Still, InLeer, Told, AllNoticed
  <2>3. CASE ~fin BY <1>1, <2>1, <2>3 DEF Still, StillTold, InLeer, Told, SamePass
  <2> QED BY <2>2, <2>3
<1>3. ASSUME NEW d
      PROVE  /\ Claves(d)' = Claves(d) /\ Marca(d)' = Marca(d) /\ Announced(d)' = Announced(d)
             /\ AllNoticed(d) => AllNoticed(d)'
             /\ \A q \in Pasadas : pases'[q] = pases[q] /\ StillTold(d, q) => StillTold(d, q)'
  BY NoticedStays DEF RowStays
<1>4. EachTickCovers'
  <2>1. ASSUME NEW d \in LasFuentes \cap Filas, NEW q \in Pases \ {"hora"},
               pases[q].desde <= Marca(d), Announced(d)
        PROVE  CarriesOn(q, d)
    <3>1. CASE q # p BY <1>1, <1>3, <3>1 DEF CarriesOn, SamePass, Pasadas
    <3>2. CASE q = p
      <4>1. StillTold(d, q) => Bound(p, d) BY <2>1, <3>2 DEF Bound
      <4> QED BY <1>2, <3>2, <4>1 DEF CarriesOn
    <3> QED BY <3>1, <3>2
  <2>2. EachTickCovers /\ faltas \subseteq faltas' BY DEF NoticeInv
  <2> QED BY <1>0, <2>1, <2>2, CoverKept
<1>5. ASSUME NEW d \in {"plan", "limite"}, OfTheHour(d)'
      PROVE  /\ filas'[d].at < pases'["hora"].tick => StillTold(d, "hora")'
             /\ filas'[d].at < limpia'.hora => AllNoticed(d)'
  <2>1. d \in Filas /\ OfTheHour(d) /\ Announced(d) /\ Marca(d) = filas[d].at
    BY <1>0, <1>3, <1>5, SourcesAreRows DEF OfTheHour, Marca
  <2>2. "hora" \in Pasadas /\ filas[d].at \in Nat
    BY <1>0, <2>1 DEF Pasadas, Typed, RowsTyped, FilaRows
  <2>3. /\ filas[d].at < pases["hora"].tick => StillTold(d, "hora")
        /\ filas[d].at < limpia.hora => AllNoticed(d)
    BY <2>1 DEF NoticeInv, HourSees
  <2>4. CASE p # "hora" BY <1>1, <1>3, <2>2, <2>3, <2>4
  <2>5. CASE p = "hora"
    <3>1. pases[p].desde = 0 BY <1>0, <2>5 DEF Typed, PasesTyped, PasoOK
    <3>2. filas[d].at < paso.tick => Bound(p, d) BY <2>1, <2>2, <2>3, <2>5, <3>1 DEF Bound
    <3>3. CASE fin
      <4>1. pases'["hora"].tick = 0 /\ limpia'.hora \in {limpia.hora, paso.tick} BY <1>1, <2>5, <3>3
      <4>2. filas[d].at < paso.tick => AllNoticed(d)' BY <1>2, <2>1, <3>2, <3>3
      <4> QED BY <1>3, <2>2, <2>3, <4>1, <4>2
    <3>4. CASE ~fin
      <4>1. limpia' = limpia /\ pases'["hora"] = paso BY <1>1, <2>5, <3>4
      <4>2. filas[d].at < paso.tick => StillTold(d, "hora")' BY <1>2, <2>1, <2>5, <3>2, <3>4
      <4> QED BY <1>3, <2>3, <4>1, <4>2
    <3> QED BY <3>3, <3>4
  <2> QED BY <2>4, <2>5
<1>6. ASSUME Announced("stock")'
      PROVE  /\ \A q \in Pases \ {"hora"} :
                  pases'[q].luego /\ filas'["stock"].at < pases'[q].tick => StillTold("stock", q)'
             /\ filas'["stock"].at < limpia'.stock => AllNoticed("stock")'
  <2>1. "stock" \in Filas /\ Announced("stock") /\ Marca("stock") = filas["stock"].at
    BY <1>0, <1>3, <1>6, SourcesAreRows DEF Marca
  <2>2. filas["stock"].at \in Nat BY <1>0, <2>1 DEF Typed, RowsTyped, FilaRows
  <2>3. /\ \A q \in Pases \ {"hora"} :
             pases[q].luego /\ filas["stock"].at < pases[q].tick => StillTold("stock", q)
        /\ filas["stock"].at < limpia.stock => AllNoticed("stock")
    BY <2>1 DEF NoticeInv, ScanSees
  <2>4. p # "hora" /\ paso.luego /\ filas["stock"].at < paso.tick => Bound(p, "stock")
    <3>1. paso.luego => pases[p].desde = 0 BY <1>0 DEF Typed, PasesTyped, PasoOK
    <3> QED
      <4> SUFFICES ASSUME p # "hora", paso.luego, filas["stock"].at < paso.tick PROVE Bound(p, "stock")
        OBVIOUS
      <4>1. p \in Pases \ {"hora"} /\ pases[p].luego /\ filas["stock"].at < pases[p].tick
        BY DEF Pasadas
      <4>2. StillTold("stock", p) BY <2>3, <4>1
      <4>3. pases[p].desde <= Marca("stock") BY <2>1, <2>2, <3>1
      <4> QED BY <2>1, <4>2, <4>3 DEF Bound
  <2>5. ASSUME NEW q \in Pases \ {"hora"}, pases'[q].luego, filas["stock"].at < pases'[q].tick
        PROVE  StillTold("stock", q)'
    <3>1. CASE q # p BY <1>1, <1>3, <2>3, <2>5, <3>1 DEF Pasadas
    <3>2. CASE q = p BY <1>1, <1>2, <2>1, <2>4, <2>5, <3>2
    <3> QED BY <3>1, <3>2
  <2>6. ASSUME filas["stock"].at < limpia'.stock
        PROVE  AllNoticed("stock")'
    <3>1. CASE limpia'.stock = limpia.stock BY <1>3, <2>3, <2>6, <3>1
    <3>2. CASE limpia'.stock # limpia.stock
      <4>1. fin /\ p # "hora" /\ paso.luego /\ limpia'.stock = paso.tick BY <1>1, <3>2
      <4> QED BY <1>2, <2>1, <2>4, <2>6, <4>1
    <3> QED BY <3>1, <3>2
  <2> QED BY <2>5, <2>6
<1>7. HourSees' /\ ScanSees' BY <1>5, <1>6 DEF HourSees, ScanSees
<1> QED BY <1>0, <1>4, <1>7 DEF NoticeInv

----------------------------------------
\* Reading a source hands over what the pass was bound to announce of its row: the keys of a row
\* that is found are all to be written, and the rest of the sources is still to read.
LEMMA ReadKeeps ==
  ASSUME NoticeInv, NEW p \in Pasadas, ReadSource(p)
  PROVE  NoticeInv'
<1>0. Typed /\ pases[p] \in PasoRows(Lee(p)) /\ PasoOK(p)
  BY DEF NoticeInv, Typed, PasesTyped, PasoOK
<1>1. /\ pases[p].leer # <<>> /\ pases[p].leer \in Seq(Lee(p)) /\ pases[p].escribir = <<>>
  BY <1>0 DEF ReadSource, PasoRows
<1>2. PICK leer \in Seq(Lee(p)) : leer = pases[p].leer /\ leer # <<>> BY <1>1
<1>3. PICK c \in Lee(p) : c = Head(leer) BY <1>2
<1>4. c \in Filas /\ Lee(p) \subseteq Filas BY <1>0, <1>3, SourcesAreRows DEF Lee
<1>5. PICK resto : resto = IF c = "plan" /\ filas[c].estado = "vencido" THEN <<>> ELSE Tail(leer)
  OBVIOUS
<1>6. resto \in Seq(Lee(p)) BY <1>2, <1>5
<1>7. PICK escr : escr = IF Found(c, pases[p].desde)
                           THEN [i \in DOMAIN Claves(c) |->
                                   [clave |-> Claves(c)[i], para |-> Destinatarios(Claves(c)[i])]]
                           ELSE <<>>
  OBVIOUS
<1>8. escr \in Seq(Apuntes)
  <2>1. /\ DOMAIN Claves(c) = 1..Len(Audiencias(c)) /\ Len(Audiencias(c)) \in Nat
        /\ \A i \in DOMAIN Claves(c) :
             [clave |-> Claves(c)[i], para |-> Destinatarios(Claves(c)[i])] \in Apuntes
    BY <1>0, <1>4, KeysTyped, AudiencesTyped DEF Apuntes
  <2>2. [i \in DOMAIN Claves(c) |-> [clave |-> Claves(c)[i], para |-> Destinatarios(Claves(c)[i])]]
          \in Seq(Apuntes)
    BY <2>1
  <2>3. <<>> \in Seq(Apuntes) OBVIOUS
  <2> QED BY <1>7, <2>2, <2>3
<1>9. PICK T : T = Seq(Lee(p)) OBVIOUS
<1>10. PICK E : E = Seq(Apuntes) OBVIOUS
<1>11. PICK R : R = [tick : Nat, desde : Int, leer : T, escribir : E, luego : BOOLEAN, entero : BOOLEAN]
  OBVIOUS
<1>12. PICK o \in R : R = PasoRows(Lee(p)) /\ o = pases[p] /\ resto \in T /\ escr \in E
  BY <1>0, <1>6, <1>8, <1>9, <1>10, <1>11 DEF PasoRows
<1>13. PICK paso : paso = [o EXCEPT !.leer = resto, !.escribir = escr] OBVIOUS
<1>14. paso \in R BY <1>11, <1>12, <1>13
<1>15. /\ paso.leer = resto /\ paso.escribir = escr
       /\ paso.tick = o.tick /\ paso.desde = o.desde /\ paso.luego = o.luego
  BY <1>11, <1>12, <1>13
<1>16. /\ paso \in PasoRows(Lee(p)) /\ paso.leer = resto /\ paso.escribir = escr
       /\ paso.tick = pases[p].tick /\ paso.desde = pases[p].desde /\ paso.luego = pases[p].luego
  BY <1>12, <1>14, <1>15
<1>17. GoesOn(p, paso) BY <1>2, <1>3, <1>5, <1>7, <1>12, <1>13 DEF ReadSource
<1>18. /\ filas' = filas /\ jornada' = jornada /\ reloj' = reloj /\ activos' = activos
       /\ encendido' = encendido /\ NoticesStay /\ faltas' = faltas /\ avisos' = avisos
  BY DEF ReadSource, relojVars, NoticesStay
<1>19. pases[p] # Ocioso BY <1>1 DEF Ocioso
<1>20. ASSUME NEW d \in Filas, Bound(p, d)
       PROVE  Still(d, paso)'
  <2>1. /\ Claves(d)' = Claves(d)
        /\ Announced(d) /\ pases[p].desde <= Marca(d) /\ StillTold(d, p)
    BY <1>18, <1>20, NoticedStays DEF RowStays, Bound
  <2>2. CASE Told(d, pases[p])
    <3>1. AllNoticed(d) BY <1>1, <2>2 DEF Told, AllNoticed
    <3> QED BY <1>18, <2>1, <3>1 DEF Still, Told, AllNoticed, Noticed
  <2>3. CASE d = c
    <3>1. Found(c, pases[p].desde)
      <4>1. filas[c] \in FilaRows /\ pases[p].desde \in Int
        BY <1>0, <1>4 DEF Typed, RowsTyped, PasoRows
      <4>2. Marca(c) \in Nat BY <4>1 DEF Marca, FilaRows
      <4> QED BY <2>1, <2>3, <4>1, <4>2 DEF Found, InWindow, Announced
    <3>2. \A i \in DOMAIN Claves(d) : i \in DOMAIN escr /\ escr[i].clave = Claves(d)[i]
      BY <1>7, <2>3, <3>1
    <3> QED BY <1>16, <2>1, <3>2 DEF Still, Told
  <2>4. CASE d # c /\ InLeer(d, pases[p])
    <3>1. PICK m \in DOMAIN leer : leer[m] = d BY <1>2, <2>4 DEF InLeer
    <3>2. resto = Tail(leer)
      <4>1. CASE p = "hora"
        <5>1. OfTheHour(d) /\ c \in {"plan", "limite"} BY <1>3, <1>20, <4>1 DEF Bound, Lee
        <5> QED BY <1>5, <2>4, <5>1 DEF OfTheHour
      <4>2. CASE p # "hora"
        <5>1. c # "plan" BY <1>3, <4>2 DEF Lee, LasFuentes
        <5> QED BY <1>5, <5>1
      <4> QED BY <4>1, <4>2
    <3>3. m # 1 /\ m \in 1..Len(leer) /\ m - 1 \in DOMAIN resto /\ resto[m - 1] = d
      <4>1. Len(leer) \in Nat /\ DOMAIN leer = 1..Len(leer) /\ leer[1] = c BY <1>2, <1>3
      <4>2. m \in 1..Len(leer) /\ m # 1 BY <2>4, <3>1, <4>1
      <4>3. /\ DOMAIN resto = 1..(Len(leer) - 1)
            /\ \A k \in 1..(Len(leer) - 1) : resto[k] = leer[k + 1]
        BY <1>2, <3>2
      <4> QED BY <3>1, <4>2, <4>3
    <3> QED BY <1>16, <3>3 DEF Still, InLeer
  <2> QED BY <2>1, <2>2, <2>3, <2>4 DEF StillTold
<1> QED BY <1>17, <1>18, <1>19, <1>20, <1>16, StepKeeps

\* Writing a notice, or finding it written, makes its key noticed.
LEMMA CreateKeeps ==
  ASSUME NoticeInv, NEW p \in Pasadas, CreateAutomatic(p)
  PROVE  NoticeInv'
<1>0. Typed /\ pases[p] \in PasoRows(Lee(p)) BY DEF NoticeInv, Typed, PasesTyped, PasoOK
<1>1. PICK escribir \in Seq(Apuntes) : escribir = pases[p].escribir /\ escribir # <<>>
  BY <1>0 DEF CreateAutomatic, PasoRows
<1>2. PICK a \in Apuntes : a = Head(escribir) BY <1>1
<1>3. a.para # {} BY <1>2 DEF Apuntes
<1>4. DOMAIN avisos' = DOMAIN avisos \cup {a.clave} BY <1>1, <1>2, <1>3 DEF CreateAutomatic, Noticed
<1>5. PICK leer \in Seq(Lee(p)) : leer = pases[p].leer BY <1>0 DEF PasoRows
<1>6. PICK resto \in Seq(Apuntes) : resto = Tail(escribir)
  <2>1. Tail(escribir) \in Seq(Apuntes) BY <1>1
  <2> QED BY <2>1
<1>7. PICK T : T = Seq(Lee(p)) OBVIOUS
<1>8. PICK E : E = Seq(Apuntes) OBVIOUS
<1>9. PICK R : R = [tick : Nat, desde : Int, leer : T, escribir : E, luego : BOOLEAN, entero : BOOLEAN]
  OBVIOUS
<1>10. PICK o \in R : R = PasoRows(Lee(p)) /\ o = pases[p] /\ resto \in E
  BY <1>0, <1>6, <1>7, <1>8, <1>9 DEF PasoRows
<1>11. PICK paso : paso = [o EXCEPT !.escribir = resto] OBVIOUS
<1>12. paso \in R BY <1>9, <1>10, <1>11
<1>13. /\ paso.leer = o.leer /\ paso.escribir = resto
       /\ paso.tick = o.tick /\ paso.desde = o.desde /\ paso.luego = o.luego
  BY <1>9, <1>10, <1>11
<1>14. /\ paso \in PasoRows(Lee(p)) /\ paso.leer = leer /\ paso.escribir = resto
       /\ paso.tick = pases[p].tick /\ paso.desde = pases[p].desde /\ paso.luego = pases[p].luego
  BY <1>5, <1>10, <1>12, <1>13
<1>15. GoesOn(p, paso) BY <1>1, <1>6, <1>10, <1>11 DEF CreateAutomatic
<1>16. /\ filas' = filas /\ jornada' = jornada /\ reloj' = reloj /\ activos' = activos
       /\ encendido' = encendido /\ NoticesStay /\ faltas' = faltas
  BY <1>4 DEF CreateAutomatic, relojVars, NoticesStay
<1>17. pases[p] # Ocioso BY <1>1 DEF Ocioso
<1>18. ASSUME NEW d \in Filas, Bound(p, d)
       PROVE  Still(d, paso)'
  <2>1. Claves(d)' = Claves(d) /\ StillTold(d, p) BY <1>16, <1>18, NoticedStays DEF RowStays, Bound
  <2>2. CASE InLeer(d, pases[p]) BY <1>5, <1>14, <2>2 DEF Still, InLeer
  <2>3. CASE Told(d, pases[p])
    <3>1. ASSUME NEW i \in DOMAIN Claves(d)
          PROVE  \/ Claves(d)[i] \in DOMAIN avisos'
                 \/ \E m \in DOMAIN resto : resto[m].clave = Claves(d)[i]
      <4>1. CASE Noticed(Claves(d)[i]) BY <1>4, <4>1 DEF Noticed
      <4>2. CASE \E m \in DOMAIN escribir : escribir[m].clave = Claves(d)[i]
        <5>1. PICK m \in DOMAIN escribir : escribir[m].clave = Claves(d)[i] BY <4>2
        <5>2. CASE m = 1 BY <1>1, <1>2, <1>4, <5>1, <5>2
        <5>3. CASE m # 1
          <6>1. m - 1 \in DOMAIN resto /\ resto[m - 1] = escribir[m]
            <7>1. Len(escribir) \in Nat /\ m \in 1..Len(escribir) BY <5>1
            <7>2. /\ DOMAIN resto = 1..(Len(escribir) - 1)
                  /\ \A k \in 1..(Len(escribir) - 1) : resto[k] = escribir[k + 1]
              BY <1>1, <1>6
            <7> QED BY <5>3, <7>1, <7>2
          <6> QED BY <5>1, <6>1
        <5> QED BY <5>2, <5>3
      <4> QED BY <1>1, <2>3, <4>1, <4>2 DEF Told
    <3> QED BY <1>14, <2>1, <3>1 DEF Still, Told, Noticed
  <2> QED BY <2>1, <2>2, <2>3 DEF StillTold
<1> QED BY <1>15, <1>16, <1>17, <1>18, <1>14, StepKeeps

----------------------------------------
\* Passes that were cut: each is idle, or the one of what is recent after a scan, and what is known
\* of a tick goes to the missed ones.
Cut(p) ==
  /\ \/ pases'[p] = Ocioso
     \/ p # "hora" /\ pases'[p] = Recent(reloj)
  /\ (p \in Pases \ {"hora"} /\ ~pases[p].luego /\ pases[p] # Ocioso) => pases[p].tick \in faltas'
\* Passes that are cut lose no change that a tick should have covered: the tick is missed.
LEMMA CutKeeps ==
  ASSUME NoticeInv, NEW corte \in SUBSET Pasadas,
         \A p \in corte : Cut(p), \A p \in Pasadas \ corte : pases'[p] = pases[p],
         pases' = [p \in Pasadas |-> pases'[p]], faltas \subseteq faltas',
         ~encendido' => corte = Pasadas /\ \A p \in Pasadas : pases'[p] = Ocioso,
         encendido \/ encendido' = encendido,
         filas' = filas, jornada' = jornada, reloj' = reloj, activos' = activos, avisos' = avisos,
         limpia' = limpia
  PROVE  NoticeInv'
<1>0. Typed BY DEF NoticeInv
<1>1. reloj \in Nat /\ NoticesStay BY <1>0 DEF Typed, RowsTyped, NoticesStay
<1>2. ASSUME NEW p \in Pasadas, p # "hora"
      PROVE  /\ Recent(reloj) \in PasoRows(Lee(p)) /\ Recent(reloj).tick = reloj
             /\ ~Recent(reloj).luego
  BY <1>0, <1>1, <1>2, RecentTyped, SourcesAreRows DEF Lee
<1>3. ASSUME NEW p \in Pasadas PROVE PasoOK(p)'
  <2>1. Lee(p)' = Lee(p) BY SourcesStay
  <2>2. CASE pases'[p] = pases[p] BY <1>0, <2>1, <2>2 DEF Typed, PasesTyped, PasoOK
  <2>3. CASE pases'[p] = Ocioso
    <3>1. /\ Ocioso \in PasoRows(Lee(p)) /\ Ocioso.tick = 0 /\ Ocioso.luego = FALSE /\ Ocioso.desde = 0
      BY IdleTyped
    <3> QED BY <1>1, <2>1, <2>3, <3>1 DEF PasoOK
  <2>4. CASE p # "hora" /\ pases'[p] = Recent(reloj) BY <1>1, <1>2, <2>1, <2>4 DEF PasoOK
  <2> QED BY <2>2, <2>3, <2>4 DEF Cut
<1>4. PasesTyped' BY <1>3 DEF PasesTyped
<1>5. RowsTyped' BY <1>0, SourcesStay DEF Typed, RowsTyped
<1>6. ASSUME NEW d
      PROVE  /\ Claves(d)' = Claves(d) /\ Marca(d)' = Marca(d) /\ Announced(d)' = Announced(d)
             /\ AllNoticed(d) => AllNoticed(d)'
             /\ \A q \in Pasadas : pases'[q] = pases[q] /\ StillTold(d, q) => StillTold(d, q)'
  BY <1>1, NoticedStays DEF RowStays
<1>7. EachTickCovers'
  <2>1. ASSUME NEW d \in LasFuentes \cap Filas, NEW q \in Pases \ {"hora"},
               pases[q].tick >= 1, ~pases[q].luego
        PROVE  CarriesOn(q, d)
    <3>1. q \in Pasadas /\ pases[q] # Ocioso BY <2>1, IdleFields DEF Pasadas
    <3>2. CASE q \in corte BY <2>1, <3>1, <3>2 DEF CarriesOn, Cut
    <3>3. CASE q \notin corte BY <1>6, <3>1, <3>3 DEF CarriesOn, SamePass
    <3> QED BY <3>2, <3>3
  <2> QED BY <1>0, <1>1, <2>1, CoverKept DEF NoticeInv
<1>8. HourSees'
  <2> SUFFICES ASSUME NEW d \in {"plan", "limite"}, OfTheHour(d)'
               PROVE  /\ filas'[d].at < pases'["hora"].tick => StillTold(d, "hora")'
                      /\ filas'[d].at < limpia'.hora => AllNoticed(d)'
    BY DEF HourSees
  <2>1. OfTheHour(d) /\ d \in Filas /\ filas[d].at \in Nat /\ "hora" \in Pasadas
    BY <1>0, <1>6, SourcesAreRows DEF OfTheHour, Typed, RowsTyped, FilaRows, Pasadas
  <2>2. /\ filas[d].at < pases["hora"].tick => StillTold(d, "hora")
        /\ filas[d].at < limpia.hora => AllNoticed(d)
    BY <2>1 DEF NoticeInv, HourSees
  <2>3. pases'["hora"] = pases["hora"] \/ pases'["hora"].tick = 0 BY <2>1, IdleTyped DEF Cut
  <2> QED BY <1>6, <2>1, <2>2, <2>3
<1>9. ScanSees'
  <2> SUFFICES ASSUME Announced("stock")'
               PROVE  /\ \A q \in Pases \ {"hora"} :
                           pases'[q].luego /\ filas'["stock"].at < pases'[q].tick => StillTold("stock", q)'
                      /\ filas'["stock"].at < limpia'.stock => AllNoticed("stock")'
    BY DEF ScanSees
  <2>1. /\ \A q \in Pases \ {"hora"} :
             pases[q].luego /\ filas["stock"].at < pases[q].tick => StillTold("stock", q)
        /\ filas["stock"].at < limpia.stock => AllNoticed("stock")
    BY <1>6 DEF NoticeInv, ScanSees
  <2>2. \A q \in Pases \ {"hora"} : q \in Pasadas /\ (pases'[q] = pases[q] \/ ~pases'[q].luego)
    BY <1>2, IdleTyped DEF Cut, Pasadas
  <2> QED BY <1>6, <2>1, <2>2
<1> QED BY <1>4, <1>5, <1>7, <1>8, <1>9 DEF NoticeInv, Typed

\* A pass that fails is cut, and not counted as whole.
LEMMA FailKeeps ==
  ASSUME NoticeInv, NEW p \in Pasadas, PassFails(p)
  PROVE  NoticeInv'
<1>0. Typed /\ pases[p] \in PasoRows(Lee(p)) /\ PasoOK(p) /\ pases = [q \in Pasadas |-> pases[q]]
  BY DEF NoticeInv, Typed, PasesTyped, PasoOK
<1>1. PICK T : T = Seq(Lee(p)) OBVIOUS
<1>2. PICK E : E = Seq(Apuntes) OBVIOUS
<1>3. PICK o \in [tick : Nat, desde : Int, leer : T, escribir : E, luego : BOOLEAN, entero : BOOLEAN] :
         o = pases[p]
  BY <1>0, <1>1, <1>2 DEF PasoRows
<1>4. PICK paso : paso = [o EXCEPT !.leer = <<>>, !.escribir = <<>>, !.entero = FALSE] OBVIOUS
<1>5. paso.leer = <<>> /\ paso.escribir = <<>> /\ paso.entero = FALSE /\ paso.luego = o.luego
  BY <1>3, <1>4
<1>6. GoesOn(p, paso) BY <1>3, <1>4 DEF PassFails
<1>7. /\ limpia' = limpia
      /\ pases'[p] = IF paso.luego THEN Recent(reloj) ELSE Ocioso
      /\ \A q \in Pasadas \ {p} : pases'[q] = pases[q]
      /\ pases' = [q \in Pasadas |-> pases'[q]]
  BY <1>0, <1>5, <1>6 DEF GoesOn
<1>8. /\ filas' = filas /\ jornada' = jornada /\ reloj' = reloj /\ activos' = activos /\ avisos' = avisos
      /\ encendido' = encendido /\ pases[p] # Ocioso
      /\ faltas' = IF p = "hora" \/ pases[p].luego THEN faltas ELSE faltas \cup {pases[p].tick}
  BY DEF PassFails, EnCurso
<1>9. encendido BY <1>0, <1>8 DEF Typed, PasesTyped
<1>10. p = "hora" => ~pases[p].luego BY <1>0 DEF PasoOK
<1>11. Cut(p) BY <1>3, <1>5, <1>7, <1>8, <1>10 DEF Cut
<1>12. PICK corte \in SUBSET Pasadas : corte = {p} OBVIOUS
<1>13. \A q \in corte : Cut(q) BY <1>11, <1>12
<1>14. \A q \in Pasadas \ corte : pases'[q] = pases[q] BY <1>7, <1>12
<1>15. faltas \subseteq faltas' BY <1>8
<1> QED BY <1>7, <1>8, <1>9, <1>13, <1>14, <1>15, CutKeeps

\* So are all of them when the process dies.
LEMMA DeathKeeps ==
  ASSUME NoticeInv, ProcessDies
  PROVE  NoticeInv'
<1>0. DOMAIN pases = Pasadas BY DEF NoticeInv, Typed, PasesTyped
<1>1. /\ filas' = filas /\ jornada' = jornada /\ reloj' = reloj /\ activos' = activos /\ avisos' = avisos
      /\ limpia' = limpia /\ encendido /\ faltas \subseteq faltas'
  BY DEF ProcessDies
<1>2. pases' = [p \in Pasadas |-> Ocioso] BY <1>0 DEF ProcessDies
<1>3. \A p \in Pasadas : pases'[p] = Ocioso BY <1>2
<1>4. pases' = [p \in Pasadas |-> pases'[p]] BY <1>2
<1>5. ASSUME NEW p \in Pases, pases[p] # Ocioso PROVE pases[p].tick \in faltas'
  BY <1>5 DEF ProcessDies, EnCurso
<1>6. \A p \in Pasadas : Cut(p) BY <1>3, <1>5 DEF Cut, Pasadas
<1>7. PICK corte \in SUBSET Pasadas : corte = Pasadas OBVIOUS
<1>8. \A p \in corte : Cut(p) BY <1>6
<1>9. \A p \in Pasadas \ corte : pases'[p] = pases[p] BY <1>7
<1> QED BY <1>1, <1>3, <1>4, <1>7, <1>8, <1>9, CutKeeps

----------------------------------------
\* The process starts with nothing under way but its scan of the stock.
LEMMA StartKeeps ==
  ASSUME NoticeInv, NEW p \in Pasadas, ProcessStarts(p)
  PROVE  NoticeInv'
<1>0. Typed /\ DOMAIN pases = Pasadas /\ \A q \in Pasadas : pases[q] = Ocioso
  BY DEF NoticeInv, Typed, PasesTyped, ProcessStarts
<1>1. /\ filas' = filas /\ jornada' = jornada /\ reloj' = reloj /\ activos' = activos /\ avisos' = avisos
      /\ limpia' = limpia /\ encendido' = TRUE /\ faltas' = faltas /\ p # "hora" /\ NoticesStay
  BY DEF ProcessStarts, relojVars, historia, NoticesStay
<1>2. PICK leer : leer = <<"stock">> OBVIOUS
<1>3. PICK w : w = [Ocioso EXCEPT !.tick = reloj, !.luego = TRUE, !.leer = leer] OBVIOUS
<1>4. reloj \in Nat /\ {"stock"} \subseteq Lee(p) /\ leer \in Seq({"stock"})
  BY <1>0, <1>1, <1>2, SourcesAreRows DEF Typed, RowsTyped, Lee, LasFuentes
<1>5. leer \in Seq(Lee(p)) BY <1>2, <1>4
<1>6. /\ w \in PasoRows(Lee(p)) /\ w.tick = reloj /\ w.luego = TRUE /\ w.leer = leer /\ w.desde = 0
  <2>1. PICK T : T = Seq(Lee(p)) OBVIOUS
  <2>2. PICK E : E = Seq(Apuntes) OBVIOUS
  <2>3. PICK R : R = [tick : Nat, desde : Int, leer : T, escribir : E, luego : BOOLEAN, entero : BOOLEAN]
    OBVIOUS
  <2>4. R = PasoRows(Lee(p)) /\ leer \in T BY <1>5, <2>1, <2>2, <2>3 DEF PasoRows
  <2>5. PICK o \in R : o = Ocioso /\ o.desde = 0 BY <2>4, IdleTyped
  <2>6. w = [o EXCEPT !.tick = reloj, !.luego = TRUE, !.leer = leer] BY <1>3, <2>5
  <2>7. w \in R BY <1>4, <2>3, <2>4, <2>5, <2>6
  <2>8. w.tick = reloj /\ w.luego = TRUE /\ w.leer = leer /\ w.desde = o.desde
    BY <1>4, <2>3, <2>5, <2>6
  <2> QED BY <2>4, <2>5, <2>7, <2>8
<1>7. /\ pases'[p] = w /\ \A q \in Pasadas \ {p} : pases'[q] = Ocioso
      /\ pases' = [q \in Pasadas |-> pases'[q]]
  BY <1>0, <1>2, <1>3 DEF ProcessStarts
<1>8. ASSUME NEW q \in Pasadas PROVE PasoOK(q)'
  <2>1. Lee(q)' = Lee(q) BY <1>1, SourcesStay
  <2>2. CASE q = p BY <1>1, <1>4, <1>6, <1>7, <2>1, <2>2 DEF PasoOK
  <2>3. CASE q # p
    <3>1. /\ Ocioso \in PasoRows(Lee(q)) /\ Ocioso.tick = 0 /\ Ocioso.luego = FALSE /\ Ocioso.desde = 0
      BY IdleTyped
    <3> QED BY <1>1, <1>4, <1>7, <2>1, <2>3, <3>1 DEF PasoOK
  <2> QED BY <2>2, <2>3
<1>9. Typed'
  <2>1. PasesTyped' BY <1>1, <1>7, <1>8 DEF PasesTyped
  <2>2. RowsTyped' BY <1>0, <1>1, SourcesStay DEF Typed, RowsTyped
  <2> QED BY <2>1, <2>2 DEF Typed
<1>10. ASSUME NEW d
      PROVE  /\ Claves(d)' = Claves(d) /\ Marca(d)' = Marca(d) /\ Announced(d)' = Announced(d)
             /\ AllNoticed(d) => AllNoticed(d)'
             /\ \A q \in Pasadas : pases'[q] = pases[q] /\ StillTold(d, q) => StillTold(d, q)'
  BY <1>1, NoticedStays DEF RowStays
<1>11. EachTickCovers'
  <2>1. \A q \in Pases : pases[q].tick = 0 BY <1>0, IdleFields DEF Pasadas
  <2> QED BY <1>0, <1>1, <2>1, CoverKept DEF NoticeInv
<1>12. HourSees'
  <2> SUFFICES ASSUME NEW d \in {"plan", "limite"}, OfTheHour(d)'
               PROVE  /\ filas'[d].at < pases'["hora"].tick => StillTold(d, "hora")'
                      /\ filas'[d].at < limpia'.hora => AllNoticed(d)'
    BY DEF HourSees
  <2>1. OfTheHour(d) /\ "hora" \in Pasadas BY <1>1, <1>10 DEF OfTheHour, Pasadas
  <2>2. /\ filas[d].at < pases["hora"].tick => StillTold(d, "hora")
        /\ filas[d].at < limpia.hora => AllNoticed(d)
    BY <2>1 DEF NoticeInv, HourSees
  <2>3. pases'["hora"] = pases["hora"] BY <1>0, <1>1, <1>7, <2>1
  <2> QED BY <1>1, <1>10, <2>1, <2>2, <2>3
<1>13. ScanSees'
  <2> SUFFICES ASSUME Announced("stock")'
               PROVE  /\ \A q \in Pases \ {"hora"} :
                           pases'[q].luego /\ filas'["stock"].at < pases'[q].tick => StillTold("stock", q)'
                      /\ filas'["stock"].at < limpia'.stock => AllNoticed("stock")'
    BY DEF ScanSees
  <2>1. filas["stock"].at < limpia.stock => AllNoticed("stock") BY <1>10 DEF NoticeInv, ScanSees
  <2>2. ASSUME NEW q \in Pases \ {"hora"}, pases'[q].luego PROVE StillTold("stock", q)'
    <3>1. q = p BY <1>7, <2>2, IdleFields DEF Pasadas
    <3>2. 1 \in DOMAIN leer /\ leer[1] = "stock" /\ pases'[q].leer = leer BY <1>2, <1>6, <1>7, <3>1
    <3> QED BY <3>2 DEF StillTold, InLeer
  <2> QED BY <1>1, <1>10, <2>1, <2>2
<1> QED BY <1>9, <1>11, <1>12, <1>13 DEF NoticeInv

\* The pass of a new tick covers what changed in the two before it; without a process the tick is
\* missed.
LEMMA TickKeeps ==
  ASSUME NoticeInv, NEW p \in Pasadas, Tick(p)
  PROVE  NoticeInv'
<1>0. Typed /\ DOMAIN pases = Pasadas /\ pases[p] = Ocioso /\ p \in Pases \ {"hora"} /\ reloj \in Nat
  BY DEF NoticeInv, Typed, PasesTyped, RowsTyped, Tick, EnCurso, Pasadas
<1>1. /\ filas' = filas /\ jornada' = jornada /\ reloj' = reloj + 1 /\ activos' = activos /\ avisos' = avisos
      /\ limpia' = limpia /\ encendido' = encendido /\ faltas \subseteq faltas' /\ NoticesStay
  BY DEF Tick, NoticesStay
<1>2. PICK w : w = Recent(reloj') OBVIOUS
<1>3. /\ w \in PasoRows(Lee(p)) /\ w.tick = reloj' /\ ~w.luego /\ w.desde = reloj' - 2 /\ w.leer = Fuentes
  <2>1. Fuentes \in Seq(Lee(p)) /\ reloj' \in Nat BY <1>0, <1>1, SourcesAreRows DEF Lee
  <2> QED BY <1>2, <2>1, RecentTyped
<1>4. PICK h : h = [Ocioso EXCEPT !.tick = reloj', !.leer = DeLaHora] OBVIOUS
<1>5. /\ h \in PasoRows(Lee("hora")) /\ h.tick = reloj' /\ ~h.luego /\ h.desde = 0
      /\ h.leer = <<"plan", "limite">>
  <2>1. PICK leer : leer = <<"plan", "limite">> OBVIOUS
  <2>2. leer \in Seq(Lee("hora")) BY <2>1 DEF Lee
  <2>3. PICK T : T = Seq(Lee("hora")) OBVIOUS
  <2>4. PICK E : E = Seq(Apuntes) OBVIOUS
  <2>5. PICK R : R = [tick : Nat, desde : Int, leer : T, escribir : E, luego : BOOLEAN, entero : BOOLEAN]
    OBVIOUS
  <2>6. R = PasoRows(Lee("hora")) /\ leer \in T BY <2>2, <2>3, <2>4, <2>5 DEF PasoRows
  <2>7. PICK o \in R : o = Ocioso /\ o.desde = 0 /\ o.luego = FALSE BY <2>6, IdleTyped
  <2>8. PICK m \in Nat : m = reloj' BY <1>0, <1>1
  <2>9. h = [o EXCEPT !.tick = m, !.leer = leer] BY <1>4, <2>1, <2>7, <2>8 DEF DeLaHora
  <2>10. h \in R BY <2>5, <2>6, <2>7, <2>9
  <2>11. h.tick = m /\ h.luego = o.luego /\ h.leer = leer /\ h.desde = o.desde BY <2>5, <2>7, <2>9
  <2> QED BY <2>1, <2>6, <2>7, <2>8, <2>10, <2>11
<1>6. /\ pases' = [q \in Pasadas |-> pases'[q]]
      /\ pases'["hora"] = pases["hora"] \/ pases'["hora"] = h
      /\ \A q \in Pasadas : q # p /\ q # "hora" => pases'[q] = pases[q]
      /\ encendido => pases'[p] = w
      /\ ~encendido => pases' = pases /\ reloj' \in faltas'
  BY <1>0, <1>2, <1>4 DEF Tick, Since, Pasadas, NoticeInv, Typed, PasesTyped
<1>7. ASSUME NEW q \in Pasadas PROVE PasoOK(q)'
  <2>1. Lee(q)' = Lee(q) BY <1>1, SourcesStay
  <2>2. CASE pases'[q] = pases[q]
    <3>1. PasoOK(q) BY <1>0 DEF Typed, PasesTyped
    <3>2. pases[q].tick \in Nat BY <3>1 DEF PasoOK, PasoRows
    <3> QED BY <1>0, <1>1, <2>1, <2>2, <3>1, <3>2 DEF PasoOK
  <2>3. CASE q = p /\ pases'[q] = w BY <1>0, <1>1, <1>3, <2>1, <2>3 DEF PasoOK
  <2>4. CASE q = "hora" /\ pases'[q] = h BY <1>0, <1>1, <1>5, <2>1, <2>4 DEF PasoOK
  <2> QED BY <1>6, <2>2, <2>3, <2>4
<1>8. Typed'
  <2>1. PasesTyped' BY <1>0, <1>1, <1>6, <1>7 DEF Typed, PasesTyped
  <2>2. RowsTyped'
    <3>1. Filas' = Filas BY <1>1, SourcesStay
    <3>2. filas \in [Filas -> FilaRows] /\ limpia \in [hora : Nat, stock : Nat]
      BY <1>0 DEF Typed, RowsTyped
    <3>3. \A d \in Filas : filas[d].at <= reloj' /\ filas[d].creada <= reloj'
      BY <1>0, <1>1, <3>2 DEF Typed, RowsTyped, FilaRows
    <3>4. limpia.stock <= reloj' /\ limpia.hora <= reloj' BY <1>0, <1>1, <3>2 DEF Typed, RowsTyped
    <3> QED BY <1>0, <1>1, <3>1, <3>2, <3>3, <3>4 DEF Typed, RowsTyped
  <2> QED BY <2>1, <2>2 DEF Typed
<1>9. ASSUME NEW d
      PROVE  /\ Claves(d)' = Claves(d) /\ Marca(d)' = Marca(d) /\ Announced(d)' = Announced(d)
             /\ AllNoticed(d) => AllNoticed(d)'
             /\ \A q \in Pasadas : pases'[q] = pases[q] /\ StillTold(d, q) => StillTold(d, q)'
  BY <1>1, NoticedStays DEF RowStays
<1>10. EachTickCovers'
  <2> SUFFICES ASSUME NEW i \in DOMAIN Fuentes, Announced(Fuentes[i])',
                    NEW t \in {Marca(Fuentes[i])' + 1, Marca(Fuentes[i])' + 2}, t <= reloj'
             PROVE  Covered(Fuentes[i], t)'
    BY <1>1, SourcesStay DEF EachTickCovers
  <2>1. PICK d \in LasFuentes \cap Filas : d = Fuentes[i] BY <1>0, SourcesAreRows
  <2>2. Fuentes' = Fuentes BY <1>1, SourcesStay
  <2>3. Announced(d) /\ t \in {Marca(d) + 1, Marca(d) + 2} /\ Marca(d)' = Marca(d) /\ Marca(d) \in Nat
    <3>1. filas[d] \in FilaRows BY <1>0 DEF Typed, RowsTyped
    <3>2. Marca(d) \in Nat BY <3>1 DEF Marca, FilaRows
    <3> QED BY <1>9, <2>1, <2>2, <3>2
  <2> SUFFICES Covered(d, t)' BY <2>1, <2>2
  <2>4. CASE t <= reloj
    <3>1. Covered(d, t) BY <2>1, <2>3, <2>4 DEF NoticeInv, EachTickCovers
    <3>2. CASE t \in faltas \/ AllNoticed(d) BY <1>1, <1>9, <3>2 DEF Covered
    <3>3. CASE ~(t \in faltas \/ AllNoticed(d))
      <4>1. PICK q \in Pases \ {"hora"} :
               pases[q].tick = t /\ ~pases[q].luego /\ pases[q].desde <= Marca(d) /\ StillTold(d, q)
        BY <3>1, <3>3 DEF Covered
      <4>2. q # p BY <1>0, <2>3, <4>1, IdleFields
      <4>3. pases'[q] = pases[q] /\ q \in Pasadas BY <1>6, <4>1, <4>2 DEF Pasadas
      <4> QED BY <1>9, <2>3, <4>1, <4>3 DEF Covered
    <3> QED BY <3>2, <3>3
  <2>5. CASE ~(t <= reloj)
    <3>1. t = reloj' BY <1>0, <1>1, <2>3, <2>5
    <3>2. CASE ~encendido BY <1>6, <3>1, <3>2 DEF Covered
    <3>3. CASE encendido
      <4>1. pases'[p] = w BY <1>6, <3>3
      <4>2. StillTold(d, p)' BY <1>3, <2>1, <4>1 DEF StillTold, InLeer
      <4>3. w.desde <= Marca(d) BY <1>3, <2>3, <3>1
      <4> QED BY <1>0, <1>3, <2>3, <3>1, <4>1, <4>2, <4>3 DEF Covered
    <3> QED BY <3>2, <3>3
  <2> QED BY <2>4, <2>5
<1>11. HourSees'
  <2> SUFFICES ASSUME NEW d \in {"plan", "limite"}, OfTheHour(d)'
               PROVE  /\ filas'[d].at < pases'["hora"].tick => StillTold(d, "hora")'
                      /\ filas'[d].at < limpia'.hora => AllNoticed(d)'
    BY DEF HourSees
  <2>1. OfTheHour(d) /\ "hora" \in Pasadas BY <1>1, <1>9 DEF OfTheHour, Pasadas
  <2>2. /\ filas[d].at < pases["hora"].tick => StillTold(d, "hora")
        /\ filas[d].at < limpia.hora => AllNoticed(d)
    BY <2>1 DEF NoticeInv, HourSees
  <2>3. CASE pases'["hora"] = h
    <3>1. \E n \in DOMAIN h.leer : h.leer[n] = d
      <4>1. h.leer = <<"plan", "limite">> BY <1>5
      <4>2. 1 \in DOMAIN h.leer /\ 2 \in DOMAIN h.leer /\ h.leer[1] = "plan" /\ h.leer[2] = "limite"
        BY <4>1
      <4> QED BY <4>2
    <3>2. StillTold(d, "hora")' BY <2>3, <3>1 DEF StillTold, InLeer
    <3> QED BY <1>1, <1>9, <2>2, <3>2
  <2>4. CASE pases'["hora"] = pases["hora"] BY <1>1, <1>9, <2>1, <2>2, <2>4
  <2> QED BY <1>6, <2>3, <2>4
<1>12. ScanSees'
  <2> SUFFICES ASSUME Announced("stock")'
               PROVE  /\ \A q \in Pases \ {"hora"} :
                           pases'[q].luego /\ filas'["stock"].at < pases'[q].tick => StillTold("stock", q)'
                      /\ filas'["stock"].at < limpia'.stock => AllNoticed("stock")'
    BY DEF ScanSees
  <2>1. /\ \A q \in Pases \ {"hora"} :
             pases[q].luego /\ filas["stock"].at < pases[q].tick => StillTold("stock", q)
        /\ filas["stock"].at < limpia.stock => AllNoticed("stock")
    BY <1>9 DEF NoticeInv, ScanSees
  <2>2. \A q \in Pases \ {"hora"} : q \in Pasadas /\ (pases'[q] = pases[q] \/ ~pases'[q].luego)
    BY <1>3, <1>6 DEF Pasadas
  <2> QED BY <1>1, <1>9, <2>1, <2>2
<1> QED BY <1>8, <1>10, <1>11, <1>12 DEF NoticeInv

----------------------------------------
\* A row that changes into something to announce is later than every tick so far, and a plan that
\* is over stays so.
LEMMA ChangeKeeps ==
  ASSUME NoticeInv, NEW c \in Seguidas,
         NEW e \in Anuncia(c) \cup {"pendiente", "anulado", "bastante", "bajo"}, Change(c, e)
  PROVE  NoticeInv'
<1>0. Typed /\ reloj \in Nat /\ filas \in [Filas -> FilaRows] /\ c \in Filas /\ Filas \subseteq Dominio
  BY SourcesAreRows DEF NoticeInv, Typed, RowsTyped, Filas
<1>1. /\ jornada' = jornada /\ reloj' = reloj /\ activos' = activos /\ avisos' = avisos
      /\ limpia' = limpia /\ encendido' = encendido /\ faltas' = faltas /\ pases' = pases /\ NoticesStay
      /\ Puede(c, filas[c].estado, e)
  BY DEF Change, historia, NoticesStay
<1>2. e \in Palabras
  <2>1. c \in Dominio BY <1>0
  <2>2. Anuncia(c) \subseteq Palabras BY <2>1 DEF Anuncia, Dominio, LasFuentes, Palabras
  <2> QED BY <2>2 DEF Palabras
<1>3. PICK n \in 0..reloj : n = IF filas[c].estado = "ninguna" THEN reloj ELSE filas[c].creada
  BY <1>0 DEF Typed, RowsTyped, FilaRows
<1>4. PICK v \in FilaRows : v = [estado |-> e, at |-> reloj, creada |-> n]
  BY <1>0, <1>2, <1>3 DEF FilaRows
<1>5. v.estado = e /\ v.at = reloj /\ v.creada = n BY <1>4
<1>6. filas' = [filas EXCEPT ![c] = v] BY <1>3, <1>4 DEF Change
<1>7. filas' \in [Filas -> FilaRows] /\ filas'[c] = v /\ \A d \in Filas : d # c => filas'[d] = filas[d]
  BY <1>0, <1>6
<1>8. Typed'
  <2>1. RowsTyped'
    <3>1. Filas' = Filas BY <1>1, SourcesStay
    <3>2. \A d \in Filas : filas'[d].at <= reloj /\ filas'[d].creada <= reloj
      BY <1>0, <1>3, <1>5, <1>7 DEF Typed, RowsTyped
    <3> QED BY <1>0, <1>1, <1>7, <3>1, <3>2 DEF Typed, RowsTyped
  <2>2. PasesTyped'
    <3>1. \A p \in Pasadas : Lee(p)' = Lee(p) BY <1>1, SourcesStay
    <3>2. \A p \in Pasadas : PasoOK(p)' BY <1>0, <1>1, <3>1 DEF Typed, PasesTyped, PasoOK
    <3> QED BY <1>0, <1>1, <3>2 DEF Typed, PasesTyped
  <2> QED BY <2>1, <2>2 DEF Typed
<1>9. ASSUME NEW d \in Filas, d # c
      PROVE  /\ Claves(d)' = Claves(d) /\ Marca(d)' = Marca(d) /\ Announced(d)' = Announced(d)
             /\ AllNoticed(d) => AllNoticed(d)'
             /\ \A q \in Pasadas : StillTold(d, q) => StillTold(d, q)'
  BY <1>1, <1>7, <1>9, NoticedStays DEF RowStays
<1>10. Announced(c)' => Marca(c)' = reloj
  <2>1. ASSUME c \in {"pago", "empresa"}, e \in Anuncia(c) PROVE filas[c].estado = "ninguna"
    BY <1>1, <2>1 DEF Puede, Anuncia
  <2>2. Announced(c)' => e \in Anuncia(c) BY <1>5, <1>7 DEF Announced, Anuncia
  <2> QED BY <1>3, <1>5, <1>7, <2>1, <2>2 DEF Marca
<1>11. EachTickCovers'
  <2> SUFFICES ASSUME NEW i \in DOMAIN Fuentes, Announced(Fuentes[i])',
                    NEW t \in {Marca(Fuentes[i])' + 1, Marca(Fuentes[i])' + 2}, t <= reloj'
             PROVE  Covered(Fuentes[i], t)'
    BY <1>1, SourcesStay DEF EachTickCovers
  <2>1. PICK d \in LasFuentes \cap Filas : d = Fuentes[i] BY <1>0, SourcesAreRows
  <2>2. Fuentes' = Fuentes BY <1>1, SourcesStay
  <2> SUFFICES Covered(d, t)' BY <2>1, <2>2
  <2>3. Announced(d)' /\ t \in {Marca(d)' + 1, Marca(d)' + 2} BY <2>1, <2>2
  <2>4. d # c BY <1>0, <1>1, <1>10, <2>3
  <2>5. Announced(d) /\ Marca(d)' = Marca(d) /\ t \in {Marca(d) + 1, Marca(d) + 2} /\ t <= reloj
    BY <1>1, <1>9, <2>3, <2>4
  <2>6. Covered(d, t) BY <2>1, <2>5 DEF NoticeInv, EachTickCovers
  <2>7. \A q \in Pases \ {"hora"} : StillTold(d, q) => StillTold(d, q)' BY <1>9, <2>4 DEF Pasadas
  <2> QED BY <1>1, <1>9, <2>4, <2>5, <2>6, <2>7 DEF Covered
<1>12. HourSees'
  <2> SUFFICES ASSUME NEW d \in {"plan", "limite"}, OfTheHour(d)'
               PROVE  /\ filas'[d].at < pases'["hora"].tick => StillTold(d, "hora")'
                      /\ filas'[d].at < limpia'.hora => AllNoticed(d)'
    BY DEF HourSees
  <2>1. "hora" \in Pasadas /\ d \in Filas /\ "plan" \in Filas BY <1>0, SourcesAreRows DEF Pasadas
  <2>2. CASE d = c
    <3>1. pases["hora"].tick \in Nat /\ pases["hora"].tick <= reloj
      BY <1>0, <2>1 DEF Typed, PasesTyped, PasoOK, PasoRows
    <3>2. limpia.hora \in Nat /\ limpia.hora <= reloj BY <1>0 DEF Typed, RowsTyped
    <3> QED BY <1>0, <1>1, <1>5, <1>7, <2>2, <3>1, <3>2
  <2>3. CASE d # c
    <3>1. filas["plan"].estado = "vencido" => filas'["plan"].estado = "vencido"
      <4>1. CASE c = "plan" BY <1>1, <4>1 DEF Puede
      <4>2. CASE c # "plan" BY <1>7, <2>1, <4>2
      <4> QED BY <4>1, <4>2
    <3>2. OfTheHour(d) BY <1>9, <2>1, <2>3, <3>1 DEF OfTheHour
    <3>3. /\ filas[d].at < pases["hora"].tick => StillTold(d, "hora")
          /\ filas[d].at < limpia.hora => AllNoticed(d)
      BY <3>2 DEF NoticeInv, HourSees
    <3> QED BY <1>1, <1>7, <1>9, <2>1, <2>3, <3>3
  <2> QED BY <2>2, <2>3
<1>13. ScanSees'
  <2> SUFFICES ASSUME Announced("stock")'
               PROVE  /\ \A q \in Pases \ {"hora"} :
                           pases'[q].luego /\ filas'["stock"].at < pases'[q].tick => StillTold("stock", q)'
                      /\ filas'["stock"].at < limpia'.stock => AllNoticed("stock")'
    BY DEF ScanSees
  <2>1. "stock" \in Filas BY <1>0, SourcesAreRows
  <2>2. CASE c = "stock"
    <3>1. \A q \in Pases \ {"hora"} : pases[q].tick \in Nat /\ pases[q].tick <= reloj
      BY <1>0 DEF Typed, PasesTyped, PasoOK, PasoRows, Pasadas
    <3>2. limpia.stock \in Nat /\ limpia.stock <= reloj BY <1>0 DEF Typed, RowsTyped
    <3> QED BY <1>0, <1>1, <1>5, <1>7, <2>2, <3>1, <3>2
  <2>3. CASE c # "stock"
    <3>1. /\ \A q \in Pases \ {"hora"} :
               pases[q].luego /\ filas["stock"].at < pases[q].tick => StillTold("stock", q)
          /\ filas["stock"].at < limpia.stock => AllNoticed("stock")
      BY <1>9, <2>1, <2>3 DEF NoticeInv, ScanSees
    <3> QED BY <1>1, <1>7, <1>9, <2>1, <2>3, <3>1 DEF Pasadas
  <2> QED BY <2>2, <2>3
<1> QED BY <1>8, <1>11, <1>12, <1>13 DEF NoticeInv

----------------------------------------
\* What touches no row, clock or pass, takes no notice away and keeps the owner, keeps the
\* invariant.
LEMMA QuietKeeps ==
  ASSUME NoticeInv, NoticesStay, Propietario \in activos', activos' \subseteq Usuarios,
         UNCHANGED <<jornada, reloj, filas, encendido, pases, faltas, limpia>>
  PROVE  NoticeInv'
<1>0. Typed BY DEF NoticeInv
<1>1. Typed'
  <2>1. RowsTyped' BY <1>0, SourcesStay DEF Typed, RowsTyped
  <2>2. \A p \in Pasadas : PasoOK(p)' BY <1>0, SourcesStay DEF Typed, PasesTyped, PasoOK
  <2>3. PasesTyped' BY <1>0, <2>2 DEF Typed, PasesTyped
  <2> QED BY <2>1, <2>3 DEF Typed
<1>2. ASSUME NEW d
      PROVE  /\ Claves(d)' = Claves(d) /\ Marca(d)' = Marca(d) /\ Announced(d)' = Announced(d)
             /\ AllNoticed(d) => AllNoticed(d)'
             /\ \A q \in Pasadas : StillTold(d, q) => StillTold(d, q)'
  BY NoticedStays DEF RowStays
<1>3. EachTickCovers'
  <2>1. \A d \in LasFuentes \cap Filas : \A p \in Pases \ {"hora"} : CarriesOn(p, d)
    BY <1>2 DEF CarriesOn, SamePass, Pasadas
  <2> QED BY <1>0, <2>1, CoverKept DEF NoticeInv
<1>4. HourSees' BY <1>2 DEF NoticeInv, HourSees, OfTheHour, Pasadas
<1>5. ScanSees' BY <1>2 DEF NoticeInv, ScanSees, Pasadas
<1> QED BY <1>1, <1>3, <1>4, <1>5 DEF NoticeInv

\* So do the notices by hand, and those who read.
LEMMA ByHandKeeps ==
  ASSUME NoticeInv,
         \/ \E u \in Usuarios :
              \/ Publish({u}) \/ Publish(Usuarios) \/ Member(u) \/ MarkAllRead(u)
              \/ \E k \in DOMAIN avisos : MarkRead(u, k)
         \/ WriteNotice
         \/ \E k \in DOMAIN avisos : Archive(k)
  PROVE  NoticeInv'
<1>1. Propietario \in activos /\ activos \subseteq Usuarios BY DEF NoticeInv, Typed, RowsTyped
<1>2. UNCHANGED <<jornada, reloj, filas, encendido, pases, faltas, limpia>>
  BY DEF Publish, Member, MarkAllRead, MarkRead, WriteNotice, Archive, Rest, historia
<1>3. Propietario \in activos' /\ activos' \subseteq Usuarios
  BY <1>1 DEF Publish, Member, MarkAllRead, MarkRead, WriteNotice, Archive
<1>4. NoticesStay BY DEF Publish, Member, MarkAllRead, MarkRead, WriteNotice, Archive, NoticesStay
<1> QED BY <1>2, <1>3, <1>4, QuietKeeps

\* At first nothing is to be announced.
LEMMA NoticesBegin == NotifyInit => NoticeInv
<1> SUFFICES ASSUME NotifyInit PROVE NoticeInv OBVIOUS
<1>1. RowsTyped
  <2>1. Filas \subseteq Dominio
    <3>1. jornada \in Jornadas BY DEF NotifyInit
    <3>2. Fuentes \in Seq(LasFuentes) BY <3>1, NotificationsAssumption DEF Fuentes, LasFuentes
    <3> QED BY <3>2 DEF Filas, Seguidas, Dominio, LasFuentes
  <2>2. \A d \in Filas : Inicio(d) \in Palabras BY <2>1 DEF Inicio, Palabras, Dominio, LasFuentes
  <2>3. \A d \in Filas : [estado |-> Inicio(d), at |-> 0, creada |-> 0] \in FilaRows
    BY <2>2 DEF FilaRows
  <2>4. filas \in [Filas -> FilaRows] /\ \A d \in Filas : filas[d].at = 0 /\ filas[d].creada = 0
    BY <2>3 DEF NotifyInit
  <2> QED BY <2>4, NotificationsAssumption DEF NotifyInit, RowsTyped, Ventana
<1>2. pases = [p \in Pasadas |-> Ocioso] /\ encendido = TRUE /\ reloj = 2
  BY DEF NotifyInit, Pasadas, Ventana
<1>3. \A p \in Pasadas : pases[p] = Ocioso BY <1>2
<1>4. ASSUME NEW p \in Pasadas PROVE PasoOK(p)
  <2>1. /\ Ocioso \in PasoRows(Lee(p)) /\ Ocioso.tick = 0 /\ Ocioso.luego = FALSE /\ Ocioso.desde = 0
    BY IdleTyped
  <2> QED BY <1>2, <1>3, <2>1 DEF PasoOK
<1>5. PasesTyped BY <1>2, <1>3, <1>4 DEF PasesTyped
<1>6. Typed BY <1>1, <1>5 DEF Typed
<1>7. \A d \in Filas : ~Announced(d)
  <2>1. \A d \in Filas : filas[d].estado = Inicio(d) /\ d \in Dominio
    BY <1>6, SourcesAreRows DEF NotifyInit
  <2> QED BY <2>1 DEF Announced, Anuncia, Inicio, Dominio, LasFuentes
<1>8. EachTickCovers BY <1>6, <1>7, SourcesAreRows DEF EachTickCovers
<1>9. HourSees /\ ScanSees BY <1>6, <1>7, SourcesAreRows DEF HourSees, OfTheHour, ScanSees
<1> QED BY <1>6, <1>8, <1>9 DEF NoticeInv

\* The invariant says that changes are noticed.
LEMMA NoticeInvNotices == NoticeInv => ChangesAreNoticed
<1> SUFFICES ASSUME NoticeInv PROVE ChangesAreNoticed OBVIOUS
<1>0. Typed BY DEF NoticeInv
<1>1. ASSUME NEW i \in DOMAIN Fuentes, NEW d, d = Fuentes[i], NEW m, m = Marca(d)
      PROVE  \/ filas[d].estado \notin Anuncia(d)
             \/ reloj <= m + Ventana \/ Abiertos(m + Ventana) # {}
             \/ {m + 1, m + 2} \subseteq faltas
             \/ AllNoticed(d)
  <2>1. d \in Filas BY <1>0, <1>1, SourcesAreRows
  <2>2. m \in Nat /\ reloj \in Nat BY <1>0, <1>1, <2>1 DEF Typed, RowsTyped, FilaRows, Marca
  <2> SUFFICES ASSUME Announced(d), ~(reloj <= m + 2), ~({m + 1, m + 2} \subseteq faltas), ~AllNoticed(d)
               PROVE  Abiertos(m + 2) # {}
    BY DEF Announced, Ventana
  <2>3. PICK t \in {m + 1, m + 2} : t \notin faltas OBVIOUS
  <2>4. t <= reloj /\ t \in Nat /\ t >= 1 /\ t <= m + 2 BY <2>2
  <2>5. Covered(d, t) BY <1>1, <2>4 DEF NoticeInv, EachTickCovers
  <2>6. PICK p \in Pases \ {"hora"} : pases[p].tick = t BY <2>3, <2>5 DEF Covered
  <2>7. p \in DOMAIN pases /\ pases[p] # Ocioso
    BY <1>0, <2>4, <2>6, IdleFields DEF Typed, PasesTyped, Pasadas
  <2>8. p \in Abiertos(m + 2) BY <2>4, <2>6, <2>7 DEF Abiertos, EnCurso
  <2> QED BY <2>8
<1>2. filas["stock"].estado \in Anuncia("stock") /\ filas["stock"].at < limpia.stock
        => AllNoticed("stock")
  BY DEF NoticeInv, ScanSees, Announced
<1>3. \A d \in {"plan", "limite"} :
       (/\ filas[d].estado \in Anuncia(d) /\ filas[d].at < limpia.hora
        /\ d = "limite" => filas["plan"].estado # "vencido")
       => AllNoticed(d)
  BY DEF NoticeInv, HourSees, OfTheHour, Announced
<1> QED BY <1>1, <1>2, <1>3 DEF ChangesAreNoticed

\* With any sources, passes that overlap, failures, deaths and starts of the process: what stands
\* for ten minutes is announced unless both ticks that could see it were missed or cut, stock that
\* is short is announced by a whole scan, and a plan or a limit by a whole pass of the hour
\* (notifications.processor.ts:29-44, 47-125).
THEOREM ChangesAreAlwaysNoticed == NotifySpec => []ChangesAreNoticed
<1>1. NoticeInv /\ [NotifyNext]_notifyVars => NoticeInv'
  <2> SUFFICES ASSUME NoticeInv, [NotifyNext]_notifyVars PROVE NoticeInv' OBVIOUS
  <2>1. ASSUME NEW p \in Pases \cup {"hora"},
               Tick(p) \/ ReadSource(p) \/ CreateAutomatic(p) \/ PassFails(p) \/ ProcessStarts(p)
        PROVE  NoticeInv'
    <3>1. p \in Pasadas BY DEF Pasadas
    <3> QED BY <2>1, <3>1, TickKeeps, ReadKeeps, CreateKeeps, FailKeeps, StartKeeps
  <2>2. ASSUME NEW d \in Seguidas,
               NEW e \in Anuncia(d) \cup {"pendiente", "anulado", "bastante", "bajo"}, Change(d, e)
        PROVE  NoticeInv'
    BY <2>2, ChangeKeeps
  <2>3. CASE UNCHANGED notifyVars
    <3>1. UNCHANGED <<jornada, reloj, filas, encendido, pases, faltas, limpia, activos, avisos>>
      BY <2>3 DEF notifyVars, relojVars, historia
    <3>2. Propietario \in activos' /\ activos' \subseteq Usuarios /\ NoticesStay
      BY <3>1 DEF NoticeInv, Typed, RowsTyped, NoticesStay
    <3> QED BY <3>1, <3>2, QuietKeeps
  <2> QED BY <2>1, <2>2, <2>3, DeathKeeps, ByHandKeeps DEF NotifyNext
<1> QED BY <1>1, NoticesBegin, NoticeInvNotices, PTL DEF NotifySpec
=============================================================================
