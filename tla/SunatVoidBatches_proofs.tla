------------------------ MODULE SunatVoidBatches_proofs ------------------------
(***************************************************************************)
(* AnnulledWasVoided and BlockedWhileOpen hold of SunatVoidBatches for any *)
(* sales, batches and runners, any number of XML files, consultations and  *)
(* deaths.  A runner touches one batch (Touching), and its steps are told  *)
(* apart by what it holds afterwards (Moves, Handing); the invariant says  *)
(* where tickets come from (LoteOK, TicketOK), that no sale is missing     *)
(* from its XML unless it joined late (SalesOK), and that, with no late    *)
(* sale and no clerk, one runner works at a batch and knows its state      *)
(* (Working), so that it closes the job over a final state only.           *)
(***************************************************************************)
EXTENDS SunatVoidBatches, TLAPS

Steps == {"idle", "claimed", "marking", "sending", "sent", "querying", "answered", "failed",
          "effects", "processed", "settling", "closing"}
WorkRows == [ventas : SUBSET Ventas, ticket : 0..MaxSends, cdr : Verdicts \cup {"ninguno"}]
Pedidos == [lote : Jobs \cup {NoLote}, opens : BOOLEAN]

\* A runner at work has a job; one that is idle has none, and one that is done with its batch
\* has no ticket in hand.
MinedOK ==
  \A r \in Runners :
    /\ IF Busy(r) THEN Mine(r) \in Jobs ELSE Mine(r) = NoJob
    /\ runner[r].step \in {"idle", "settling", "closing"} => work[r].ticket = 0

----------------------------------------
(* Rows, and where each way of moving them leaves them.                    *)

\* The types of the rows, one by one.
LEMMA RowTypes ==
  ASSUME TypeOK
  PROVE  /\ QueueTypeOK /\ job \in [Jobs -> JobRows] /\ runner \in [Runners -> RunnerRows]
         /\ lote \in [Jobs -> Lotes] /\ venta \in [Ventas -> VentaRows] /\ solicitud \in [Ventas -> Pedidos]
         /\ work \in [Runners -> WorkRows] /\ sent \in Seq(Envios) /\ Len(sent) <= MaxSends
         /\ consults \in Nat /\ consults <= MaxConsults /\ late \subseteq Ventas /\ returns \in [Ventas -> Nat]
         /\ faults \in Nat /\ faults <= MaxFaults
         /\ MaxSends \in Nat /\ MaxConsults \in Nat /\ MaxFaults \in Nat /\ IntentosCap \in Nat
         /\ NoJob \notin Jobs /\ Clerk \in Runners /\ Jobs \subseteq Nat \ {0}
BY BatchesAssumption, QueueAssumption DEF TypeOK, QueueTypeOK, WorkRows, Pedidos, NoLote

\* Whatever state and attempts are written into the row of a job, it stays a row.
LEMMA JobRow ==
  ASSUME QueueTypeOK, NEW j \in Jobs, NEW e \in JobEstados, NEW i \in 0..IntentosCap
  PROVE  /\ [job EXCEPT ![j] = [estado |-> e, intentos |-> i]] \in [Jobs -> JobRows]
         /\ [job EXCEPT ![j].estado = e] \in [Jobs -> JobRows]
BY DEF QueueTypeOK, JobRows

\* Runner r is at step s of job j, having read state e of its batch; the others stay.
At(r, s, j, e) ==
  /\ runner' \in [Runners -> RunnerRows]
  /\ runner'[r].step = s /\ runner'[r].job = j /\ runner'[r].estado = e
  /\ \A u \in Runners : u # r => runner'[u] = runner[u]

\* Where a runner is after each way of moving it.
LEMMA RunnerMoves ==
  ASSUME TypeOK, NEW r \in Runners
  PROVE  /\ \A s \in Steps : StepTo(r, s) => At(r, s, runner[r].job, runner[r].estado)
         /\ runner' = [runner EXCEPT ![r] = IdleRunner] => At(r, "idle", NoJob, "pendiente_envio")
         /\ \A s \in Steps, j \in Jobs :
              runner' = [runner EXCEPT ![r] = [IdleRunner EXCEPT !.step = s, !.job = j]]
                => At(r, s, j, "pendiente_envio")
         /\ \A e \in Estados, i \in 0..IntentosCap :
              runner' = [runner EXCEPT ![r] = [@ EXCEPT !.step = "settling", !.estado = e, !.intentos = i]]
                => At(r, "settling", runner[r].job, e)
<1>t. runner \in [Runners -> RunnerRows] /\ 0 \in 0..IntentosCap BY RowTypes
<1>i. IdleRunner \in RunnerRows /\ IdleRunner.step = "idle" /\ IdleRunner.job = NoJob
      /\ IdleRunner.estado = "pendiente_envio"
  BY <1>t DEF RunnerRows, IdleRunner, Estados
<1>w. ASSUME NEW x \in RunnerRows, runner' = [runner EXCEPT ![r] = x] PROVE At(r, x.step, x.job, x.estado)
  BY <1>w, <1>t DEF At
<1>1. ASSUME NEW s \in Steps, StepTo(r, s) PROVE At(r, s, runner[r].job, runner[r].estado)
  BY <1>1, <1>t DEF StepTo, At, RunnerRows, Steps
<1>2. ASSUME runner' = [runner EXCEPT ![r] = IdleRunner] PROVE At(r, "idle", NoJob, "pendiente_envio")
  BY <1>2, <1>i, <1>w
<1>3. ASSUME NEW s \in Steps, NEW j \in Jobs,
             runner' = [runner EXCEPT ![r] = [IdleRunner EXCEPT !.step = s, !.job = j]]
      PROVE  At(r, s, j, "pendiente_envio")
  <2>1. PICK i \in RunnerRows : i = IdleRunner /\ i.estado = "pendiente_envio" BY <1>i
  <2>2. PICK x : x = [i EXCEPT !.step = s, !.job = j] OBVIOUS
  <2>3. x \in RunnerRows /\ x.step = s /\ x.job = j /\ x.estado = i.estado
    BY <2>2 DEF RunnerRows, Steps
  <2> QED BY <1>3, <2>1, <2>2, <2>3, <1>w
<1>4. ASSUME NEW e \in Estados, NEW i \in 0..IntentosCap,
             runner' = [runner EXCEPT ![r] = [@ EXCEPT !.step = "settling", !.estado = e, !.intentos = i]]
      PROVE  At(r, "settling", runner[r].job, e)
  <2>1. PICK y \in RunnerRows : y = runner[r] BY <1>t
  <2>2. PICK x : x = [y EXCEPT !.step = "settling", !.estado = e, !.intentos = i] OBVIOUS
  <2>3. x \in RunnerRows /\ x.step = "settling" /\ x.job = y.job /\ x.estado = e
    BY <2>2 DEF RunnerRows
  <2> QED BY <1>4, <2>1, <2>2, <2>3, <1>w
<1> QED BY <1>1, <1>2, <1>3, <1>4

\* Runner r has sales vs, ticket i and constancy c in hand; the others what they had.
Holds(r, vs, i, c) ==
  /\ work' \in [Runners -> WorkRows]
  /\ work'[r].ventas = vs /\ work'[r].ticket = i /\ work'[r].cdr = c
  /\ \A u \in Runners : u # r => work'[u] = work[u]

\* What a runner has in hand after each way of writing it.
LEMMA WorkMoves ==
  ASSUME TypeOK, NEW r \in Runners
  PROVE  /\ UNCHANGED work => Holds(r, work[r].ventas, work[r].ticket, work[r].cdr)
         /\ Forget(r) => Holds(r, {}, 0, "ninguno")
         /\ \A vs \in SUBSET Ventas, i \in 0..MaxSends :
              work' = [work EXCEPT ![r] = [NoWork EXCEPT !.ventas = vs, !.ticket = i]] => Holds(r, vs, i, "ninguno")
         /\ \A i \in 0..MaxSends :
              work' = [work EXCEPT ![r].ticket = i] => Holds(r, work[r].ventas, i, work[r].cdr)
         /\ \A c \in Verdicts :
              work' = [work EXCEPT ![r].cdr = c] => Holds(r, work[r].ventas, work[r].ticket, c)
<1>t. work \in [Runners -> WorkRows] /\ 0 \in 0..MaxSends BY RowTypes
<1>n. NoWork \in WorkRows /\ NoWork.ventas = {} /\ NoWork.ticket = 0 /\ NoWork.cdr = "ninguno"
  BY <1>t DEF NoWork, WorkRows
<1>w. ASSUME NEW x \in WorkRows, work' = [work EXCEPT ![r] = x] PROVE Holds(r, x.ventas, x.ticket, x.cdr)
  BY <1>w, <1>t DEF Holds
<1>1. UNCHANGED work => Holds(r, work[r].ventas, work[r].ticket, work[r].cdr) BY <1>t DEF Holds
<1>2. Forget(r) => Holds(r, {}, 0, "ninguno") BY <1>n, <1>w DEF Forget
<1>3. ASSUME NEW vs \in SUBSET Ventas, NEW i \in 0..MaxSends,
             work' = [work EXCEPT ![r] = [NoWork EXCEPT !.ventas = vs, !.ticket = i]]
      PROVE  Holds(r, vs, i, "ninguno")
  <2>1. PICK n \in WorkRows : n = NoWork /\ n.cdr = "ninguno" BY <1>n
  <2>2. PICK x : x = [n EXCEPT !.ventas = vs, !.ticket = i] OBVIOUS
  <2>3. x \in WorkRows /\ x.ventas = vs /\ x.ticket = i /\ x.cdr = n.cdr BY <2>2 DEF WorkRows
  <2> QED BY <1>3, <2>1, <2>2, <2>3, <1>w
<1>4. \A i \in 0..MaxSends :
        work' = [work EXCEPT ![r].ticket = i] => Holds(r, work[r].ventas, i, work[r].cdr)
  BY <1>t DEF Holds, WorkRows
<1>5. \A c \in Verdicts :
        work' = [work EXCEPT ![r].cdr = c] => Holds(r, work[r].ventas, work[r].ticket, c)
  BY <1>t DEF Holds, WorkRows
<1> QED BY <1>1, <1>2, <1>3, <1>4, <1>5

\* What applyLoteResult leaves: the batch, and its sales in the same state.
Applied(j, e, i) ==
  /\ lote' \in [Jobs -> Lotes] /\ lote'[j].estado = e /\ lote'[j].ticket = i
  /\ \A k \in Jobs : k # j => lote'[k] = lote[k]
  /\ venta' \in [Ventas -> VentaRows] /\ returns' \in [Ventas -> Nat]
  /\ \A v \in Ventas :
       /\ venta'[v].lote = venta[v].lote
       /\ venta'[v].anulada = (venta[v].anulada \/ (v \in Of(j) /\ Annuls(v, e)))
       /\ returns'[v] = (IF v \in Of(j) /\ Annuls(v, e) THEN returns[v] + 1 ELSE returns[v])
       /\ e \in Abiertos \/ v \notin Of(j) => venta'[v].cuenta = venta[v].cuenta

\* It does.
LEMMA ResultApplied ==
  ASSUME TypeOK, NEW j \in Jobs, NEW e \in Estados, NEW i \in 0..MaxSends, ApplyLoteResult(j, e, i)
  PROVE  Applied(j, e, i)
<1>t. lote \in [Jobs -> Lotes] /\ venta \in [Ventas -> VentaRows] /\ returns \in [Ventas -> Nat]
  BY RowTypes
<1>1. lote' \in [Jobs -> Lotes] /\ lote'[j].estado = e /\ lote'[j].ticket = i
      /\ \A k \in Jobs : k # j => lote'[k] = lote[k]
  BY <1>t DEF ApplyLoteResult, Lotes
<1>2. returns' \in [Ventas -> Nat]
      /\ \A v \in Ventas : returns'[v] = (IF v \in Of(j) /\ Annuls(v, e) THEN returns[v] + 1 ELSE returns[v])
  <2>1. returns' = [v \in Ventas |-> IF v \in Of(j) /\ Annuls(v, e) THEN returns[v] + 1 ELSE returns[v]]
    BY DEF ApplyLoteResult
  <2>2. \A v \in Ventas : returns'[v] = (IF v \in Of(j) /\ Annuls(v, e) THEN returns[v] + 1 ELSE returns[v])
    BY <2>1
  <2>3. \A v \in Ventas : returns'[v] \in Nat BY <2>2, <1>t
  <2> QED BY <2>1, <2>2, <2>3
<1>3. ASSUME NEW v \in Ventas, v \in Of(j)
      PROVE  /\ venta'[v] \in VentaRows /\ venta'[v].lote = venta[v].lote
             /\ venta'[v].anulada = (venta[v].anulada \/ Annuls(v, e))
             /\ e \in Abiertos => venta'[v].cuenta = venta[v].cuenta
  <2>1. PICK w \in VentaRows : w = venta[v] BY <1>t
  <2>2. PICK a \in BOOLEAN : a = (w.anulada \/ Annuls(v, e)) BY <2>1 DEF VentaRows, Annuls
  <2>3. PICK c \in {"vigente", "anulacion_pendiente", "anulada"} :
          /\ c = IF Annuls(v, e) THEN "anulada" ELSE IF Releases(v, e) THEN "vigente" ELSE w.cuenta
          /\ e \in Abiertos => c = w.cuenta
    <3>1. CASE Annuls(v, e) BY <3>1 DEF Annuls, Abiertos, Finales, Verdicts
    <3>2. CASE ~Annuls(v, e) /\ Releases(v, e) BY <3>2 DEF Releases, Abiertos, Finales, Verdicts
    <3>3. CASE ~Annuls(v, e) /\ ~Releases(v, e) BY <3>3, <2>1 DEF VentaRows
    <3> QED BY <3>1, <3>2, <3>3
  <2>4. venta'[v] = [w EXCEPT !.baja = e, !.anulada = a, !.cuenta = c]
    <3>1. venta'[v] = [venta[v] EXCEPT !.baja = e, !.anulada = @ \/ Annuls(v, e),
                         !.cuenta = IF Annuls(v, e) THEN "anulada" ELSE IF Releases(v, e) THEN "vigente" ELSE @]
      BY <1>3 DEF ApplyLoteResult
    <3> QED BY <2>1, <2>2, <2>3, <3>1 DEF VentaRows
  <2>5. venta'[v] \in VentaRows /\ venta'[v].lote = w.lote /\ venta'[v].anulada = a /\ venta'[v].cuenta = c
    BY <2>4 DEF VentaRows
  <2> QED BY <2>1, <2>2, <2>3, <2>5
<1>4. ASSUME NEW v \in Ventas, v \notin Of(j) PROVE venta'[v] = venta[v] BY <1>4 DEF ApplyLoteResult
<1>5. venta' = [v \in Ventas |-> venta'[v]] BY DEF ApplyLoteResult
<1>6. venta' \in [Ventas -> VentaRows] BY <1>3, <1>4, <1>5, <1>t
<1>7. ASSUME NEW v \in Ventas
      PROVE  /\ venta'[v].lote = venta[v].lote
             /\ venta'[v].anulada = (venta[v].anulada \/ (v \in Of(j) /\ Annuls(v, e)))
             /\ e \in Abiertos \/ v \notin Of(j) => venta'[v].cuenta = venta[v].cuenta
  <2>1. venta[v].anulada \in BOOLEAN BY <1>t DEF VentaRows
  <2> QED BY <1>3, <1>4, <2>1
<1> QED BY <1>1, <1>2, <1>6, <1>7 DEF Applied

----------------------------------------
(* The parts of the invariant.                                             *)

\* A batch that was not opened has nothing; one that waits for a constancy has a ticket, and a
\* ticket is one SUNAT gave for an XML of that batch.
LoteOK ==
  /\ \A j \in Jobs :
       /\ lote[j].estado = "ausente" =>
             /\ job[j].estado = "ausente"
             /\ \A v \in Ventas : venta[v].lote # j
             /\ \A r \in Runners : runner[r].job # j
             /\ \A i \in DOMAIN sent : sent[i].lote # j
       /\ lote[j].estado \in {"pendiente_cdr"} => lote[j].ticket # 0
       /\ lote[j].estado = "ausente" => lote[j].ticket = 0
       /\ lote[j].ticket # 0 => lote[j].ticket \in DOMAIN sent /\ sent[lote[j].ticket].lote = j
  /\ \A v \in Ventas :
       solicitud[v] # NoRequest =>
         /\ solicitud[v].lote \in Jobs
         /\ ~solicitud[v].opens => lote[solicitud[v].lote].estado # "ausente"

\* The ticket in a runner's hand is one of its batch, and the constancy is SUNAT's.
TicketOK ==
  \A r \in Runners :
    /\ work[r].ticket # 0 => work[r].ticket \in DOMAIN sent /\ sent[work[r].ticket].lote = runner[r].job
    /\ runner[r].step \in {"querying", "answered", "sent"} => work[r].ticket # 0
    /\ RunnerAt(r, "answered") =>
         work[r].cdr \in Verdicts /\ sent[work[r].ticket].verdict = work[r].cdr

\* An XML has every sale of its batch that did not join late, and so has what is about to be sent.
SalesOK ==
  /\ \A i \in DOMAIN sent :
       /\ lote[sent[i].lote].estado # "pendiente_envio"
       /\ \A v \in Ventas : venta[v].lote = sent[i].lote => v \in sent[i].ventas \cup late
  /\ \A r \in Runners :
       /\ runner[r].step \in {"marking", "sending"} =>
            \A v \in Ventas : venta[v].lote = runner[r].job => v \in work[r].ventas \cup late
       /\ RunnerAt(r, "sending") => lote[runner[r].job].estado # "pendiente_envio"

\* With no late sale and no clerk, one runner works at a batch: the row of its job says so, the
\* batch is open until the runner has closed it, and an open batch blocks the accounts of its sales.
Working ==
  /\ ~Busy(Clerk)
  /\ \A r \in Runners : Busy(r) =>
       /\ job[Mine(r)].estado = "procesando"
       /\ \A u \in Runners : Busy(u) /\ Mine(u) = Mine(r) => u = r
       /\ runner[r].step \in {"claimed", "marking", "sending", "sent", "querying", "answered", "failed"}
            => lote[Mine(r)].estado \in Abiertos
       /\ RunnerAt(r, "settling") => runner[r].estado = lote[Mine(r)].estado
  /\ \A j \in Jobs :
       /\ job[j].estado = "pendiente_envio" => lote[j].estado \in Abiertos
       /\ lote[j].estado \in Abiertos => \A v \in Of(j) : venta[v].cuenta = "anulacion_pendiente"

OpenOK == late = {} /\ consults = 0 => Working

----------------------------------------
(* What every action of a runner does with it, and with what it holds.     *)

Same(r) == Holds(r, work[r].ventas, work[r].ticket, work[r].cdr)
To(r, s) == At(r, s, runner[r].job, runner[r].estado)
Idles(r) == At(r, "idle", NoJob, "pendiente_envio")

\* Where each action leaves its runner, what it holds then, and the result it has applied.
LEMMA Moves ==
  ASSUME TypeOK, MinedOK, LoteOK, TicketOK, NEW r \in Runners
  PROVE  /\ \A j \in Jobs : Take(r, j) => ~Busy(r) /\ At(r, "claimed", j, "pendiente_envio") /\ Same(r)
         /\ Begin(r) => /\ Mine(r) \in Jobs /\ Holds(r, Of(Mine(r)), lote[Mine(r)].ticket, "ninguno")
                        /\ \/ To(r, "querying") /\ lote[Mine(r)].estado = "pendiente_cdr"
                           \/ To(r, "marking")
         /\ \A v \in Ventas : r = Clerk /\ Consult(v) =>
              /\ venta[v].lote \in Jobs /\ lote[venta[v].lote].ticket # 0 /\ ~Busy(r)
              /\ At(r, "querying", venta[v].lote, "pendiente_envio")
              /\ Holds(r, Of(venta[v].lote), lote[venta[v].lote].ticket, "ninguno")
         /\ MarkSending(r) => Mine(r) \in Jobs /\ To(r, "sending") /\ Same(r)
         /\ SendSummary(r) => Mine(r) \in Jobs /\ To(r, "sent") /\ Holds(r, work[r].ventas, Len(sent) + 1, work[r].cdr)
         /\ SendLost(r) => Mine(r) \in Jobs /\ To(r, "failed") /\ Holds(r, work[r].ventas, 0, work[r].cdr)
         /\ StoreTicket(r) \/ QueryNoCdr(r) =>
              Mine(r) \in Jobs /\ To(r, "processed") /\ Same(r) /\ Applied(Mine(r), "pendiente_cdr", work[r].ticket)
         /\ QueryAnswered(r) =>
              /\ Mine(r) \in Jobs /\ To(r, "answered")
              /\ Holds(r, work[r].ventas, work[r].ticket, sent[work[r].ticket].verdict)
         /\ QueryFailed(r) => Mine(r) \in Jobs /\ To(r, "failed") /\ Same(r)
         /\ Record(r) =>
              Mine(r) \in Jobs /\ To(r, "processed") /\ Same(r) /\ Applied(Mine(r), work[r].cdr, work[r].ticket)
         /\ StoreFailed(r) =>
              Mine(r) \in Jobs /\ To(r, "failed") /\ \E i \in {0, work[r].ticket} : Holds(r, work[r].ventas, i, work[r].cdr)
         /\ (\E c \in BOOLEAN : MarkError(r, c)) =>
              /\ Mine(r) \in Jobs /\ To(r, "processed") /\ Same(r)
              /\ \E e \in {"error_definitivo", "error_transitorio"} : Applied(Mine(r), e, work[r].ticket)
         /\ ReadBack(r) => /\ Mine(r) \in Jobs /\ Holds(r, {}, 0, "ninguno")
                           /\ Idles(r) \/ At(r, "settling", Mine(r), lote[Mine(r)].estado)
         /\ Finish(r) \/ CloseGivenUp(r) => Mine(r) \in Jobs /\ Idles(r) /\ Same(r)
         /\ GiveUp(r) => Mine(r) \in Jobs /\ To(r, "closing") /\ Same(r) /\ Applied(Mine(r), "error_definitivo", 0)
         /\ Die(r) => Mine(r) \in Jobs /\ Idles(r) /\ Holds(r, {}, 0, "ninguno")
<1> USE DEF batchVars
<1>t. /\ work[r].ventas \in SUBSET Ventas /\ work[r].ticket \in 0..MaxSends /\ work[r].cdr \in Verdicts \cup {"ninguno"}
      /\ job \in [Jobs -> JobRows] /\ lote \in [Jobs -> Lotes] /\ sent \in Seq(Envios) /\ Len(sent) <= MaxSends
      /\ MaxSends \in Nat /\ 0 \in 0..MaxSends /\ NoJob \notin Jobs /\ venta \in [Ventas -> VentaRows]
      /\ Len(sent) \in Nat
  BY RowTypes DEF WorkRows
<1>s. {"idle", "claimed", "marking", "sending", "sent", "querying", "answered", "failed", "processed", "settling", "closing"}
        \subseteq Steps
  BY DEF Steps
<1>e. {"pendiente_cdr", "error_definitivo", "error_transitorio"} \subseteq Estados /\ Verdicts \subseteq Estados
  BY DEF Estados, Verdicts, Aceptados
<1>b. Busy(r) => Mine(r) \in Jobs BY DEF MinedOK
<1>o. \A j \in Jobs : Of(j) \in SUBSET Ventas /\ lote[j].ticket \in 0..MaxSends
  BY <1>t DEF Of, Lotes
<1>h. UNCHANGED work => Same(r) BY WorkMoves DEF Same
<1>p. \A s \in Steps : StepTo(r, s) => To(r, s) BY RunnerMoves DEF To
<1>i. runner' = [runner EXCEPT ![r] = IdleRunner] => Idles(r) BY RunnerMoves DEF Idles
<1>a. \A e \in Estados, i \in 0..MaxSends : Mine(r) \in Jobs /\ ApplyLoteResult(Mine(r), e, i) => Applied(Mine(r), e, i)
  BY ResultApplied
<1>1. ASSUME NEW j \in Jobs, Take(r, j) PROVE ~Busy(r) /\ At(r, "claimed", j, "pendiente_envio") /\ Same(r)
  BY <1>1, <1>s, <1>h, RunnerMoves DEF Take, ClaimJob
<1>2. ASSUME Begin(r)
      PROVE  /\ Mine(r) \in Jobs /\ Holds(r, Of(Mine(r)), lote[Mine(r)].ticket, "ninguno")
             /\ \/ To(r, "querying") /\ lote[Mine(r)].estado = "pendiente_cdr"
                \/ To(r, "marking")
  <2>1. Mine(r) \in Jobs BY <1>2, <1>b DEF Begin, RunnerAt, Busy
  <2>2. Holds(r, Of(Mine(r)), lote[Mine(r)].ticket, "ninguno")
    BY <1>2, <2>1, <1>o, WorkMoves DEF Begin
  <2>3. StepTo(r, IF lote[Mine(r)].estado = "pendiente_cdr" THEN "querying" ELSE "marking")
    BY <1>2 DEF Begin
  <2>4. CASE lote[Mine(r)].estado = "pendiente_cdr" BY <2>1, <2>2, <2>3, <2>4, <1>p, <1>s
  <2>5. CASE lote[Mine(r)].estado # "pendiente_cdr" BY <2>1, <2>2, <2>3, <2>5, <1>p, <1>s
  <2> QED BY <2>4, <2>5
<1>3. ASSUME NEW v \in Ventas, r = Clerk, Consult(v)
      PROVE  /\ venta[v].lote \in Jobs /\ lote[venta[v].lote].ticket # 0 /\ ~Busy(r)
             /\ At(r, "querying", venta[v].lote, "pendiente_envio")
             /\ Holds(r, Of(venta[v].lote), lote[venta[v].lote].ticket, "ninguno")
  <2>1. venta[v].lote \in Jobs BY <1>3, <1>t DEF Consult, VentaRows
  <2>2. lote[venta[v].lote].ticket # 0 /\ ~Busy(r) BY <1>3 DEF Consult
  <2>3. At(r, "querying", venta[v].lote, "pendiente_envio")
    BY <1>3, <2>1, <1>s, RunnerMoves DEF Consult
  <2>4. Holds(r, Of(venta[v].lote), lote[venta[v].lote].ticket, "ninguno")
    BY <1>3, <2>1, <1>o, WorkMoves DEF Consult
  <2> QED BY <2>1, <2>2, <2>3, <2>4
<1>4. ASSUME MarkSending(r) PROVE Mine(r) \in Jobs /\ To(r, "sending") /\ Same(r)
  BY <1>4, <1>b, <1>h, <1>p, <1>s DEF MarkSending, RunnerAt, Busy
<1>5. ASSUME SendSummary(r)
      PROVE  Mine(r) \in Jobs /\ To(r, "sent") /\ Holds(r, work[r].ventas, Len(sent) + 1, work[r].cdr)
  <2>1. Len(sent') = Len(sent) + 1 /\ Len(sent) + 1 \in 0..MaxSends
    BY <1>5, <1>t DEF SendSummary, SunatTakes
  <2> QED BY <1>5, <2>1, <1>b, <1>p, <1>s, WorkMoves DEF SendSummary, RunnerAt, Busy
<1>6. ASSUME SendLost(r) PROVE Mine(r) \in Jobs /\ To(r, "failed") /\ Holds(r, work[r].ventas, 0, work[r].cdr)
  BY <1>6, <1>t, <1>b, <1>p, <1>s, WorkMoves DEF SendLost, RunnerAt, Busy
<1>7. ASSUME StoreTicket(r) \/ QueryNoCdr(r)
      PROVE  Mine(r) \in Jobs /\ To(r, "processed") /\ Same(r) /\ Applied(Mine(r), "pendiente_cdr", work[r].ticket)
  <2>1. Busy(r) /\ StepTo(r, "processed") /\ ApplyLoteResult(Mine(r), "pendiente_cdr", work[r].ticket) /\ UNCHANGED work
    BY <1>7 DEF StoreTicket, QueryNoCdr, QueryNoCdrAs, RunnerAt, Busy
  <2> QED BY <2>1, <1>b, <1>p, <1>s, <1>h, <1>a, <1>t, <1>e
<1>8. ASSUME QueryAnswered(r)
      PROVE  /\ Mine(r) \in Jobs /\ To(r, "answered")
             /\ Holds(r, work[r].ventas, work[r].ticket, sent[work[r].ticket].verdict)
  BY <1>8, <1>b, <1>p, <1>s, WorkMoves DEF QueryAnswered, RunnerAt, Busy
<1>9. ASSUME QueryFailed(r) PROVE Mine(r) \in Jobs /\ To(r, "failed") /\ Same(r)
  BY <1>9, <1>b, <1>h, <1>p, <1>s DEF QueryFailed, RunnerAt, Busy
<1>10. ASSUME Record(r)
       PROVE  Mine(r) \in Jobs /\ To(r, "processed") /\ Same(r) /\ Applied(Mine(r), work[r].cdr, work[r].ticket)
  <2>1. Busy(r) /\ StepTo(r, "processed") /\ ApplyLoteResult(Mine(r), work[r].cdr, work[r].ticket) /\ UNCHANGED work
    BY <1>10 DEF Record, RunnerAt, Busy
  <2>2. work[r].cdr \in Estados BY <1>10, <1>e DEF Record, TicketOK
  <2> QED BY <2>1, <2>2, <1>b, <1>p, <1>s, <1>h, <1>a, <1>t
<1>11. ASSUME StoreFailed(r)
       PROVE  Mine(r) \in Jobs /\ To(r, "failed") /\ \E i \in {0, work[r].ticket} : Holds(r, work[r].ventas, i, work[r].cdr)
  <2>1. Busy(r) /\ StepTo(r, "failed") /\ \E i \in {0, work[r].ticket} : work' = [work EXCEPT ![r].ticket = i]
    BY <1>11 DEF StoreFailed, RunnerAt, Busy
  <2> QED BY <2>1, <1>b, <1>p, <1>s, <1>t, WorkMoves
<1>12. ASSUME NEW c \in BOOLEAN, MarkError(r, c)
       PROVE  /\ Mine(r) \in Jobs /\ To(r, "processed") /\ Same(r)
              /\ \E e \in {"error_definitivo", "error_transitorio"} : Applied(Mine(r), e, work[r].ticket)
  <2>1. /\ Busy(r) /\ StepTo(r, "processed") /\ UNCHANGED work
        /\ \E e \in {"error_definitivo", "error_transitorio"} : ApplyLoteResult(Mine(r), e, work[r].ticket)
    BY <1>12 DEF MarkError, RunnerAt, Busy
  <2> QED BY <2>1, <1>b, <1>p, <1>s, <1>h, <1>a, <1>t, <1>e
<1>13. ASSUME ReadBack(r)
       PROVE  /\ Mine(r) \in Jobs /\ Holds(r, {}, 0, "ninguno")
              /\ Idles(r) \/ At(r, "settling", Mine(r), lote[Mine(r)].estado)
  <2>1. Mine(r) \in Jobs BY <1>13, <1>b DEF ReadBack, Reread, RunnerAt, Busy
  <2>2. lote[Mine(r)].estado \in Estados /\ job[Mine(r)].intentos \in 0..IntentosCap
    BY <2>1, <1>t DEF Mine, LoteOK, Lotes, JobRows
  <2>3. CASE r = Clerk BY <1>13, <2>1, <2>3, <1>i, WorkMoves DEF ReadBack, Abandon
  <2>4. CASE r # Clerk
    <3>1. Reread(r, lote[Mine(r)].estado) /\ Forget(r) BY <1>13, <2>4 DEF ReadBack
    <3>2. At(r, "settling", Mine(r), lote[Mine(r)].estado)
      BY <2>2, <3>1, RunnerMoves DEF Mine, Reread
    <3> QED BY <2>1, <3>1, <3>2, WorkMoves
  <2> QED BY <2>3, <2>4
<1>14. ASSUME Finish(r) \/ CloseGivenUp(r) PROVE Mine(r) \in Jobs /\ Idles(r) /\ Same(r)
  BY <1>14, <1>b, <1>h, <1>i DEF Finish, SettleFinal, PutBack, Settled, Remaining, CloseGivenUp, Close, RunnerAt, Busy
<1>15. ASSUME GiveUp(r)
       PROVE  Mine(r) \in Jobs /\ To(r, "closing") /\ Same(r) /\ Applied(Mine(r), "error_definitivo", 0)
  <2>1. Busy(r) /\ StepTo(r, "closing") /\ ApplyLoteResult(Mine(r), "error_definitivo", 0) /\ UNCHANGED work
    BY <1>15 DEF GiveUp, Exhausted, RunnerAt, Busy
  <2> QED BY <2>1, <1>b, <1>p, <1>s, <1>h, <1>a, <1>t, <1>e
<1>16. ASSUME Die(r) PROVE Mine(r) \in Jobs /\ Idles(r) /\ Holds(r, {}, 0, "ninguno")
  BY <1>16, <1>b, <1>i, WorkMoves DEF Die, Abandon
<1>17. QED
  BY <1>1, <1>2, <1>3, <1>4, <1>5, <1>6, <1>7, <1>8, <1>9, <1>10, <1>11, <1>12, <1>13, <1>14, <1>15, <1>16

----------------------------------------
(* Types.                                                                  *)

\* Every row is of its type after any step.
LEMMA TypeStep ==
  ASSUME TypeOK, MinedOK, LoteOK, TicketOK, Next
  PROVE  TypeOK'
<1> USE DEF batchVars
<1>t. /\ job \in [Jobs -> JobRows] /\ runner \in [Runners -> RunnerRows]
      /\ lote \in [Jobs -> Lotes] /\ venta \in [Ventas -> VentaRows] /\ solicitud \in [Ventas -> Pedidos]
      /\ work \in [Runners -> WorkRows] /\ sent \in Seq(Envios) /\ Len(sent) <= MaxSends
      /\ consults \in Nat /\ consults <= MaxConsults /\ late \subseteq Ventas /\ returns \in [Ventas -> Nat]
      /\ faults \in Nat /\ faults <= MaxFaults /\ Clerk \in Runners /\ QueueTypeOK
      /\ MaxSends \in Nat /\ MaxConsults \in Nat /\ MaxFaults \in Nat /\ IntentosCap \in Nat /\ Jobs \subseteq Nat \ {0}
  BY RowTypes
<1>q. ASSUME job' \in [Jobs -> JobRows], runner' \in [Runners -> RunnerRows], lote' \in [Jobs -> Lotes],
             venta' \in [Ventas -> VentaRows], solicitud' \in [Ventas -> Pedidos], work' \in [Runners -> WorkRows],
             sent' \in Seq(Envios), Len(sent') <= MaxSends, consults' \in 0..MaxConsults, late' \subseteq Ventas,
             returns' \in [Ventas -> Nat], faults' \in 0..MaxFaults
      PROVE  TypeOK'
  BY <1>q DEF TypeOK, QueueTypeOK, WorkRows, Pedidos
<1>k. consults \in 0..MaxConsults /\ faults \in 0..MaxFaults BY <1>t
<1>e. {"pendiente_envio", "enviando"} \subseteq Estados BY DEF Estados
<1>a. ASSUME NEW r \in Runners, NEW s, To(r, s), Same(r), \E j \in Jobs : \E e, i : Applied(j, e, i),
             UNCHANGED <<job, solicitud, sent, consults, late, faults>>
      PROVE  TypeOK'
  BY <1>a, <1>q, <1>t, <1>k DEF To, At, Same, Holds, Applied
<1>w. ASSUME NEW r \in Runners, \E s, j, e : At(r, s, j, e), \E vs, i, c : Holds(r, vs, i, c),
             UNCHANGED <<job, lote, venta, solicitud, consults, late, returns, faults>>,
             sent' \in Seq(Envios), Len(sent') <= MaxSends
      PROVE  TypeOK'
  BY <1>w, <1>q, <1>t, <1>k DEF At, Holds
<1>1. ASSUME NEW r \in Runners, NEW j \in Jobs, Take(r, j) PROVE TypeOK'
  <2>1. job[j].intentos + 1 \in 0..IntentosCap BY <1>1, <1>t DEF Take, ClaimJob, JobRows
  <2>2. job' \in [Jobs -> JobRows] BY <1>1, <2>1, <1>t, JobRow DEF Take, ClaimJob, JobEstados
  <2>3. At(r, "claimed", j, "pendiente_envio") BY <1>1, Moves
  <2> QED BY <1>1, <2>2, <2>3, <1>q, <1>t, <1>k DEF Take, At
<1>2. ASSUME NEW v \in Ventas, PickLote(v) \/ Collide(v) \/ Join(v) \/ Consult(v) PROVE TypeOK'
  <2>1. CASE PickLote(v)
    <3>1. PICK j \in Jobs, b \in BOOLEAN : solicitud' = [solicitud EXCEPT ![v] = [lote |-> j, opens |-> b]]
      BY <2>1 DEF PickLote
    <3>2. solicitud' \in [Ventas -> Pedidos] BY <3>1, <1>t DEF Pedidos
    <3> QED BY <2>1, <3>2, <1>q, <1>t, <1>k DEF PickLote
  <2>2. NoRequest \in Pedidos BY DEF NoRequest, Pedidos
  <2>3. CASE Collide(v) BY <2>2, <2>3, <1>q, <1>t, <1>k DEF Collide
  <2>4. CASE Join(v)
    <3>1. PICK j \in Jobs : j = solicitud[v].lote BY <2>4 DEF Join, LoteOK
    <3>2. lote' \in [Jobs -> Lotes]
      <4>1. PICK e \in Estados \cup {"ausente"} : e = (IF solicitud[v].opens THEN "pendiente_envio" ELSE lote[j].estado)
        BY <1>t, <1>e DEF Lotes
      <4>2. lote' = [lote EXCEPT ![j].estado = e] BY <2>4, <3>1, <4>1, <1>t DEF Join
      <4> QED BY <4>2, <1>t DEF Lotes
    <3>3. venta' \in [Ventas -> VentaRows]
      <4>1. PICK w \in VentaRows : w = venta[v] BY <1>t
      <4>2. PICK x : x = [w EXCEPT !.lote = j, !.baja = "pendiente_envio", !.cuenta = "anulacion_pendiente"]
        OBVIOUS
      <4>3. x \in VentaRows BY <4>2, <1>e DEF VentaRows
      <4>4. venta' = [venta EXCEPT ![v] = x] BY <2>4, <3>1, <4>1, <4>2 DEF Join
      <4> QED BY <4>3, <4>4, <1>t
    <3>4. job' \in [Jobs -> JobRows]
      <4>1. "pendiente_envio" \in JobEstados /\ 0 \in 0..IntentosCap BY <1>t DEF JobEstados
      <4>2. job' = [job EXCEPT ![j] = [estado |-> "pendiente_envio", intentos |-> 0]]
        BY <2>4, <3>1 DEF Join, Upsert, Pending
      <4> QED BY <4>1, <4>2, <1>t, JobRow
    <3>5. late' \subseteq Ventas BY <2>4, <1>t DEF Join
    <3> QED BY <2>2, <2>4, <3>2, <3>3, <3>4, <3>5, <1>q, <1>t, <1>k DEF Join
  <2>5. CASE Consult(v)
    <3>1. \E j : At(Clerk, "querying", j, "pendiente_envio") /\ \E vs, i : Holds(Clerk, vs, i, "ninguno")
      BY <2>5, <1>t, Moves
    <3>2. consults' \in 0..MaxConsults BY <2>5, <1>t DEF Consult
    <3> QED BY <2>5, <3>1, <3>2, <1>q, <1>t, <1>k DEF Consult, At, Holds
  <2> QED BY <1>2, <2>1, <2>3, <2>4, <2>5
<1>3. ASSUME NEW r \in Runners, Process(r) PROVE TypeOK'
  <2>1. CASE Begin(r)
    <3>1. (\E s, j, e : At(r, s, j, e)) /\ \E vs, i, c : Holds(r, vs, i, c) BY <2>1, Moves DEF To
    <3> QED BY <2>1, <3>1, <1>w, <1>t DEF Begin
  <2>2. CASE MarkSending(r)
    <3>1. To(r, "sending") /\ Same(r) BY <2>2, Moves
    <3>2. lote' \in [Jobs -> Lotes] BY <2>2, <1>t, <1>e DEF MarkSending, Lotes
    <3>3. \A v \in Ventas : [venta[v] EXCEPT !.baja = "enviando"] \in VentaRows
      BY <1>t, <1>e DEF VentaRows
    <3>4. venta' \in [Ventas -> VentaRows] BY <2>2, <3>3, <1>t DEF MarkSending
    <3> QED BY <2>2, <3>1, <3>2, <3>4, <1>q, <1>t, <1>k DEF MarkSending, To, At, Same, Holds
  <2>3. CASE SendSummary(r) \/ SendLost(r)
    <3>1. (\E s, j, e : At(r, s, j, e)) /\ \E vs, i, c : Holds(r, vs, i, c) BY <2>3, Moves DEF To
    <3>2. Mine(r) \in Jobs /\ work[r].ventas \in SUBSET Ventas BY <2>3, <1>t, Moves DEF WorkRows
    <3>3. [lote |-> Mine(r), ventas |-> work[r].ventas, verdict |-> "en_proceso"] \in Envios
      BY <3>2 DEF Envios
    <3>4. sent' \in Seq(Envios) /\ Len(sent') <= MaxSends
      <4>1. PICK x \in Envios : x = [lote |-> Mine(r), ventas |-> work[r].ventas, verdict |-> "en_proceso"]
        BY <3>3
      <4>2. UNCHANGED sent \/ (sent' = Append(sent, x) /\ Len(sent) < MaxSends)
        BY <2>3, <4>1 DEF SendSummary, SendLost, SunatTakes
      <4>3. sent \in Seq(Envios) /\ MaxSends \in Nat /\ Len(sent) \in Nat /\ Len(sent) <= MaxSends
        BY <1>t
      <4>4. Append(sent, x) \in Seq(Envios) /\ Len(Append(sent, x)) = Len(sent) + 1 BY <4>1, <4>3
      <4> QED BY <4>2, <4>3, <4>4
    <3> QED BY <2>3, <3>1, <3>4, <1>w DEF SendSummary, SendLost
  <2>4. CASE StoreTicket(r) \/ QueryNoCdr(r)
    BY <2>4, <1>a, Moves DEF StoreTicket, QueryNoCdr, QueryNoCdrAs
  <2>5. CASE QueryAnswered(r) \/ QueryFailed(r) \/ StoreFailed(r)
    <3>1. (\E s, j, e : At(r, s, j, e)) /\ \E vs, i, c : Holds(r, vs, i, c)
      BY <2>5, Moves DEF To, Same
    <3> QED BY <2>5, <3>1, <1>w, <1>t DEF QueryAnswered, QueryFailed, StoreFailed
  <2>6. CASE Record(r) BY <2>6, <1>a, Moves DEF Record
  <2>7. ASSUME NEW c \in BOOLEAN, MarkError(r, c) PROVE TypeOK'
    <3>1. To(r, "processed") /\ Same(r) /\ \E j \in Jobs : \E e, i : Applied(j, e, i) BY <2>7, Moves
    <3> QED BY <2>7, <3>1, <1>a DEF MarkError
  <2>8. CASE ReadBack(r)
    <3>1. (\E s, j, e : At(r, s, j, e)) /\ \E vs, i, c : Holds(r, vs, i, c) BY <2>8, Moves DEF Idles
    <3>2. UNCHANGED job BY <2>8 DEF ReadBack, Abandon, Reread
    <3> QED BY <2>8, <3>1, <3>2, <1>w, <1>t DEF ReadBack
  <2>9. CASE Finish(r) \/ CloseGivenUp(r)
    <3>1. Idles(r) /\ Same(r) /\ Mine(r) \in Jobs BY <2>9, Moves
    <3>2. \E e \in JobEstados : job' = [job EXCEPT ![runner[r].job].estado = e]
      BY <2>9 DEF Finish, SettleFinal, PutBack, CloseGivenUp, Close, JobEstados
    <3>3. job' \in [Jobs -> JobRows]
      <4>1. PICK e \in JobEstados : job' = [job EXCEPT ![runner[r].job].estado = e] BY <3>2
      <4>2. runner[r].job \in Jobs BY <3>1 DEF Mine
      <4> QED BY <4>1, <4>2, <1>t, JobRow, QueueAssumption DEF JobRows
    <3> QED BY <2>9, <3>1, <3>3, <1>q, <1>t, <1>k DEF Finish, CloseGivenUp, Idles, At, Same, Holds
  <2>10. CASE GiveUp(r) BY <2>10, <1>a, Moves DEF GiveUp
  <2> QED BY <1>3, <2>1, <2>2, <2>3, <2>4, <2>5, <2>6, <2>7, <2>8, <2>9, <2>10 DEF Process
<1>4. ASSUME NEW r \in Runners, Die(r) PROVE TypeOK'
  <2>1. Idles(r) /\ \E vs, i, c : Holds(r, vs, i, c) BY <1>4, Moves
  <2>2. faults' \in 0..MaxFaults BY <1>4, <1>t DEF Die
  <2> QED BY <1>4, <2>1, <2>2, <1>q, <1>t, <1>k DEF Die, Abandon, Idles, At, Holds
<1>5. ASSUME NEW i \in DOMAIN sent, NEW v \in Verdicts, SunatDecides(i, v) PROVE TypeOK'
  <2>1. PICK y \in Envios : y = sent[i] BY <1>t
  <2>3. PICK x : x = [y EXCEPT !.verdict = v] OBVIOUS
  <2>4. x \in Envios BY <2>3 DEF Envios
  <2>5. sent' = [sent EXCEPT ![i] = x] BY <1>5, <2>1, <2>3 DEF SunatDecides
  <2>6. sent' \in Seq(Envios) /\ Len(sent') = Len(sent) BY <2>4, <2>5, <1>t
  <2> QED BY <1>5, <2>6, <1>q, <1>t, <1>k DEF SunatDecides
<1> QED BY <1>1, <1>2, <1>3, <1>4, <1>5 DEF Next

----------------------------------------
(* The XML files, and what one runner can touch.                           *)

\* What SUNAT was sent stays as it was sent, and what it has decided stays decided.
Grows ==
  /\ DOMAIN sent \subseteq DOMAIN sent'
  /\ \A i \in DOMAIN sent :
       /\ sent'[i].lote = sent[i].lote /\ sent'[i].ventas = sent[i].ventas
       /\ sent[i].verdict \in Verdicts => sent'[i].verdict = sent[i].verdict

\* Runner r has sent the sales it holds of batch k.
Sends(r, k) ==
  /\ RunnerAt(r, "sending") /\ Grows
  /\ DOMAIN sent' = DOMAIN sent \cup {Len(sent) + 1}
  /\ sent'[Len(sent) + 1] = [lote |-> k, ventas |-> work[r].ventas, verdict |-> "en_proceso"]

\* A new XML goes behind the others.
LEMMA Sending ==
  ASSUME TypeOK, NEW r \in Runners, RunnerAt(r, "sending"), Mine(r) \in Jobs, SunatTakes(r)
  PROVE  Sends(r, Mine(r))
<1>1. sent \in Seq(Envios) /\ Len(sent) \in Nat BY RowTypes
<1>2. PICK x : x = [lote |-> Mine(r), ventas |-> work[r].ventas, verdict |-> "en_proceso"] OBVIOUS
<1>3. sent' = Append(sent, x) BY <1>2 DEF SunatTakes
<1>4. /\ DOMAIN sent' = DOMAIN sent \cup {Len(sent) + 1} /\ sent'[Len(sent) + 1] = x
      /\ \A i \in DOMAIN sent : sent'[i] = sent[i]
  BY <1>1, <1>3
<1> QED BY <1>2, <1>4 DEF Sends, Grows

\* Nothing but SUNAT's decision and a new XML changes what was sent.
LEMMA SentGrows ==
  ASSUME TypeOK, MinedOK, Next
  PROVE  Grows
<1> USE DEF batchVars
<1>u. UNCHANGED sent => Grows BY DEF Grows
<1>1. ASSUME NEW r \in Runners, SendSummary(r) \/ SendLost(r) PROVE Grows
  <2>1. RunnerAt(r, "sending") /\ (SunatTakes(r) \/ UNCHANGED sent)
    BY <1>1 DEF SendSummary, SendLost
  <2>2. Mine(r) \in Jobs BY <2>1 DEF MinedOK, RunnerAt, Busy
  <2> QED BY <1>u, <2>1, <2>2, Sending DEF Sends
<1>2. ASSUME NEW r \in Runners, Process(r), ~SendSummary(r), ~SendLost(r) PROVE UNCHANGED sent
  <2>1. CASE Begin(r) \/ MarkSending(r) \/ StoreTicket(r) \/ QueryAnswered(r) \/ QueryNoCdr(r) \/ QueryFailed(r) \/ Record(r)
    BY <2>1 DEF Begin, MarkSending, StoreTicket, QueryAnswered, QueryNoCdr, QueryNoCdrAs, QueryFailed, Record
  <2>2. CASE StoreFailed(r) \/ (\E c \in BOOLEAN : MarkError(r, c)) \/ ReadBack(r) \/ Finish(r) \/ GiveUp(r) \/ CloseGivenUp(r)
    BY <2>2 DEF StoreFailed, MarkError, ReadBack, Finish, GiveUp, CloseGivenUp
  <2> QED BY <1>2, <2>1, <2>2 DEF Process
<1>3. ASSUME NEW v \in Ventas, PickLote(v) \/ Collide(v) \/ Join(v) \/ Consult(v) PROVE UNCHANGED sent
  BY <1>3 DEF PickLote, Collide, Join, Consult
<1>4. ASSUME NEW r \in Runners, NEW j \in Jobs, Take(r, j) PROVE UNCHANGED sent BY <1>4 DEF Take
<1>5. ASSUME NEW r \in Runners, Die(r) PROVE UNCHANGED sent BY <1>5 DEF Die
<1>6. ASSUME NEW i \in DOMAIN sent, NEW v \in Verdicts, SunatDecides(i, v) PROVE Grows
  <2>1. sent[i].verdict \notin Verdicts BY <1>6 DEF SunatDecides, Verdicts, Aceptados
  <2>2. PICK y \in Envios : y = sent[i] BY RowTypes
  <2>3. PICK x : x = [y EXCEPT !.verdict = v] OBVIOUS
  <2>4. sent' = [sent EXCEPT ![i] = x] /\ x.lote = y.lote /\ x.ventas = y.ventas
    BY <1>6, <2>2, <2>3 DEF SunatDecides, Envios
  <2> QED BY <2>1, <2>2, <2>4 DEF Grows
<1> QED BY <1>u, <1>1, <1>2, <1>3, <1>4, <1>5, <1>6 DEF Next

\* What runner r leaves alone when it touches batch k, and how it may leave that one.
Touches(r, k) ==
  /\ lote[k].estado # "ausente" /\ lote'[k].estado # "ausente"
  /\ lote'[k].estado = "pendiente_envio" => lote[k].estado = "pendiente_envio"
  /\ lote'[k].ticket \in {0, lote[k].ticket, work[r].ticket}
  /\ lote'[k].estado = "pendiente_cdr" => lote'[k].ticket # 0
  /\ \A j \in Jobs : j # k => lote'[j] = lote[j] /\ job'[j] = job[j]
  /\ \A v \in Ventas : venta'[v].lote = venta[v].lote
  /\ UNCHANGED <<solicitud, late>>
  /\ \A u \in Runners : u # r => runner'[u] = runner[u] /\ work'[u] = work[u]
  /\ runner[r].job \in {k, NoJob}
  /\ runner'[r].job = IF runner'[r].step # "idle" THEN k ELSE NoJob
  /\ UNCHANGED sent \/ Sends(r, k)

\* A step of runner r; the clerk's begin with a consultation.
Works(r) ==
  \/ Process(r) \/ Die(r)
  \/ \E j \in Jobs : Take(r, j)
  \/ r = Clerk /\ \E v \in Ventas : Consult(v)

\* A runner touches one batch.
LEMMA Touching ==
  ASSUME TypeOK, MinedOK, LoteOK, TicketOK, NEW r \in Runners, Works(r)
  PROVE  \E k \in Jobs : Touches(r, k)
<1> USE DEF batchVars, Works
<1>t. /\ NoJob \notin Jobs /\ lote \in [Jobs -> Lotes] /\ job \in [Jobs -> JobRows] /\ venta \in [Ventas -> VentaRows]
      /\ Clerk \in Runners
  BY RowTypes
<1>n. Busy(r) => Mine(r) \in Jobs /\ lote[Mine(r)].estado # "ausente" BY DEF MinedOK, LoteOK, Mine
<1>k. \A j \in Jobs : lote[j].estado = "pendiente_cdr" => lote[j].ticket # 0 BY DEF LoteOK
<1>i. ~Busy(r) => runner[r].job = NoJob BY DEF MinedOK, Mine
<1>m. ASSUME NEW s, NEW e, At(r, s, Mine(r), e), s # "idle", NEW vs, NEW i, NEW c, Holds(r, vs, i, c)
      PROVE  /\ \A u \in Runners : u # r => runner'[u] = runner[u] /\ work'[u] = work[u]
             /\ runner[r].job \in {Mine(r), NoJob}
             /\ runner'[r].job = IF runner'[r].step # "idle" THEN Mine(r) ELSE NoJob
  BY <1>m DEF At, Holds, Mine
<1>d. ASSUME Idles(r), NEW vs, NEW i, NEW c, Holds(r, vs, i, c)
      PROVE  /\ \A u \in Runners : u # r => runner'[u] = runner[u] /\ work'[u] = work[u]
             /\ runner[r].job \in {Mine(r), NoJob}
             /\ runner'[r].job = IF runner'[r].step # "idle" THEN Mine(r) ELSE NoJob
  BY <1>d DEF Idles, At, Holds, Mine
<1>a. ASSUME NEW e, NEW i, Applied(Mine(r), e, i), e \notin {"ausente", "pendiente_envio"}
      PROVE  /\ lote'[Mine(r)].estado \notin {"ausente", "pendiente_envio"} /\ lote'[Mine(r)].ticket = i
             /\ \A j \in Jobs : j # Mine(r) => lote'[j] = lote[j]
             /\ \A v \in Ventas : venta'[v].lote = venta[v].lote
             /\ lote'[Mine(r)].estado = e
  BY <1>a DEF Applied
<1>1. ASSUME NEW j \in Jobs, Take(r, j) PROVE Touches(r, j)
  <2>1. At(r, "claimed", j, "pendiente_envio") /\ Same(r) /\ ~Busy(r) BY <1>1, Moves
  <2>2. job[j].estado = "pendiente_envio" /\ \A k \in Jobs : k # j => job'[k] = job[k]
    BY <1>1, <1>t DEF Take, ClaimJob
  <2>3. lote[j].estado # "ausente" BY <2>2 DEF LoteOK
  <2> QED BY <1>1, <2>1, <2>2, <2>3, <1>k, <1>i DEF Touches, At, Same, Holds, Take
<1>2. ASSUME NEW v \in Ventas, r = Clerk, Consult(v) PROVE venta[v].lote \in Jobs /\ Touches(r, venta[v].lote)
  <2>1. /\ venta[v].lote \in Jobs /\ lote[venta[v].lote].ticket # 0 /\ ~Busy(r)
        /\ At(r, "querying", venta[v].lote, "pendiente_envio")
        /\ Holds(r, Of(venta[v].lote), lote[venta[v].lote].ticket, "ninguno")
    BY <1>2, Moves
  <2>2. lote[venta[v].lote].estado # "ausente" BY <2>1 DEF LoteOK
  <2> QED BY <1>2, <2>1, <2>2, <1>k, <1>i DEF Touches, At, Holds, Consult
<1>3. CASE Begin(r)
  <2>1. /\ Mine(r) \in Jobs /\ Holds(r, Of(Mine(r)), lote[Mine(r)].ticket, "ninguno") /\ Busy(r)
        /\ \E s \in {"querying", "marking"} : At(r, s, Mine(r), runner[r].estado)
    BY <1>3, Moves DEF To, Mine, Begin, RunnerAt, Busy
  <2> QED BY <1>3, <2>1, <1>m, <1>n, <1>k DEF Touches, Begin
<1>4. CASE MarkSending(r)
  <2>1. Mine(r) \in Jobs /\ At(r, "sending", Mine(r), runner[r].estado) /\ Same(r) /\ Busy(r)
    BY <1>4, Moves DEF To, Mine, MarkSending, RunnerAt, Busy
  <2>2. lote'[Mine(r)].estado = "enviando" /\ lote'[Mine(r)].ticket = lote[Mine(r)].ticket
        /\ \A j \in Jobs : j # Mine(r) => lote'[j] = lote[j]
    BY <1>4, <2>1, <1>t DEF MarkSending, Lotes
  <2>3. \A v \in Ventas : venta'[v].lote = venta[v].lote BY <1>4, <1>t DEF MarkSending, VentaRows
  <2> QED BY <1>4, <2>1, <2>2, <2>3, <1>m, <1>n DEF Touches, MarkSending, Same
<1>5. CASE SendSummary(r) \/ SendLost(r)
  <2>1. /\ Mine(r) \in Jobs /\ RunnerAt(r, "sending") /\ Busy(r)
        /\ \E s \in {"sent", "failed"} : At(r, s, Mine(r), runner[r].estado)
        /\ \E vs, i, c : Holds(r, vs, i, c)
    BY <1>5, Moves DEF To, Mine, SendSummary, SendLost, RunnerAt, Busy
  <2>2. UNCHANGED sent \/ Sends(r, Mine(r)) BY <1>5, <2>1, Sending DEF SendSummary, SendLost
  <2> QED BY <1>5, <2>1, <2>2, <1>m, <1>n, <1>k DEF Touches, SendSummary, SendLost
<1>6. CASE StoreTicket(r) \/ QueryNoCdr(r)
  <2>1. /\ Mine(r) \in Jobs /\ At(r, "processed", Mine(r), runner[r].estado) /\ Same(r) /\ Busy(r)
        /\ Applied(Mine(r), "pendiente_cdr", work[r].ticket)
    BY <1>6, Moves DEF To, Mine, StoreTicket, QueryNoCdr, QueryNoCdrAs, RunnerAt, Busy
  <2>2. work[r].ticket # 0 BY <1>6 DEF TicketOK, StoreTicket, QueryNoCdr, QueryNoCdrAs, RunnerAt
  <2>3. UNCHANGED <<job, solicitud, late, sent>> BY <1>6 DEF StoreTicket, QueryNoCdr, QueryNoCdrAs
  <2> QED BY <2>1, <2>2, <2>3, <1>m, <1>n, <1>a DEF Touches, Same
<1>7. CASE QueryAnswered(r) \/ QueryFailed(r) \/ StoreFailed(r)
  <2>1. /\ Mine(r) \in Jobs /\ Busy(r) /\ \E s \in {"answered", "failed"} : At(r, s, Mine(r), runner[r].estado)
        /\ \E vs, i, c : Holds(r, vs, i, c)
    BY <1>7, Moves DEF To, Same, Mine, QueryAnswered, QueryFailed, StoreFailed, RunnerAt, Busy
  <2>2. UNCHANGED <<job, lote, venta, solicitud, late, sent>>
    BY <1>7 DEF QueryAnswered, QueryFailed, StoreFailed
  <2> QED BY <2>1, <2>2, <1>m, <1>n, <1>k DEF Touches
<1>8. CASE Record(r)
  <2>1. /\ Mine(r) \in Jobs /\ At(r, "processed", Mine(r), runner[r].estado) /\ Same(r) /\ Busy(r)
        /\ Applied(Mine(r), work[r].cdr, work[r].ticket)
    BY <1>8, Moves DEF To, Mine, Record, RunnerAt, Busy
  <2>2. work[r].cdr \in Verdicts BY <1>8 DEF Record, TicketOK
  <2>3. work[r].cdr \notin {"ausente", "pendiente_envio", "pendiente_cdr"}
    BY <2>2 DEF Verdicts, Aceptados
  <2> QED BY <1>8, <2>1, <2>3, <1>m, <1>n, <1>a DEF Touches, Same, Record
<1>9. ASSUME NEW c \in BOOLEAN, MarkError(r, c) PROVE \E k \in Jobs : Touches(r, k)
  <2>1. /\ Mine(r) \in Jobs /\ At(r, "processed", Mine(r), runner[r].estado) /\ Same(r) /\ Busy(r)
        /\ \E e \in {"error_definitivo", "error_transitorio"} : Applied(Mine(r), e, work[r].ticket)
    BY <1>9, Moves DEF To, Mine, MarkError, RunnerAt, Busy
  <2> QED BY <1>9, <2>1, <1>m, <1>n, <1>a DEF Touches, Same, MarkError
<1>10. CASE ReadBack(r) \/ Die(r)
  <2>1. /\ Mine(r) \in Jobs /\ Busy(r) /\ Holds(r, {}, 0, "ninguno")
        /\ Idles(r) \/ At(r, "settling", Mine(r), lote[Mine(r)].estado)
    BY <1>10, Moves DEF ReadBack, Die, Reread, Abandon, RunnerAt, Busy
  <2>2. UNCHANGED <<job, lote, venta, solicitud, late, sent>>
    BY <1>10 DEF ReadBack, Die, Reread, Abandon
  <2> QED BY <2>1, <2>2, <1>m, <1>d, <1>n, <1>k DEF Touches
<1>11. CASE Finish(r) \/ CloseGivenUp(r)
  <2>1. Mine(r) \in Jobs /\ Idles(r) /\ Same(r) /\ Busy(r)
    BY <1>11, Moves DEF Finish, SettleFinal, PutBack, Settled, Remaining, CloseGivenUp, RunnerAt, Busy
  <2>2. \E e : job' = [job EXCEPT ![Mine(r)].estado = e]
    BY <1>11 DEF Finish, SettleFinal, PutBack, CloseGivenUp, Close, Mine
  <2>3. \A j \in Jobs : j # Mine(r) => job'[j] = job[j] BY <2>2, <1>t
  <2> QED BY <1>11, <2>1, <2>3, <1>d, <1>n, <1>k DEF Touches, Finish, CloseGivenUp, Same
<1>12. CASE GiveUp(r)
  <2>1. /\ Mine(r) \in Jobs /\ At(r, "closing", Mine(r), runner[r].estado) /\ Same(r) /\ Busy(r)
        /\ Applied(Mine(r), "error_definitivo", 0)
    BY <1>12, Moves DEF To, Mine, GiveUp, Exhausted, RunnerAt, Busy
  <2> QED BY <1>12, <2>1, <1>m, <1>n, <1>a DEF Touches, Same, GiveUp
<1> QED BY <1>1, <1>2, <1>3, <1>4, <1>5, <1>6, <1>7, <1>8, <1>9, <1>10, <1>11, <1>12 DEF Process

\* What runner r, at batch k after its step, has in hand then.
Hands(r, k) ==
  /\ runner'[r].step \in {"idle", "settling", "closing"} => work'[r].ticket = 0
  /\ runner'[r].step \in {"querying", "answered", "sent"} => work'[r].ticket # 0
  /\ runner'[r].step # "idle" =>
       \/ work'[r].ticket \in {0, lote[k].ticket}
       \/ work'[r].ticket = work[r].ticket /\ runner[r].job = k
       \/ work'[r].ticket = Len(sent) + 1 /\ Sends(r, k)
  /\ runner'[r].step = "answered" =>
       work'[r].cdr \in Verdicts /\ work'[r].ticket = work[r].ticket /\ work'[r].cdr = sent[work[r].ticket].verdict
  /\ runner'[r].step \in {"marking", "sending"} =>
       \/ work'[r].ventas = Of(k)
       \/ work'[r].ventas = work[r].ventas /\ RunnerAt(r, "marking") /\ runner[r].job = k
  /\ runner'[r].step = "sending" => lote'[k].estado = "enviando"

\* Where each step leaves its runner.
LEMMA Handing ==
  ASSUME TypeOK, MinedOK, LoteOK, TicketOK, NEW r \in Runners, Works(r)
  PROVE  Hands(r, runner'[r].job)
<1> USE DEF batchVars
<1>t. lote \in [Jobs -> Lotes] /\ Clerk \in Runners /\ Len(sent) \in Nat BY RowTypes
<1>1. ASSUME NEW j \in Jobs, Take(r, j) PROVE Hands(r, runner'[r].job)
  <2>1. At(r, "claimed", j, "pendiente_envio") /\ Same(r) /\ ~Busy(r) BY <1>1, Moves
  <2>2. work[r].ticket = 0 BY <2>1 DEF MinedOK, Busy
  <2> QED BY <2>1, <2>2 DEF Hands, At, Same, Holds
<1>2. ASSUME NEW v \in Ventas, r = Clerk, Consult(v) PROVE Hands(r, runner'[r].job)
  <2>1. /\ venta[v].lote \in Jobs /\ lote[venta[v].lote].ticket # 0
        /\ At(r, "querying", venta[v].lote, "pendiente_envio")
        /\ Holds(r, Of(venta[v].lote), lote[venta[v].lote].ticket, "ninguno")
    BY <1>2, Moves
  <2> QED BY <2>1 DEF Hands, At, Holds
<1>3. CASE Begin(r)
  <2>1. /\ Mine(r) \in Jobs /\ Holds(r, Of(Mine(r)), lote[Mine(r)].ticket, "ninguno")
        /\ \/ At(r, "querying", Mine(r), runner[r].estado) /\ lote[Mine(r)].ticket # 0
           \/ At(r, "marking", Mine(r), runner[r].estado)
    BY <1>3, Moves DEF To, Mine, LoteOK
  <2> QED BY <2>1 DEF Hands, At, Holds
<1>4. CASE MarkSending(r)
  <2>1. Mine(r) \in Jobs /\ At(r, "sending", Mine(r), runner[r].estado) /\ Same(r) /\ RunnerAt(r, "marking")
    BY <1>4, Moves DEF To, Mine, MarkSending
  <2>2. lote'[Mine(r)].estado = "enviando" BY <1>4, <2>1, <1>t DEF MarkSending, Lotes
  <2> QED BY <2>1, <2>2 DEF Hands, At, Same, Holds, Mine
<1>5. CASE SendSummary(r)
  <2>1. Mine(r) \in Jobs /\ At(r, "sent", Mine(r), runner[r].estado) /\ Holds(r, work[r].ventas, Len(sent) + 1, work[r].cdr)
    BY <1>5, Moves DEF To, Mine
  <2>2. Sends(r, Mine(r)) BY <1>5, <2>1, Sending DEF SendSummary
  <2>3. Len(sent) + 1 # 0 BY <1>t
  <2> QED BY <2>1, <2>2, <2>3 DEF Hands, At, Holds
<1>6. CASE SendLost(r)
  <2>1. At(r, "failed", Mine(r), runner[r].estado) /\ Holds(r, work[r].ventas, 0, work[r].cdr)
    BY <1>6, Moves DEF To, Mine
  <2> QED BY <2>1 DEF Hands, At, Holds
<1>7. CASE StoreTicket(r) \/ QueryNoCdr(r) \/ Record(r) \/ (\E c \in BOOLEAN : MarkError(r, c))
  <2>1. At(r, "processed", Mine(r), runner[r].estado) /\ Same(r) BY <1>7, Moves DEF To, Mine
  <2> QED BY <2>1 DEF Hands, At, Same, Holds, Mine
<1>8. CASE QueryAnswered(r)
  <2>1. /\ At(r, "answered", Mine(r), runner[r].estado)
        /\ Holds(r, work[r].ventas, work[r].ticket, sent[work[r].ticket].verdict)
    BY <1>8, Moves DEF To, Mine
  <2>2. sent[work[r].ticket].verdict \in Verdicts /\ work[r].ticket # 0
    BY <1>8 DEF QueryAnswered, TicketOK, RunnerAt
  <2> QED BY <2>1, <2>2 DEF Hands, At, Holds, Mine
<1>9. CASE QueryFailed(r) \/ StoreFailed(r)
  <2>1. At(r, "failed", Mine(r), runner[r].estado) /\ \E i \in {0, work[r].ticket} : Holds(r, work[r].ventas, i, work[r].cdr)
    BY <1>9, Moves DEF To, Mine, Same
  <2> QED BY <2>1 DEF Hands, At, Holds, Mine
<1>10. CASE ReadBack(r) \/ Die(r)
  <2>1. Holds(r, {}, 0, "ninguno") /\ (Idles(r) \/ At(r, "settling", Mine(r), lote[Mine(r)].estado))
    BY <1>10, Moves
  <2> QED BY <2>1 DEF Hands, Idles, At, Holds
<1>11. CASE Finish(r) \/ CloseGivenUp(r)
  <2>1. Idles(r) /\ Same(r) BY <1>11, Moves
  <2>2. work[r].ticket = 0
    BY <1>11 DEF MinedOK, Finish, SettleFinal, PutBack, Settled, Remaining, CloseGivenUp, RunnerAt
  <2> QED BY <2>1, <2>2 DEF Hands, Idles, At, Same, Holds
<1>12. CASE GiveUp(r)
  <2>1. At(r, "closing", Mine(r), runner[r].estado) /\ Same(r) BY <1>12, Moves DEF To, Mine
  <2>2. work[r].ticket = 0 BY <1>12 DEF MinedOK, GiveUp, Exhausted, RunnerAt
  <2> QED BY <2>1, <2>2 DEF Hands, At, Same, Holds, Mine
<1>13. QED
  BY <1>1, <1>2, <1>3, <1>4, <1>5, <1>6, <1>7, <1>8, <1>9, <1>10, <1>11, <1>12 DEF Works, Process

\* A step is one of a runner, of a request or of SUNAT.
LEMMA ByWhom ==
  ASSUME TypeOK, Next
  PROVE  \/ \E r \in Runners : Works(r)
         \/ \E v \in Ventas : PickLote(v) \/ Collide(v) \/ Join(v)
         \/ \E i \in DOMAIN sent, v \in Verdicts : SunatDecides(i, v)
BY RowTypes DEF Next, Works

----------------------------------------
(* Every part of the invariant is kept.                                    *)

\* MinedOK is.
LEMMA MinedStep ==
  ASSUME TypeOK, MinedOK, LoteOK, TicketOK, Next
  PROVE  MinedOK'
<1>1. ASSUME NEW r \in Runners, Works(r) PROVE MinedOK'
  <2>1. PICK k \in Jobs : Touches(r, k) BY <1>1, Touching
  <2>2. Hands(r, runner'[r].job) BY <1>1, Handing
  <2> QED BY <2>1, <2>2 DEF MinedOK, Touches, Hands, Mine, Busy
<1>2. ASSUME UNCHANGED <<runner, work>> PROVE MinedOK' BY <1>2 DEF MinedOK, Mine, Busy
<1> QED BY <1>1, <1>2, ByWhom DEF PickLote, Collide, Join, SunatDecides

\* The tickets are: a batch, or a runner, has one of an XML of that batch.
LEMMA TicketStep ==
  ASSUME TypeOK, MinedOK, LoteOK, TicketOK, Next
  PROVE  TicketOK'
<1>g. Grows BY SentGrows
<1>1. ASSUME NEW r \in Runners, Works(r), NEW u \in Runners
      PROVE  /\ work'[u].ticket # 0 => work'[u].ticket \in DOMAIN sent' /\ sent'[work'[u].ticket].lote = runner'[u].job
             /\ runner'[u].step \in {"querying", "answered", "sent"} => work'[u].ticket # 0
             /\ runner'[u].step = "answered" =>
                  work'[u].cdr \in Verdicts /\ sent'[work'[u].ticket].verdict = work'[u].cdr
  <2>1. PICK k \in Jobs : Touches(r, k) BY <1>1, Touching
  <2>2. Hands(r, runner'[r].job) BY <1>1, Handing
  <2>3. CASE u # r
    <3>1. runner'[u] = runner[u] /\ work'[u] = work[u] BY <2>1, <2>3 DEF Touches
    <3> QED BY <3>1, <1>g DEF TicketOK, RunnerAt, Grows
  <2>4. CASE u = r
    <3>1. CASE runner'[r].step = "idle" BY <2>2, <2>4, <3>1 DEF Hands
    <3>2. CASE runner'[r].step # "idle"
      <4>1. runner'[r].job = k BY <2>1, <3>2 DEF Touches
      <4>2. work'[r].ticket # 0 => work'[r].ticket \in DOMAIN sent' /\ sent'[work'[r].ticket].lote = k
        <5>1. CASE work'[r].ticket = lote[k].ticket BY <5>1, <1>g DEF LoteOK, Grows
        <5>2. CASE work'[r].ticket = work[r].ticket /\ runner[r].job = k
          BY <5>2, <1>g DEF TicketOK, Grows
        <5>3. CASE work'[r].ticket = Len(sent) + 1 /\ Sends(r, k) BY <5>3 DEF Sends
        <5> QED BY <2>2, <3>2, <4>1, <5>1, <5>2, <5>3 DEF Hands
      <4>3. runner'[r].step = "answered" => work'[r].cdr \in Verdicts /\ sent'[work'[r].ticket].verdict = work'[r].cdr
        BY <2>2, <1>g DEF Hands, TicketOK, Grows
      <4> QED BY <2>2, <2>4, <4>1, <4>2, <4>3 DEF Hands
    <3> QED BY <3>1, <3>2
  <2> QED BY <2>3, <2>4
<1>2. ASSUME UNCHANGED <<runner, work>> PROVE TicketOK' BY <1>2, <1>g DEF TicketOK, RunnerAt, Grows
<1>3. (\E r \in Runners : Works(r)) => TicketOK' BY <1>1 DEF TicketOK, RunnerAt
<1> QED BY <1>2, <1>3, ByWhom DEF PickLote, Collide, Join, SunatDecides

\* What a request that joins batch j does to the batches and the sales.
Joins(v, j) ==
  /\ j \in Jobs /\ solicitud[v] # NoRequest /\ solicitud[v].lote = j
  /\ solicitud[v].opens => lote[j].estado = "ausente"
  /\ \A k \in Jobs : k # j => lote'[k] = lote[k] /\ job'[k] = job[k]
  /\ lote'[j].estado = (IF solicitud[v].opens THEN "pendiente_envio" ELSE lote[j].estado)
  /\ lote'[j].ticket = lote[j].ticket
  /\ venta'[v].lote = j /\ venta'[v].cuenta = "anulacion_pendiente" /\ venta'[v].anulada = venta[v].anulada
  /\ job'[j].estado = "pendiente_envio"
  /\ \A w \in Ventas : w # v => venta'[w] = venta[w] /\ solicitud'[w] = solicitud[w]
  /\ solicitud'[v] = NoRequest
  /\ late' = IF solicitud[v].opens \/ Untouched(j) THEN late ELSE late \cup {v}
  /\ UNCHANGED <<runner, work, sent, consults, returns, faults>>

\* It does.
LEMMA Joining ==
  ASSUME TypeOK, LoteOK, NEW v \in Ventas, Join(v)
  PROVE  Joins(v, solicitud[v].lote)
<1>t. /\ job \in [Jobs -> JobRows] /\ lote \in [Jobs -> Lotes] /\ venta \in [Ventas -> VentaRows]
      /\ solicitud \in [Ventas -> Pedidos]
  BY RowTypes
<1>1. PICK j \in Jobs : j = solicitud[v].lote BY DEF Join, LoteOK
<1>2. /\ \A k \in Jobs : k # j => lote'[k] = lote[k]
      /\ lote'[j].estado = (IF solicitud[v].opens THEN "pendiente_envio" ELSE lote[j].estado)
      /\ lote'[j].ticket = lote[j].ticket
  BY <1>1, <1>t DEF Join, Lotes
<1>3. PICK x : x = [venta[v] EXCEPT !.lote = j, !.baja = "pendiente_envio", !.cuenta = "anulacion_pendiente"]
  OBVIOUS
<1>4. x.lote = j /\ x.cuenta = "anulacion_pendiente" /\ x.anulada = venta[v].anulada
  BY <1>3, <1>t DEF VentaRows
<1>5. venta' = [venta EXCEPT ![v] = x] BY <1>1, <1>3 DEF Join
<1>6. job'[j].estado = "pendiente_envio" /\ \A k \in Jobs : k # j => job'[k] = job[k]
  BY <1>1, <1>t DEF Join, Upsert, Pending
<1>7. solicitud'[v] = NoRequest /\ \A w \in Ventas : w # v => venta'[w] = venta[w] /\ solicitud'[w] = solicitud[w]
  BY <1>5, <1>t DEF Join
<1>8. venta'[v] = x BY <1>5, <1>t
<1> QED BY <1>1, <1>2, <1>4, <1>6, <1>7, <1>8 DEF Joins, Join

\* What is known of a batch stays known.
LEMMA LoteStep ==
  ASSUME TypeOK, MinedOK, LoteOK, TicketOK, Next
  PROVE  LoteOK'
<1>g. Grows BY SentGrows
<1>t. sent \in Seq(Envios) /\ NoJob \notin Jobs BY RowTypes
<1>1. ASSUME NEW r \in Runners, Works(r) PROVE LoteOK'
  <2>1. PICK k \in Jobs : Touches(r, k) BY <1>1, Touching
  <2>2. Hands(r, runner'[r].job) BY <1>1, Handing
  <2>3. ASSUME NEW j \in Jobs, lote'[j].estado = "ausente"
        PROVE  /\ job'[j].estado = "ausente" /\ lote'[j].ticket = 0
               /\ \A v \in Ventas : venta'[v].lote # j
               /\ \A u \in Runners : runner'[u].job # j
               /\ \A i \in DOMAIN sent' : sent'[i].lote # j
    <3>1. j # k /\ lote[j].estado = "ausente" /\ lote'[j] = lote[j] /\ job'[j] = job[j]
      BY <2>1, <2>3 DEF Touches
    <3>2. \A i \in DOMAIN sent' : sent'[i].lote # j
      BY <2>1, <3>1, <1>g DEF LoteOK, Touches, Sends, Grows
    <3> QED BY <2>1, <3>1, <3>2, <1>t DEF LoteOK, Touches
  <2>4. ASSUME NEW j \in Jobs
        PROVE  /\ lote'[j].estado = "pendiente_cdr" => lote'[j].ticket # 0
               /\ lote'[j].ticket # 0 => lote'[j].ticket \in DOMAIN sent' /\ sent'[lote'[j].ticket].lote = j
    <3>1. CASE j # k BY <2>1, <3>1, <1>g DEF LoteOK, Touches, Grows
    <3>2. CASE j = k
      <4>1. CASE lote'[k].ticket = lote[k].ticket
        BY <2>1, <3>2, <4>1, <1>g DEF LoteOK, Touches, Grows
      <4>2. CASE lote'[k].ticket = work[r].ticket /\ work[r].ticket # 0
        <5>1. work[r].ticket \in DOMAIN sent /\ sent[work[r].ticket].lote = runner[r].job
          BY <4>2 DEF TicketOK
        <5>2. runner[r].job = k
          <6>1. runner[r].step # "idle" BY <4>2 DEF MinedOK
          <6> QED BY <2>1, <6>1, <1>t DEF MinedOK, Touches, Busy, Mine
        <5> QED BY <2>1, <3>2, <4>2, <5>1, <5>2, <1>g DEF Touches, Grows
      <4>3. CASE lote'[k].ticket = 0 BY <2>1, <3>2, <4>3 DEF Touches
      <4> QED BY <2>1, <4>1, <4>2, <4>3 DEF Touches
    <3> QED BY <3>1, <3>2
  <2>5. ASSUME NEW v \in Ventas, solicitud'[v] # NoRequest
        PROVE  solicitud'[v].lote \in Jobs /\ (~solicitud'[v].opens => lote'[solicitud'[v].lote].estado # "ausente")
    BY <2>1, <2>5 DEF LoteOK, Touches
  <2> QED BY <2>3, <2>4, <2>5 DEF LoteOK
<1>2. ASSUME NEW v \in Ventas, PickLote(v) \/ Collide(v) PROVE LoteOK'
  <2>1. UNCHANGED <<job, runner, lote, venta, sent>> BY <1>2 DEF PickLote, Collide
  <2>2. solicitud \in [Ventas -> Pedidos] BY RowTypes
  <2>3. ASSUME NEW w \in Ventas, solicitud'[w] # NoRequest
        PROVE  solicitud'[w].lote \in Jobs /\ (~solicitud'[w].opens => lote[solicitud'[w].lote].estado # "ausente")
    <3>1. CASE w # v \/ Collide(v) BY <1>2, <2>2, <2>3, <3>1 DEF LoteOK, PickLote, Collide
    <3>2. CASE w = v /\ PickLote(v)
      <4>1. PICK j \in Jobs : \E b \in BOOLEAN :
              /\ solicitud' = [solicitud EXCEPT ![v] = [lote |-> j, opens |-> b]]
              /\ ~b => lote[j].estado = "pendiente_envio"
        BY <3>2 DEF PickLote
      <4>2. PICK b \in BOOLEAN :
              /\ solicitud' = [solicitud EXCEPT ![v] = [lote |-> j, opens |-> b]]
              /\ ~b => lote[j].estado = "pendiente_envio"
        BY <4>1
      <4>3. solicitud'[v].lote = j /\ solicitud'[v].opens = b BY <2>2, <4>2
      <4> QED BY <3>2, <4>2, <4>3
    <3> QED BY <1>2, <3>1, <3>2
  <2> QED BY <2>1, <2>3 DEF LoteOK
<1>3. ASSUME NEW v \in Ventas, Join(v) PROVE LoteOK'
  <2>1. PICK j \in Jobs : j = solicitud[v].lote /\ Joins(v, j) BY <1>3, Joining DEF Joins
  <2>2. lote[j].estado = "ausente" => solicitud[v].opens BY <2>1 DEF LoteOK, Joins
  <2>3. lote'[j].estado # "ausente" BY <2>1, <2>2 DEF Joins
  <2>4. ASSUME NEW k \in Jobs
        PROVE  /\ lote'[k].estado = "ausente" =>
                    /\ job'[k].estado = "ausente"
                    /\ \A w \in Ventas : venta'[w].lote # k
                    /\ \A r \in Runners : runner'[r].job # k
                    /\ \A i \in DOMAIN sent' : sent'[i].lote # k
               /\ lote'[k].estado \in {"pendiente_cdr"} => lote'[k].ticket # 0
               /\ lote'[k].estado = "ausente" => lote'[k].ticket = 0
               /\ lote'[k].ticket # 0 => lote'[k].ticket \in DOMAIN sent' /\ sent'[lote'[k].ticket].lote = k
    <3>1. CASE k = j BY <2>1, <2>3, <3>1 DEF LoteOK, Joins
    <3>2. CASE k # j BY <2>1, <3>2 DEF LoteOK, Joins
    <3> QED BY <3>1, <3>2
  <2>5. ASSUME NEW w \in Ventas, solicitud'[w] # NoRequest
        PROVE  solicitud'[w].lote \in Jobs /\ (~solicitud'[w].opens => lote'[solicitud'[w].lote].estado # "ausente")
    <3>1. w # v /\ solicitud'[w] = solicitud[w] BY <2>1, <2>5 DEF Joins
    <3> QED BY <2>1, <2>3, <2>5, <3>1 DEF LoteOK, Joins
  <2> QED BY <2>4, <2>5 DEF LoteOK
<1>4. ASSUME NEW i \in DOMAIN sent, NEW v \in Verdicts, SunatDecides(i, v) PROVE LoteOK'
  <2>1. DOMAIN sent' = DOMAIN sent BY <1>4 DEF SunatDecides
  <2> QED BY <1>4, <2>1, <1>g DEF LoteOK, SunatDecides, Grows
<1> QED BY <1>1, <1>2, <1>3, <1>4, ByWhom

\* No sale of a batch is missing from its XML, unless it joined late.
LEMMA SalesStep ==
  ASSUME TypeOK, MinedOK, LoteOK, TicketOK, SalesOK, Next
  PROVE  SalesOK'
<1>g. Grows BY SentGrows
<1>t. NoJob \notin Jobs /\ \A i \in DOMAIN sent : sent[i].lote \in Jobs
  <2>1. sent \in Seq(Envios) /\ NoJob \notin Jobs BY RowTypes
  <2>2. \A i \in DOMAIN sent : sent[i] \in Envios BY <2>1
  <2>3. \A x \in Envios : x.lote \in Jobs BY DEF Envios
  <2> QED BY <2>1, <2>2, <2>3
<1>m. \A r \in Runners : runner[r].step # "idle" => runner[r].job \in Jobs
  BY DEF MinedOK, Busy, Mine
<1>1. ASSUME NEW r \in Runners, Works(r) PROVE SalesOK'
  <2>1. PICK k \in Jobs : Touches(r, k) BY <1>1, Touching
  <2>2. Hands(r, runner'[r].job) BY <1>1, Handing
  <2>3. \A j \in Jobs : lote'[j].estado = "pendiente_envio" => lote[j].estado = "pendiente_envio"
    BY <2>1 DEF Touches
  <2>4. \A v \in Ventas : venta'[v].lote = venta[v].lote /\ late' = late BY <2>1 DEF Touches
  <2>5. ASSUME NEW i \in DOMAIN sent
        PROVE  /\ lote'[sent'[i].lote].estado # "pendiente_envio"
               /\ \A v \in Ventas : venta'[v].lote = sent'[i].lote => v \in sent'[i].ventas \cup late'
    BY <2>3, <2>4, <1>g, <1>t DEF SalesOK, Grows
  <2>6. ASSUME Sends(r, k)
        PROVE  /\ lote'[k].estado # "pendiente_envio"
               /\ \A v \in Ventas : venta'[v].lote = k => v \in sent'[Len(sent) + 1].ventas \cup late'
               /\ sent'[Len(sent) + 1].lote = k
    <3>1. runner[r].job = k BY <2>1, <2>6, <1>m, <1>t DEF Touches, Sends, RunnerAt
    <3> QED BY <2>3, <2>4, <2>6, <3>1 DEF SalesOK, Sends, RunnerAt
  <2>7. ASSUME NEW i \in DOMAIN sent'
        PROVE  /\ lote'[sent'[i].lote].estado # "pendiente_envio"
               /\ \A v \in Ventas : venta'[v].lote = sent'[i].lote => v \in sent'[i].ventas \cup late'
    <3>1. CASE i \in DOMAIN sent BY <2>5, <3>1
    <3>2. CASE i \notin DOMAIN sent
      <4>1. Sends(r, k) /\ i = Len(sent) + 1 BY <2>1, <2>7, <3>2 DEF Touches, Sends
      <4> QED BY <2>6, <4>1
    <3> QED BY <3>1, <3>2
  <2>8. ASSUME NEW u \in Runners
        PROVE  /\ runner'[u].step \in {"marking", "sending"} =>
                    \A v \in Ventas : venta'[v].lote = runner'[u].job => v \in work'[u].ventas \cup late'
               /\ runner'[u].step = "sending" => lote'[runner'[u].job].estado # "pendiente_envio"
    <3>1. CASE u # r
      <4>1. runner'[u] = runner[u] /\ work'[u] = work[u] BY <2>1, <3>1 DEF Touches
      <4> QED BY <2>3, <2>4, <4>1, <1>m DEF SalesOK, RunnerAt
    <3>2. CASE u = r
      <4>1. CASE work'[r].ventas = Of(runner'[r].job) BY <2>2, <2>4, <3>2, <4>1 DEF Hands, Of
      <4>2. CASE work'[r].ventas = work[r].ventas /\ RunnerAt(r, "marking") /\ runner[r].job = runner'[r].job
        BY <2>2, <2>4, <3>2, <4>2 DEF Hands, SalesOK, RunnerAt
      <4> QED BY <2>2, <3>2, <4>1, <4>2 DEF Hands
    <3> QED BY <3>1, <3>2
  <2> QED BY <2>7, <2>8 DEF SalesOK, RunnerAt
<1>2. ASSUME NEW v \in Ventas, PickLote(v) \/ Collide(v) PROVE SalesOK'
  BY <1>2 DEF SalesOK, PickLote, Collide, RunnerAt
<1>3. ASSUME NEW v \in Ventas, Join(v) PROVE SalesOK'
  <2>1. PICK j \in Jobs : j = solicitud[v].lote /\ Joins(v, j) BY <1>3, Joining DEF Joins
  <2>2. \A k \in Jobs : lote[k].estado \notin {"pendiente_envio", "ausente"} => lote'[k].estado # "pendiente_envio"
    BY <2>1 DEF Joins
  <2>3. ASSUME NEW i \in DOMAIN sent
        PROVE  /\ lote'[sent[i].lote].estado # "pendiente_envio"
               /\ \A w \in Ventas : venta'[w].lote = sent[i].lote => w \in sent[i].ventas \cup late'
    <3>1. lote[sent[i].lote].estado \notin {"pendiente_envio", "ausente"}
      BY <1>t DEF SalesOK, LoteOK
    <3>2. sent[i].lote = j => v \in late' BY <2>1, <3>1 DEF Joins, Untouched
    <3>3. late \subseteq late' BY <2>1 DEF Joins
    <3> QED BY <2>1, <2>2, <3>1, <3>2, <3>3, <1>t DEF SalesOK, Joins
  <2>4. ASSUME NEW u \in Runners
        PROVE  /\ runner[u].step \in {"marking", "sending"} =>
                    \A w \in Ventas : venta'[w].lote = runner[u].job => w \in work[u].ventas \cup late'
               /\ runner[u].step = "sending" => lote'[runner[u].job].estado # "pendiente_envio"
    <3>1. runner[u].job = j => v \in late' BY <2>1 DEF Joins, Untouched, LoteOK
    <3>2. late \subseteq late' BY <2>1 DEF Joins
    <3>3. runner[u].step = "sending" => lote[runner[u].job].estado \notin {"pendiente_envio", "ausente"} /\ runner[u].job \in Jobs
      BY <1>m DEF SalesOK, LoteOK, RunnerAt
    <3> QED BY <2>1, <2>2, <3>1, <3>2, <3>3 DEF SalesOK, Joins, RunnerAt
  <2> QED BY <2>1, <2>3, <2>4 DEF SalesOK, Joins, RunnerAt
<1>4. ASSUME NEW i \in DOMAIN sent, NEW v \in Verdicts, SunatDecides(i, v) PROVE SalesOK'
  <2>1. DOMAIN sent' = DOMAIN sent BY <1>4 DEF SunatDecides
  <2> QED BY <1>4, <2>1, <1>g DEF SalesOK, SunatDecides, Grows, RunnerAt
<1> QED BY <1>1, <1>2, <1>3, <1>4, ByWhom

\* A sale annulled here was in an XML that SUNAT accepted, or joined late.
LEMMA AnnulledStep ==
  ASSUME TypeOK, MinedOK, LoteOK, TicketOK, SalesOK, AnnulledWasVoided, Next
  PROVE  AnnulledWasVoided'
<1> USE DEF batchVars
<1>g. Grows BY SentGrows
<1>t. venta \in [Ventas -> VentaRows] /\ returns \in [Ventas -> Nat] BY RowTypes
<1>k. ASSUME late \subseteq late', NEW v \in Ventas,
             (\E i \in DOMAIN sent : v \in sent[i].ventas /\ sent[i].verdict \in Aceptados) \/ v \in late
      PROVE  (\E i \in DOMAIN sent' : v \in sent'[i].ventas /\ sent'[i].verdict \in Aceptados) \/ v \in late'
  BY <1>k, <1>g DEF Grows, Verdicts
<1>s. ASSUME late \subseteq late', returns' = returns, \A v \in Ventas : venta'[v].anulada = venta[v].anulada
      PROVE  AnnulledWasVoided'
  BY <1>s, <1>k DEF AnnulledWasVoided
<1>a. ASSUME NEW j, NEW e, NEW i, Applied(j, e, i), UNCHANGED late,
             e \in Aceptados => \A v \in Of(j) :
               (\E n \in DOMAIN sent : v \in sent[n].ventas /\ sent[n].verdict \in Aceptados) \/ v \in late
      PROVE  AnnulledWasVoided'
  <2>1. ASSUME NEW v \in Ventas
        PROVE  /\ returns'[v] = IF venta'[v].anulada THEN 1 ELSE 0
               /\ venta'[v].anulada =>
                    \/ \E n \in DOMAIN sent' : v \in sent'[n].ventas /\ sent'[n].verdict \in Aceptados
                    \/ v \in late'
    <3>1. /\ venta'[v].anulada = (venta[v].anulada \/ (v \in Of(j) /\ Annuls(v, e)))
          /\ returns'[v] = (IF v \in Of(j) /\ Annuls(v, e) THEN returns[v] + 1 ELSE returns[v])
          /\ venta[v].anulada \in BOOLEAN
      BY <1>a, <1>t DEF Applied, VentaRows
    <3>2. CASE v \in Of(j) /\ Annuls(v, e)
      <4>1. e \in Aceptados /\ ~venta[v].anulada BY <3>2 DEF Annuls
      <4>2. venta'[v].anulada /\ returns'[v] = returns[v] + 1 BY <3>1, <3>2
      <4>3. returns[v] = 0 BY <4>1 DEF AnnulledWasVoided
      <4>4. (\E n \in DOMAIN sent : v \in sent[n].ventas /\ sent[n].verdict \in Aceptados) \/ v \in late
        BY <3>2, <4>1, <1>a
      <4>5. (\E n \in DOMAIN sent' : v \in sent'[n].ventas /\ sent'[n].verdict \in Aceptados) \/ v \in late'
        BY <4>4, <1>a, <1>k
      <4> QED BY <4>2, <4>3, <4>5
    <3>3. CASE ~(v \in Of(j) /\ Annuls(v, e)) BY <3>1, <3>3, <1>a, <1>k DEF AnnulledWasVoided
    <3> QED BY <3>2, <3>3
  <2> QED BY <2>1 DEF AnnulledWasVoided
<1>n. {"pendiente_cdr", "error_definitivo", "error_transitorio"} \cap Aceptados = {}
  BY DEF Aceptados
<1>1. ASSUME NEW r \in Runners, Process(r) PROVE AnnulledWasVoided'
  <2>1. CASE Begin(r) \/ SendSummary(r) \/ SendLost(r) \/ QueryAnswered(r) \/ QueryFailed(r) \/ StoreFailed(r)
    BY <2>1, <1>s DEF Begin, SendSummary, SendLost, QueryAnswered, QueryFailed, StoreFailed
  <2>2. CASE ReadBack(r) \/ Finish(r) \/ CloseGivenUp(r)
    BY <2>2, <1>s DEF ReadBack, Finish, CloseGivenUp
  <2>3. CASE MarkSending(r)
    <3>1. \A v \in Ventas : venta'[v].anulada = venta[v].anulada
      BY <2>3, <1>t DEF MarkSending, VentaRows
    <3> QED BY <2>3, <3>1, <1>s DEF MarkSending
  <2>4. CASE StoreTicket(r) \/ QueryNoCdr(r)
    <3>1. Applied(Mine(r), "pendiente_cdr", work[r].ticket) /\ UNCHANGED late
      BY <2>4, Moves DEF StoreTicket, QueryNoCdr, QueryNoCdrAs
    <3> QED BY <3>1, <1>a, <1>n
  <2>5. ASSUME NEW c \in BOOLEAN, MarkError(r, c) PROVE AnnulledWasVoided'
    <3>1. UNCHANGED late /\ \E e \in {"error_definitivo", "error_transitorio"} : Applied(Mine(r), e, work[r].ticket)
      BY <2>5, Moves DEF MarkError
    <3> QED BY <3>1, <1>a, <1>n
  <2>6. CASE GiveUp(r)
    <3>1. Applied(Mine(r), "error_definitivo", 0) /\ UNCHANGED late BY <2>6, Moves DEF GiveUp
    <3> QED BY <3>1, <1>a, <1>n
  <2>7. CASE Record(r)
    <3>1. Applied(Mine(r), work[r].cdr, work[r].ticket) /\ UNCHANGED late BY <2>7, Moves DEF Record
    <3>2. PICK n : n = work[r].ticket OBVIOUS
    <3>3. n \in DOMAIN sent /\ sent[n].lote = Mine(r) /\ sent[n].verdict = work[r].cdr
      BY <2>7, <3>2 DEF Record, TicketOK, RunnerAt, Mine
    <3>4. \A v \in Of(Mine(r)) : v \in sent[n].ventas \/ v \in late BY <3>3 DEF SalesOK, Of
    <3> QED BY <3>1, <3>3, <3>4, <1>a
  <2> QED BY <1>1, <2>1, <2>2, <2>3, <2>4, <2>5, <2>6, <2>7 DEF Process
<1>2. ASSUME NEW r \in Runners, Die(r) \/ \E j \in Jobs : Take(r, j) PROVE AnnulledWasVoided'
  BY <1>2, <1>s DEF Die, Take
<1>3. ASSUME NEW v \in Ventas, PickLote(v) \/ Collide(v) \/ Consult(v) PROVE AnnulledWasVoided'
  BY <1>3, <1>s DEF PickLote, Collide, Consult
<1>4. ASSUME NEW v \in Ventas, Join(v) PROVE AnnulledWasVoided'
  <2>1. Joins(v, solicitud[v].lote) BY <1>4, Joining
  <2> QED BY <2>1, <1>s DEF Joins
<1>5. ASSUME NEW i \in DOMAIN sent, NEW v \in Verdicts, SunatDecides(i, v) PROVE AnnulledWasVoided'
  BY <1>5, <1>s DEF SunatDecides
<1> QED BY <1>1, <1>2, <1>3, <1>4, <1>5 DEF Next

\* What a runner that works alone at batch k leaves of it.
Closes(r, k) ==
  /\ runner'[r].step # "idle" => job'[k].estado = "procesando"
  /\ runner'[r].step \in {"claimed", "marking", "sending", "sent", "querying", "answered", "failed"}
       => lote'[k].estado \in Abiertos
  /\ runner'[r].step = "settling" => runner'[r].estado = lote'[k].estado
  /\ job'[k].estado = "pendiente_envio" => lote'[k].estado \in Abiertos
  /\ lote'[k].estado \in Abiertos => lote[k].estado \in Abiertos
  /\ \A v \in Ventas : lote'[k].estado \in Abiertos \/ v \notin Of(k) => venta'[v].cuenta = venta[v].cuenta

\* Whatever step it takes.
LEMMA Closing ==
  ASSUME TypeOK, MinedOK, LoteOK, TicketOK, Working, NEW r \in Runners, Works(r), consults' = consults,
         NEW k \in Jobs, Touches(r, k)
  PROVE  Closes(r, k)
<1> USE DEF batchVars
<1>t. /\ job \in [Jobs -> JobRows] /\ lote \in [Jobs -> Lotes] /\ venta \in [Ventas -> VentaRows]
      /\ NoJob \notin Jobs /\ consults \in Nat
  BY RowTypes
<1>b. Busy(r) => /\ Mine(r) = k /\ job[k].estado = "procesando" /\ r # Clerk
                 /\ runner[r].step \in {"claimed", "marking", "sending", "sent", "querying", "answered", "failed"}
                      => lote[k].estado \in Abiertos
                 /\ RunnerAt(r, "settling") => runner[r].estado = lote[k].estado
  BY <1>t DEF MinedOK, Working, Touches, Mine
<1>e. /\ {"pendiente_envio", "enviando", "pendiente_cdr", "error_transitorio"} \subseteq Abiertos
      /\ "error_definitivo" \in Finales /\ Finales \cap Abiertos = {} /\ Verdicts \subseteq Finales
  BY DEF Abiertos, Estados, Finales, Verdicts, Aceptados
<1>a. ASSUME NEW e, NEW i, Applied(k, e, i)
      PROVE  /\ lote'[k].estado = e
             /\ \A v \in Ventas : lote'[k].estado \in Abiertos \/ v \notin Of(k) => venta'[v].cuenta = venta[v].cuenta
  BY <1>a DEF Applied
<1>1. ASSUME NEW j \in Jobs, Take(r, j) PROVE Closes(r, k)
  <2>1. At(r, "claimed", j, "pendiente_envio") BY <1>1, Moves
  <2>2. j = k BY <2>1 DEF At, Touches
  <2>3. job'[k].estado = "procesando" /\ lote[k].estado \in Abiertos
    BY <1>1, <2>2, <1>t DEF Take, ClaimJob, Working
  <2> QED BY <1>1, <2>1, <2>3 DEF Closes, At, Take
<1>2. CASE Begin(r)
  <2>1. \E s \in {"querying", "marking"} : To(r, s) BY <1>2, Moves
  <2>2. Busy(r) /\ lote[k].estado \in Abiertos BY <1>2, <1>b DEF Begin, RunnerAt, Busy
  <2> QED BY <1>2, <2>1, <2>2, <1>b DEF Closes, To, At, Begin
<1>3. CASE MarkSending(r)
  <2>1. To(r, "sending") /\ Busy(r) /\ lote[k].estado \in Abiertos
    BY <1>3, <1>b, Moves DEF MarkSending, RunnerAt, Busy
  <2>2. lote'[k].estado = "enviando" BY <1>3, <2>1, <1>b, <1>t DEF MarkSending, Lotes
  <2>3. \A v \in Ventas : venta'[v].cuenta = venta[v].cuenta
    BY <1>3, <1>t DEF MarkSending, VentaRows
  <2> QED BY <1>3, <2>1, <2>2, <2>3, <1>b, <1>e DEF Closes, To, At, MarkSending
<1>4. CASE SendSummary(r) \/ SendLost(r) \/ QueryAnswered(r) \/ QueryFailed(r) \/ StoreFailed(r)
  <2>1. \E s \in {"sent", "failed", "answered"} : To(r, s) BY <1>4, Moves
  <2>2. Busy(r) /\ lote[k].estado \in Abiertos
    BY <1>4, <1>b DEF SendSummary, SendLost, QueryAnswered, QueryFailed, StoreFailed, RunnerAt, Busy
  <2>3. UNCHANGED <<job, lote, venta>>
    BY <1>4 DEF SendSummary, SendLost, QueryAnswered, QueryFailed, StoreFailed
  <2> QED BY <2>1, <2>2, <2>3, <1>b DEF Closes, To, At
<1>5. CASE StoreTicket(r) \/ QueryNoCdr(r)
  <2>1. /\ To(r, "processed") /\ Busy(r) /\ lote[k].estado \in Abiertos /\ UNCHANGED job
        /\ Applied(k, "pendiente_cdr", work[r].ticket)
    BY <1>5, <1>b, Moves DEF StoreTicket, QueryNoCdr, QueryNoCdrAs, RunnerAt, Busy
  <2> QED BY <2>1, <1>a, <1>b, <1>e DEF Closes, To, At
<1>6. CASE Record(r)
  <2>1. To(r, "processed") /\ Busy(r) /\ UNCHANGED job /\ Applied(k, work[r].cdr, work[r].ticket)
    BY <1>6, <1>b, Moves DEF Record, RunnerAt, Busy
  <2>2. work[r].cdr \in Finales BY <1>6, <1>e DEF Record, TicketOK
  <2> QED BY <2>1, <2>2, <1>a, <1>b, <1>e DEF Closes, To, At
<1>7. ASSUME NEW c \in BOOLEAN, MarkError(r, c) PROVE Closes(r, k)
  <2>1. /\ To(r, "processed") /\ Busy(r) /\ lote[k].estado \in Abiertos /\ UNCHANGED job
        /\ \E e \in {"error_definitivo", "error_transitorio"} : Applied(k, e, work[r].ticket)
    BY <1>7, <1>b, Moves DEF MarkError, RunnerAt, Busy
  <2> QED BY <2>1, <1>a, <1>b, <1>e DEF Closes, To, At
<1>8. CASE ReadBack(r)
  <2>1. Busy(r) /\ UNCHANGED <<job, lote, venta>>
    BY <1>8 DEF ReadBack, Reread, Abandon, RunnerAt, Busy
  <2>2. Idles(r) \/ At(r, "settling", k, lote[k].estado) BY <1>8, <2>1, <1>b, Moves
  <2> QED BY <2>1, <2>2, <1>b DEF Closes, Idles, At
<1>9. CASE Finish(r) \/ CloseGivenUp(r)
  <2>1. Idles(r) /\ Busy(r) /\ UNCHANGED <<lote, venta>>
    BY <1>9, Moves DEF Finish, SettleFinal, PutBack, Settled, Remaining, CloseGivenUp, RunnerAt, Busy
  <2>2. CASE SettleFinal(r) \/ CloseGivenUp(r)
    <3>1. \E e \in {"finalizado", "error_definitivo"} : job' = [job EXCEPT ![Mine(r)].estado = e]
      BY <2>2 DEF SettleFinal, CloseGivenUp, Close, Mine
    <3>2. job'[k].estado \in {"finalizado", "error_definitivo"}
      BY <2>1, <3>1, <1>b, <1>t DEF JobRows
    <3> QED BY <2>1, <3>2 DEF Closes, Idles, At
  <2>3. CASE PutBack(r)
    <3>1. runner[r].estado \notin Finales /\ RunnerAt(r, "settling") BY <2>3 DEF PutBack, Remaining
    <3>2. lote[k].estado \in Estados \ Finales BY <2>1, <3>1, <1>b, <1>t DEF Touches, Lotes
    <3> QED BY <2>1, <3>2 DEF Closes, Idles, At, Abiertos
  <2> QED BY <1>9, <2>2, <2>3 DEF Finish
<1>10. CASE GiveUp(r)
  <2>1. To(r, "closing") /\ Busy(r) /\ UNCHANGED job /\ Applied(k, "error_definitivo", 0)
    BY <1>10, <1>b, Moves DEF GiveUp, Exhausted, RunnerAt, Busy
  <2> QED BY <2>1, <1>a, <1>b, <1>e DEF Closes, To, At
<1>11. CASE Die(r)
  <2>1. Busy(r) /\ Idles(r) /\ UNCHANGED <<job, lote, venta>> BY <1>11, Moves DEF Die, Abandon
  <2> QED BY <2>1, <1>b DEF Closes, Idles, At
<1>12. ASSUME NEW v \in Ventas, Consult(v) PROVE FALSE BY <1>12, <1>t DEF Consult
<1>13. QED
  BY <1>1, <1>2, <1>3, <1>4, <1>5, <1>6, <1>7, <1>8, <1>9, <1>10, <1>11, <1>12 DEF Works, Process

\* While nobody joined late and no clerk asked, an open batch keeps its accounts blocked.
LEMMA OpenStep ==
  ASSUME TypeOK, MinedOK, LoteOK, TicketOK, OpenOK, Next
  PROVE  OpenOK'
<1>t. /\ job \in [Jobs -> JobRows] /\ lote \in [Jobs -> Lotes] /\ venta \in [Ventas -> VentaRows]
      /\ NoJob \notin Jobs /\ consults \in Nat /\ Clerk \in Runners
  BY RowTypes
<1>m. \A r \in Runners : Busy(r) => Mine(r) \in Jobs BY DEF MinedOK
<1>1. ASSUME NEW r \in Runners, Works(r), late' = {}, consults' = 0 PROVE Working'
  <2>1. PICK k \in Jobs : Touches(r, k) BY <1>1, Touching
  <2>2. late = {} /\ consults = 0
    <3>1. consults' = consults \/ consults' = consults + 1
      BY <1>1 DEF Works, Process, Begin, MarkSending, SendSummary, SendLost, StoreTicket, QueryAnswered, QueryNoCdr,
         QueryNoCdrAs, QueryFailed, Record, StoreFailed, MarkError, ReadBack, Finish, GiveUp, CloseGivenUp, Die, Take,
         Consult, batchVars
    <3> QED BY <1>1, <2>1, <3>1, <1>t DEF Touches
  <2>3. Working /\ Closes(r, k) BY <1>1, <2>1, <2>2, Closing DEF OpenOK
  <2>4. r # Clerk
    <3>1. CASE Busy(r) BY <2>3, <3>1 DEF Working
    <3>2. CASE ~Busy(r)
      BY <1>1, <2>2, <3>2, <1>t DEF Works, Process, Begin, MarkSending, SendSummary, SendLost, StoreTicket, QueryAnswered,
         QueryNoCdr, QueryNoCdrAs, QueryFailed, Record, StoreFailed, MarkError, ReadBack, Reread, Abandon, Finish,
         SettleFinal, PutBack, Settled, Remaining, GiveUp, Exhausted, CloseGivenUp, Die, Take, Consult, RunnerAt, Busy
    <3> QED BY <3>1, <3>2
  <2>5. \A u \in Runners : u # r => runner'[u] = runner[u] /\ (Busy(u) => Mine(u) # k)
    <3>1. CASE Busy(r)
      <4>1. Mine(r) = k BY <2>1, <3>1, <1>m, <1>t DEF Touches, Mine
      <4> QED BY <2>1, <2>3, <3>1, <4>1 DEF Working, Touches
    <3>2. CASE ~Busy(r)
      <4>1. PICK j \in Jobs : Take(r, j)
        BY <1>1, <2>4, <3>2 DEF Works, Process, Begin, MarkSending, SendSummary, SendLost, StoreTicket, QueryAnswered,
           QueryNoCdr, QueryNoCdrAs, QueryFailed, Record, StoreFailed, MarkError, ReadBack, Reread, Abandon, Finish,
           SettleFinal, PutBack, Settled, Remaining, GiveUp, Exhausted, CloseGivenUp, Die, RunnerAt, Busy
      <4>2. j = k /\ job[k].estado = "pendiente_envio"
        <5>1. At(r, "claimed", j, "pendiente_envio") BY <4>1, Moves
        <5>2. job[j].estado = "pendiente_envio" BY <4>1 DEF Take, ClaimJob
        <5> QED BY <5>1, <5>2, <2>1 DEF At, Touches
      <4> QED BY <2>1, <2>3, <4>2 DEF Working, Touches
    <3> QED BY <3>1, <3>2
  <2>6. runner'[Clerk].step = "idle" BY <2>3, <2>4, <2>5, <1>t DEF Working, Busy
  <2>7. ASSUME NEW u \in Runners, runner'[u].step # "idle"
        PROVE  /\ job'[runner'[u].job].estado = "procesando"
               /\ \A w \in Runners : runner'[w].step # "idle" /\ runner'[w].job = runner'[u].job => w = u
               /\ runner'[u].step \in {"claimed", "marking", "sending", "sent", "querying", "answered", "failed"}
                    => lote'[runner'[u].job].estado \in Abiertos
               /\ runner'[u].step = "settling" => runner'[u].estado = lote'[runner'[u].job].estado
    <3>1. runner'[r].step # "idle" => runner'[r].job = k BY <2>1 DEF Touches
    <3>2. CASE u = r BY <2>3, <2>5, <2>7, <3>1, <3>2 DEF Closes, Busy, Mine
    <3>3. CASE u # r
      <4>1. runner'[u] = runner[u] /\ Busy(u) /\ Mine(u) # k /\ Mine(u) \in Jobs
        BY <2>5, <2>7, <3>3, <1>m DEF Busy
      <4>2. job'[Mine(u)] = job[Mine(u)] /\ lote'[Mine(u)] = lote[Mine(u)] BY <2>1, <4>1 DEF Touches
      <4>3. \A w \in Runners : runner'[w].step # "idle" /\ runner'[w].job = runner[u].job => w = u
        BY <2>3, <2>5, <3>1, <4>1 DEF Working, Busy, Mine
      <4> QED BY <2>3, <4>1, <4>2, <4>3 DEF Working, RunnerAt, Mine
    <3> QED BY <3>2, <3>3
  <2>8. ASSUME NEW j \in Jobs
        PROVE  /\ job'[j].estado = "pendiente_envio" => lote'[j].estado \in Abiertos
               /\ lote'[j].estado \in Abiertos =>
                    \A v \in Ventas : venta'[v].lote = j => venta'[v].cuenta = "anulacion_pendiente"
    <3>1. CASE j = k BY <2>1, <2>3, <3>1 DEF Working, Closes, Touches, Of
    <3>2. CASE j # k BY <2>1, <2>3, <3>2 DEF Working, Closes, Touches, Of
    <3> QED BY <3>1, <3>2
  <2> QED BY <2>6, <2>7, <2>8 DEF Working, Busy, Mine, Of, RunnerAt
<1>2. ASSUME NEW v \in Ventas, PickLote(v) \/ Collide(v) PROVE OpenOK'
  BY <1>2 DEF OpenOK, Working, Busy, Mine, Of, RunnerAt, PickLote, Collide
<1>3. ASSUME NEW v \in Ventas, Join(v), late' = {}, consults' = 0 PROVE Working'
  <2>1. PICK j \in Jobs : Joins(v, j) BY <1>3, Joining DEF Joins
  <2>2. Working /\ late = {} BY <1>3, <2>1 DEF OpenOK, Joins
  <2>3. solicitud[v].opens \/ Untouched(j) BY <1>3, <2>1 DEF Joins
  <2>4. (\A r \in Runners : runner[r].job # j) /\ lote'[j].estado \in Abiertos
    BY <2>1, <2>3 DEF Joins, LoteOK, Untouched, Abiertos, Estados, Finales, Verdicts, Aceptados
  <2>5. \A w \in Ventas : w # v /\ venta[w].lote = j => venta[w].cuenta = "anulacion_pendiente"
    <3>1. CASE solicitud[v].opens BY <2>1, <3>1 DEF Joins, LoteOK
    <3>2. CASE Untouched(j)
      BY <2>2, <2>1, <3>2 DEF Joins, Untouched, Working, Of, Abiertos, Estados, Finales, Verdicts, Aceptados
    <3> QED BY <2>3, <3>1, <3>2
  <2>6. ASSUME NEW r \in Runners, Busy(r)
        PROVE  /\ job'[Mine(r)].estado = "procesando" /\ lote'[Mine(r)] = lote[Mine(r)]
    <3>1. Mine(r) # j /\ Mine(r) \in Jobs BY <2>4, <2>6, <1>m DEF Mine
    <3> QED BY <2>1, <2>2, <2>6, <3>1 DEF Working, Joins
  <2>7. ASSUME NEW k \in Jobs
        PROVE  /\ job'[k].estado = "pendiente_envio" => lote'[k].estado \in Abiertos
               /\ lote'[k].estado \in Abiertos =>
                    \A w \in Ventas : venta'[w].lote = k => venta'[w].cuenta = "anulacion_pendiente"
    <3>1. CASE k = j BY <2>1, <2>4, <2>5, <3>1 DEF Joins
    <3>2. CASE k # j BY <2>1, <2>2, <3>2 DEF Joins, Working, Of
    <3> QED BY <3>1, <3>2
  <2>8. UNCHANGED runner BY <2>1 DEF Joins
  <2> QED BY <2>2, <2>6, <2>7, <2>8 DEF Working, Busy, Mine, Of, RunnerAt
<1>4. ASSUME NEW i \in DOMAIN sent, NEW v \in Verdicts, SunatDecides(i, v) PROVE OpenOK'
  BY <1>4 DEF OpenOK, Working, Busy, Mine, Of, RunnerAt, SunatDecides
<1> QED BY <1>1, <1>2, <1>3, <1>4, ByWhom DEF OpenOK

----------------------------------------
(* The theorems.                                                           *)

IInv == TypeOK /\ MinedOK /\ LoteOK /\ TicketOK /\ SalesOK /\ OpenOK /\ AnnulledWasVoided

\* Nothing has happened at first.
LEMMA InitIInv == Init => IInv
<1> SUFFICES ASSUME Init PROVE IInv OBVIOUS
<1>a. /\ 0 \in 0..IntentosCap /\ 0 \in 0..MaxSends /\ 0 \in 0..MaxConsults /\ 0 \in 0..MaxFaults /\ Clerk \in Runners
      /\ NoJob \notin Jobs /\ NoLote \notin Jobs
  BY QueueAssumption, BatchesAssumption DEF NoLote
<1>1. /\ \A j \in Jobs : job[j].estado = "ausente" /\ lote[j].estado = "ausente" /\ lote[j].ticket = 0
      /\ \A r \in Runners : runner[r].step = "idle" /\ runner[r].job = NoJob /\ work[r].ticket = 0
      /\ \A v \in Ventas : venta[v].lote = NoLote /\ ~venta[v].anulada /\ returns[v] = 0 /\ solicitud[v] = NoRequest
      /\ sent = <<>>
  BY DEF Init, QueueInit, IdleRunner, NoWork
<1>2. TypeOK
  <2>1. QueueTypeOK
    BY <1>a DEF Init, QueueInit, QueueTypeOK, JobRows, JobEstados, RunnerRows, IdleRunner, Estados
  <2>2. lote \in [Jobs -> Lotes] /\ venta \in [Ventas -> VentaRows]
    BY <1>a DEF Init, Lotes, VentaRows
  <2>3. solicitud \in [Ventas -> Pedidos] /\ work \in [Runners -> WorkRows] /\ returns \in [Ventas -> Nat]
    BY <1>a DEF Init, NoRequest, Pedidos, WorkRows, NoWork
  <2>4. sent \in Seq(Envios) /\ Len(sent) = 0 BY <1>1
  <2>5. Len(sent) <= MaxSends /\ consults \in 0..MaxConsults /\ late \subseteq Ventas /\ faults \in 0..MaxFaults
    BY <1>a, <2>4 DEF Init
  <2> QED BY <2>1, <2>2, <2>3, <2>4, <2>5 DEF TypeOK, Pedidos, WorkRows
<1>3. DOMAIN sent = {} BY <1>1
<1>4. MinedOK /\ LoteOK BY <1>a, <1>1, <1>3 DEF MinedOK, LoteOK, Busy, Mine
<1>5. TicketOK /\ SalesOK BY <1>a, <1>1, <1>3 DEF TicketOK, SalesOK, RunnerAt
<1>6. Working BY <1>a, <1>1 DEF Working, Busy, Abiertos, Estados
<1>7. AnnulledWasVoided BY <1>1 DEF AnnulledWasVoided
<1> QED BY <1>2, <1>4, <1>5, <1>6, <1>7 DEF IInv, OpenOK

\* Every step keeps the invariant.
LEMMA StepIInv == IInv /\ [Next]_vars => IInv'
<1>1. ASSUME IInv, Next PROVE IInv'
  BY <1>1, TypeStep, MinedStep, LoteStep, TicketStep, SalesStep, OpenStep, AnnulledStep DEF IInv
<1>2. ASSUME IInv, UNCHANGED vars PROVE IInv'
  <2>1. UNCHANGED <<job, runner, lote, venta, solicitud, work, sent, consults, late, returns, faults>>
    BY <1>2 DEF vars, batchVars
  <2>2. TypeOK' /\ MinedOK' /\ LoteOK'
    BY <1>2, <2>1 DEF IInv, TypeOK, QueueTypeOK, MinedOK, LoteOK, Busy, Mine
  <2>3. TicketOK' /\ SalesOK' /\ AnnulledWasVoided'
    BY <1>2, <2>1 DEF IInv, TicketOK, SalesOK, AnnulledWasVoided, RunnerAt
  <2>4. OpenOK' BY <1>2, <2>1 DEF IInv, OpenOK, Working, Busy, Mine, Of, RunnerAt
  <2> QED BY <2>2, <2>3, <2>4 DEF IInv
<1> QED BY <1>1, <1>2

\* The parts hold together from the first state on.
THEOREM BatchInvariant == Spec => []IInv
BY InitIInv, StepIInv, PTL DEF Spec

\* Every row of the batches, their sales and the XML files is of its type.
THEOREM BatchTypes == Spec => []TypeOK
BY BatchInvariant, PTL DEF IInv

\* A sale is annulled here only by an acceptance of an XML with that sale in it, or late in its
\* batch, and its goods go back once, whatever runners and the clerk do beside each other.
THEOREM AnnulledSalesWereVoided == Spec => []AnnulledWasVoided
BY BatchInvariant, PTL DEF IInv

\* Until its batch has a final state, the account of a sale is blocked.
THEOREM OpenBatchesBlock == Spec => []BlockedWhileOpen
<1>1. IInv => BlockedWhileOpen BY DEF IInv, OpenOK, Working, BlockedWhileOpen
<1> QED BY BatchInvariant, <1>1, PTL
=============================================================================
