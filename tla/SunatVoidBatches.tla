--------------------------- MODULE SunatVoidBatches ---------------------------
(***************************************************************************)
(* Voiding accepted sales on the direct SUNAT route.  A request joins the  *)
(* day's batch (lote) that is not yet sent, or opens one; the job of the   *)
(* batch sends one XML with its sales, is given a ticket, and asks for the *)
(* constancy until there is one.  What the constancy says is applied to    *)
(* the batch and to every sale of it in one transaction, which begins by   *)
(* updating the batch's row: an acceptance annuls the sale here.  A clerk  *)
(* may ask for the constancy too, beside the runners.                      *)
(*                                                                         *)
(* SUNAT is external: it takes every XML in, gives it a ticket of its own  *)
(* and decides about the sales in it.                                      *)
(***************************************************************************)
EXTENDS SunatQueue, Sequences

CONSTANTS
  Ventas,      \* accepted sales of one day and type
  Clerk,       \* who asks for a constancy by hand; takes no job
  MaxSends,    \* bound: XML files SUNAT takes in
  MaxConsults, \* bound: constancies asked for by hand
  MaxFaults    \* bound: deaths of a runner between two awaits

NoLote    == 0
NoRequest == [lote |-> NoLote, opens |-> FALSE]

ASSUME BatchesAssumption ==
  /\ Jobs \subseteq Nat \ {NoLote}     \* a batch is its correlativo
  /\ Clerk \in Runners
  /\ {MaxSends, MaxConsults, MaxFaults} \subseteq Nat

Bloqueantes == {"pendiente_envio", "enviando", "pendiente_cdr"} \cup Aceptados
Abiertos == Estados \ Finales
Lotes    == [estado : Estados \cup {"ausente"}, ticket : 0..MaxSends]
VentaRows ==
  [anulada : BOOLEAN,
   lote    : Jobs \cup {NoLote},  \* sunatBajaLoteId and its one sunat_baja_item
   baja    : Estados \cup {"ninguna"},
   cuenta  : {"vigente", "anulacion_pendiente", "anulada"}]

Envios ==
  [lote : Jobs, ventas : SUBSET Ventas, verdict : Verdicts \cup {"en_proceso"}]

VARIABLES
  lote,      \* sunat_baja_lote: state and ticket
  venta,     \* the sales, with their item and account
  solicitud, \* per sale: the batch its request has picked
  work,      \* per runner: the sales and the ticket it has read, and the CDR
  sent,      \* external: the XML files by ticket, and what SUNAT decided
  consults,  \* constancies asked for by hand so far
  late,      \* history: sales that joined a batch a runner had taken
  returns,   \* history: times a sale's goods went back to stock
  faults     \* runners that died so far

batchVars == <<lote, venta, solicitud, work, sent, consults, late, returns,
               faults>>
vars      == <<job, runner, batchVars>>

NoWork == [ventas |-> {}, ticket |-> 0, cdr |-> "ninguno"]

TypeOK ==
  /\ QueueTypeOK
  /\ lote \in [Jobs -> Lotes]
  /\ venta \in [Ventas -> VentaRows]
  /\ solicitud \in [Ventas -> [lote : Jobs \cup {NoLote}, opens : BOOLEAN]]
  /\ work \in [Runners -> [ventas : SUBSET Ventas, ticket : 0..MaxSends,
                           cdr : Verdicts \cup {"ninguno"}]]
  /\ sent \in Seq(Envios) /\ Len(sent) <= MaxSends
  /\ consults \in 0..MaxConsults
  /\ late \subseteq Ventas
  /\ returns \in [Ventas -> Nat]
  /\ faults \in 0..MaxFaults

Init ==
  /\ QueueInit
  /\ lote      = [j \in Jobs |-> [estado |-> "ausente", ticket |-> 0]]
  /\ venta     = [v \in Ventas |-> [anulada |-> FALSE, lote |-> NoLote,
                                    baja |-> "ninguna", cuenta |-> "vigente"]]
  /\ solicitud = [v \in Ventas |-> NoRequest]
  /\ work      = [r \in Runners |-> NoWork]
  /\ sent      = <<>>
  /\ consults  = 0
  /\ late      = {}
  /\ returns   = [v \in Ventas |-> 0]
  /\ faults    = 0

Mine(r) == runner[r].job
Of(j)   == {v \in Ventas : venta[v].lote = j}
Forget(r) == work' = [work EXCEPT ![r] = NoWork]

----------------------------------------
(* Requests.                                                               *)

\* validateSaleForBaja.
Voidable(v) == ~venta[v].anulada /\ venta[v].baja \notin Bloqueantes

\* obtenerOCrearLote inside the transaction: the last batch not yet sent, or
\* a new one with the next correlativo, on a read that locks nothing.
PickLote(v) ==
  /\ Voidable(v)
  /\ venta[v].lote = NoLote        \* else its item exists: the insert fails
  /\ solicitud[v] = NoRequest
  /\ LET open == {j \in Jobs : lote[j].estado = "pendiente_envio"}
         free == {j \in Jobs : lote[j].estado = "ausente"}
     IN  \E j \in Jobs :
           /\ IF open # {} THEN j \in open /\ \A k \in open : k <= j
                           ELSE j \in free /\ \A k \in free : j <= k
           /\ solicitud' = [solicitud EXCEPT
                              ![v] = [lote |-> j, opens |-> open = {}]]
  /\ UNCHANGED <<job, runner, lote, venta, work, sent, consults, late,
                 returns, faults>>

\* Of two requests that open the same correlativo the second one fails.
Collide(v) ==
  /\ solicitud[v].opens
  /\ lote[solicitud[v].lote].estado # "ausente"
  /\ solicitud' = [solicitud EXCEPT ![v] = NoRequest]
  /\ UNCHANGED <<job, runner, lote, venta, work, sent, consults, late,
                 returns, faults>>

\* A batch that waits for its first runner.
Untouched(j) == /\ job[j].estado = "pendiente_envio"
                /\ lote[j].estado = "pendiente_envio"
                /\ \A r \in Runners : runner[r].job # j

\* The item, the sale, the account and the job, in the same transaction.
Join(v) ==
  /\ solicitud[v] # NoRequest
  /\ solicitud[v].opens => lote[solicitud[v].lote].estado = "ausente"
  /\ LET j == solicitud[v].lote
     IN  /\ lote'  = [lote EXCEPT ![j].estado =
                        IF solicitud[v].opens THEN "pendiente_envio" ELSE @]
         /\ venta' = [venta EXCEPT ![v] =
                        [@ EXCEPT !.lote = j, !.baja = "pendiente_envio",
                                  !.cuenta = "anulacion_pendiente"]]
         /\ Upsert(j)
         /\ late' = IF solicitud[v].opens \/ Untouched(j)
                      THEN late ELSE late \cup {v}
  /\ solicitud' = [solicitud EXCEPT ![v] = NoRequest]
  /\ UNCHANGED <<runner, work, sent, consults, returns, faults>>

----------------------------------------
(* applyLoteResult: one transaction, the batch's row first.                *)

\* finalizeLocalAnnul: a sale already annulled is left as it is.
Annuls(v, estado)      == estado \in Aceptados /\ ~venta[v].anulada

ReleasesOnAnyError(v, estado) ==   \* mutant
  /\ estado \notin Aceptados
  /\ venta[v].cuenta = "anulacion_pendiente"
Releases(v, estado) == /\ estado \in {"rechazado", "error_definitivo"}
                       /\ venta[v].cuenta = "anulacion_pendiente"

ApplyLoteResult(j, estado, ticket) ==
  /\ lote'  = [lote EXCEPT ![j] = [estado |-> estado, ticket |-> ticket]]
  /\ venta' = [v \in Ventas |->
       IF v \notin Of(j) THEN venta[v]
       ELSE [venta[v] EXCEPT
               !.baja    = estado,
               !.anulada = @ \/ Annuls(v, estado),
               !.cuenta  = IF Annuls(v, estado) THEN "anulada"
                           ELSE IF Releases(v, estado) THEN "vigente" ELSE @]]
  /\ returns' = [v \in Ventas |-> IF v \in Of(j) /\ Annuls(v, estado)
                                    THEN returns[v] + 1 ELSE returns[v]]

----------------------------------------
(* Runners.                                                                *)

Take(r, j) == r # Clerk /\ ClaimJob(r, j) /\ UNCHANGED batchVars

\* processLote: the batch is read with its sales, and either asked for or
\* sent.  (A batch in pendiente_cdr always has its ticket.)
Begin(r) ==
  /\ RunnerAt(r, "claimed")
  /\ work' = [work EXCEPT ![r] = [NoWork EXCEPT !.ventas = Of(Mine(r)),
                                               !.ticket = lote[Mine(r)].ticket]]
  /\ StepTo(r, IF lote[Mine(r)].estado = "pendiente_cdr" THEN "querying"
                                                         ELSE "marking")
  /\ UNCHANGED <<job, lote, venta, solicitud, sent, consults, late, returns,
                 faults>>

\* consultarBajaVenta: the clerk reads the batch of a sale that has a ticket.
Consult(v) ==
  /\ ~Busy(Clerk)
  /\ consults < MaxConsults
  /\ venta[v].lote # NoLote
  /\ LET j == venta[v].lote
     IN  /\ lote[j].ticket # 0
         /\ runner' = [runner EXCEPT ![Clerk] =
              [IdleRunner EXCEPT !.step = "querying", !.job = j]]
         /\ work' = [work EXCEPT ![Clerk] =
              [NoWork EXCEPT !.ventas = Of(j), !.ticket = lote[j].ticket]]
  /\ consults' = consults + 1
  /\ UNCHANGED <<job, lote, venta, solicitud, sent, late, returns, faults>>

\* updateLoteAndVentas.
MarkSending(r) ==
  /\ RunnerAt(r, "marking")
  /\ lote'  = [lote EXCEPT ![Mine(r)].estado = "enviando"]
  /\ venta' = [v \in Ventas |-> IF v \in Of(Mine(r))
                                  THEN [venta[v] EXCEPT !.baja = "enviando"]
                                  ELSE venta[v]]
  /\ StepTo(r, "sending")
  /\ UNCHANGED <<job, solicitud, work, sent, consults, late, returns, faults>>

\* External: sendSummary, with the XML of the sales read at first.
SunatTakes(r) ==
  /\ Len(sent) < MaxSends
  /\ sent' = Append(sent, [lote |-> Mine(r), ventas |-> work[r].ventas,
                           verdict |-> "en_proceso"])

SendSummary(r) ==
  /\ RunnerAt(r, "sending")
  /\ SunatTakes(r)
  /\ work' = [work EXCEPT ![r].ticket = Len(sent')]
  /\ StepTo(r, "sent")
  /\ UNCHANGED <<job, lote, venta, solicitud, consults, late, returns, faults>>

\* The answer with the ticket is lost, or nothing could be sent at all.
SendLost(r) ==
  /\ RunnerAt(r, "sending")
  /\ SunatTakes(r) \/ UNCHANGED sent
  /\ work' = [work EXCEPT ![r].ticket = 0]
  /\ StepTo(r, "failed")
  /\ UNCHANGED <<job, lote, venta, solicitud, consults, late, returns, faults>>

StoreTicket(r) ==
  /\ RunnerAt(r, "sent")
  /\ ApplyLoteResult(Mine(r), "pendiente_cdr", work[r].ticket)
  /\ StepTo(r, "processed")
  /\ UNCHANGED <<job, solicitud, work, sent, consults, late, faults>>

\* getStatus with the ticket read at first: the CDR, if there is one.
QueryAnswered(r) ==
  /\ RunnerAt(r, "querying")
  /\ sent[work[r].ticket].verdict \in Verdicts
  /\ work' = [work EXCEPT ![r].cdr = sent[work[r].ticket].verdict]
  /\ StepTo(r, "answered")
  /\ UNCHANGED <<job, lote, venta, solicitud, sent, consults, late, returns,
                 faults>>

QueryNoCdrAs(r, estado) ==
  /\ RunnerAt(r, "querying")
  /\ sent[work[r].ticket].verdict \notin Verdicts
  /\ ApplyLoteResult(Mine(r), estado, work[r].ticket)
  /\ StepTo(r, "processed")
  /\ UNCHANGED <<job, solicitud, work, sent, consults, late, faults>>
QueryNoCdrAccepts(r) == QueryNoCdrAs(r, "aceptado")      \* mutant
QueryNoCdr(r)        == QueryNoCdrAs(r, "pendiente_cdr")

QueryFailed(r) ==
  /\ RunnerAt(r, "querying")
  /\ StepTo(r, "failed")
  /\ UNCHANGED <<job, batchVars>>

Record(r) ==
  /\ RunnerAt(r, "answered")
  /\ ApplyLoteResult(Mine(r), work[r].cdr, work[r].ticket)
  /\ StepTo(r, "processed")
  /\ UNCHANGED <<job, solicitud, work, sent, consults, late, faults>>

\* The files or the transaction fail: the catch of the sending forgets the
\* ticket, that of the query keeps it.
StoreFailed(r) ==
  /\ runner[r].step \in {"sent", "answered"}
  /\ work' = [work EXCEPT ![r].ticket = IF RunnerAt(r, "sent") THEN 0 ELSE @]
  /\ StepTo(r, "failed")
  /\ UNCHANGED <<job, lote, venta, solicitud, sent, consults, late, returns,
                 faults>>

MarkError(r, definitive) ==
  /\ RunnerAt(r, "failed")
  /\ ApplyLoteResult(Mine(r), IF definitive THEN "error_definitivo"
                                            ELSE "error_transitorio",
                     work[r].ticket)
  /\ StepTo(r, "processed")
  /\ UNCHANGED <<job, solicitud, work, sent, consults, late, faults>>

\* The runner reads the batch again; the clerk is answered.
ReadBack(r) ==
  /\ IF r = Clerk THEN RunnerAt(r, "processed") /\ Abandon(r)
                  ELSE Reread(r, lote[Mine(r)].estado)
  /\ Forget(r)
  /\ UNCHANGED <<lote, venta, solicitud, sent, consults, late, returns, faults>>

Finish(r) == (SettleFinal(r) \/ PutBack(r)) /\ UNCHANGED batchVars

\* marcarErrorDefinitivo, and then, in a statement of its own, the job.
GiveUp(r) ==
  /\ Exhausted(r)
  /\ ApplyLoteResult(Mine(r), "error_definitivo", 0)
  /\ StepTo(r, "closing")
  /\ UNCHANGED <<job, solicitud, work, sent, consults, late, faults>>

CloseGivenUp(r) == /\ RunnerAt(r, "closing")
                   /\ Close(r, "error_definitivo")
                   /\ UNCHANGED batchVars

Die(r) ==
  /\ faults < MaxFaults
  /\ faults' = faults + 1
  /\ Abandon(r)
  /\ Forget(r)
  /\ UNCHANGED <<lote, venta, solicitud, sent, consults, late, returns>>

\* External: SUNAT decides about an XML.
SunatDecides(i, v) ==
  /\ sent[i].verdict = "en_proceso"
  /\ sent' = [sent EXCEPT ![i].verdict = v]
  /\ UNCHANGED <<job, runner, lote, venta, solicitud, work, consults, late,
                 returns, faults>>

----------------------------------------
Process(r) ==
  \/ Begin(r) \/ MarkSending(r) \/ SendSummary(r) \/ SendLost(r)
  \/ StoreTicket(r) \/ QueryAnswered(r) \/ QueryNoCdr(r) \/ QueryFailed(r)
  \/ Record(r) \/ StoreFailed(r)
  \/ \E definitive \in BOOLEAN : MarkError(r, definitive)
  \/ ReadBack(r) \/ Finish(r) \/ GiveUp(r) \/ CloseGivenUp(r)

Next ==
  \/ \E v \in Ventas : PickLote(v) \/ Collide(v) \/ Join(v) \/ Consult(v)
  \/ \E r \in Runners, j \in Jobs : Take(r, j)
  \/ \E r \in Runners : Process(r) \/ Die(r)
  \/ \E i \in DOMAIN sent, v \in Verdicts : SunatDecides(i, v)

Spec == Init /\ [][Next]_vars

\* The cron comes again every 15 seconds, and what it started goes on.
Fairness ==
  /\ \A j \in Jobs : WF_vars(\E r \in Runners : Take(r, j))
  /\ \A r \in Runners : WF_vars(Process(r))

FairSpec == Spec /\ Fairness

----------------------------------------
(* A sale is annulled here only when SUNAT accepted an XML with that sale  *)
(* in it; the one exception the code leaves is a sale that joined the batch*)
(* after a runner had read it, which the acceptance of the others annuls.  *)
(* Its goods go back to stock once, also when the batch is sent twice and  *)
(* when the clerk and a runner are given the same acceptance.              *)
AnnulledWasVoided ==
  \A v \in Ventas :
    /\ returns[v] = IF venta[v].anulada THEN 1 ELSE 0
    /\ venta[v].anulada =>
      \/ \E i \in DOMAIN sent : v \in sent[i].ventas
                                /\ sent[i].verdict \in Aceptados
      \/ v \in late

(* While the void of a sale is under way no payment is taken: its account  *)
(* is blocked until the batch has a final state, as long as no sale joined *)
(* late and no clerk wrote an answer beside the runner's.                  *)
BlockedWhileOpen ==
  (late = {} /\ consults = 0) =>
    \A j \in Jobs : lote[j].estado \in Abiertos =>
      \A v \in Of(j) : venta[v].cuenta = "anulacion_pendiente"

(* A requested void comes to an end, an acceptance, a rejection or a final *)
(* error, unless a runner died or the sale joined late: then the runner    *)
(* may close the job over the request.                                     *)
BatchesEnd ==
  \A v \in Ventas :
    (venta[v].baja = "pendiente_envio")
      ~> (venta[v].baja \in Finales \/ faults > 0 \/ v \in late)
=============================================================================
