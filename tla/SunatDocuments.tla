---------------------------- MODULE SunatDocuments ----------------------------
(***************************************************************************)
(* Documents the backend sends to SUNAT by itself, one by one, from the    *)
(* job table: sales and credit notes over SOAP, which answers with the     *)
(* constancy (CDR) at once, and despatch guides over REST, which answers   *)
(* with a ticket that is asked for later.  Beside the runners, an operator *)
(* retries a document or emits, consults and annuls a guide.               *)
(*                                                                         *)
(* SUNAT is external: it decides about a document once.  What it is sent   *)
(* again it refuses, or answers as before.                                 *)
(***************************************************************************)
EXTENDS SunatQueue

CONSTANTS
  Kinds,       \* of document in this instance; a guide's says the mode of
               \*   SUNAT_GUIA_REMISION_MODE: real, simulated or disabled
  MaxRequests, \* bound: requests of operators after the first emission
  MaxDeaths    \* bound: deaths of a runner between two awaits

GuideKinds == {"guia", "simulada", "deshabilitada"}

ASSUME DocumentsAssumption ==
  /\ Kinds \subseteq {"venta", "nota"} \cup GuideKinds
  /\ MaxRequests \in Nat
  /\ MaxDeaths \in Nat

Documents == [estado  : Estados,    \* sunatEstado
              ticket  : BOOLEAN,    \* sunatTicket of a guide
              local   : {"borrador", "emitida", "aceptada", "rechazada",
                         "anulada"},  \* the guide's own estado
              applied : BOOLEAN]    \* commercialEffectsApplied of a note

VARIABLES
  kind,     \* of each document, chosen once
  doc,      \* the document's row
  work,     \* per runner: the ticket it read and the CDR it was given
  request,  \* per document: the step an operator's request has reached
  requests, \* requests so far
  sunat,    \* external: what SUNAT holds of each document
  effects,  \* history: times a note's effects were carried out
  deaths    \* runners that died so far

docVars == <<kind, doc, work, request, requests, sunat, effects, deaths>>
sunatVars    == <<job, runner, docVars>>

SunatTypeOK ==
  /\ QueueTypeOK
  /\ kind \in [Jobs -> Kinds]
  /\ doc \in [Jobs -> Documents]
  /\ work \in [Runners -> [ticket : BOOLEAN,
                           cdr : Verdicts \cup {"ninguno"}]]
  /\ request \in [Jobs -> {"none", "emit", "enqueue", "annul"}]
  /\ requests \in 0..MaxRequests
  /\ sunat \in [Jobs -> Verdicts \cup {"ninguno", "en_proceso"}]
  /\ effects \in [Jobs -> Nat]
  /\ deaths \in 0..MaxDeaths

NoWork == [ticket |-> FALSE, cdr |-> "ninguno"]

SunatInit ==
  /\ QueueInit
  /\ kind     \in [Jobs -> Kinds]
  /\ doc      = [j \in Jobs |-> [estado |-> "pendiente_envio",
                                 ticket |-> FALSE, local |-> "borrador",
                                 applied |-> FALSE]]
  /\ work     = [r \in Runners |-> NoWork]
  /\ request  = [j \in Jobs |-> "none"]
  /\ requests = 0
  /\ sunat    = [j \in Jobs |-> "ninguno"]
  /\ effects  = [j \in Jobs |-> 0]
  /\ deaths   = 0

Mine(r) == runner[r].job
SetEstado(j, estado) == doc' = [doc EXCEPT ![j].estado = estado]
Guide(j)   == kind[j] \in GuideKinds

----------------------------------------
(* Requests.                                                               *)

\* A sale and a note are stored with their job, in one transaction.
Create(j) ==
  /\ ~Guide(j)
  /\ job[j].estado = "ausente"
  /\ Upsert(j)
  /\ UNCHANGED <<runner, docVars>>

\* retrySale, and retry of a note: no condition on the state.
Retry(j) ==
  /\ ~Guide(j)
  /\ job[j].estado # "ausente"
  /\ requests < MaxRequests
  /\ requests' = requests + 1
  /\ SetEstado(j, "pendiente_envio")
  /\ Upsert(j)
  /\ UNCHANGED <<runner, kind, work, request, sunat, effects, deaths>>

\* emitir reads and refuses, then writes the guide, then queues it.
EmitRead(j) ==
  /\ Guide(j)
  /\ request[j] = "none"
  /\ doc[j].local # "anulada"
  /\ doc[j].estado # "aceptado"
  /\ job[j].estado # "ausente" => requests < MaxRequests
  /\ requests' = IF job[j].estado = "ausente" THEN requests ELSE requests + 1
  /\ request' = [request EXCEPT ![j] = "emit"]
  /\ UNCHANGED <<job, runner, kind, doc, work, sunat, effects, deaths>>

EmitWrite(j) ==
  /\ request[j] = "emit"
  /\ doc' = [doc EXCEPT ![j] = [@ EXCEPT !.local = "emitida",
                                        !.estado = "pendiente_envio",
                                        !.ticket = FALSE]]
  /\ request' = [request EXCEPT ![j] = "enqueue"]
  /\ UNCHANGED <<job, runner, kind, work, requests, sunat, effects, deaths>>

Enqueue(j) ==
  /\ request[j] = "enqueue"
  /\ Upsert(j)
  /\ request' = [request EXCEPT ![j] = "none"]
  /\ UNCHANGED <<runner, kind, doc, work, requests, sunat, effects, deaths>>

\* consultarCdr: a guide with a ticket is queued again.
ConsultGuide(j) ==
  /\ Guide(j)
  /\ request[j] = "none"
  /\ doc[j].ticket
  /\ requests < MaxRequests
  /\ requests' = requests + 1
  /\ request' = [request EXCEPT ![j] = "enqueue"]
  /\ UNCHANGED <<job, runner, kind, doc, work, sunat, effects, deaths>>

AnnulRead(j) ==
  /\ Guide(j)
  /\ request[j] = "none"
  /\ doc[j].estado # "aceptado"
  /\ requests < MaxRequests
  /\ requests' = requests + 1
  /\ request' = [request EXCEPT ![j] = "annul"]
  /\ UNCHANGED <<job, runner, kind, doc, work, sunat, effects, deaths>>

AnnulWrite(j) ==
  /\ request[j] = "annul"
  /\ doc' = [doc EXCEPT ![j].local = "anulada"]
  /\ request' = [request EXCEPT ![j] = "none"]
  /\ UNCHANGED <<job, runner, kind, work, requests, sunat, effects, deaths>>

----------------------------------------
(* What a runner does with a document between the claim and the reread.    *)

Take(r, j) == ClaimJob(r, j) /\ UNCHANGED docVars

\* Guides in simulated mode are accepted on the spot, with a ticket, and
\* without asking SUNAT; in disabled mode they fail for good.
BeginSimulated(r) ==
  /\ RunnerAt(r, "claimed")
  /\ kind[Mine(r)] = "simulada"
  /\ doc' = [doc EXCEPT ![Mine(r)] = [@ EXCEPT !.local = "aceptada",
                                              !.estado = "aceptado",
                                              !.ticket = TRUE]]
  /\ StepTo(r, "processed")
  /\ UNCHANGED <<job, kind, work, request, requests, sunat, effects, deaths>>

BeginDisabled(r) ==
  /\ RunnerAt(r, "claimed")
  /\ kind[Mine(r)] = "deshabilitada"
  /\ doc' = [doc EXCEPT ![Mine(r)] = [@ EXCEPT !.estado = "error_definitivo",
                                              !.local = "emitida"]]
  /\ StepTo(r, "processed")
  /\ UNCHANGED <<job, kind, work, request, requests, sunat, effects, deaths>>

\* The document is read and marked; a guide with a ticket is only asked for.
Begin(r) ==
  /\ RunnerAt(r, "claimed")
  /\ kind[Mine(r)] \notin {"simulada", "deshabilitada"}
  /\ LET j == Mine(r)
         asks == Guide(j) /\ doc[j].ticket
     IN  /\ SetEstado(j, IF asks THEN "pendiente_cdr" ELSE "enviando")
         /\ work' = [work EXCEPT ![r] = [NoWork EXCEPT !.ticket = asks]]
         /\ StepTo(r, IF asks THEN "querying" ELSE "sending")
  /\ UNCHANGED <<job, kind, request, requests, sunat, effects, deaths>>

\* External: the document reaches SUNAT, which decides at once (SOAP) or
\* takes a guide in (REST).
SunatTakes(j) ==
  IF sunat[j] # "ninguno"
    THEN UNCHANGED sunat
    ELSE \E v \in IF Guide(j) THEN {"en_proceso"} ELSE Verdicts :
           sunat' = [sunat EXCEPT ![j] = v]

\* sendBill: sign, send, and be given the CDR.
SendBill(r) ==
  /\ RunnerAt(r, "sending")
  /\ ~Guide(Mine(r))
  /\ SunatTakes(Mine(r))
  /\ work' = [work EXCEPT ![r].cdr = sunat'[Mine(r)]]
  /\ StepTo(r, "answered")
  /\ UNCHANGED <<job, kind, doc, request, requests, effects, deaths>>

\* sendGuide: be given a ticket.
SendGuide(r) ==
  /\ RunnerAt(r, "sending")
  /\ Guide(Mine(r))
  /\ SunatTakes(Mine(r))
  /\ StepTo(r, "sent")
  /\ UNCHANGED <<job, kind, doc, work, request, requests, effects, deaths>>

\* The answer is lost; or SUNAT deaths, the network fails or the settings
\* are refused before anything is sent.
SendLost(r) ==
  /\ RunnerAt(r, "sending")
  /\ SunatTakes(Mine(r))
  /\ StepTo(r, "failed")
  /\ UNCHANGED <<job, kind, doc, work, request, requests, effects, deaths>>

SendFailed(r) ==
  /\ runner[r].step \in {"sending", "querying"}
  /\ StepTo(r, "failed")
  /\ UNCHANGED <<job, docVars>>

StoreTicket(r) ==
  /\ RunnerAt(r, "sent")
  /\ doc' = [doc EXCEPT ![Mine(r)] = [@ EXCEPT !.local = "emitida",
                                              !.estado = "pendiente_cdr",
                                              !.ticket = TRUE]]
  /\ StepTo(r, "processed")
  /\ UNCHANGED <<job, kind, work, request, requests, sunat, effects, deaths>>

\* getTicket: the CDR, once there is one.
QueryAnswered(r) ==
  /\ RunnerAt(r, "querying")
  /\ sunat[Mine(r)] \in Verdicts
  /\ work' = [work EXCEPT ![r].cdr = sunat[Mine(r)]]
  /\ StepTo(r, "answered")
  /\ UNCHANGED <<job, kind, doc, request, requests, sunat, effects, deaths>>

QueryNoCdrFrom(r, estado) ==
  /\ RunnerAt(r, "querying")
  /\ sunat[Mine(r)] \notin Verdicts
  /\ SetEstado(Mine(r), estado)
  /\ StepTo(r, "processed")
  /\ UNCHANGED <<job, kind, work, request, requests, sunat, effects, deaths>>
QueryNoCdrAccepts(r) == QueryNoCdrFrom(r, "aceptado")      \* mutant
QueryNoCdr(r)        == QueryNoCdrFrom(r, "pendiente_cdr")

\* The verdict is stored with the constancy.  An accepted note goes on to
\* its effects, inside the same try.
Record(r) ==
  /\ RunnerAt(r, "answered")
  /\ LET j == Mine(r)
         v == work[r].cdr
     IN  /\ doc' = [doc EXCEPT ![j] =
              [doc[j] EXCEPT !.estado = v,
                             !.local = IF ~Guide(j) THEN @
                                       ELSE IF v = "rechazado" THEN "rechazada"
                                                               ELSE "aceptada"]]
         /\ StepTo(r, IF kind[j] = "nota" /\ v \in Aceptados
                        THEN "effects" ELSE "processed")
  /\ UNCHANGED <<job, kind, work, request, requests, sunat, effects, deaths>>

\* applyAcceptedEffects: the note's row is locked, its mark tested.
CarryOut(r) ==
  /\ doc' = [doc EXCEPT ![Mine(r)].applied = TRUE]
  /\ effects' = [effects EXCEPT ![Mine(r)] = @ + 1]
ApplyEffectsAgain(r) ==   \* mutant: the mark is not tested
  /\ RunnerAt(r, "effects")
  /\ CarryOut(r)
  /\ StepTo(r, "processed")
  /\ UNCHANGED <<job, kind, work, request, requests, sunat, deaths>>
ApplyEffects(r) ==
  /\ RunnerAt(r, "effects")
  /\ \/ ~doc[Mine(r)].applied /\ CarryOut(r)
     \/ doc[Mine(r)].applied /\ UNCHANGED <<doc, effects>>
  /\ StepTo(r, "processed")
  /\ UNCHANGED <<job, kind, work, request, requests, sunat, deaths>>

\* Storing the files, the row or the effects fails: the same catch as above.
StoreFailed(r) ==
  /\ runner[r].step \in {"sent", "answered", "effects"}
  /\ StepTo(r, "failed")
  /\ UNCHANGED <<job, docVars>>

MarkError(r, definitive) ==
  /\ RunnerAt(r, "failed")
  /\ doc' = [doc EXCEPT ![Mine(r)] =
       [doc[Mine(r)] EXCEPT
          !.estado = IF definitive THEN "error_definitivo" ELSE "error_transitorio",
          !.local  = IF Guide(Mine(r)) THEN "emitida" ELSE @]]
  /\ StepTo(r, "processed")
  /\ UNCHANGED <<job, kind, work, request, requests, sunat, effects, deaths>>

Forget(r) == work' = [work EXCEPT ![r] = NoWork]

ReadBack(r) ==
  /\ Reread(r, doc[Mine(r)].estado)
  /\ Forget(r)
  /\ UNCHANGED <<kind, doc, request, requests, sunat, effects, deaths>>

Finish(r) == (SettleFinal(r) \/ PutBack(r)) /\ UNCHANGED docVars

\* No attempts are left: one transaction ends the document and the job.
GiveUpOn(r) ==
  /\ SetEstado(Mine(r), "error_definitivo")
  /\ Close(r, "error_definitivo")
  /\ UNCHANGED <<kind, work, request, requests, sunat, effects, deaths>>
GiveUpFirst(r) == /\ RunnerAt(r, "settling")    \* mutant: whatever was decided
                  /\ runner[r].intentos >= MaxIntentos
                  /\ GiveUpOn(r)
GiveUp(r)      == Exhausted(r) /\ GiveUpOn(r)

Die(r) ==
  /\ deaths < MaxDeaths
  /\ deaths' = deaths + 1
  /\ Abandon(r)
  /\ Forget(r)
  /\ UNCHANGED <<kind, doc, request, requests, sunat, effects>>

\* External: SUNAT decides about a guide.
SunatDecides(j, v) ==
  /\ sunat[j] = "en_proceso"
  /\ sunat' = [sunat EXCEPT ![j] = v]
  /\ UNCHANGED <<job, runner, kind, doc, work, request, requests, effects,
                 deaths>>

----------------------------------------
Process(r) ==
  \/ Begin(r) \/ BeginSimulated(r) \/ BeginDisabled(r) \/ SendBill(r) \/ SendGuide(r)
  \/ SendLost(r) \/ SendFailed(r)
  \/ StoreTicket(r) \/ QueryAnswered(r) \/ QueryNoCdr(r)
  \/ Record(r) \/ ApplyEffects(r) \/ StoreFailed(r)
  \/ \E definitive \in BOOLEAN : MarkError(r, definitive)
  \/ ReadBack(r) \/ Finish(r) \/ GiveUp(r)

OperatorStep(j) ==
  \/ Create(j) \/ Retry(j) \/ EmitRead(j) \/ EmitWrite(j) \/ Enqueue(j)
  \/ ConsultGuide(j) \/ AnnulRead(j) \/ AnnulWrite(j)

SunatNext ==
  \/ \E j \in Jobs : OperatorStep(j)
  \/ \E r \in Runners, j \in Jobs : Take(r, j)
  \/ \E r \in Runners : Process(r) \/ Die(r)
  \/ \E j \in Jobs, v \in Verdicts : SunatDecides(j, v)

SunatSpec == SunatInit /\ [][SunatNext]_sunatVars

----------------------------------------
(* What a document says SUNAT decided is what SUNAT decided, however many  *)
(* runners and retries there were: no verdict is invented or swapped, but  *)
(* for the acceptances of the simulated mode.                              *)
VerdictsAreSunats ==
  \A j \in Jobs : doc[j].estado \in Verdicts
                    => kind[j] = "simulada" \/ sunat[j] = doc[j].estado

(* An acceptance is not unwritten by the queue: a document leaves aceptado *)
(* or observado only after an operator's request, or because a note's own  *)
(* effects failed and the catch of the emission overwrote it.              *)
AcceptanceSticks ==
  [][\A j \in Jobs :
       (doc[j].estado \in Aceptados /\ doc'[j].estado \notin Aceptados)
         => requests' > 0 \/ (kind[j] = "nota" /\ ~doc[j].applied)]_sunatVars

(* A note's effects are carried out once, and only for a note SUNAT took,  *)
(* even with two runners and after retries.                                *)
EffectsOnce ==
  \A j \in Jobs : /\ effects[j] <= 1
                  /\ effects[j] = 1 => sunat[j] \in Aceptados

(* What a document says, and what a note does, is what SUNAT decided.      *)
AsSunatDecided == VerdictsAreSunats /\ EffectsOnce

(* A queued document's job is closed in the end, unless a runner died.     *)
QueueDrains ==
  \A j \in Jobs : (job[j].estado = "pendiente_envio")
                    ~> (\/ job[j].estado \in {"finalizado", "error_definitivo"}
                        \/ deaths > 0)
=============================================================================
