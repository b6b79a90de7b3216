------------------------------ MODULE SunatQueue ------------------------------
(***************************************************************************)
(* The job table of the direct SUNAT route (sunat_job) and the runner that *)
(* empties it.  A tick of the cron every 15 seconds claims due jobs one    *)
(* after the other; a tick that takes longer overlaps the next one, so     *)
(* several Runners are at work.  What a job does with its document is the  *)
(* business of the modules that extend this one: between ClaimJob and the  *)
(* reread they add their steps.  nextRetryAt only delays, and is left out. *)
(***************************************************************************)
EXTENDS Naturals, FiniteSets

CONSTANTS
  Jobs,         \* documents with a row in sunat_job: one row per document
  Runners,      \* overlapping ticks of the cron
  MaxIntentos,  \* sunat_job.maxIntentos
  IntentosCap,  \* bound: claims of a job between two resets
  NoJob         \* null value

ASSUME QueueAssumption ==
  /\ MaxIntentos \in Nat \ {0}
  /\ IntentosCap \in Nat
  /\ MaxIntentos <= IntentosCap
  /\ NoJob \notin Jobs

JobEstados == {"ausente", "pendiente_envio", "procesando", "finalizado",
               "error_definitivo"}
\* SunatEstado and SunatBajaEstado; a queued document is never no_aplica.
Estados == {"pendiente_envio", "enviando", "pendiente_cdr", "aceptado",
            "observado", "rechazado", "error_transitorio",
            "error_definitivo"}
Aceptados == {"aceptado", "observado"}
Verdicts  == Aceptados \cup {"rechazado"}
Finales   == Verdicts \cup {"error_definitivo"}

JobRows    == [estado : JobEstados, intentos : 0..IntentosCap]
RunnerRows == [step : {"idle", "claimed", "marking", "sending", "sent",
                       "querying", "answered", "failed", "effects",
                       "processed", "settling", "closing"},
               job : Jobs \cup {NoJob},
               estado : Estados,        \* the document's, as read again
               intentos : 0..IntentosCap] \* the job's, as read again

VARIABLES
  job,     \* sunat_job: state and attempts of every row
  runner   \* what each tick is doing, and what it has read

IdleRunner == [step |-> "idle", job |-> NoJob,
               estado |-> "pendiente_envio", intentos |-> 0]

QueueTypeOK == job \in [Jobs -> JobRows] /\ runner \in [Runners -> RunnerRows]

RunnerAt(r, step)  == runner[r].step = step
Busy(r)      == runner[r].step # "idle"
StepTo(r, s) == runner' = [runner EXCEPT ![r].step = s]

QueueInit == /\ job = [j \in Jobs |-> [estado |-> "ausente", intentos |-> 0]]
             /\ runner = [r \in Runners |-> IdleRunner]

\* The upsert of every site that queues a document: whatever the row was
\* doing, it is pending again with no attempts.
Pending == [estado |-> "pendiente_envio", intentos |-> 0]
Upsert(j) == job' = [job EXCEPT ![j] = Pending]

\* A conditional update takes the row; a row that is not pending is skipped.
ClaimJob(r, j) ==
  /\ ~Busy(r)
  /\ job[j].estado = "pendiente_envio"
  /\ job[j].intentos < IntentosCap
  /\ job' = [job EXCEPT ![j] = [estado   |-> "procesando",
                               intentos |-> @.intentos + 1]]
  /\ runner' = [runner EXCEPT ![r] = [IdleRunner EXCEPT !.step = "claimed",
                                                        !.job  = j]]

\* The document is processed: it is read again, and so is the job.
Reread(r, estado) ==
  /\ RunnerAt(r, "processed")
  /\ runner' = [runner EXCEPT ![r] =
       [@ EXCEPT !.step = "settling", !.estado = estado,
                 !.intentos = job[runner[r].job].intentos]]
  /\ UNCHANGED job

Settled(r)   == RunnerAt(r, "settling") /\ runner[r].estado \in Finales
Exhausted(r) == /\ RunnerAt(r, "settling")
                /\ runner[r].estado \notin Finales
                /\ runner[r].intentos >= MaxIntentos
Remaining(r) == /\ RunnerAt(r, "settling")
                /\ runner[r].estado \notin Finales
                /\ runner[r].intentos < MaxIntentos

Close(r, estado) ==
  /\ job' = [job EXCEPT ![runner[r].job].estado = estado]
  /\ runner' = [runner EXCEPT ![r] = IdleRunner]

\* The document has a final state: so has the job.
SettleFinal(r) ==
  /\ Settled(r)
  /\ Close(r, IF runner[r].estado = "error_definitivo" THEN "error_definitivo"
                                                       ELSE "finalizado")

\* It has not and attempts remain: the job is due again.
PutBackTaken(r) == Remaining(r) /\ Close(r, "procesando")   \* mutant
PutBack(r)      == Remaining(r) /\ Close(r, "pendiente_envio")

\* A step throws where nothing but the loop over the jobs catches, or the
\* process dies: the runner forgets, the row stays as it was.
Abandon(r) ==
  /\ Busy(r)
  /\ runner' = [runner EXCEPT ![r] = IdleRunner]
  /\ UNCHANGED job

=============================================================================
