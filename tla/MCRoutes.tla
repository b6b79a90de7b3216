------------------------------- MODULE MCRoutes -------------------------------
(* A company issues by one route.  SunatDocuments, one document of any kind  *)
(* and overlapping ticks, is the direct one; BillingVoid, the void of a sale,*)
(* is the one through Billing: by one thread with faults ("uno"), or by two  *)
(* whose calls overlap anywhere, without ("dos").                            *)
EXTENDS SunatDocuments, BillingVoid

CONSTANTS d1, r1, r2, t1, t2,
          MaxTogether   \* bound: stamps when two threads overlap

VARIABLE ruta     \* chosen once

allVars == <<sunatVars, vars, ruta>>

MCInit == /\ SunatInit /\ Init
          /\ \/ ruta = "sunat"
             \/ ruta \in {"uno", "dos"} /\ \A j \in Jobs : kind[j] = "venta"

ByBilling == /\ ruta # "sunat"
             /\ ruta = "uno" => thread'[t2] = Idle
             /\ ruta = "dos" => /\ faults' = 0 /\ clock' <= MaxTogether
                                /\ billing'.status # "FAILED"
             /\ UNCHANGED <<sunatVars, ruta>>

\* A death takes the place of one of the requests.
MCNext == \/ /\ ruta = "sunat" /\ SunatNext
             /\ requests' + deaths' <= MaxRequests
             /\ UNCHANGED <<vars, ruta>>
          \/ Next /\ ByBilling

\* The fairness of the two modules, each on its own route.  On the direct one the
\* cron comes again every 15 seconds, and what it started goes on.  Through Billing
\* a call that is running goes on, and the crons run again and again.  Nothing is
\* assumed of webhooks, operators or SUNAT.
MCFairness ==
  /\ \A j \in Jobs :
       /\ WF_allVars(ruta = "sunat" /\ (\E r \in Runners : Take(r, j)) /\ UNCHANGED <<vars, ruta>>)
       /\ WF_allVars(ruta = "sunat" /\ (EmitWrite(j) \/ Enqueue(j) \/ AnnulWrite(j))
                                    /\ UNCHANGED <<vars, ruta>>)
  /\ \A r \in Runners : WF_allVars(ruta = "sunat" /\ Process(r) /\ UNCHANGED <<vars, ruta>>)
  /\ \A t \in Threads : WF_allVars(ThreadStep(t) /\ ByBilling)
  /\ SF_allVars((\E t \in Threads : Claim(t)) /\ ByBilling)
  /\ SF_allVars((\E t \in Threads : Reconcile(t)) /\ ByBilling)

MCSpec == MCInit /\ [][MCNext]_allVars /\ MCFairness
=============================================================================
