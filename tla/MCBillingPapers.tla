---------------------------- MODULE MCBillingPapers ----------------------------
(* A debit note or a guide on two executions. *)
EXTENDS BillingGuide

CONSTANTS t1, t2
=============================================================================
