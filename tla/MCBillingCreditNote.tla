------------------------ MODULE MCBillingCreditNote ------------------------
(* BillingCreditNote on small instances; liveness forbids symmetry.         *)
EXTENDS BillingCreditNote

CONSTANTS t1, t2
=============================================================================
