------------------------- MODULE MCBillingEmission -------------------------
(* BillingEmission on small instances; liveness forbids symmetry.           *)
EXTENDS BillingEmission

CONSTANTS s1, s2, t1, t2
=============================================================================
