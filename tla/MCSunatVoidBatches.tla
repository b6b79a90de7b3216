-------------------------- MODULE MCSunatVoidBatches --------------------------
(* SunatVoidBatches on two sales, one batch, a runner and a clerk.           *)
EXTENDS SunatVoidBatches

CONSTANTS v1, v2, r1, r2, clerk
=============================================================================
