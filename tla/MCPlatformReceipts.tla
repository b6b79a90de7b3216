------------------------- MODULE MCPlatformReceipts -------------------------
(* PlatformReceipts, with the sales of Subscriptions, on small instances;    *)
(* and, on a day of its own, BillingSetup: how an issuer comes to Billing.   *)
EXTENDS PlatformReceipts, BillingSetup

CONSTANTS h1, h2

VARIABLE dia    \* cobros, or alta: chosen once

MCHilos  == {h1, h2}
Symmetry == Permutations(MCHilos)

MCInit ==
  /\ PipelineInit /\ SetupInit
  /\ \/ dia = "cobros" /\ emisor = "empresa" /\ ~Provisioned /\ serie = 1
     \/ dia = "alta" /\ ruta = "ninguna"
MCNext ==
  /\ \/ dia = "cobros" /\ PipelineNext /\ UNCHANGED setupVars
     \/ dia = "alta" /\ SetupNext /\ UNCHANGED allVars
  /\ UNCHANGED dia
MCSpec == MCInit /\ [][MCNext]_<<allVars, setupVars, dia>>
=============================================================================
