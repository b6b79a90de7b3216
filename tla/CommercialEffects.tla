-------------------------- MODULE CommercialEffects --------------------------
(***************************************************************************)
(* What a reversal (a credit note, a void) promises the shop: the stock is *)
(* returned and the account reduced once, and only after SUNAT accepted    *)
(* the fiscal document behind it.  The detailed modules implement this.    *)
(***************************************************************************)
EXTENDS Naturals

VARIABLES
  verdict,   \* SUNAT's answer on the reversal, as Billing holds it
  effects    \* how many times the commercial effects were applied

Verdicts == {"pending", "accepted", "rejected"}

Init == verdict = "pending" /\ effects = 0

\* SUNAT answers.
Decide ==
  /\ verdict = "pending"
  /\ verdict' \in {"accepted", "rejected"}
  /\ UNCHANGED effects

\* A rejected or failed document is sent again.
Resubmit ==
  /\ verdict = "rejected"
  /\ verdict' = "pending"
  /\ UNCHANGED effects

Apply ==
  /\ verdict = "accepted"
  /\ effects = 0
  /\ effects' = 1
  /\ UNCHANGED verdict

Next == Decide \/ Resubmit \/ Apply

Spec == Init /\ [][Next]_<<verdict, effects>>
=============================================================================
