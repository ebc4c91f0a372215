----------------------- MODULE SubscriptionLifeCycle -----------------------
(***************************************************************************)
(* What apps.billing promises of the status of a client's subscription,    *)
(* whichever requests run and however they interleave: a client is signed  *)
(* up once, into a trial; the subscription is then activated, suspended,   *)
(* cancelled or expired, in any order and as often as the operator likes,  *)
(* but it never disappears and never becomes a trial again.                *)
(*                                                                         *)
(* Billing and BillingConcurrent are shown to implement this.              *)
(***************************************************************************)
CONSTANT Tenants    \* client companies

VARIABLE status     \* status[t], "none" when t has no subscription

Ended == {"suspended", "cancelled", "expired"}

Init == status = [t \in Tenants |-> "none"]

\* One write to the database: several clients at once when trials expire.
Next ==
    /\ status' \in [Tenants -> {"none", "trial", "active"} \cup Ended]
    /\ \A t \in Tenants :
        \/ status'[t] = status[t]
        \/ status[t] = "none" /\ status'[t] = "trial"
        \/ status[t] # "none" /\ status'[t] \in {"active"} \cup Ended

Spec == Init /\ [][Next]_status
=============================================================================
