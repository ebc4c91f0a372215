------------------------- MODULE BillingConcurrent -------------------------
(***************************************************************************)
(* The operations of Billing as the web and task workers run them.         *)
(*                                                                         *)
(* A request loads its subscription (get_subscription), the service checks *)
(* its early returns and the capacity guard against what the database says *)
(* then, and writes later.  transaction.atomic runs at READ COMMITTED and  *)
(* no row is locked, so the steps of several requests interleave: the      *)
(* guard may be stale at the write, and save(update_fields) writes its     *)
(* columns over whatever another request wrote in between.                 *)
(*                                                                         *)
(* The catalogue and the pool setting do not change here, and time does    *)
(* not end a trial: no worker runs expire_due_trials (see Billing).        *)
(***************************************************************************)
EXTENDS Billing

CONSTANT Workers    \* concurrent requests

ASSUME WorkersAssumption == IsFiniteSet(Workers)

VARIABLE req        \* req[w], the request worker w is serving

cvars == <<plan, sub, journal, pool, alerted, req>>

Idle == [phase |-> "idle"]

\* A request that has loaded the row it works on.  arg is the plan of start
\* and change, the quota of override; overtaken is history: another request
\* has written since this one loaded.
Loaded(op, t, arg) == [phase |-> "loaded", op |-> op, tenant |-> t, arg |-> arg,
                        row |-> sub[t], overtaken |-> FALSE]

CInit == Init /\ req = [w \in Workers |-> Idle]

-----------------------------------------------------------------------------
\* The view loads the subscription; start_trial has seen that there is none.
\* The early returns of activate, change_plan and set_quota_overrides look at
\* the loaded row.
Load(w) ==
    /\ req[w] = Idle
    /\ \E t \in Tenants :
        \/ /\ ~Subscribed(t)
           /\ \E p \in {x \in Plans : Exists(x)} :
                req' = [req EXCEPT ![w] = Loaded("start", t, p)]
        \/ /\ Subscribed(t)
           /\ sub[t].status # "active"
           /\ req' = [req EXCEPT ![w] = Loaded("activate", t, NoOverride)]
        \/ /\ Subscribed(t)
           /\ \E op \in {"suspend", "cancel"} :
                req' = [req EXCEPT ![w] = Loaded(op, t, NoOverride)]
        \/ /\ Subscribed(t)
           /\ \E p \in {x \in Plans : Exists(x)} \ {sub[t].plan} :
                req' = [req EXCEPT ![w] = Loaded("change", t, p)]
        \/ /\ Subscribed(t)
           /\ \E q \in (Quotas \cup {NoOverride}) \ {sub[t].override} :
                req' = [req EXCEPT ![w] = Loaded("override", t, q)]
    /\ UNCHANGED vars

\* The row a request is about to write, computed from the row it loaded.
Written(r) ==
    CASE r.op = "start" ->
           [plan |-> r.arg, status |-> "trial", override |-> NoOverride, due |-> FALSE]
      [] r.op = "activate" -> [r.row EXCEPT !.status = "active", !.due = FALSE]
      [] r.op = "suspend"  -> [r.row EXCEPT !.status = "suspended", !.due = FALSE]
      [] r.op = "cancel"   -> [r.row EXCEPT !.status = "cancelled", !.due = FALSE]
      [] r.op = "change"   -> [r.row EXCEPT !.plan = r.arg, !.override = NoOverride]
      [] r.op = "override" -> [r.row EXCEPT !.override = r.arg]

\* Does the loaded row make the service ask the capacity guard?
AsksGuard(r) ==
    LET raise == QuotaUnder(Written(r), plan) > QuotaUnder(r.row, plan) IN
    \/ r.op = "start"
    \/ r.op = "activate" /\ ~IsOperational(r.row)
    \/ r.op \in {"change", "override"} /\ IsOperational(r.row) /\ raise

Passes(r) ==
    AsksGuard(r) =>
        EnsureSlots(QuotaUnder(Written(r), plan), IF r.op = "start" THEN {} ELSE {r.tenant})

\* The guard reads the committed rows; a refusal ends the request.
Check(w) ==
    /\ req[w].phase = "loaded"
    /\ req' = [req EXCEPT ![w] = IF Passes(@) THEN [@ EXCEPT !.phase = "checked"] ELSE Idle]
    /\ UNCHANGED vars

\* Mutant: change_plan forgets to drop the negotiated quota.
MergedKeepingOverride(r, stored) ==
    LET new == Written(r) IN
    CASE r.op = "start" -> new
      [] r.op \in {"activate", "suspend", "cancel"} ->
           [stored EXCEPT !.status = new.status, !.due = FALSE]
      [] r.op = "change" -> [stored EXCEPT !.plan = new.plan]
      [] r.op = "override" -> [stored EXCEPT !.override = new.override]

\* The columns save(update_fields) writes; the others keep what is stored.
Merged(r, stored) ==
    LET new == Written(r) IN
    CASE r.op = "start" -> new
      [] r.op \in {"activate", "suspend", "cancel"} ->
           [stored EXCEPT !.status = new.status, !.due = FALSE]
      [] r.op = "change" -> [stored EXCEPT !.plan = new.plan, !.override = new.override]
      [] r.op = "override" -> [stored EXCEPT !.override = new.override]

\* The write of w ends its request and overtakes the others that are under way.
Overtake(w) ==
    req' = [v \in Workers |->
               IF v = w THEN Idle
               ELSE IF req[v] = Idle THEN Idle ELSE [req[v] EXCEPT !.overtaken = TRUE]]

\* Mutant: nothing but the exists() check protects a subscription.
CommitUnconstrained(w) ==
    LET r == req[w] IN
    /\ r.phase = "checked"
    /\ Overtake(w)
    /\ sub' = [sub EXCEPT ![r.tenant] = Merged(r, @)]
    /\ journal' = [journal EXCEPT ![r.tenant] = Written(r).status]
    /\ UNCHANGED <<plan, pool>>
    /\ IF r.op \in {"suspend", "cancel"} THEN UNCHANGED alerted ELSE CheckAlerts

\* The write, its event (from the status the request knows) and the alerts.
\* The one-to-one constraint refuses a second subscription of a client.
Commit(w) ==
    LET r == req[w] IN
    /\ r.phase = "checked"
    /\ Overtake(w)
    /\ IF r.op = "start" /\ Subscribed(r.tenant)
       THEN UNCHANGED vars
       ELSE /\ sub' = [sub EXCEPT ![r.tenant] = Merged(r, @)]
            /\ journal' = [journal EXCEPT ![r.tenant] = Written(r).status]
            /\ UNCHANGED <<plan, pool>>
            /\ IF r.op \in {"suspend", "cancel"} THEN UNCHANGED alerted ELSE CheckAlerts

CNext ==
    \/ \E w \in Workers : Load(w)
    \/ \E w \in Workers : Check(w)
    \/ \E w \in Workers : Commit(w)

CSpec == CInit /\ [][CNext]_cvars

-----------------------------------------------------------------------------
(* Properties.                                                             *)

\* A race costs nothing to those who are not in it: a request that no other
\* request overtook between its load and its write has exactly the effect of
\* the atomic operation of Billing (guard, columns, journal and alerts).
AloneIsAtomic ==
    [][\A w \in Workers :
          req[w] # Idle /\ req'[w] = Idle /\ ~req[w].overtaken => Next \/ UNCHANGED vars]_cvars
=============================================================================
