------------------------------ MODULE Billing ------------------------------
(***************************************************************************)
(* The subscription life cycle of apps.billing and the platform capacity   *)
(* guard it rests on.                                                      *)
(*                                                                         *)
(* One licence gives the whole platform a pool of monitoring slots.  Every *)
(* operational subscription (trial or active) commits the slots of its     *)
(* quota: the negotiated override when there is one, else the quota of its *)
(* plan.  An operation that sells slots asks ensure_monitored_slots_       *)
(* available first and refuses when the pool would be exceeded.            *)
(*                                                                         *)
(* Each service function is one transaction and one action here: this      *)
(* module is the behaviour of one operator at a time.  BillingConcurrent   *)
(* splits the same operations at their database reads.                     *)
(*                                                                         *)
(* Abstractions.  Of the quota fields only monitored_assets is kept: it is *)
(* the one the pool is counted in, and update_plan treats the three alike. *)
(* A date is reduced to what the code asks of it: the flag "due" is the    *)
(* filter of expire_due_trials, a trial whose trial_ends_at <= now; nothing *)
(* reads trial_ends_at in another status.  The journal keeps the last      *)
(* to_status of each subscription.  Prices, periods, notes and payments    *)
(* are left out.                                                           *)
(***************************************************************************)
EXTENDS Integers, FiniteSets

CONSTANTS
    Tenants,        \* client companies
    Plans,          \* plan codes
    TrialPlan,      \* the code of the trial plan (BILLING_DEFAULT_TRIAL_PLAN_CODE)
    MaxQuota,       \* bound: largest monitored_assets value
    MaxPool,        \* bound: largest MONITORED_SLOT_POOL setting
    PlanStatuses,   \* the plan statuses in play
    Thresholds,     \* alert thresholds, in percent of the pool
    HasRecipient,   \* is PLATFORM_ALERT_EMAIL configured?
    MailMayFail     \* may the mail server refuse an alert?

ASSUME TenantsAssumption == IsFiniteSet(Tenants)
ASSUME QuotaAssumption == MaxQuota \in Nat /\ MaxPool \in Nat
ASSUME PlanAssumption ==
    /\ TrialPlan \in Plans
    /\ PlanStatuses \subseteq {"draft", "published", "retired", "internal"}
    /\ "draft" \in PlanStatuses
ASSUME ThresholdAssumption ==
    /\ Thresholds \subseteq 1..100
    /\ HasRecipient \in BOOLEAN
    /\ MailMayFail \in BOOLEAN

VARIABLES
    plan,      \* the catalogue: plan[p].status = "absent" when p has no row
    sub,       \* sub[t], the subscription row of t; status "none" when t has no row
    journal,   \* journal[t], to_status of the last SubscriptionEvent of t
    pool,      \* the MONITORED_SLOT_POOL setting
    alerted    \* the cache keys of the thresholds mailed this month

vars == <<plan, sub, journal, pool, alerted>>

Quotas == 0..MaxQuota
NoOverride == -1
Operational == {"trial", "active"}
Statuses == {"trial", "active", "suspended", "cancelled", "expired"}

PlanRows == [status : PlanStatuses \cup {"absent"}, quota : Quotas]
SubRows == [plan : Plans, status : Statuses \cup {"none"},
            override : Quotas \cup {NoOverride}, due : BOOLEAN]

NoSub == [plan |-> TrialPlan, status |-> "none", override |-> NoOverride, due |-> FALSE]
NoPlan == [status |-> "absent", quota |-> 0]

Exists(p) == plan[p].status # "absent"
Subscribed(t) == sub[t].status # "none"
IsOperational(row) == row.status \in Operational

-----------------------------------------------------------------------------
(* Quotas and the slots they commit.                                       *)

\* monitored_assets_quota of a subscription row under a catalogue.
QuotaUnder(row, catalogue) ==
    IF row.override # NoOverride THEN row.override ELSE catalogue[row.plan].quota

Quota(t) == QuotaUnder(sub[t], plan)

\* The slots a table of subscriptions commits, one element per slot: the sum
\* of the operational quotas is the size of this set.
SlotsUnder(table, catalogue) ==
    {x \in Tenants \X (1..MaxQuota) :
        IsOperational(table[x[1]]) /\ x[2] <= QuotaUnder(table[x[1]], catalogue)}

Committed == Cardinality(SlotsUnder(sub, plan))

\* Mutant: trials are left out of the engagement.
ProjectedWithoutTrials(additional, excluded) ==
    Cardinality({x \in SlotsUnder(sub, plan) :
                    x[1] \notin excluded /\ sub[x[1]].status = "active"}) + additional

\* projected_monitored_slots: the slots of the others plus the ones asked for.
Projected(additional, excluded) ==
    Cardinality({x \in SlotsUnder(sub, plan) : x[1] \notin excluded}) + additional

\* ensure_monitored_slots_available: nothing asked for is never refused.
EnsureSlots(additional, excluded) ==
    additional > 0 => Projected(additional, excluded) <= pool

\* check_alert_thresholds on the state after the write: a threshold reached is mailed unless
\* its key was this month; a mail that fails is not remembered, nor blocks.
Reached(th) == pool > 0 /\ 100 * Committed >= th * pool

\* _ALERT_CACHE_KEY holds int(threshold * 100), where the threshold is a percentage divided
\* by 100: of 1..100 the product of doubles falls just below these three, so that 28 and 29,
\* and 56 and 57, have one memory.
AlertKey(th) == IF th \in {29, 57, 58} THEN th - 1 ELSE th

\* Mutant: the thresholds are compared with the commitment before the write.
CheckAlertsTooEarly ==
    alerted' = alerted \cup
        (IF HasRecipient THEN {AlertKey(th) : th \in {x \in Thresholds : Reached(x)}} ELSE {})

CheckAlerts ==
    \E lost \in IF MailMayFail THEN SUBSET Thresholds ELSE {{}} :
        alerted' = alerted \cup
            (IF HasRecipient
             THEN {AlertKey(th) : th \in {x \in Thresholds \ lost : Reached(x)'}} ELSE {})

-----------------------------------------------------------------------------
(* The life cycle of a subscription.                                       *)

\* Write the row of t and, with it, the event that records the transition.
Save(t, row) ==
    /\ sub' = [sub EXCEPT ![t] = row]
    /\ journal' = [journal EXCEPT ![t] = row.status]

\* start_trial: the plan is the caller's choice or the default trial plan.
StartTrial(t, p) ==
    /\ ~Subscribed(t)
    /\ Exists(p)
    /\ EnsureSlots(plan[p].quota, {})
    /\ Save(t, [plan |-> p, status |-> "trial", override |-> NoOverride, due |-> FALSE])
    /\ UNCHANGED <<plan, pool>>
    /\ CheckAlerts

\* activate: a trial is already counted, everything else is re-committed.
Activate(t) ==
    /\ Subscribed(t)
    /\ sub[t].status # "active"
    /\ ~IsOperational(sub[t]) => EnsureSlots(Quota(t), {t})
    /\ Save(t, [sub[t] EXCEPT !.status = "active", !.due = FALSE])
    /\ UNCHANGED <<plan, pool>>
    /\ CheckAlerts

Suspend(t) ==
    /\ Subscribed(t)
    /\ Save(t, [sub[t] EXCEPT !.status = "suspended", !.due = FALSE])
    /\ UNCHANGED <<plan, pool, alerted>>

Cancel(t) ==
    /\ Subscribed(t)
    /\ Save(t, [sub[t] EXCEPT !.status = "cancelled", !.due = FALSE])
    /\ UNCHANGED <<plan, pool, alerted>>

\* change_plan: the guard runs only on a raise; the overrides are dropped.
ChangePlan(t, p) ==
    /\ Subscribed(t)
    /\ Exists(p)
    /\ p # sub[t].plan
    /\ IsOperational(sub[t]) /\ plan[p].quota > Quota(t) => EnsureSlots(plan[p].quota, {t})
    /\ Save(t, [sub[t] EXCEPT !.plan = p, !.override = NoOverride])
    /\ UNCHANGED <<plan, pool>>
    /\ CheckAlerts

\* set_trial_end: an end in the past makes the trial due at once.
SetTrialEnd(t, due) ==
    /\ sub[t].status = "trial"
    /\ Save(t, [sub[t] EXCEPT !.due = due])
    /\ UNCHANGED <<plan, pool, alerted>>

\* set_quota_overrides for override_monitored_assets; NoOverride returns to
\* the quota of the plan.
SetQuotaOverrides(t, q) ==
    LET effective == IF q = NoOverride THEN plan[sub[t].plan].quota ELSE q IN
    /\ Subscribed(t)
    /\ q # sub[t].override
    /\ IsOperational(sub[t]) /\ effective > Quota(t) => EnsureSlots(effective, {t})
    /\ Save(t, [sub[t] EXCEPT !.override = q])
    /\ UNCHANGED <<plan, pool>>
    /\ CheckAlerts

Due(t) == sub[t].status = "trial" /\ sub[t].due

\* Mutant: the expiry is not recorded.
ExpireSilently ==
    /\ \E t \in Tenants : Due(t)
    /\ sub' = [t \in Tenants |->
                  IF Due(t) THEN [sub[t] EXCEPT !.status = "expired", !.due = FALSE] ELSE sub[t]]
    /\ UNCHANGED <<plan, journal, pool, alerted>>

\* expire_due_trials: one pass over every trial that is due.
ExpireDueTrials ==
    /\ \E t \in Tenants : Due(t)
    /\ sub' = [t \in Tenants |->
                  IF Due(t) THEN [sub[t] EXCEPT !.status = "expired", !.due = FALSE] ELSE sub[t]]
    /\ journal' = [t \in Tenants |-> IF Due(t) THEN "expired" ELSE journal[t]]
    /\ UNCHANGED <<plan, pool, alerted>>

\* basculer_essais: the deployment step that moves trials to the trial plan.
\* It spares internal plans and refuses a plan pair that would commit more;
\* overrides are kept and the capacity guard is not asked.
Moves(t) ==
    /\ sub[t].status = "trial"
    /\ sub[t].plan # TrialPlan
    /\ plan[sub[t].plan].status # "internal"
    /\ plan[TrialPlan].quota <= plan[sub[t].plan].quota

BasculerEssais ==
    /\ Exists(TrialPlan)
    /\ \E t \in Tenants : Moves(t)
    /\ sub' = [t \in Tenants |->
                  IF Moves(t) THEN [sub[t] EXCEPT !.plan = TrialPlan] ELSE sub[t]]
    /\ journal' = [t \in Tenants |-> IF Moves(t) THEN sub[t].status ELSE journal[t]]
    /\ UNCHANGED <<plan, pool, alerted>>

-----------------------------------------------------------------------------
(* The catalogue and the platform settings.                                *)

\* Mutant: 0 is compared as a number.
LoweredAsNumber(old, new) == new < old

\* plan_impact: 0 means unlimited, so leaving 0 is a lowering.
Lowered(old, new) == new < old \/ (old = 0 /\ new # 0)

\* Mutant: what is frozen is the difference, not the quota.
UpdatePlanFreezingDelta(p, q, status) ==
    /\ Exists(p)
    /\ sub' = [t \in Tenants |->
                  IF /\ Subscribed(t)
                     /\ sub[t].plan = p
                     /\ sub[t].override = NoOverride
                     /\ Lowered(plan[p].quota, q)
                  THEN [sub[t] EXCEPT !.override = plan[p].quota - q]
                  ELSE sub[t]]
    /\ plan' = [plan EXCEPT ![p] = [status |-> status, quota |-> q]]
    /\ UNCHANGED <<journal, pool, alerted>>

\* update_plan: a lowering freezes the current quota of every subscriber that
\* has no override; then the plan row is written.  No capacity check, no alert.
UpdatePlan(p, q, status) ==
    /\ Exists(p)
    /\ sub' = [t \in Tenants |->
                  IF /\ Subscribed(t)
                     /\ sub[t].plan = p
                     /\ sub[t].override = NoOverride
                     /\ Lowered(plan[p].quota, q)
                  THEN [sub[t] EXCEPT !.override = plan[p].quota]
                  ELSE sub[t]]
    /\ plan' = [plan EXCEPT ![p] = [status |-> status, quota |-> q]]
    /\ UNCHANGED <<journal, pool, alerted>>

\* The serializer of AdminPlanListView saves a new row with the fields given.
CreatePlan(p, q, status) ==
    /\ ~Exists(p)
    /\ plan' = [plan EXCEPT ![p] = [status |-> status, quota |-> q]]
    /\ UNCHANGED <<sub, journal, pool, alerted>>

\* duplicate_plan: a copy is always a draft.
DuplicatePlan(p, code) ==
    /\ Exists(p)
    /\ ~Exists(code)
    /\ plan' = [plan EXCEPT ![code] = [status |-> "draft", quota |-> plan[p].quota]]
    /\ UNCHANGED <<sub, journal, pool, alerted>>

\* Mutant: only operational subscriptions protect their plan.
DeletePlanOfEnded(p) ==
    /\ Exists(p)
    /\ \A t \in Tenants : IsOperational(sub[t]) => sub[t].plan # p
    /\ plan' = [plan EXCEPT ![p] = NoPlan]
    /\ UNCHANGED <<sub, journal, pool, alerted>>

\* delete_plan: only a plan nobody is on, whatever the status of the
\* subscriptions.
DeletePlan(p) ==
    /\ Exists(p)
    /\ \A t \in Tenants : Subscribed(t) => sub[t].plan # p
    /\ plan' = [plan EXCEPT ![p] = NoPlan]
    /\ UNCHANGED <<sub, journal, pool, alerted>>

\* update_setting / reset_setting on MONITORED_SLOT_POOL.
SetPool(n) ==
    /\ n # pool
    /\ pool' = n
    /\ UNCHANGED <<plan, sub, journal, alerted>>

\* Time reaches the end of the trial of t.
TrialEndPasses(t) ==
    /\ sub[t].status = "trial"
    /\ ~sub[t].due
    /\ sub' = [sub EXCEPT ![t].due = TRUE]
    /\ UNCHANGED <<plan, journal, pool, alerted>>

\* A new month: the alert keys carry the month, none of the new ones is set.
NextMonth ==
    /\ alerted # {}
    /\ alerted' = {}
    /\ UNCHANGED <<plan, sub, journal, pool>>

-----------------------------------------------------------------------------
\* A fresh installation: a catalogue with its trial plan, no client.
Init ==
    /\ plan \in [Plans -> PlanRows]
    /\ \A p \in Plans : ~Exists(p) => plan[p] = NoPlan
    /\ Exists(TrialPlan)
    /\ sub = [t \in Tenants |-> NoSub]
    /\ journal = [t \in Tenants |-> "none"]
    /\ pool \in 0..MaxPool
    /\ alerted = {}

SubscriptionStep ==
    \/ \E t \in Tenants, p \in Plans : StartTrial(t, p)
    \/ \E t \in Tenants : Activate(t)
    \/ \E t \in Tenants : Suspend(t)
    \/ \E t \in Tenants : Cancel(t)
    \/ \E t \in Tenants, p \in Plans : ChangePlan(t, p)
    \/ \E t \in Tenants, due \in BOOLEAN : SetTrialEnd(t, due)
    \/ \E t \in Tenants, q \in Quotas \cup {NoOverride} : SetQuotaOverrides(t, q)
    \/ ExpireDueTrials
    \/ BasculerEssais

CatalogueStep ==
    \/ \E p \in Plans, q \in Quotas, s \in PlanStatuses : UpdatePlan(p, q, s)
    \/ \E p \in Plans, q \in Quotas, s \in PlanStatuses : CreatePlan(p, q, s)
    \/ \E p, code \in Plans : DuplicatePlan(p, code)
    \/ \E p \in Plans : DeletePlan(p)

EnvironmentStep ==
    \/ \E n \in 0..MaxPool : SetPool(n)
    \/ \E t \in Tenants : TrialEndPasses(t)
    \/ NextMonth

Next == SubscriptionStep \/ CatalogueStep \/ EnvironmentStep

Spec == Init /\ [][Next]_vars

-----------------------------------------------------------------------------
(* Properties.                                                             *)

TypeOK ==
    /\ plan \in [Plans -> PlanRows]
    /\ sub \in [Tenants -> SubRows]
    /\ journal \in [Tenants -> Statuses \cup {"none"}]
    /\ pool \in 0..MaxPool
    /\ alerted \in SUBSET {AlertKey(th) : th \in Thresholds}

\* The capacity guard (capacity.py): no step that leaves the catalogue alone
\* raises the commitment of the platform above its pool, whatever sequence of
\* sales, overrides, suspensions and pool changes led there.
SaleGuarded == [][Committed' > Committed /\ plan' = plan => Committed' <= pool']_vars

\* 0 is unlimited for the client.
Covers(new, old) == new = 0 \/ (old # 0 /\ new >= old)

\* ADR-021 (update_plan): an edit of the catalogue takes nothing from a client
\* who already subscribed.
NothingTakenBack ==
    [][plan' # plan => \A t \in Tenants : Subscribed(t) => Covers(Quota(t)', Quota(t))]_vars

\* can_delete_plan: every subscription, cancelled ones included, refers to a
\* plan of the catalogue.
PlansReferenced == \A t \in Tenants : Subscribed(t) => Exists(sub[t].plan)

\* SubscriptionEvent: the journal explains the status of every subscription.
JournalExplains == \A t \in Tenants : journal[t] = sub[t].status

\* check_alert_thresholds: a sale that takes the commitment to a threshold leaves the
\* operator warned this month, about that threshold or about one of the same key (when the
\* mail server accepts the mail).
SaleAnnounced ==
    [][Committed' > Committed /\ plan' = plan =>
          \A th \in Thresholds : Reached(th)' => AlertKey(th) \in alerted']_vars

LifeCycle == INSTANCE SubscriptionLifeCycle WITH status <- [t \in Tenants |-> sub[t].status]

\* Refinement: each client's status follows the life cycle, whatever requests
\* race in BillingConcurrent.  start_trial's exists() check may be stale when the row is inserted;
\* the one-to-one constraint is what keeps a client from a second trial.
FollowsLifeCycle == LifeCycle!Spec

=============================================================================
