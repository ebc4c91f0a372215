--------------------------- MODULE BillingProofs ---------------------------
(* Theorems about Billing and BillingConcurrent, for every number of       *)
(* clients, plans, slots and concurrent requests.                          *)
EXTENDS BillingConcurrent, FiniteSetTheorems, TLAPS

-----------------------------------------------------------------------------
(* Counting slots.                                                         *)

\* Slots committed by one subscription row.
Weight(row, catalogue) == IF IsOperational(row) THEN QuotaUnder(row, catalogue) ELSE 0

\* The slots of every client but t.
OtherSlots(table, catalogue, t) == {x \in SlotsUnder(table, catalogue) : x[1] \notin {t}}

\* The slots counted by projected_monitored_slots are always finitely many.
LEMMA SlotsFinite ==
    ASSUME NEW table, NEW catalogue
    PROVE  /\ IsFiniteSet(SlotsUnder(table, catalogue))
           /\ Cardinality(SlotsUnder(table, catalogue)) \in Nat
<1>1. IsFiniteSet(1..MaxQuota)
  BY FS_Interval, QuotaAssumption
<1>2. IsFiniteSet(Tenants \X (1..MaxQuota))
  BY <1>1, FS_Product, TenantsAssumption
<1>3. SlotsUnder(table, catalogue) \in SUBSET (Tenants \X (1..MaxQuota))
  BY DEF SlotsUnder
<1> QED BY <1>2, <1>3, FS_Subset, FS_CardinalityType

\* The quota of a subscription row is a quota.
LEMMA QuotaType ==
    ASSUME NEW row \in SubRows, NEW catalogue \in [Plans -> PlanRows]
    PROVE  QuotaUnder(row, catalogue) \in Quotas
BY QuotaAssumption DEF QuotaUnder, SubRows, PlanRows, Quotas, NoOverride

\* The slots of one client number its quota.
LEMMA PairsWith ==
    ASSUME NEW t, NEW q \in Nat
    PROVE  IsFiniteSet({t} \X (1..q)) /\ Cardinality({t} \X (1..q)) = q
<1>1. IsFiniteSet(1..q) /\ Cardinality(1..q) = q
  BY FS_Interval
<1>2. IsFiniteSet({t}) /\ Cardinality({t}) = 1
  BY FS_Singleton
<1>3. /\ IsFiniteSet({t} \X (1..q))
      /\ Cardinality({t} \X (1..q)) = Cardinality({t}) * Cardinality(1..q)
  BY <1>1, <1>2, FS_Product
<1> QED BY <1>1, <1>2, <1>3

\* The commitment is what the others commit plus the weight of t's row: what
\* projected_monitored_slots computes when it excludes t and adds its quota.
LEMMA CommitmentSplits ==
    ASSUME NEW table \in [Tenants -> SubRows], NEW catalogue \in [Plans -> PlanRows],
           NEW t \in Tenants
    PROVE  /\ Cardinality(OtherSlots(table, catalogue, t)) \in Nat
           /\ Weight(table[t], catalogue) \in Quotas
           /\ Cardinality(SlotsUnder(table, catalogue))
                = Cardinality(OtherSlots(table, catalogue, t)) + Weight(table[t], catalogue)
<1> DEFINE S == SlotsUnder(table, catalogue)
           O == OtherSlots(table, catalogue, t)
           w == Weight(table[t], catalogue)
           Own == {t} \X (1..w)
<1>1. w \in Quotas /\ w \in Nat /\ w <= MaxQuota
  BY QuotaType, QuotaAssumption DEF Weight, Quotas
<1>2. IsFiniteSet(S) /\ Cardinality(S) \in Nat
  BY SlotsFinite
<1>3. O \in SUBSET S
  BY DEF OtherSlots
<1>4. IsFiniteSet(O) /\ Cardinality(O) \in Nat
  BY <1>2, <1>3, FS_Subset, FS_CardinalityType
<1>5. IsFiniteSet(Own) /\ Cardinality(Own) = w
  BY <1>1, PairsWith
<1>6. S = O \cup Own
  <2>1. ASSUME NEW x \in S PROVE x \in O \cup Own
    <3>1. x \in Tenants \X (1..MaxQuota) /\ IsOperational(table[x[1]])
          /\ x[2] <= QuotaUnder(table[x[1]], catalogue)
      BY DEF SlotsUnder
    <3>2. CASE x[1] = t
      <4>1. x[2] \in 1..w
        BY <1>1, <3>1, <3>2, QuotaAssumption DEF Weight
      <4> QED BY <3>1, <3>2, <4>1
    <3>3. CASE x[1] # t
      BY <3>3 DEF OtherSlots
    <3> QED BY <3>2, <3>3
  <2>2. ASSUME NEW x \in Own PROVE x \in S
    <3>1. x[1] = t /\ x[2] \in 1..w /\ x = <<x[1], x[2]>>
      OBVIOUS
    <3>2. w > 0 /\ x[2] \in 1..MaxQuota
      BY <1>1, <3>1, QuotaAssumption
    <3>3. IsOperational(table[t]) /\ w = QuotaUnder(table[t], catalogue)
      BY <3>2 DEF Weight
    <3> QED BY <3>1, <3>2, <3>3 DEF SlotsUnder
  <2> QED BY <2>1, <2>2, <1>3
<1>7. O \cap Own = {}
  BY DEF OtherSlots
<1>8. Cardinality(O \cap Own) = 0
  BY <1>7, FS_EmptySet
<1>9. Cardinality(S) = Cardinality(O) + Cardinality(Own) - Cardinality(O \cap Own)
  BY <1>4, <1>5, <1>6, FS_Union
<1> QED BY <1>1, <1>4, <1>5, <1>8, <1>9

\* Writing the row of t leaves the slots of the others alone.
LEMMA OthersKept ==
    ASSUME NEW table \in [Tenants -> SubRows], NEW catalogue, NEW t \in Tenants, NEW row
    PROVE  OtherSlots([table EXCEPT ![t] = row], catalogue, t) = OtherSlots(table, catalogue, t)
BY DEF OtherSlots, SlotsUnder

-----------------------------------------------------------------------------
(* Type correctness.                                                       *)

\* Every reachable state of the billing model is well typed.
THEOREM TypeCorrect == Spec => []TypeOK
<1>1. Init => TypeOK
  BY PlanAssumption, QuotaAssumption
  DEF Init, TypeOK, SubRows, NoSub, NoOverride, Statuses, Quotas
<1>2. TypeOK /\ [Next]_vars => TypeOK'
  <2> SUFFICES ASSUME TypeOK, [Next]_vars PROVE TypeOK'
    OBVIOUS
  <2> USE DEF TypeOK
  <2>0. ASSUME NEW t \in Tenants, NEW row \in SubRows, Save(t, row)
        PROVE  /\ sub' \in [Tenants -> SubRows]
               /\ journal' \in [Tenants -> Statuses \cup {"none"}]
    BY <2>0 DEF Save, SubRows
  <2>a. CheckAlerts => alerted' \in SUBSET {AlertKey(th) : th \in Thresholds}
    BY DEF CheckAlerts
  <2>1. ASSUME NEW t \in Tenants, NEW p \in Plans, StartTrial(t, p) PROVE TypeOK'
    BY <2>0, <2>1, <2>a DEF StartTrial, SubRows, Statuses
  <2>2. ASSUME NEW t \in Tenants, Activate(t) PROVE TypeOK'
    BY <2>0, <2>2, <2>a DEF Activate, SubRows, Statuses
  <2>3. ASSUME NEW t \in Tenants, Suspend(t) PROVE TypeOK'
    BY <2>0, <2>3 DEF Suspend, SubRows, Statuses
  <2>4. ASSUME NEW t \in Tenants, Cancel(t) PROVE TypeOK'
    BY <2>0, <2>4 DEF Cancel, SubRows, Statuses
  <2>5. ASSUME NEW t \in Tenants, NEW p \in Plans, ChangePlan(t, p) PROVE TypeOK'
    BY <2>0, <2>5, <2>a DEF ChangePlan, SubRows, Statuses
  <2>6. ASSUME NEW t \in Tenants, NEW due \in BOOLEAN, SetTrialEnd(t, due) PROVE TypeOK'
    BY <2>0, <2>6 DEF SetTrialEnd, SubRows, Statuses
  <2>7. ASSUME NEW t \in Tenants, NEW q \in Quotas \cup {NoOverride}, SetQuotaOverrides(t, q)
        PROVE TypeOK'
    BY <2>0, <2>7, <2>a DEF SetQuotaOverrides, SubRows, Statuses
  <2>8. CASE ExpireDueTrials
    BY <2>8 DEF ExpireDueTrials, SubRows, Statuses
  <2>9. CASE BasculerEssais
    BY <2>9, PlanAssumption DEF BasculerEssais, SubRows
  <2>10. ASSUME NEW p \in Plans, NEW q \in Quotas, NEW s \in PlanStatuses, UpdatePlan(p, q, s)
         PROVE TypeOK'
    BY <2>10 DEF UpdatePlan, SubRows, PlanRows
  <2>11. ASSUME NEW p \in Plans, NEW q \in Quotas, NEW s \in PlanStatuses, CreatePlan(p, q, s)
         PROVE TypeOK'
    BY <2>11 DEF CreatePlan, PlanRows
  <2>12. ASSUME NEW p \in Plans, NEW code \in Plans, DuplicatePlan(p, code) PROVE TypeOK'
    BY <2>12, PlanAssumption DEF DuplicatePlan, PlanRows
  <2>13. ASSUME NEW p \in Plans, DeletePlan(p) PROVE TypeOK'
    BY <2>13, QuotaAssumption DEF DeletePlan, PlanRows, NoPlan, Quotas
  <2>14. ASSUME NEW n \in 0..MaxPool, SetPool(n) PROVE TypeOK'
    BY <2>14 DEF SetPool
  <2>15. ASSUME NEW t \in Tenants, TrialEndPasses(t) PROVE TypeOK'
    BY <2>15 DEF TrialEndPasses, SubRows
  <2>16. CASE NextMonth
    BY <2>16 DEF NextMonth
  <2>17. CASE UNCHANGED vars
    BY <2>17 DEF vars
  <2> QED
    BY <2>1, <2>2, <2>3, <2>4, <2>5, <2>6, <2>7, <2>8, <2>9, <2>10, <2>11, <2>12, <2>13,
       <2>14, <2>15, <2>16, <2>17
    DEF Next, SubscriptionStep, CatalogueStep, EnvironmentStep
<1> QED BY <1>1, <1>2, PTL DEF Spec

-----------------------------------------------------------------------------
(* The capacity guard.                                                     *)

\* One row is written and the guard was asked for the quota it will have,
\* unless the row commits no more than before: the pool is not exceeded.
LEMMA GuardedWrite ==
    ASSUME TypeOK, NEW t \in Tenants, NEW row \in SubRows,
           sub' = [sub EXCEPT ![t] = row], plan' = plan, pool' = pool,
           \/ Weight(row, plan) <= Weight(sub[t], plan)
           \/ EnsureSlots(Weight(row, plan), {t})
    PROVE  Committed' > Committed => Committed' <= pool'
<1> DEFINE O == Cardinality(OtherSlots(sub, plan, t))
<1>1. /\ O \in Nat
      /\ Weight(sub[t], plan) \in Quotas
      /\ Committed = O + Weight(sub[t], plan)
  BY CommitmentSplits DEF TypeOK, Committed
<1>2. sub' \in [Tenants -> SubRows] /\ sub'[t] = row
  BY DEF TypeOK
<1>3. OtherSlots(sub', plan', t) = OtherSlots(sub, plan, t)
  BY OthersKept DEF TypeOK
<1>4. /\ Weight(row, plan) \in Quotas
      /\ Committed' = O + Weight(row, plan)
  BY <1>2, <1>3, CommitmentSplits DEF TypeOK, Committed
<1>5. Projected(Weight(row, plan), {t}) = O + Weight(row, plan)
  BY DEF Projected, OtherSlots
<1> QED BY <1>1, <1>4, <1>5, QuotaAssumption DEF EnsureSlots, Quotas, TypeOK

\* A step after which every row is as it was, or not operational, or commits no
\* more than it did, sells nothing.
LEMMA NothingSold ==
    ASSUME TypeOK, plan' = plan, sub' \in [Tenants -> SubRows],
           \A t \in Tenants :
              IsOperational(sub'[t]) =>
                  /\ IsOperational(sub[t])
                  /\ QuotaUnder(sub'[t], plan) <= QuotaUnder(sub[t], plan)
    PROVE  ~(Committed' > Committed)
<1>1. ASSUME NEW x \in SlotsUnder(sub', plan') PROVE x \in SlotsUnder(sub, plan)
  <2>1. /\ x \in Tenants \X (1..MaxQuota) /\ x[1] \in Tenants /\ x[2] \in Int
        /\ IsOperational(sub'[x[1]]) /\ x[2] <= QuotaUnder(sub'[x[1]], plan)
    BY QuotaAssumption DEF SlotsUnder
  <2>2. sub[x[1]] \in SubRows /\ sub'[x[1]] \in SubRows
    BY <2>1 DEF TypeOK
  <2>3. /\ QuotaUnder(sub'[x[1]], plan) \in Int
        /\ QuotaUnder(sub[x[1]], plan) \in Int
    BY <2>2, QuotaType, QuotaAssumption DEF TypeOK, Quotas
  <2>4. IsOperational(sub[x[1]]) /\ x[2] <= QuotaUnder(sub[x[1]], plan)
    BY <2>1, <2>3
  <2> QED BY <2>1, <2>4 DEF SlotsUnder
<1>2. Cardinality(SlotsUnder(sub', plan')) <= Cardinality(SlotsUnder(sub, plan))
  BY <1>1, SlotsFinite, FS_Subset
<1> QED BY <1>2, SlotsFinite DEF Committed

\* The operations that sell slots: they ask the guard and look at the thresholds.
Sale ==
    \/ \E t \in Tenants, p \in Plans : StartTrial(t, p)
    \/ \E t \in Tenants : Activate(t)
    \/ \E t \in Tenants, p \in Plans : ChangePlan(t, p)
    \/ \E t \in Tenants, q \in Quotas \cup {NoOverride} : SetQuotaOverrides(t, q)

\* As long as the catalogue stands, nothing but a sale raises the commitment:
\* not an end of subscription, not the trial dates, not basculer_essais.
LEMMA OnlySalesRaise ==
    ASSUME TypeOK, Next, plan' = plan, Committed' > Committed
    PROVE  Sale
<1>0. \A t \in Tenants : sub[t] \in SubRows /\ Quota(t) \in Int
  BY QuotaType, QuotaAssumption DEF Quota, TypeOK, Quotas
<1>1. ASSUME NEW t \in Tenants, Suspend(t) \/ Cancel(t)
      PROVE  FALSE
  <2>1. PICK row \in SubRows : sub' = [sub EXCEPT ![t] = row] /\ ~IsOperational(row)
    <3>1. CASE Suspend(t)
      <4> DEFINE new == [sub[t] EXCEPT !.status = "suspended", !.due = FALSE]
      <4>1. new \in SubRows /\ ~IsOperational(new)
        BY <1>0 DEF SubRows, Statuses, IsOperational, Operational
      <4>2. sub' = [sub EXCEPT ![t] = new]
        BY <3>1 DEF Suspend, Save
      <4> QED BY <4>1, <4>2
    <3>2. CASE Cancel(t)
      <4> DEFINE new == [sub[t] EXCEPT !.status = "cancelled", !.due = FALSE]
      <4>1. new \in SubRows /\ ~IsOperational(new)
        BY <1>0 DEF SubRows, Statuses, IsOperational, Operational
      <4>2. sub' = [sub EXCEPT ![t] = new]
        BY <3>2 DEF Cancel, Save
      <4> QED BY <4>1, <4>2
    <3> QED BY <1>1, <3>1, <3>2
  <2>2. \A u \in Tenants : IsOperational(sub'[u]) => sub'[u] = sub[u]
    BY <2>1 DEF TypeOK
  <2>3. \A u \in Tenants : QuotaUnder(sub[u], plan) <= QuotaUnder(sub[u], plan)
    BY <1>0 DEF Quota
  <2>4. sub' \in [Tenants -> SubRows]
    BY <2>1 DEF TypeOK
  <2> QED BY <2>2, <2>3, <2>4, NothingSold
<1>2. ASSUME NEW t \in Tenants, NEW due \in BOOLEAN, SetTrialEnd(t, due) \/ TrialEndPasses(t)
      PROVE  FALSE
  <2>1. PICK row \in SubRows : /\ sub' = [sub EXCEPT ![t] = row]
                               /\ row.status = sub[t].status
                               /\ row.plan = sub[t].plan
                               /\ row.override = sub[t].override
    <3>1. CASE SetTrialEnd(t, due)
      <4> DEFINE new == [sub[t] EXCEPT !.due = due]
      <4>1. /\ new \in SubRows /\ new.status = sub[t].status
            /\ new.plan = sub[t].plan /\ new.override = sub[t].override
        BY <1>0 DEF SubRows
      <4>2. sub' = [sub EXCEPT ![t] = new]
        BY <3>1 DEF SetTrialEnd, Save
      <4> QED BY <4>1, <4>2
    <3>2. CASE TrialEndPasses(t)
      <4> DEFINE new == [sub[t] EXCEPT !.due = TRUE]
      <4>1. /\ new \in SubRows /\ new.status = sub[t].status
            /\ new.plan = sub[t].plan /\ new.override = sub[t].override
        BY <1>0 DEF SubRows
      <4>2. sub' = [sub EXCEPT ![t] = new]
        BY <3>2 DEF TrialEndPasses
      <4> QED BY <4>1, <4>2
    <3> QED BY <1>2, <3>1, <3>2
  <2>2. \A u \in Tenants : /\ sub'[u].status = sub[u].status
                             /\ QuotaUnder(sub'[u], plan) = QuotaUnder(sub[u], plan)
    BY <2>1 DEF TypeOK, QuotaUnder
  <2>3. sub' \in [Tenants -> SubRows]
    BY <2>1 DEF TypeOK
  <2> QED BY <1>0, <2>2, <2>3, NothingSold DEF IsOperational, Quota
<1>3. ASSUME ExpireDueTrials PROVE FALSE
  <2>1. \A t \in Tenants : IsOperational(sub'[t]) => sub'[t] = sub[t]
    BY <1>0, <1>3 DEF ExpireDueTrials, SubRows, IsOperational, Operational
  <2>2. \A t \in Tenants : QuotaUnder(sub[t], plan) <= QuotaUnder(sub[t], plan)
    BY <1>0 DEF Quota
  <2>3. sub' \in [Tenants -> SubRows]
    BY <1>3 DEF ExpireDueTrials, TypeOK, SubRows, Statuses
  <2> QED BY <2>1, <2>2, <2>3, NothingSold
<1>4. ASSUME BasculerEssais PROVE FALSE
  <2>1. ASSUME NEW t \in Tenants
        PROVE  /\ sub'[t].status = sub[t].status
               /\ QuotaUnder(sub'[t], plan) <= QuotaUnder(sub[t], plan)
    <3>1. sub[t] \in SubRows /\ QuotaUnder(sub[t], plan) \in Int
      BY QuotaType, QuotaAssumption DEF TypeOK, Quotas
    <3>2. CASE Moves(t)
      <4>1. sub'[t] = [sub[t] EXCEPT !.plan = TrialPlan]
        BY <1>4, <3>2 DEF BasculerEssais
      <4>2. /\ sub'[t].status = sub[t].status /\ sub'[t].plan = TrialPlan
            /\ sub'[t].override = sub[t].override
        BY <3>1, <4>1 DEF SubRows
      <4> QED BY <3>1, <3>2, <4>2 DEF Moves, QuotaUnder
    <3>3. CASE ~Moves(t)
      BY <1>4, <3>1, <3>3 DEF BasculerEssais
    <3> QED BY <3>2, <3>3
  <2>2. sub' \in [Tenants -> SubRows]
    BY <1>4, PlanAssumption DEF BasculerEssais, TypeOK, SubRows
  <2> QED BY <2>1, <2>2, NothingSold DEF IsOperational
<1>5. ASSUME CatalogueStep PROVE FALSE
  <2>1. ASSUME NEW p \in Plans, NEW q \in Quotas, NEW s \in PlanStatuses, UpdatePlan(p, q, s)
        PROVE  sub' = sub
    <3>1. q = plan[p].quota
      BY <2>1 DEF UpdatePlan, TypeOK, PlanRows
    <3>2. ~Lowered(plan[p].quota, q)
      BY <3>1, QuotaAssumption DEF Lowered, Quotas
    <3>3. sub' = [t \in Tenants |-> sub[t]]
      BY <2>1, <3>2 DEF UpdatePlan
    <3> QED BY <3>3 DEF TypeOK
  <2>2. sub' = sub
    BY <1>5, <2>1 DEF CatalogueStep, CreatePlan, DuplicatePlan, DeletePlan
  <2> QED BY <2>2, SlotsFinite DEF Committed
<1>6. ASSUME SetPool(pool') \/ NextMonth PROVE FALSE
  BY <1>6, SlotsFinite DEF SetPool, NextMonth, Committed
<1> QED
  BY <1>1, <1>2, <1>3, <1>4, <1>5, <1>6
  DEF Next, SubscriptionStep, EnvironmentStep, SetPool, Sale

\* capacity.py's guard holds for every number of clients, every catalogue and
\* every pool: no step that leaves the catalogue alone oversells the platform.
THEOREM SalesAreGuarded == Spec => SaleGuarded
<1> DEFINE A == Committed' > Committed /\ plan' = plan => Committed' <= pool'
<1>1. TypeOK /\ [Next]_vars => [A]_vars
  <2> SUFFICES ASSUME TypeOK, Next, plan' = plan PROVE Committed' > Committed => Committed' <= pool'
    OBVIOUS
  <2>0. /\ \A t \in Tenants : sub[t] \in SubRows /\ Quota(t) \in Int
        /\ \A p \in Plans : plan[p].quota \in Int
    BY QuotaType, QuotaAssumption DEF Quota, TypeOK, Quotas, PlanRows
  <2>1. ASSUME NEW t \in Tenants, NEW p \in Plans, StartTrial(t, p)
        PROVE  Committed' > Committed => Committed' <= pool'
    <3> DEFINE row == [plan |-> p, status |-> "trial", override |-> NoOverride, due |-> FALSE]
    <3>1. row \in SubRows /\ sub' = [sub EXCEPT ![t] = row] /\ pool' = pool
      BY <2>1 DEF StartTrial, Save, SubRows, Statuses
    <3>2. Weight(row, plan) = plan[p].quota /\ EnsureSlots(plan[p].quota, {})
      BY <2>1 DEF StartTrial, Weight, IsOperational, Operational, QuotaUnder
    <3>3. {x \in SlotsUnder(sub, plan) : x[1] \notin {t}} = SlotsUnder(sub, plan)
      BY <2>1 DEF StartTrial, Subscribed, SlotsUnder, IsOperational, Operational
    <3>4. EnsureSlots(plan[p].quota, {t})
      BY <3>2, <3>3 DEF EnsureSlots, Projected
    <3> QED BY <3>1, <3>2, <3>4, GuardedWrite
  <2>2. ASSUME NEW t \in Tenants, Activate(t)
        PROVE  Committed' > Committed => Committed' <= pool'
    <3> DEFINE row == [sub[t] EXCEPT !.status = "active", !.due = FALSE]
    <3>1. /\ row \in SubRows /\ sub' = [sub EXCEPT ![t] = row] /\ pool' = pool
          /\ row.plan = sub[t].plan /\ row.override = sub[t].override /\ row.status = "active"
      BY <2>2 DEF Activate, Save, SubRows, Statuses, TypeOK
    <3>2. Weight(row, plan) = Quota(t)
      BY <3>1 DEF Weight, IsOperational, Operational, QuotaUnder, Quota
    <3>3. CASE IsOperational(sub[t])
      <4>1. Weight(sub[t], plan) = Quota(t)
        BY <3>3 DEF Weight, Quota
      <4>2. Weight(row, plan) <= Weight(sub[t], plan)
        BY <2>0, <3>2, <4>1
      <4> QED BY <3>1, <4>2, GuardedWrite
    <3>4. CASE ~IsOperational(sub[t])
      BY <2>2, <3>1, <3>2, <3>4, GuardedWrite DEF Activate
    <3> QED BY <3>3, <3>4
  <2>3. ASSUME NEW t \in Tenants, NEW p \in Plans, ChangePlan(t, p)
        PROVE  Committed' > Committed => Committed' <= pool'
    <3> DEFINE row == [sub[t] EXCEPT !.plan = p, !.override = NoOverride]
    <3>1. /\ row \in SubRows /\ sub' = [sub EXCEPT ![t] = row] /\ pool' = pool
          /\ row.plan = p /\ row.override = NoOverride /\ row.status = sub[t].status
      BY <2>3 DEF ChangePlan, Save, SubRows, TypeOK
    <3>2. CASE IsOperational(sub[t])
      <4>1. Weight(row, plan) = plan[p].quota /\ Weight(sub[t], plan) = Quota(t)
        BY <3>1, <3>2 DEF Weight, IsOperational, QuotaUnder, Quota
      <4>2. \/ Weight(row, plan) <= Weight(sub[t], plan)
            \/ EnsureSlots(Weight(row, plan), {t})
        BY <2>0, <2>3, <3>2, <4>1 DEF ChangePlan
      <4> QED BY <3>1, <4>2, GuardedWrite
    <3>3. CASE ~IsOperational(sub[t])
      <4>1. Weight(row, plan) <= Weight(sub[t], plan)
        BY <3>1, <3>3 DEF Weight, IsOperational
      <4> QED BY <3>1, <4>1, GuardedWrite
    <3> QED BY <3>2, <3>3
  <2>4. ASSUME NEW t \in Tenants, NEW q \in Quotas \cup {NoOverride}, SetQuotaOverrides(t, q)
        PROVE  Committed' > Committed => Committed' <= pool'
    <3> DEFINE row == [sub[t] EXCEPT !.override = q]
               effective == IF q = NoOverride THEN plan[sub[t].plan].quota ELSE q
    <3>1. /\ row \in SubRows /\ sub' = [sub EXCEPT ![t] = row] /\ pool' = pool
          /\ row.plan = sub[t].plan /\ row.override = q /\ row.status = sub[t].status
      BY <2>4 DEF SetQuotaOverrides, Save, SubRows, TypeOK
    <3>2. CASE IsOperational(sub[t])
      <4>1. Weight(row, plan) = effective /\ Weight(sub[t], plan) = Quota(t)
        BY <3>1, <3>2 DEF Weight, IsOperational, QuotaUnder, Quota
      <4>2. effective \in Int
        BY <2>0, QuotaAssumption DEF Quotas, SubRows
      <4>3. \/ Weight(row, plan) <= Weight(sub[t], plan)
            \/ EnsureSlots(Weight(row, plan), {t})
        BY <2>0, <2>4, <3>2, <4>1, <4>2 DEF SetQuotaOverrides
      <4> QED BY <3>1, <4>3, GuardedWrite
    <3>3. CASE ~IsOperational(sub[t])
      <4>1. Weight(row, plan) <= Weight(sub[t], plan)
        BY <3>1, <3>3 DEF Weight, IsOperational
      <4> QED BY <3>1, <4>1, GuardedWrite
    <3> QED BY <3>2, <3>3
  <2> QED BY <2>1, <2>2, <2>3, <2>4, OnlySalesRaise DEF Sale
<1>2. Spec => []TypeOK
  BY TypeCorrect
<1> QED BY <1>1, <1>2, PTL DEF Spec, SaleGuarded

\* The operator is warned of every sale that takes the platform to a threshold
\* (check_alert_thresholds runs after each write that may sell), by the mail of that threshold
\* or of one whose key int(threshold * 100) is the same, for every installation that gave an
\* address and has a mail server that answers.
THEOREM SalesAreAnnounced ==
    ASSUME HasRecipient, ~MailMayFail
    PROVE  Spec => SaleAnnounced
<1> DEFINE A == Committed' > Committed /\ plan' = plan =>
                   \A th \in Thresholds : Reached(th)' => AlertKey(th) \in alerted'
<1>1. TypeOK /\ [Next]_vars => [A]_vars
  <2> SUFFICES ASSUME TypeOK, Next, plan' = plan, Committed' > Committed,
                      NEW th \in Thresholds, Reached(th)'
               PROVE  AlertKey(th) \in alerted'
    OBVIOUS
  <2>1. CheckAlerts
    BY OnlySalesRaise DEF Sale, StartTrial, Activate, ChangePlan, SetQuotaOverrides
  <2> QED BY <2>1 DEF CheckAlerts
<1> QED BY <1>1, TypeCorrect, PTL DEF Spec, SaleAnnounced

-----------------------------------------------------------------------------
(* The journal.                                                            *)

\* The journal explains every status: an operation that moves a subscription
\* records the status it moves it to, and what records nothing moves nothing.
THEOREM JournalKept == Spec => []JournalExplains
<1>1. Init => JournalExplains
  BY DEF Init, JournalExplains, NoSub
<1>2. TypeOK /\ JournalExplains /\ [Next]_vars => JournalExplains'
  <2> SUFFICES ASSUME TypeOK, JournalExplains, [Next]_vars, NEW u \in Tenants
               PROVE  journal'[u] = sub'[u].status
    BY DEF JournalExplains
  <2>0. /\ \A t \in Tenants : sub[t] \in SubRows /\ journal[t] = sub[t].status
        /\ sub \in [Tenants -> SubRows] /\ journal \in [Tenants -> Statuses \cup {"none"}]
    BY DEF TypeOK, JournalExplains
  <2>1. ASSUME NEW t \in Tenants, NEW row, Save(t, row) PROVE journal'[u] = sub'[u].status
    BY <2>0, <2>1 DEF Save
  <2>2. CASE SubscriptionStep /\ ~ExpireDueTrials /\ ~BasculerEssais
    BY <2>1, <2>2 DEF SubscriptionStep, StartTrial, Activate, Suspend, Cancel, ChangePlan,
       SetTrialEnd, SetQuotaOverrides
  <2>3. CASE ExpireDueTrials
    BY <2>0, <2>3 DEF ExpireDueTrials, SubRows
  <2>4. CASE BasculerEssais
    BY <2>0, <2>4 DEF BasculerEssais, SubRows
  <2>5. CASE CatalogueStep
    BY <2>0, <2>5 DEF CatalogueStep, UpdatePlan, CreatePlan, DuplicatePlan, DeletePlan, SubRows
  <2>6. CASE EnvironmentStep
    BY <2>0, <2>6 DEF EnvironmentStep, SetPool, TrialEndPasses, NextMonth, SubRows
  <2>7. CASE UNCHANGED vars
    BY <2>0, <2>7 DEF vars
  <2> QED BY <2>2, <2>3, <2>4, <2>5, <2>6, <2>7 DEF Next
<1> QED BY <1>1, <1>2, TypeCorrect, PTL DEF Spec

-----------------------------------------------------------------------------
(* The catalogue.                                                          *)

\* No subscription, operational or not, ever loses the plan it refers to:
\* can_delete_plan counts every subscriber, whatever its status.
THEOREM PlansStayReferenced == Spec => []PlansReferenced
<1>1. Init => PlansReferenced
  BY DEF Init, PlansReferenced, Subscribed, NoSub
<1>2. TypeOK /\ PlansReferenced /\ [Next]_vars => PlansReferenced'
  <2> SUFFICES ASSUME TypeOK, PlansReferenced, [Next]_vars, NEW u \in Tenants,
                      Subscribed(u)'
               PROVE  plan'[sub'[u].plan].status # "absent"
    BY DEF PlansReferenced, Exists
  <2>0. /\ sub[u] \in SubRows /\ sub[u].plan \in Plans
        /\ Subscribed(u) => plan[sub[u].plan].status # "absent"
        /\ "absent" \notin PlanStatuses
    BY PlanAssumption DEF TypeOK, SubRows, PlansReferenced, Exists
  <2> USE DEF Subscribed, Exists, Save
  <2>1. ASSUME NEW t \in Tenants, NEW p \in Plans, StartTrial(t, p) \/ ChangePlan(t, p)
        PROVE  plan'[sub'[u].plan].status # "absent"
    <3>1. CASE u = t
      <4>1. CASE StartTrial(t, p)
        BY <3>1, <4>1 DEF StartTrial, TypeOK
      <4>2. CASE ChangePlan(t, p)
        BY <2>0, <3>1, <4>2 DEF ChangePlan, TypeOK, SubRows
      <4> QED BY <2>1, <4>1, <4>2
    <3>2. CASE u # t
      BY <2>0, <2>1, <3>2 DEF StartTrial, ChangePlan, TypeOK
    <3> QED BY <3>1, <3>2
  <2>2. ASSUME plan' = plan, sub'[u].plan = sub[u].plan, sub[u].status # "none"
        PROVE  plan'[sub'[u].plan].status # "absent"
    BY <2>0, <2>2
  <2>3. ASSUME NEW t \in Tenants, Activate(t) \/ Suspend(t) \/ Cancel(t) \/ TrialEndPasses(t)
        PROVE  plan'[sub'[u].plan].status # "absent"
    <3>1. plan' = plan
      BY <2>3 DEF Activate, Suspend, Cancel, TrialEndPasses
    <3>2. sub'[u].plan = sub[u].plan /\ sub[u].status # "none"
      <4>1. CASE u = t
        <5>1. CASE Activate(t)
          BY <2>0, <4>1, <5>1 DEF Activate, TypeOK, SubRows
        <5>2. CASE Suspend(t)
          BY <2>0, <4>1, <5>2 DEF Suspend, TypeOK, SubRows
        <5>3. CASE Cancel(t)
          BY <2>0, <4>1, <5>3 DEF Cancel, TypeOK, SubRows
        <5>4. CASE TrialEndPasses(t)
          BY <2>0, <4>1, <5>4 DEF TrialEndPasses, TypeOK, SubRows
        <5> QED BY <2>3, <5>1, <5>2, <5>3, <5>4
      <4>2. CASE u # t
        BY <2>0, <2>3, <4>2 DEF Activate, Suspend, Cancel, TrialEndPasses, TypeOK
      <4> QED BY <4>1, <4>2
    <3> QED BY <2>2, <3>1, <3>2
  <2>4. ASSUME NEW t \in Tenants, NEW due \in BOOLEAN, SetTrialEnd(t, due)
        PROVE  plan'[sub'[u].plan].status # "absent"
    <3>1. plan' = plan
      BY <2>4 DEF SetTrialEnd
    <3>2. sub'[u].plan = sub[u].plan /\ sub[u].status # "none"
      BY <2>0, <2>4 DEF SetTrialEnd, TypeOK, SubRows
    <3> QED BY <2>2, <3>1, <3>2
  <2>5. ASSUME NEW t \in Tenants, NEW q \in Quotas \cup {NoOverride}, SetQuotaOverrides(t, q)
        PROVE  plan'[sub'[u].plan].status # "absent"
    <3>1. plan' = plan
      BY <2>5 DEF SetQuotaOverrides
    <3>2. sub'[u].plan = sub[u].plan /\ sub[u].status # "none"
      BY <2>0, <2>5 DEF SetQuotaOverrides, TypeOK, SubRows
    <3> QED BY <2>2, <3>1, <3>2
  <2>6. CASE ExpireDueTrials
    <3>1. sub'[u].plan = sub[u].plan /\ sub[u].status # "none"
      BY <2>0, <2>6 DEF ExpireDueTrials, Due, SubRows
    <3> QED BY <2>2, <2>6, <3>1 DEF ExpireDueTrials
  <2>7. CASE BasculerEssais
    <3>1. CASE Moves(u)
      BY <2>0, <2>7, <3>1 DEF BasculerEssais, SubRows
    <3>2. CASE ~Moves(u)
      BY <2>0, <2>7, <3>2 DEF BasculerEssais
    <3> QED BY <3>1, <3>2
  <2>8. ASSUME NEW p \in Plans, NEW q \in Quotas, NEW s \in PlanStatuses,
               UpdatePlan(p, q, s) \/ CreatePlan(p, q, s)
        PROVE  plan'[sub'[u].plan].status # "absent"
    <3>1. sub'[u].plan = sub[u].plan /\ sub[u].status # "none"
      BY <2>0, <2>8 DEF UpdatePlan, CreatePlan, SubRows
    <3>2. plan' = [plan EXCEPT ![p] = [status |-> s, quota |-> q]]
      BY <2>8 DEF UpdatePlan, CreatePlan
    <3> QED BY <2>0, <3>1, <3>2 DEF TypeOK
  <2>9. ASSUME NEW p \in Plans, NEW code \in Plans, DuplicatePlan(p, code)
        PROVE  plan'[sub'[u].plan].status # "absent"
    BY <2>0, <2>9 DEF DuplicatePlan, TypeOK
  <2>10. ASSUME NEW p \in Plans, DeletePlan(p)
         PROVE  plan'[sub'[u].plan].status # "absent"
    BY <2>0, <2>10 DEF DeletePlan, TypeOK
  <2>11. ASSUME plan' = plan, sub' = sub
         PROVE  plan'[sub'[u].plan].status # "absent"
    BY <2>0, <2>11
  <2> QED
    BY <2>1, <2>3, <2>4, <2>5, <2>6, <2>7, <2>8, <2>9, <2>10, <2>11
    DEF Next, SubscriptionStep, CatalogueStep, EnvironmentStep, SetPool, NextMonth, vars
<1> QED BY <1>1, <1>2, TypeCorrect, PTL DEF Spec

\* ADR-021 for every catalogue: update_plan freezes before it lowers, and the
\* other catalogue operations never touch a plan that has a subscriber.
THEOREM QuotasAreNotTakenBack == Spec => NothingTakenBack
<1> DEFINE A == plan' # plan =>
                  \A t \in Tenants : Subscribed(t) => Covers(Quota(t)', Quota(t))
<1>1. TypeOK /\ PlansReferenced /\ [Next]_vars => [A]_vars
  <2> SUFFICES ASSUME TypeOK, PlansReferenced, Next, plan' # plan, NEW t \in Tenants, Subscribed(t)
               PROVE  Covers(QuotaUnder(sub'[t], plan'), QuotaUnder(sub[t], plan))
    BY DEF Quota
  <2>0. /\ sub[t] \in SubRows /\ sub[t].plan \in Plans
        /\ Exists(sub[t].plan)
        /\ QuotaUnder(sub[t], plan) \in Nat
    BY QuotaType, QuotaAssumption DEF TypeOK, SubRows, PlansReferenced, Quotas
  <2>1. ASSUME sub'[t] = sub[t], plan'[sub[t].plan] = plan[sub[t].plan]
        PROVE  Covers(QuotaUnder(sub'[t], plan'), QuotaUnder(sub[t], plan))
    <3>1. QuotaUnder(sub'[t], plan') = QuotaUnder(sub[t], plan)
      BY <2>1 DEF QuotaUnder
    <3> QED BY <2>0, <3>1 DEF Covers
  <2>2. CatalogueStep
    BY DEF Next, SubscriptionStep, EnvironmentStep, StartTrial, Activate, Suspend, Cancel,
       ChangePlan, SetTrialEnd, SetQuotaOverrides, ExpireDueTrials, BasculerEssais, SetPool,
       TrialEndPasses, NextMonth
  <2>3. ASSUME NEW p \in Plans, NEW q \in Quotas, NEW s \in PlanStatuses, UpdatePlan(p, q, s)
        PROVE  Covers(QuotaUnder(sub'[t], plan'), QuotaUnder(sub[t], plan))
    <3>0. /\ plan' = [plan EXCEPT ![p] = [status |-> s, quota |-> q]]
          /\ q \in Nat /\ plan[p].quota \in Nat
          /\ NoOverride \notin Quotas
      BY <2>3, QuotaAssumption DEF UpdatePlan, TypeOK, PlanRows, Quotas, NoOverride
    <3>1. CASE sub[t].plan # p
      <4>1. sub'[t] = sub[t] /\ plan'[sub[t].plan] = plan[sub[t].plan]
        BY <2>0, <2>3, <3>0, <3>1 DEF UpdatePlan, TypeOK
      <4> QED BY <2>1, <4>1
    <3>2. CASE sub[t].override # NoOverride
      <4>1. sub'[t] = sub[t]
        BY <2>3, <3>2 DEF UpdatePlan
      <4>2. QuotaUnder(sub'[t], plan') = QuotaUnder(sub[t], plan)
        BY <3>2, <4>1 DEF QuotaUnder
      <4> QED BY <2>0, <4>2 DEF Covers
    <3>3. CASE sub[t].plan = p /\ sub[t].override = NoOverride /\ Lowered(plan[p].quota, q)
      <4>1. sub'[t] = [sub[t] EXCEPT !.override = plan[p].quota]
        BY <2>3, <3>3 DEF UpdatePlan
      <4>2. sub'[t].override = plan[p].quota
        BY <2>0, <4>1 DEF SubRows
      <4>3. /\ QuotaUnder(sub'[t], plan') = plan[p].quota
            /\ QuotaUnder(sub[t], plan) = plan[p].quota
        BY <3>0, <3>3, <4>2 DEF QuotaUnder, NoOverride
      <4> QED BY <3>0, <4>3 DEF Covers
    <3>4. CASE sub[t].plan = p /\ sub[t].override = NoOverride /\ ~Lowered(plan[p].quota, q)
      <4>1. sub'[t] = sub[t]
        BY <2>3, <3>4 DEF UpdatePlan
      <4>2. QuotaUnder(sub'[t], plan') = q /\ QuotaUnder(sub[t], plan) = plan[p].quota
        BY <3>0, <3>4, <4>1 DEF QuotaUnder, TypeOK
      <4> QED BY <3>0, <3>4, <4>2 DEF Covers, Lowered
    <3> QED BY <3>1, <3>2, <3>3, <3>4
  <2>4. ASSUME NEW p \in Plans, NEW q \in Quotas, NEW s \in PlanStatuses, CreatePlan(p, q, s)
        PROVE  Covers(QuotaUnder(sub'[t], plan'), QuotaUnder(sub[t], plan))
    BY <2>0, <2>1, <2>4 DEF CreatePlan, TypeOK
  <2>5. ASSUME NEW p \in Plans, NEW code \in Plans, DuplicatePlan(p, code)
        PROVE  Covers(QuotaUnder(sub'[t], plan'), QuotaUnder(sub[t], plan))
    BY <2>0, <2>1, <2>5 DEF DuplicatePlan, TypeOK
  <2>6. ASSUME NEW p \in Plans, DeletePlan(p)
        PROVE  Covers(QuotaUnder(sub'[t], plan'), QuotaUnder(sub[t], plan))
    BY <2>0, <2>1, <2>6 DEF DeletePlan, TypeOK
  <2> QED BY <2>2, <2>3, <2>4, <2>5, <2>6 DEF CatalogueStep
<1> QED BY <1>1, TypeCorrect, PlansStayReferenced, PTL DEF Spec, NothingTakenBack

-----------------------------------------------------------------------------
(* The life cycle is implemented.                                          *)

\* A step of Billing leaves each client where it was or moves it along the
\* life cycle: every operation but start_trial asks for a subscription, and
\* none of them writes the status trial over another one.
LEMMA StatusMoves ==
    ASSUME TypeOK, Next, NEW c \in Tenants
    PROVE  \/ sub'[c].status = sub[c].status
           \/ sub[c].status = "none" /\ sub'[c].status = "trial"
           \/ sub[c].status # "none"
              /\ sub'[c].status \in {"active", "suspended", "cancelled", "expired"}
<1> DEFINE Goal ==
           \/ sub'[c].status = sub[c].status
           \/ sub[c].status = "none" /\ sub'[c].status = "trial"
           \/ sub[c].status # "none"
              /\ sub'[c].status \in {"active", "suspended", "cancelled", "expired"}
<1>0. \A t \in Tenants : sub[t] \in SubRows
  BY DEF TypeOK
<1>1. ASSUME NEW t \in Tenants, NEW p \in Plans, StartTrial(t, p) PROVE Goal
  BY <1>0, <1>1 DEF TypeOK, Save, StartTrial, Subscribed
<1>2. ASSUME NEW t \in Tenants, Activate(t) PROVE Goal
  BY <1>0, <1>2 DEF TypeOK, Save, Activate, Subscribed, SubRows
<1>3. ASSUME NEW t \in Tenants, Suspend(t) PROVE Goal
  BY <1>0, <1>3 DEF TypeOK, Save, Suspend, Subscribed, SubRows
<1>4. ASSUME NEW t \in Tenants, Cancel(t) PROVE Goal
  BY <1>0, <1>4 DEF TypeOK, Save, Cancel, Subscribed, SubRows
<1>5. ASSUME NEW t \in Tenants, NEW p \in Plans, ChangePlan(t, p) PROVE Goal
  BY <1>0, <1>5 DEF TypeOK, Save, ChangePlan, SubRows
<1>6. ASSUME NEW t \in Tenants, NEW due \in BOOLEAN, SetTrialEnd(t, due) PROVE Goal
  BY <1>0, <1>6 DEF TypeOK, Save, SetTrialEnd, SubRows
<1>7. ASSUME NEW t \in Tenants, NEW q \in Quotas \cup {NoOverride}, SetQuotaOverrides(t, q)
      PROVE  Goal
  BY <1>0, <1>7 DEF TypeOK, Save, SetQuotaOverrides, SubRows
<1>8. CASE ExpireDueTrials
  BY <1>0, <1>8 DEF ExpireDueTrials, Due, SubRows
<1>9. CASE BasculerEssais
  BY <1>0, <1>9 DEF BasculerEssais, SubRows
<1>10. CASE CatalogueStep
  BY <1>0, <1>10 DEF CatalogueStep, UpdatePlan, CreatePlan, DuplicatePlan, DeletePlan, SubRows
<1>11. CASE EnvironmentStep
  BY <1>0, <1>11 DEF EnvironmentStep, SetPool, TrialEndPasses, NextMonth, SubRows, TypeOK
<1> QED BY <1>1, <1>2, <1>3, <1>4, <1>5, <1>6, <1>7, <1>8, <1>9, <1>10, <1>11
        DEF Next, SubscriptionStep

\* Refinement: the operations of services.py implement the life cycle, for any
\* number of clients and plans.  A client never has a second trial and its
\* subscription never disappears.
THEOREM LifeCycleImplemented == Spec => FollowsLifeCycle
<1> DEFINE status == [t \in Tenants |-> sub[t].status]
<1>1. Init => LifeCycle!Init
  BY DEF Init, LifeCycle!Init, NoSub
<1>2. TypeOK /\ TypeOK' /\ [Next]_vars => [LifeCycle!Next]_status
  <2> SUFFICES ASSUME TypeOK, TypeOK', [Next]_vars PROVE [LifeCycle!Next]_status
    OBVIOUS
  <2>1. CASE Next
    <3>1. \A t \in Tenants : sub'[t].status \in Statuses \cup {"none"}
      BY DEF TypeOK, SubRows
    <3> QED BY <2>1, <3>1, StatusMoves DEF LifeCycle!Next, LifeCycle!Ended, Statuses
  <2>2. CASE UNCHANGED vars
    BY <2>2 DEF vars
  <2> QED BY <2>1, <2>2
<1> QED BY <1>1, <1>2, TypeCorrect, PTL DEF Spec, FollowsLifeCycle, LifeCycle!Spec

-----------------------------------------------------------------------------
(* Requests that interleave.                                               *)

Ops == {"start", "activate", "suspend", "cancel", "change", "override"}

\* A request under way, loaded or checked.
Requests == [phase : {"loaded", "checked"}, op : Ops, tenant : Tenants,
             arg : Plans \cup Quotas \cup {NoOverride}, row : SubRows, overtaken : BOOLEAN]

\* What the early returns of the views and of the services leave through.
Admitted(r) ==
    /\ r.op \in {"start", "change"} => r.arg \in Plans /\ Exists(r.arg)
    /\ r.op = "override" => r.arg \in Quotas \cup {NoOverride} /\ r.arg # r.row.override
    /\ r.op = "start" => r.row.status = "none"
    /\ r.op = "activate" => r.row.status # "active"
    /\ r.op = "change" => r.arg # r.row.plan
    /\ r.op # "start" => r.row.status # "none" /\ Subscribed(r.tenant)

\* Until another request writes, the row that was loaded is the stored one and
\* the answer of the capacity guard stands.
Current(r) ==
    ~r.overtaken => /\ r.row = sub[r.tenant]
                    /\ r.phase = "checked" => Passes(r)

\* The inductive invariant of the interleaved requests.
CInv ==
    /\ TypeOK
    /\ req \in [Workers -> {Idle} \cup Requests]
    /\ \A w \in Workers : req[w] # Idle => Admitted(req[w]) /\ Current(req[w])

\* A request is never idle, whatever is written over its other fields.
LEMMA UnderWay ==
    ASSUME NEW r \in Requests
    PROVE  /\ r # Idle
           /\ [r EXCEPT !.overtaken = TRUE] # Idle
           /\ [r EXCEPT !.overtaken = TRUE] \in Requests
           /\ [r EXCEPT !.phase = "checked"] \in Requests
<1>1. Idle.phase = "idle"
  BY DEF Idle
<1>2. r.phase # "idle" /\ [r EXCEPT !.overtaken = TRUE].phase # "idle"
  BY DEF Requests
<1>3. /\ [r EXCEPT !.overtaken = TRUE] \in Requests
      /\ [r EXCEPT !.phase = "checked"] \in Requests
  BY DEF Requests
<1> QED BY <1>1, <1>2, <1>3

\* The row a request writes and what save(update_fields) makes of the stored
\* one are subscription rows, and none of them is the absence of a row.
LEMMA WritesRows ==
    ASSUME TypeOK, NEW r \in Requests, Admitted(r)
    PROVE  /\ Written(r) \in SubRows /\ Written(r).status # "none"
           /\ Merged(r, sub[r.tenant]) \in SubRows
           /\ Merged(r, sub[r.tenant]).status
                = IF r.op \in {"change", "override"} THEN sub[r.tenant].status ELSE Written(r).status
           /\ r.op = "start" => Written(r).status = "trial"
           /\ r.op \in {"activate", "suspend", "cancel"} =>
                  Written(r).status \in {"active", "suspended", "cancelled"}
<1>0. /\ r.row \in SubRows /\ sub[r.tenant] \in SubRows /\ r.op \in Ops
      /\ r.op # "start" => r.row.status # "none"
  BY DEF Requests, TypeOK, Admitted
<1>1. CASE r.op = "start"
  BY <1>0, <1>1 DEF Written, Merged, Admitted, SubRows, Statuses
<1>2. CASE r.op = "activate"
  BY <1>0, <1>2 DEF Written, Merged, SubRows, Statuses
<1>3. CASE r.op = "suspend"
  BY <1>0, <1>3 DEF Written, Merged, SubRows, Statuses
<1>4. CASE r.op = "cancel"
  BY <1>0, <1>4 DEF Written, Merged, SubRows, Statuses
<1>5. CASE r.op = "change"
  BY <1>0, <1>5 DEF Written, Merged, Admitted, SubRows
<1>6. CASE r.op = "override"
  BY <1>0, <1>6 DEF Written, Merged, Admitted, SubRows
<1> QED BY <1>0, <1>1, <1>2, <1>3, <1>4, <1>5, <1>6 DEF Ops

\* What a commit does to the tables.
LEMMA CommitWrites ==
    ASSUME CInv, NEW w \in Workers, Commit(w)
    PROVE  /\ req[w] \in Requests /\ Admitted(req[w]) /\ Current(req[w])
           /\ plan' = plan /\ pool' = pool
           /\ \/ req[w].op = "start" /\ Subscribed(req[w].tenant) /\ UNCHANGED vars
              \/ /\ req[w].op = "start" => ~Subscribed(req[w].tenant)
                 /\ sub' = [sub EXCEPT ![req[w].tenant] = Merged(req[w], sub[req[w].tenant])]
                 /\ journal' = [journal EXCEPT ![req[w].tenant] = Written(req[w]).status]
                 /\ IF req[w].op \in {"suspend", "cancel"} THEN UNCHANGED alerted ELSE CheckAlerts
<1>1. req[w] # Idle /\ req[w] \in Requests
  BY DEF Commit, CInv, Idle
<1> QED BY <1>1 DEF Commit, CInv, vars

\* A commit leaves well-typed tables and takes no subscription away.
LEMMA CommitKeepsRows ==
    ASSUME CInv, NEW w \in Workers, Commit(w)
    PROVE  TypeOK' /\ \A t \in Tenants : Subscribed(t) => Subscribed(t)'
<1> DEFINE r == req[w]
<1>0. /\ r \in Requests /\ Admitted(r) /\ r.tenant \in Tenants /\ TypeOK
      /\ r.op # "start" => Subscribed(r.tenant)
  BY CommitWrites DEF Requests, CInv, Admitted
<1>1. /\ Written(r) \in SubRows /\ Written(r).status # "none"
      /\ Merged(r, sub[r.tenant]) \in SubRows
      /\ Merged(r, sub[r.tenant]).status # "none"
  BY <1>0, WritesRows DEF Subscribed
<1>2. CASE UNCHANGED vars
  BY <1>0, <1>2 DEF vars, TypeOK, Subscribed
<1>3. CASE /\ sub' = [sub EXCEPT ![r.tenant] = Merged(r, sub[r.tenant])]
           /\ journal' = [journal EXCEPT ![r.tenant] = Written(r).status]
           /\ IF r.op \in {"suspend", "cancel"} THEN UNCHANGED alerted ELSE CheckAlerts
  <2>1. sub' \in [Tenants -> SubRows] /\ \A t \in Tenants : Subscribed(t) => Subscribed(t)'
    BY <1>0, <1>1, <1>3 DEF TypeOK, Subscribed
  <2>2. journal' \in [Tenants -> Statuses \cup {"none"}]
    BY <1>0, <1>1, <1>3 DEF TypeOK, SubRows
  <2>3. alerted' \in SUBSET {AlertKey(th) : th \in Thresholds}
    BY <1>0, <1>3 DEF TypeOK, CheckAlerts
  <2>4. plan' = plan /\ pool' = pool
    BY CommitWrites
  <2> QED BY <1>0, <2>1, <2>2, <2>3, <2>4 DEF TypeOK
<1> QED BY <1>2, <1>3, CommitWrites

\* The invariant after a step, request by request.
LEMMA InvariantNext ==
    ASSUME TypeOK', req' \in [Workers -> {Idle} \cup Requests],
           \A v \in Workers : \A x : x = req'[v] /\ x # Idle => Admitted(x)' /\ Current(x)'
    PROVE  CInv'
BY DEF CInv, Admitted, Current

\* The invariant holds at first and every step keeps it: a write overtakes all
\* the other requests, and no other step touches what they have read.
THEOREM RequestsAreCurrent == CSpec => []CInv
<1>1. CInit => CInv
  <2>1. Init => TypeOK
    BY PlanAssumption, QuotaAssumption
    DEF Init, TypeOK, SubRows, NoSub, NoOverride, Statuses, Quotas
  <2> QED BY <2>1 DEF CInit, CInv
<1>2. CInv /\ [CNext]_cvars => CInv'
  <2> SUFFICES ASSUME CInv, [CNext]_cvars PROVE CInv'
    OBVIOUS
  <2>0. /\ TypeOK /\ req \in [Workers -> {Idle} \cup Requests]
        /\ \A w \in Workers : req[w] # Idle =>
              req[w] \in Requests /\ Admitted(req[w]) /\ Current(req[w])
    BY DEF CInv
  <2>1. ASSUME UNCHANGED vars PROVE TypeOK'
    BY <2>0, <2>1 DEF vars, TypeOK
  <2>2. ASSUME UNCHANGED vars, NEW r \in Requests
        PROVE  /\ Admitted(r) => Admitted(r)'
               /\ Current(r) => Current(r)'
    BY <2>2 DEF vars, Admitted, Exists, Subscribed, Current, Passes, AsksGuard, EnsureSlots,
       Projected
  <2>3. ASSUME NEW w \in Workers, Load(w) PROVE CInv'
    <3>0. UNCHANGED vars
      BY <2>3 DEF Load
    <3>1. PICK r \in Requests : /\ req' = [req EXCEPT ![w] = r]
                                /\ Admitted(r) /\ Current(r)
      <4>0. PICK t \in Tenants :
              \/ /\ ~Subscribed(t)
                 /\ \E p \in {x \in Plans : Exists(x)} :
                      req' = [req EXCEPT ![w] = Loaded("start", t, p)]
              \/ /\ Subscribed(t)
                 /\ sub[t].status # "active"
                 /\ req' = [req EXCEPT ![w] = Loaded("activate", t, NoOverride)]
              \/ /\ Subscribed(t)
                 /\ \E op \in {"suspend", "cancel"} :
                      req' = [req EXCEPT ![w] = Loaded(op, t, NoOverride)]
              \/ /\ Subscribed(t)
                 /\ \E p \in {x \in Plans : Exists(x)} \ {sub[t].plan} :
                      req' = [req EXCEPT ![w] = Loaded("change", t, p)]
              \/ /\ Subscribed(t)
                 /\ \E q \in (Quotas \cup {NoOverride}) \ {sub[t].override} :
                      req' = [req EXCEPT ![w] = Loaded("override", t, q)]
        BY <2>3 DEF Load
      <4>1. ASSUME NEW op \in Ops, NEW arg \in Plans \cup Quotas \cup {NoOverride}
            PROVE  /\ Loaded(op, t, arg) \in Requests
                   /\ Current(Loaded(op, t, arg))
                   /\ Loaded(op, t, arg).op = op /\ Loaded(op, t, arg).arg = arg
                   /\ Loaded(op, t, arg).tenant = t /\ Loaded(op, t, arg).row = sub[t]
        BY <2>0 DEF Loaded, Requests, TypeOK, Current
      <4>2. CASE /\ ~Subscribed(t)
                 /\ \E p \in {x \in Plans : Exists(x)} :
                      req' = [req EXCEPT ![w] = Loaded("start", t, p)]
        <5>1. PICK p \in {x \in Plans : Exists(x)} : req' = [req EXCEPT ![w] = Loaded("start", t, p)]
          BY <4>2
        <5>2. Admitted(Loaded("start", t, p))
          BY <4>1, <4>2, <5>1 DEF Ops, Admitted, Subscribed
        <5> QED BY <4>1, <5>1, <5>2 DEF Ops
      <4>3. CASE /\ Subscribed(t)
                 /\ sub[t].status # "active"
                 /\ req' = [req EXCEPT ![w] = Loaded("activate", t, NoOverride)]
        <5>1. Admitted(Loaded("activate", t, NoOverride))
          BY <4>1, <4>3 DEF Ops, Admitted, Subscribed
        <5> QED BY <4>1, <4>3, <5>1 DEF Ops
      <4>4. CASE /\ Subscribed(t)
                 /\ \E op \in {"suspend", "cancel"} :
                      req' = [req EXCEPT ![w] = Loaded(op, t, NoOverride)]
        <5>1. PICK op \in {"suspend", "cancel"} : req' = [req EXCEPT ![w] = Loaded(op, t, NoOverride)]
          BY <4>4
        <5>2. Admitted(Loaded(op, t, NoOverride))
          BY <4>1, <4>4, <5>1 DEF Ops, Admitted, Subscribed
        <5> QED BY <4>1, <5>1, <5>2 DEF Ops
      <4>5. CASE /\ Subscribed(t)
                 /\ \E p \in {x \in Plans : Exists(x)} \ {sub[t].plan} :
                      req' = [req EXCEPT ![w] = Loaded("change", t, p)]
        <5>1. PICK p \in {x \in Plans : Exists(x)} \ {sub[t].plan} : req' = [req EXCEPT ![w] = Loaded("change", t, p)]
          BY <4>5
        <5>2. Admitted(Loaded("change", t, p))
          BY <4>1, <4>5, <5>1 DEF Ops, Admitted, Subscribed
        <5> QED BY <4>1, <5>1, <5>2 DEF Ops
      <4>6. CASE /\ Subscribed(t)
                 /\ \E q \in (Quotas \cup {NoOverride}) \ {sub[t].override} :
                      req' = [req EXCEPT ![w] = Loaded("override", t, q)]
        <5>1. PICK q \in (Quotas \cup {NoOverride}) \ {sub[t].override} : req' = [req EXCEPT ![w] = Loaded("override", t, q)]
          BY <4>6
        <5>2. Admitted(Loaded("override", t, q))
          BY <4>1, <4>6, <5>1 DEF Ops, Admitted, Subscribed
        <5> QED BY <4>1, <5>1, <5>2 DEF Ops
      <4> QED BY <4>0, <4>2, <4>3, <4>4, <4>5, <4>6
    <3>2. TypeOK' /\ Admitted(r)' /\ Current(r)'
      BY <2>1, <2>2, <3>0, <3>1
    <3>3. req' \in [Workers -> {Idle} \cup Requests]
      BY <2>0, <3>1
    <3>4. ASSUME NEW v \in Workers, NEW x, x = req'[v], x # Idle
          PROVE  Admitted(x)' /\ Current(x)'
      <4>1. CASE v = w
        BY <2>0, <3>1, <3>2, <3>4, <4>1
      <4>2. CASE v # w
        BY <2>0, <2>2, <3>0, <3>1, <3>4, <4>2
      <4> QED BY <4>1, <4>2
    <3> QED BY <3>2, <3>3, <3>4, InvariantNext
  <2>4. ASSUME NEW w \in Workers, Check(w) PROVE CInv'
    <3>0. UNCHANGED vars
      BY <2>4 DEF Check
    <3>1. req[w] # Idle /\ req[w] \in Requests /\ Admitted(req[w]) /\ Current(req[w])
      BY <2>0, <2>4 DEF Check, Idle
    <3> DEFINE c == [req[w] EXCEPT !.phase = "checked"]
    <3>2. req' = [req EXCEPT ![w] = IF Passes(req[w]) THEN c ELSE Idle]
      BY <2>0, <2>4 DEF Check
    <3>3. ASSUME Passes(req[w])
          PROVE  c \in Requests /\ Admitted(c) /\ Current(c)
      <4>1. /\ c \in Requests /\ c.op = req[w].op /\ c.tenant = req[w].tenant
            /\ c.arg = req[w].arg /\ c.row = req[w].row /\ c.overtaken = req[w].overtaken
        BY <3>1 DEF Requests
      <4>2. Written(c) = Written(req[w])
        BY <4>1 DEF Written
      <4>3. Passes(c)
        BY <3>3, <4>1, <4>2 DEF Passes, AsksGuard
      <4> QED BY <3>1, <4>1, <4>3 DEF Admitted, Current
    <3>4. TypeOK' /\ req' \in [Workers -> {Idle} \cup Requests]
      BY <2>0, <2>1, <3>0, <3>2, <3>3
    <3>5. ASSUME NEW v \in Workers, NEW x, x = req'[v], x # Idle
          PROVE  Admitted(x)' /\ Current(x)'
      <4>1. x \in Requests /\ Admitted(x) /\ Current(x)
        BY <2>0, <3>2, <3>3, <3>5
      <4> QED BY <2>2, <3>0, <4>1
    <3> QED BY <3>4, <3>5, InvariantNext
  <2>5. ASSUME NEW w \in Workers, Commit(w) PROVE CInv'
    <3>0. TypeOK' /\ plan' = plan /\ \A t \in Tenants : Subscribed(t) => Subscribed(t)'
      BY <2>5, CommitWrites, CommitKeepsRows
    <3>1. req' = [v \in Workers |->
                    IF v = w THEN Idle
                    ELSE IF req[v] = Idle THEN Idle ELSE [req[v] EXCEPT !.overtaken = TRUE]]
      BY <2>5 DEF Commit, Overtake
    <3>2. req' \in [Workers -> {Idle} \cup Requests]
      BY <2>0, <3>1, UnderWay
    <3>3. ASSUME NEW v \in Workers, NEW x, x = req'[v], x # Idle
          PROVE  Admitted(x)' /\ Current(x)'
      <4>1. /\ req[v] \in Requests /\ Admitted(req[v])
            /\ x = [req[v] EXCEPT !.overtaken = TRUE]
        BY <2>0, <3>1, <3>3
      <4>2. /\ x.overtaken /\ x.op = req[v].op /\ x.tenant = req[v].tenant
            /\ x.arg = req[v].arg /\ x.row = req[v].row /\ req[v].tenant \in Tenants
        BY <4>1 DEF Requests
      <4>3. Current(x)'
        BY <4>2 DEF Current
      <4>4. Admitted(x)'
        BY <3>0, <4>1, <4>2 DEF Admitted, Exists
      <4> QED BY <4>3, <4>4
    <3> QED BY <3>0, <3>2, <3>3, InvariantNext
  <2>6. CASE UNCHANGED cvars
    <3>1. UNCHANGED vars /\ req' = req
      BY <2>6 DEF cvars, vars
    <3>2. ASSUME NEW v \in Workers, NEW x, x = req'[v], x # Idle
          PROVE  Admitted(x)' /\ Current(x)'
      BY <2>0, <2>2, <3>1, <3>2
    <3> QED BY <2>0, <2>1, <3>1, <3>2, InvariantNext
  <2> QED BY <2>3, <2>4, <2>5, <2>6 DEF CNext
<1> QED BY <1>1, <1>2, PTL DEF CSpec

\* A request that nobody overtook writes what the atomic operation writes: the
\* guard it passed is the one that operation evaluates.
LEMMA AloneCommits ==
    ASSUME CInv, NEW w \in Workers, Commit(w), ~req[w].overtaken
    PROVE  Next
<1> DEFINE r == req[w]
           t == r.tenant
<1>0. /\ r \in Requests /\ r.op \in Ops /\ t \in Tenants /\ sub[t] \in SubRows
      /\ Admitted(r) /\ r.row = sub[t] /\ Passes(r) /\ plan' = plan /\ pool' = pool
  BY CommitWrites DEF CInv, TypeOK, Requests, Current, Commit
<1>1. /\ sub' = [sub EXCEPT ![t] = Merged(r, sub[t])]
      /\ journal' = [journal EXCEPT ![t] = Written(r).status]
      /\ IF r.op \in {"suspend", "cancel"} THEN UNCHANGED alerted ELSE CheckAlerts
  BY <1>0, CommitWrites DEF Admitted, Subscribed
<1>2. CASE r.op = "start"
  <2> DEFINE row == [plan |-> r.arg, status |-> "trial", override |-> NoOverride, due |-> FALSE]
  <2>1. Written(r) = row /\ Merged(r, sub[t]) = row /\ QuotaUnder(row, plan) = plan[r.arg].quota
    BY <1>2 DEF Written, Merged, QuotaUnder
  <2>2. Save(t, row) /\ CheckAlerts
    BY <1>1, <1>2, <2>1 DEF Save
  <2>3. EnsureSlots(plan[r.arg].quota, {})
    BY <1>0, <1>2, <2>1 DEF Passes, AsksGuard
  <2>4. StartTrial(t, r.arg)
    BY <1>0, <1>2, <2>2, <2>3 DEF StartTrial, Admitted, Subscribed
  <2> QED BY <1>0, <1>2, <2>4 DEF Next, SubscriptionStep, Admitted
<1>3. CASE r.op = "activate"
  <2> DEFINE row == [sub[t] EXCEPT !.status = "active", !.due = FALSE]
  <2>1. /\ Written(r) = row /\ Merged(r, sub[t]) = row /\ QuotaUnder(row, plan) = Quota(t)
        /\ row.status = "active"
    BY <1>0, <1>3 DEF Written, Merged, QuotaUnder, Quota, SubRows
  <2>2. Save(t, row) /\ CheckAlerts
    BY <1>1, <1>3, <2>1 DEF Save
  <2>3. ~IsOperational(sub[t]) => EnsureSlots(Quota(t), {t})
    BY <1>0, <1>3, <2>1 DEF Passes, AsksGuard
  <2>4. Activate(t)
    BY <1>0, <1>3, <2>2, <2>3 DEF Activate, Admitted
  <2> QED BY <1>0, <2>4 DEF Next, SubscriptionStep
<1>4. CASE r.op = "suspend"
  <2> DEFINE row == [sub[t] EXCEPT !.status = "suspended", !.due = FALSE]
  <2>1. Written(r) = row /\ Merged(r, sub[t]) = row /\ row.status = "suspended"
    BY <1>0, <1>4 DEF Written, Merged, SubRows
  <2>2. Suspend(t)
    BY <1>0, <1>1, <1>4, <2>1 DEF Suspend, Save, Admitted
  <2> QED BY <1>0, <2>2 DEF Next, SubscriptionStep
<1>5. CASE r.op = "cancel"
  <2> DEFINE row == [sub[t] EXCEPT !.status = "cancelled", !.due = FALSE]
  <2>1. Written(r) = row /\ Merged(r, sub[t]) = row /\ row.status = "cancelled"
    BY <1>0, <1>5 DEF Written, Merged, SubRows
  <2>2. Cancel(t)
    BY <1>0, <1>1, <1>5, <2>1 DEF Cancel, Save, Admitted
  <2> QED BY <1>0, <2>2 DEF Next, SubscriptionStep
<1>6. CASE r.op = "change"
  <2> DEFINE row == [sub[t] EXCEPT !.plan = r.arg, !.override = NoOverride]
  <2>1. /\ Written(r) = row /\ Merged(r, sub[t]) = row
        /\ QuotaUnder(row, plan) = plan[r.arg].quota /\ QuotaUnder(r.row, plan) = Quota(t)
    BY <1>0, <1>6 DEF Written, Merged, QuotaUnder, Quota, SubRows, Admitted
  <2>2. Save(t, row) /\ CheckAlerts
    BY <1>0, <1>1, <1>6, <2>1 DEF Save, SubRows
  <2>3. IsOperational(sub[t]) /\ plan[r.arg].quota > Quota(t) => EnsureSlots(plan[r.arg].quota, {t})
    BY <1>0, <1>6, <2>1 DEF Passes, AsksGuard
  <2>4. ChangePlan(t, r.arg)
    BY <1>0, <1>6, <2>2, <2>3 DEF ChangePlan, Admitted
  <2> QED BY <1>0, <1>6, <2>4 DEF Next, SubscriptionStep, Admitted
<1>7. CASE r.op = "override"
  <2> DEFINE row == [sub[t] EXCEPT !.override = r.arg]
             effective == IF r.arg = NoOverride THEN plan[sub[t].plan].quota ELSE r.arg
  <2>1. /\ Written(r) = row /\ Merged(r, sub[t]) = row
        /\ QuotaUnder(row, plan) = effective /\ QuotaUnder(r.row, plan) = Quota(t)
    BY <1>0, <1>7 DEF Written, Merged, QuotaUnder, Quota, SubRows
  <2>2. Save(t, row) /\ CheckAlerts
    BY <1>0, <1>1, <1>7, <2>1 DEF Save, SubRows
  <2>3. IsOperational(sub[t]) /\ effective > Quota(t) => EnsureSlots(effective, {t})
    BY <1>0, <1>7, <2>1 DEF Passes, AsksGuard
  <2>4. SetQuotaOverrides(t, r.arg)
    BY <1>0, <1>7, <2>2, <2>3 DEF SetQuotaOverrides, Admitted
  <2> QED BY <1>0, <1>7, <2>4 DEF Next, SubscriptionStep, Admitted
<1> QED BY <1>0, <1>2, <1>3, <1>4, <1>5, <1>6, <1>7 DEF Ops

\* A race costs nothing to those who are not in it, however many requests run,
\* whatever the catalogue: what a request does alone is the operation of Billing,
\* and so is covered by the theorems above.
THEOREM AloneIsAtomicHolds == CSpec => AloneIsAtomic
<1> DEFINE A == \A w \in Workers :
                  req[w] # Idle /\ req'[w] = Idle /\ ~req[w].overtaken => Next \/ UNCHANGED vars
<1>1. CInv /\ [CNext]_cvars => [A]_cvars
  <2> SUFFICES ASSUME CInv, CNext, NEW w \in Workers,
                      req[w] # Idle, req'[w] = Idle, ~req[w].overtaken
               PROVE  Next \/ UNCHANGED vars
    OBVIOUS
  <2>1. ASSUME NEW v \in Workers, Load(v) \/ Check(v) PROVE UNCHANGED vars
    BY <2>1 DEF Load, Check
  <2>2. ASSUME NEW v \in Workers, Commit(v) PROVE Next
    <3>1. req[w] \in Requests
      BY DEF CInv
    <3>2. v # w => req'[w] # Idle
      BY <2>2, <3>1, UnderWay DEF Commit, Overtake
    <3> QED BY <2>2, <3>2, AloneCommits
  <2> QED BY <2>1, <2>2 DEF CNext
<1> QED BY <1>1, RequestsAreCurrent, PTL DEF CSpec, AloneIsAtomic

\* Refinement: however the requests interleave, and however stale the rows they
\* write from, each client's status follows the life cycle.  The one-to-one
\* constraint is what refuses the second of two sign-ups.
THEOREM RacesFollowLifeCycle == CSpec => FollowsLifeCycle
<1> DEFINE status == [t \in Tenants |-> sub[t].status]
<1>1. CInit => LifeCycle!Init
  BY DEF CInit, Init, LifeCycle!Init, NoSub
<1>2. CInv /\ CInv' /\ [CNext]_cvars => [LifeCycle!Next]_status
  <2> SUFFICES ASSUME CInv, CInv', [CNext]_cvars PROVE [LifeCycle!Next]_status
    OBVIOUS
  <2>1. ASSUME UNCHANGED vars PROVE status' = status
    BY <2>1 DEF vars
  <2>2. ASSUME NEW w \in Workers, Commit(w) PROVE [LifeCycle!Next]_status
    <3> DEFINE r == req[w]
               t == r.tenant
               new == Merged(r, sub[t])
    <3>0. /\ r \in Requests /\ r.op \in Ops /\ t \in Tenants /\ Admitted(r)
          /\ sub \in [Tenants -> SubRows] /\ TypeOK
      BY <2>2, CommitWrites DEF Requests, CInv, TypeOK
    <3>1. CASE UNCHANGED vars
      BY <2>1, <3>1
    <3>2. CASE (r.op = "start" => ~Subscribed(t)) /\ sub' = [sub EXCEPT ![t] = new]
      <4>1. \/ new.status = sub[t].status
            \/ sub[t].status = "none" /\ new.status = "trial"
            \/ sub[t].status # "none" /\ new.status \in {"active", "suspended", "cancelled"}
        BY <3>0, <3>2, WritesRows DEF Ops, Admitted, Subscribed
      <4>2. \A u \in Tenants : /\ sub'[u].status \in Statuses \cup {"none"}
                               /\ u # t => sub'[u].status = sub[u].status
                               /\ u = t => sub'[u].status = new.status
        <5>1. \A u \in Tenants : sub'[u].status \in Statuses \cup {"none"}
          BY DEF CInv, TypeOK, SubRows
        <5> QED BY <3>0, <3>2, <5>1
      <4> QED BY <4>1, <4>2 DEF LifeCycle!Next, LifeCycle!Ended, Statuses
    <3> QED BY <2>2, <3>1, <3>2, CommitWrites
  <2> QED BY <2>1, <2>2 DEF CNext, Load, Check, cvars, vars
<1> QED BY <1>1, <1>2, RequestsAreCurrent, PTL DEF CSpec, FollowsLifeCycle, LifeCycle!Spec
=============================================================================
