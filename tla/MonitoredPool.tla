---------------------------- MODULE MonitoredPool ----------------------------
(***************************************************************************)
(* Continuous monitoring: which domains the provider watches for us.       *)
(*                                                                         *)
(* An asset is declared (apps.monitoring), its possession is proven by one *)
(* of several methods (ADR-026), and only then may it take one of the      *)
(* slots of the provider's licence (apps.threat_intelligence).  A slot is  *)
(* kept in two places that no transaction joins: the MonitoredAsset row    *)
(* and the provider's own list.  register_monitored_asset checks its       *)
(* guards, calls the provider, then creates the row; unregister_monitored_ *)
(* asset calls the provider, then updates the row.  Each of these is a     *)
(* step here, requests interleave, and a request may die between two.      *)
(*                                                                         *)
(* Abstractions.  The provider's reference of a slot is the domain, as in  *)
(* BreachsenseProvider.  Adding a domain twice, or removing one that is    *)
(* not there, leaves its list as it is.  Whether a token is published is   *)
(* decided by the world at each verification.                              *)
(***************************************************************************)
EXTENDS Integers, FiniteSets, TLC

CONSTANTS
    Assets,         \* assets that may be declared
    Tenants,
    Owner,          \* Owner[a]: the client that declares a
    Domain,         \* Domain[a]: asset_domain(a); two assets may share one
    Methods,        \* dns_txt, http_file, email
    Quota,          \* Quota[t]: monitored_assets_quota of t, 0 for unlimited
    PoolSize,       \* BREACHSENSE_MONITORED_ASSET_POOL_SIZE
    Workers,        \* requests that may run at the same time
    MayDie,         \* may a request die between two steps, or the provider fail?
    MayDelete,      \* may a client delete an asset?
    None

ASSUME SlotAssumption ==
    /\ Owner \in [Assets -> Tenants]
    /\ Quota \in [Tenants -> Nat]
    /\ PoolSize \in Nat
    /\ None \notin Assets
    /\ MayDie \in BOOLEAN /\ MayDelete \in BOOLEAN

VARIABLES
    declared,      \* declared[a]: is there an Asset row, "yes", "not_yet" or "deleted"
    proof,         \* proof[a][m]: status of the AssetOwnershipProof of that method
    row,           \* row[a]: the MonitoredAsset of a, "none", "active" or "inactive"
    slots,         \* the domains on the provider's list
    operational,   \* the clients whose subscription is operational
    req,           \* req[w]: where a request is, and the asset it is about
    proved,        \* history: assets whose possession has been proven
    raced          \* history: clients and domains two of whose requests overlapped,
                   \* and domains a request about which died

vars == <<declared, proof, row, slots, operational, req, proved, raced>>

Domains == {Domain[a] : a \in Assets}
AssetStates == {"not_yet", "yes", "deleted"}
ProofStates == {"none", "pending", "failed", "verified"}
RowStates == {"none", "active", "inactive"}
NoProof == [m \in Methods |-> "none"]
Idle == [pc |-> "idle", asset |-> None]

Init ==
    /\ declared = [a \in Assets |-> "not_yet"]
    /\ proof = [a \in Assets |-> NoProof]
    /\ row = [a \in Assets |-> "none"]
    /\ slots = {}
    /\ operational = Tenants
    /\ req = [w \in Workers |-> Idle]
    /\ proved = {}
    /\ raced = {}

-----------------------------------------------------------------------------
(* Assets and the proof of their possession                                *)

Declared(a) == declared[a] = "yes"
IsOwnershipProven(a) == \E m \in Methods : proof[a][m] = "verified"

CreateAsset(a) ==
    /\ declared[a] = "not_yet"
    /\ declared' = [declared EXCEPT ![a] = "yes"]
    /\ UNCHANGED <<proof, row, slots, operational, req, proved, raced>>

\* delete_asset: the rows that refer to the asset go with it (CASCADE).  The same
\* value declared again would be another asset.
DeleteAsset(a) ==
    /\ MayDelete
    /\ Declared(a)
    /\ declared' = [declared EXCEPT ![a] = "deleted"]
    /\ proof' = [proof EXCEPT ![a] = NoProof]
    /\ row' = [row EXCEPT ![a] = "none"]
    /\ UNCHANGED <<slots, operational, req, proved, raced>>

\* A new attempt replaces the one of the same method; an email that cannot be
\* sent is recorded as a failure.
StartOwnershipProof(a, m) ==
    /\ Declared(a)
    /\ ~ IsOwnershipProven(a)
    /\ \E s \in {"pending"} \cup (IF m = "email" THEN {"failed"} ELSE {}) :
          proof' = [proof EXCEPT ![a][m] = s]
    /\ UNCHANGED <<declared, row, slots, operational, req, proved, raced>>

\* Any proof may be verified, one that already is included.  Saving a second
\* verified proof of an asset breaks the unique constraint, and changes nothing.
VerifyOwnershipProof(a, m) ==
    /\ proof[a][m] # "none"
    /\ \/ /\ \A n \in Methods \ {m} : proof[a][n] # "verified"
          /\ proof' = [proof EXCEPT ![a][m] = "verified"]
          /\ proved' = proved \cup {a}
       \/ /\ proof' = [proof EXCEPT ![a][m] = "failed"]
          /\ UNCHANGED proved
    /\ UNCHANGED <<declared, row, slots, operational, req, raced>>

\* A transition of the subscription (module Billing).
SubscriptionChanges(t) ==
    /\ operational' = IF t \in operational THEN operational \ {t} ELSE operational \cup {t}
    /\ UNCHANGED <<declared, proof, row, slots, req, proved, raced>>

-----------------------------------------------------------------------------
(* register_monitored_asset                                                *)

Active == {a \in Assets : row[a] = "active"}
ActiveOf(t) == {a \in Active : Owner[a] = t}

EnsureMonitoredAssetQuota(t) == Quota[t] = 0 \/ Cardinality(ActiveOf(t)) < Quota[t]
PoolCapacityRemaining == IF Cardinality(Active) < PoolSize THEN PoolSize - Cardinality(Active) ELSE 0

At(w, step) == req[w].pc = step
Goto(w, step) == req' = [req EXCEPT ![w].pc = step]
Done(w) == req' = [req EXCEPT ![w] = Idle]
OnlyRequests == UNCHANGED <<declared, proof, operational, proved>>
NoRace == UNCHANGED raced

\* The client and the domain of a that another request is working on.
Overlapping(w, a) ==
    LET others == {req[v].asset : v \in {x \in Workers \ {w} : ~ At(x, "idle")}}
    IN {Owner[a], Domain[a]} \cap ({Owner[b] : b \in others} \cup {Domain[b] : b \in others})

\* MonitoredAssetListCreateView: the asset is known, the plan allows it.
ViewAllows(a) == Declared(a) /\ Owner[a] \in operational /\ EnsureMonitoredAssetQuota(Owner[a])

\* Mutant: the proof of possession is not asked for.
AllowsUnproven(a) == row[a] # "active" /\ PoolCapacityRemaining > 0

\* The guards of register_monitored_asset.
ServiceAllows(a) == IsOwnershipProven(a) /\ row[a] # "active" /\ PoolCapacityRemaining > 0

\* The guards of the view, then those of the service, all before the provider
\* is called.
RegisterCheck(w, a) ==
    /\ At(w, "idle")
    /\ ViewAllows(a)
    /\ ServiceAllows(a)
    /\ req' = [req EXCEPT ![w] = [pc |-> "add", asset |-> a]]
    /\ raced' = raced \cup Overlapping(w, a)
    /\ UNCHANGED <<row, slots>> /\ OnlyRequests

\* account_add: the provider takes the domain, or refuses it (403) when its own
\* count of the slots, which is not ours, is at the limit of the licence.
ProviderAdd(w) ==
    /\ At(w, "add")
    /\ \/ slots' = slots \cup {Domain[req[w].asset]} /\ Goto(w, "create")
       \/ Done(w) /\ UNCHANGED slots
    /\ UNCHANGED row /\ OnlyRequests /\ NoRace

\* MonitoredAsset.create(): one row per asset and one per provider_ref, active
\* or not, else IntegrityError; the slot has been taken by then.
CreateRow(w) ==
    /\ At(w, "create")
    /\ LET a == req[w].asset
       IN IF Declared(a) /\ \A b \in Assets : Domain[b] = Domain[a] => row[b] = "none"
          THEN row' = [row EXCEPT ![a] = "active"]
          ELSE UNCHANGED row
    /\ Done(w)
    /\ UNCHANGED slots /\ OnlyRequests /\ NoRace

-----------------------------------------------------------------------------
(* unregister_monitored_asset                                              *)

UnregisterCheck(w, a) ==
    /\ At(w, "idle")
    /\ row[a] = "active"
    /\ req' = [req EXCEPT ![w] = [pc |-> "del", asset |-> a]]
    /\ raced' = raced \cup Overlapping(w, a)
    /\ UNCHANGED <<row, slots>> /\ OnlyRequests

ProviderDel(w) ==
    /\ At(w, "del")
    /\ slots' = slots \ {Domain[req[w].asset]}
    /\ Goto(w, "deactivate")
    /\ UNCHANGED row /\ OnlyRequests /\ NoRace

\* Mutant: the row stays active after the slot is given back.
DeactivateForgotten(w) ==
    /\ At(w, "deactivate")
    /\ Done(w)
    /\ UNCHANGED <<row, slots>> /\ OnlyRequests /\ NoRace

\* is_active = False, when the row is still there.
Deactivate(w) ==
    /\ At(w, "deactivate")
    /\ row' = [row EXCEPT ![req[w].asset] = IF @ = "none" THEN "none" ELSE "inactive"]
    /\ Done(w)
    /\ UNCHANGED slots /\ OnlyRequests /\ NoRace

\* The provider cannot be reached, or the process dies.
Die(w) ==
    /\ MayDie
    /\ ~ At(w, "idle")
    /\ Done(w)
    /\ raced' = raced \cup {Domain[req[w].asset]}
    /\ UNCHANGED <<row, slots>> /\ OnlyRequests

Request(w) ==
    \/ \E a \in Assets : RegisterCheck(w, a) \/ UnregisterCheck(w, a)
    \/ ProviderAdd(w) \/ CreateRow(w) \/ ProviderDel(w) \/ Deactivate(w) \/ Die(w)

Next ==
    \/ \E a \in Assets :
          \/ CreateAsset(a) \/ DeleteAsset(a)
          \/ \E m \in Methods : StartOwnershipProof(a, m) \/ VerifyOwnershipProof(a, m)
    \/ \E t \in Tenants : SubscriptionChanges(t)
    \/ \E w \in Workers : Request(w)

Spec == Init /\ [][Next]_vars

-----------------------------------------------------------------------------
\* The shape of the tables and of a request.
TypeOK ==
    /\ declared \in [Assets -> AssetStates]
    /\ proof \in [Assets -> [Methods -> ProofStates]]
    /\ row \in [Assets -> RowStates]
    /\ slots \in SUBSET Domains
    /\ operational \in SUBSET Tenants
    /\ req \in [Workers -> [pc : {"idle", "add", "create", "del", "deactivate"},
                            asset : Assets \cup {None}]]
    /\ \A w \in Workers : At(w, "idle") <=> req[w].asset = None
    /\ proved \in SUBSET Assets
    /\ raced \in SUBSET (Tenants \cup Domains)

\* A webhook names a domain only: whatever registrations race, the findings of a
\* domain have one client to go to (resolve_monitored_asset_by_provider_ref).
OneClientPerDomain ==
    \A a, b \in Active : Domain[a] = Domain[b] => a = b

\* However the requests interleave, an asset is monitored only if its possession
\* was proven at some time (ADR-026).
MonitoredWasProven == Active \subseteq proved

\* What is monitored was proven by the one client of its domain.
DomainsProven == OneClientPerDomain /\ MonitoredWasProven

\* A client that sees an asset as monitored is really monitored: an active row has
\* its slot at the provider, unless it is being unregistered, or requests about
\* its domain overlapped or died between the provider and the table.
ActiveHasSlot ==
    \A a \in Active :
        \/ Domain[a] \in slots \cup raced
        \/ \E w \in Workers : At(w, "deactivate") /\ req[w].asset = a

\* ensure_monitored_asset_quota is not checked again when the row is created; the
\* quota of a client holds as long as no two of his requests overlap.
QuotaRespected ==
    \A t \in Tenants \ raced : Quota[t] # 0 => Cardinality(ActiveOf(t)) <= Quota[t]

\* The rows agree with the provider's slots and with the client's quota, but for the
\* requests that overlapped.
SlotsKept == TypeOK /\ ActiveHasSlot /\ QuotaRespected

-----------------------------------------------------------------------------
(* Values of the constants for TLC: two clients have declared the same     *)
(* domain d (a1, b1), and the first has a second domain (a2).              *)
OwnerOf == [a \in Assets |-> IF a = "b1" THEN "tb" ELSE "ta"]
DomainOf == [a \in Assets |-> IF a = "a2" THEN "e" ELSE "d"]
QuotaOne == [t \in Tenants |-> IF t = "ta" THEN 1 ELSE 0]
WorkerSymmetry == Permutations(Workers)
=============================================================================
