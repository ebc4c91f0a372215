------------------------------- MODULE Clients -------------------------------
(***************************************************************************)
(* The companies of the platform and their members: registration, the      *)
(* console's creation, renaming, trash, deletion, and the management of    *)
(* members (tenants/services.py, and the console views that call it).      *)
(*                                                                         *)
(* No guard takes a lock: inviting, demoting or removing a member are a    *)
(* read that decides and a write that comes later.  What is done to a      *)
(* company itself starts from the copy the view has loaded: its tests look *)
(* at the copy, and the sheet is saved whole, the trash's columns          *)
(* included.  Each of these is a step of a console session here, and the   *)
(* steps of another may fall between them.                                 *)
(***************************************************************************)
EXTENDS Naturals, FiniteSets

CONSTANTS
    Tenants,    \* companies
    Names,      \* names a company can have (compared without case)
    Users,      \* accounts
    Sessions,   \* console requests served at the same time
    MaxUsers    \* MaxUsers[t]: max_users_quota of its offer; 0 means no limit

VARIABLES
    tenant,     \* tenant[t]: "none" (never created or deleted), "live", "archived"
    name,       \* name[t]: its name, NoName when it does not exist
    role,       \* role[t][u]: the role of a membership, or "none"
    sub,        \* sub[t]: "none", "on" (trial or active), "off" (suspended, cancelled, expired)
    req,        \* req[s]: the request a console session has checked and not yet written
    causes      \* history: what has happened that the guards do not cover

vars == <<tenant, name, role, sub, req, causes>>

Role == {"admin", "reader"}

Causes == {"overtaken", "unchecked_name", "restored_name", "revived"}

Idle == [op |-> "idle"]

Requests ==
    {Idle}
      \cup [op : {"loaded"}, t : Tenants, n : Names, held : {"live", "archived"}, fresh : BOOLEAN]
      \cup [op : {"sheet"}, t : Tenants, n : Names, held : {"live", "archived"}, fresh : BOOLEAN]
      \cup [op : {"archive"}, t : Tenants, on : BOOLEAN, fresh : BOOLEAN]
      \cup [op : {"create"}, t : Tenants, n : Names, u : Users, fresh : BOOLEAN]
      \cup [op : {"role"}, t : Tenants, u : Users, r : Role, fresh : BOOLEAN]
      \cup [op : {"invite"}, t : Tenants, u : Users, r : Role, fresh : BOOLEAN]
      \cup [op : {"remove"}, t : Tenants, u : Users, fresh : BOOLEAN]

NoName == "-"

NobodyIn == [u \in Users |-> "none"]

Members(t) == {u \in Users : role[t][u] # "none"}

Admins(t) == {u \in Users : role[t][u] = "admin"}

Init ==
    /\ tenant = [t \in Tenants |-> "none"]
    /\ name = [t \in Tenants |-> NoName]
    /\ role = [t \in Tenants |-> NobodyIn]
    /\ sub = [t \in Tenants |-> "none"]
    /\ req = [s \in Sessions |-> Idle]
    /\ causes = {}

(* A committed write to company t makes the other requests about it stale, *)
(* and those that have compared a name with the names of the others.       *)
Stale(x, t) == [req[x] EXCEPT !.fresh = @ /\ req[x].t # t /\ req[x].op \notin {"create", "sheet"}]

OvertakeAll(t) ==
    req' = [x \in Sessions |-> IF req[x] = Idle THEN Idle ELSE Stale(x, t)]

Overtake(s) ==
    req' = [x \in Sessions |-> IF x = s \/ req[x] = Idle THEN Idle ELSE Stale(x, req[s].t)]

Blame(s) == IF req[s].fresh THEN {} ELSE {"overtaken"}

(* Tenant.objects.filter(name__iexact=..., archived_at__isnull=True) *)
NameTaken(n, but) == \E x \in Tenants \ {but} : tenant[x] = "live" /\ name[x] = n

\* Mutant: the last member is protected, not the last administrator.
LastAdminLoose(t, u) == role[t][u] = "admin" /\ Members(t) \ {u} = {}

(* _is_last_admin counts memberships, whatever the state of the account *)
IsLastAdmin(t, u) == role[t][u] = "admin" /\ Admins(t) \ {u} = {}

(* ensure_user_quota: a subscription must exist, operational or not *)
QuotaAllows(t) ==
    /\ sub[t] # "none"
    /\ MaxUsers[t] = 0 \/ Cardinality(Members(t)) + 1 =< MaxUsers[t]

-----------------------------------------------------------------------------
(* Creation.  create_tenant_with_owner (registration, and the conversion   *)
(* of a demonstration request) keeps a company without a subscription when *)
(* the catalogue has no offer; a refusal for lack of capacity rolls        *)
(* everything back and is no step here.                                    *)

CreateTenantWithOwner(t, n, u, s0) ==
    /\ tenant[t] = "none"
    /\ tenant' = [tenant EXCEPT ![t] = "live"]
    /\ name' = [name EXCEPT ![t] = n]
    /\ role' = [role EXCEPT ![t] = [NobodyIn EXCEPT ![u] = "admin"]]
    /\ sub' = [sub EXCEPT ![t] = s0]
    /\ OvertakeAll(t)

(* RegisterSerializer.create: no check on the company's name *)
Register(t, n, u) ==
    /\ \E s0 \in {"on", "none"} : CreateTenantWithOwner(t, n, u, s0)
    /\ causes' = causes \cup {"unchecked_name"}

(* AdminDemoRequestConvertView: exact name, archived companies included *)
ConvertDemoRequest(t, n, u) ==
    /\ \A x \in Tenants : tenant[x] # "none" => name[x] # n
    /\ \E s0 \in {"on", "none"} : CreateTenantWithOwner(t, n, u, s0)
    /\ UNCHANGED causes

BeginCreateClient(s, t, n, u) ==
    /\ req[s] = Idle
    /\ tenant[t] = "none"
    /\ ~NameTaken(n, t)
    /\ req' = [req EXCEPT ![s] = [op |-> "create", t |-> t, n |-> n, u |-> u, fresh |-> TRUE]]
    /\ UNCHANGED <<tenant, name, role, sub, causes>>

(* create_client: company, first administrator, trial or active subscription, invitation: one transaction *)
CreateClient(s) ==
    /\ req[s].op = "create"
    /\ LET t == req[s].t IN
       /\ tenant[t] = "none"
       /\ tenant' = [tenant EXCEPT ![t] = "live"]
       /\ name' = [name EXCEPT ![t] = req[s].n]
       /\ role' = [role EXCEPT ![t] = [NobodyIn EXCEPT ![req[s].u] = "admin"]]
       /\ sub' = [sub EXCEPT ![t] = "on"]
    /\ causes' = causes \cup Blame(s)
    /\ Overtake(s)

-----------------------------------------------------------------------------
(* The company's sheet and the trash. *)

Forget(s) == req' = [req EXCEPT ![s] = Idle]

(* get_object_or_404: what follows looks at this copy, the name and the    *)
(* date of archiving that it holds                                         *)
LoadTenant(s, t) ==
    /\ req[s] = Idle
    /\ tenant[t] # "none"
    /\ req' = [req EXCEPT ![s] = [op |-> "loaded", t |-> t, n |-> name[t], held |-> tenant[t],
                                 fresh |-> TRUE]]
    /\ UNCHANGED <<tenant, name, role, sub, causes>>

(* update_tenant: a new name is compared with those of the living companies; *)
(* a sheet that keeps its name is not                                        *)
CheckSheet(s, n) ==
    /\ req[s].op = "loaded"
    /\ IF n # req[s].n /\ NameTaken(n, req[s].t) THEN Forget(s)
       ELSE req' = [req EXCEPT ![s].op = "sheet", ![s].n = n]
    /\ UNCHANGED <<tenant, name, role, sub, causes>>

(* tenant.save() writes every column of the copy, archived_at and is_active *)
(* among them; the row of a company deleted meanwhile is inserted again,    *)
(* unless its slug was taken                                                *)
UpdateTenant(s) ==
    /\ req[s].op = "sheet"
    /\ \/ /\ tenant' = [tenant EXCEPT ![req[s].t] = req[s].held]
          /\ name' = [name EXCEPT ![req[s].t] = req[s].n]
          /\ causes' = causes \cup Blame(s)
          /\ Overtake(s)
       \/ /\ tenant[req[s].t] = "none"
          /\ Forget(s)
          /\ UNCHANGED <<tenant, name, causes>>
    /\ UNCHANGED <<role, sub>>

(* archive_tenant does nothing to a copy that is archived; it reads the    *)
(* subscription ...                                                        *)
ReadSubscription(s) ==
    /\ req[s].op = "loaded"
    /\ IF req[s].held = "archived" THEN Forget(s)
       ELSE req' = [req EXCEPT ![s] = [op |-> "archive", t |-> req[s].t, on |-> sub[req[s].t] = "on",
                                       fresh |-> req[s].fresh]]
    /\ UNCHANGED <<tenant, name, role, sub, causes>>

(* ... and cancels an operational one in the transaction that archives; the *)
(* UPDATE of a company that is gone fails                                   *)
ArchiveTenant(s) ==
    /\ req[s].op = "archive"
    /\ IF tenant[req[s].t] = "none" THEN Forget(s) /\ UNCHANGED <<tenant, sub, causes>>
       ELSE /\ tenant' = [tenant EXCEPT ![req[s].t] = "archived"]
            /\ sub' = [sub EXCEPT ![req[s].t] = IF req[s].on THEN "off" ELSE @]
            /\ causes' = causes \cup Blame(s)
            /\ Overtake(s)
    /\ UNCHANGED <<name, role>>

(* restore_tenant: the subscription stays cancelled, and the name is not checked again *)
RestoreTenant(s) ==
    /\ req[s].op = "loaded"
    /\ IF req[s].held = "live" \/ tenant[req[s].t] = "none"
       THEN Forget(s) /\ UNCHANGED <<tenant, causes>>
       ELSE /\ tenant' = [tenant EXCEPT ![req[s].t] = "live"]
            /\ causes' = causes \cup Blame(s)
                 \cup (IF NameTaken(name[req[s].t], req[s].t) THEN {"restored_name"} ELSE {})
            /\ Overtake(s)
    /\ UNCHANGED <<name, role, sub>>

Destroy(s) ==
    /\ tenant' = [tenant EXCEPT ![req[s].t] = "none"]
    /\ name' = [name EXCEPT ![req[s].t] = NoName]
    /\ role' = [role EXCEPT ![req[s].t] = NobodyIn]
    /\ sub' = [sub EXCEPT ![req[s].t] = "none"]
    /\ causes' = causes \cup Blame(s)
    /\ Overtake(s)

\* Mutant: the copy may be of a living company.
DestroyAtOnce(s) == req[s].op = "loaded" /\ Destroy(s)

(* delete_tenant_permanently: the copy must be archived; memberships and    *)
(* subscription go with the row, whatever it has become                     *)
DeleteTenantPermanently(s) ==
    /\ req[s].op = "loaded"
    /\ IF req[s].held = "live" THEN Forget(s) /\ UNCHANGED <<tenant, name, role, sub, causes>>
       ELSE Destroy(s)

(* AdminSubscriptionActionView: activate, suspend, cancel.  The view looks *)
(* the company up among all of them, those of the trash included.          *)
SubscriptionAction(t) ==
    /\ sub[t] # "none"
    /\ \E new \in {"on", "off"} :
         /\ sub' = [sub EXCEPT ![t] = new]
         /\ causes' = causes \cup
              (IF tenant[t] = "archived" /\ new = "on" THEN {"revived"} ELSE {})
    /\ OvertakeAll(t)
    /\ UNCHANGED <<tenant, name, role>>

-----------------------------------------------------------------------------
(* Members. *)

(* invite_member: quota first, then the membership must not exist *)
BeginInviteMember(s, t, u, r) ==
    /\ req[s] = Idle
    /\ tenant[t] # "none"
    /\ QuotaAllows(t)
    /\ role[t][u] = "none"
    /\ req' = [req EXCEPT ![s] = [op |-> "invite", t |-> t, u |-> u, r |-> r, fresh |-> TRUE]]
    /\ UNCHANGED <<tenant, name, role, sub, causes>>

(* the unique constraint (tenant, user) refuses the second of two invitations *)
InviteMember(s) ==
    /\ req[s].op = "invite"
    /\ IF tenant[req[s].t] # "none" /\ role[req[s].t][req[s].u] = "none"
       THEN /\ role' = [role EXCEPT ![req[s].t][req[s].u] = req[s].r]
            /\ causes' = causes \cup Blame(s)
            /\ Overtake(s)
       ELSE /\ req' = [req EXCEPT ![s] = Idle]
            /\ UNCHANGED <<role, causes>>
    /\ UNCHANGED <<tenant, name, sub>>

BeginChangeMemberRole(s, t, u, r) ==
    /\ req[s] = Idle
    /\ role[t][u] \notin {"none", r}
    /\ r = "admin" \/ ~IsLastAdmin(t, u)
    /\ req' = [req EXCEPT ![s] = [op |-> "role", t |-> t, u |-> u, r |-> r, fresh |-> TRUE]]
    /\ UNCHANGED <<tenant, name, role, sub, causes>>

(* membership.save(update_fields=["role"]): an UPDATE that finds no row fails and changes nothing *)
ChangeMemberRole(s) ==
    /\ req[s].op = "role"
    /\ IF role[req[s].t][req[s].u] # "none"
       THEN /\ role' = [role EXCEPT ![req[s].t][req[s].u] = req[s].r]
            /\ causes' = causes \cup Blame(s)
            /\ Overtake(s)
       ELSE /\ req' = [req EXCEPT ![s] = Idle]
            /\ UNCHANGED <<role, causes>>
    /\ UNCHANGED <<tenant, name, sub>>

BeginRemoveMember(s, t, u) ==
    /\ req[s] = Idle
    /\ role[t][u] # "none"
    /\ ~IsLastAdmin(t, u)
    /\ req' = [req EXCEPT ![s] = [op |-> "remove", t |-> t, u |-> u, fresh |-> TRUE]]
    /\ UNCHANGED <<tenant, name, role, sub, causes>>

RemoveMember(s) ==
    /\ req[s].op = "remove"
    /\ role' = [role EXCEPT ![req[s].t][req[s].u] = "none"]
    /\ causes' = causes \cup Blame(s)
    /\ Overtake(s)
    /\ UNCHANGED <<tenant, name, sub>>

Next ==
    \/ \E t \in Tenants, n \in Names, u \in Users :
         \/ Register(t, n, u)
         \/ ConvertDemoRequest(t, n, u)
         \/ \E s \in Sessions : BeginCreateClient(s, t, n, u)
    \/ \E s \in Sessions, t \in Tenants : LoadTenant(s, t)
    \/ \E s \in Sessions, n \in Names : CheckSheet(s, n)
    \/ \E s \in Sessions, t \in Tenants, u \in Users, r \in Role :
         BeginInviteMember(s, t, u, r) \/ BeginChangeMemberRole(s, t, u, r)
    \/ \E s \in Sessions, t \in Tenants, u \in Users : BeginRemoveMember(s, t, u)
    \/ \E s \in Sessions : \/ CreateClient(s) \/ UpdateTenant(s) \/ InviteMember(s)
                           \/ ChangeMemberRole(s) \/ RemoveMember(s)
                           \/ ReadSubscription(s) \/ ArchiveTenant(s) \/ RestoreTenant(s)
                           \/ DeleteTenantPermanently(s)
    \/ \E t \in Tenants : SubscriptionAction(t)

Spec == Init /\ [][Next]_vars

-----------------------------------------------------------------------------
(* Every variable keeps its type; a company that does not exist has neither members nor a subscription. *)
TypeOK ==
    /\ tenant \in [Tenants -> {"none", "live", "archived"}]
    /\ name \in [Tenants -> Names \cup {NoName}]
    /\ role \in [Tenants -> [Users -> Role \cup {"none"}]]
    /\ sub \in [Tenants -> {"none", "on", "off"}]
    /\ req \in [Sessions -> Requests]
    /\ causes \subseteq Causes
    /\ \A t \in Tenants : tenant[t] = "none" => Members(t) = {} /\ sub[t] = "none"

(* A company keeps an administrator through any sequence of demotions,     *)
(* removals, archiving and restoring ("Un client sans administrateur ne    *)
(* peut plus gerer ses propres acces"): only a request about this company  *)
(* that another one overtook can leave it without one, or bring back       *)
(* without its members a company that was deleted.                         *)
AdminUnlessOvertaken ==
    "overtaken" \notin causes => \A t \in Tenants : tenant[t] # "none" => Admins(t) # {}

(* The console never gives two living companies one name: two of them      *)
(* share it only after a registration (which does not look), a restoration *)
(* (which does not look again), or a request overtaken by another one.     *)
NamesDistinctUnless ==
    causes \cap {"overtaken", "unchecked_name", "restored_name"} = {} =>
        \A t, x \in Tenants :
            t # x /\ tenant[t] = "live" /\ tenant[x] = "live" => name[t] # name[x]

(* Invitations never take a company past the users its offer includes,     *)
(* unless another request about this company fell between count and write. *)
UsersWithinQuota ==
    "overtaken" \notin causes =>
        \A t \in Tenants : MaxUsers[t] > 0 => Cardinality(Members(t)) =< MaxUsers[t]

(* A company of the trash holds no slot of the shared pool, unless the     *)
(* console activated the subscription of an archived company, or a request *)
(* worked on a copy or a subscription that another one changed: an edit    *)
(* that undoes a restoration, an archiving that did not see an activation. *)
TrashHoldsNothing ==
    causes \cap {"overtaken", "revived"} = {} =>
        \A t \in Tenants : tenant[t] = "archived" => sub[t] # "on"

(* "on ne detruit jamais des donnees en un seul geste": a living company   *)
(* is destroyed, or leaves or enters the trash by an edit of its sheet,    *)
(* only when the request held a copy that another one has changed since;   *)
(* it leaves the trash with the subscription it had.                       *)
NeverDestroyedAlive ==
    [][\A t \in Tenants :
         /\ tenant[t] = "live" /\ tenant'[t] = "none" => "overtaken" \in causes'
         /\ tenant[t] # "none" /\ tenant'[t] # tenant[t] /\ (\E s \in Sessions : UpdateTenant(s))
              => "overtaken" \in causes'
         /\ tenant[t] = "archived" /\ tenant'[t] = "live" => sub'[t] = sub[t]]_vars
=============================================================================
