----------------------------- MODULE AccessLinks -----------------------------
(***************************************************************************)
(* The links by which a person chooses a password: first connection and    *)
(* reset (accounts/services.py, accounts/models.py AccessInvitation), for  *)
(* one account.  Issuing is an UPDATE that ends the earlier links and an   *)
(* INSERT; accepting reads the link, saves the account, then saves the     *)
(* link: four separate commits that other requests fall between.           *)
(***************************************************************************)
EXTENDS Naturals, FiniteSets

CONSTANTS
    Links,      \* identities of links
    Handlers    \* requests served at the same time

Purposes == {"invitation", "reset"}

VARIABLES
    link,       \* link[l]: its purpose and its state
    active,     \* is_active of the account
    work,       \* work[h]: what a request still has to write
    uses,       \* history: uses[l], passwords chosen through l: none, one, more
    late,       \* history: the links created after another one their UPDATE had not seen
    excused     \* history: the links two requests held together, or whose end was not written

vars == <<link, active, work, uses, late, excused>>

NoLink == [purpose |-> "none", state |-> "none"]

Free == [op |-> "free"]

Init ==
    /\ link = [l \in Links |-> NoLink]
    /\ active = FALSE
    /\ work = [h \in Handlers |-> Free]
    /\ uses = [l \in Links |-> 0]
    /\ late = {}
    /\ excused = {}

Ended(p) == [l \in Links |-> IF link[l].purpose = p THEN [link[l] EXCEPT !.state = "used"] ELSE link[l]]

(* create_access_invitation, first commit: every unused link of this purpose is ended *)
InvalidateEarlier(h, p) ==
    /\ work[h] = Free
    /\ link' = Ended(p)
    /\ work' = [work EXCEPT ![h] = [op |-> "issue", purpose |-> p, seen |-> {l \in Links : link[l].purpose = p}]]
    /\ UNCHANGED <<active, uses, late, excused>>

(* second commit; INVITATION_TTL_HOURS or RESET_TTL_HOURS from now *)
CreateLink(h, l) ==
    /\ work[h].op = "issue"
    /\ link[l] = NoLink
    /\ link' = [link EXCEPT ![l] = [purpose |-> work[h].purpose, state |-> "usable"]]
    /\ late' = IF \E x \in Links \ work[h].seen : link[x].purpose = work[h].purpose
               THEN late \cup {l} ELSE late
    /\ work' = [work EXCEPT ![h] = Free]
    /\ UNCHANGED <<active, uses, excused>>

(* is_usable compares expires_at with the clock *)
Expire(l) ==
    /\ link[l].state = "usable"
    /\ link' = [link EXCEPT ![l].state = "expired"]
    /\ UNCHANGED <<active, work, uses, late, excused>>

IsUsable(l) == link[l].state = "usable"

(* accept_access_invitation: resolve_access_invitation loads the link *)
Resolve(h, l) ==
    /\ work[h] = Free
    /\ IsUsable(l)
    /\ work' = [work EXCEPT ![h] = [op |-> "accept", l |-> l]]
    /\ excused' = IF \E x \in Handlers : work[x].op \in {"accept", "mark"} /\ work[x].l = l
                  THEN excused \cup {l} ELSE excused
    /\ UNCHANGED <<link, active, uses, late>>

(* the password and is_active are saved whatever has become of the link *)
SetPassword(h) ==
    /\ work[h].op = "accept"
    /\ active' = TRUE
    /\ uses' = [uses EXCEPT ![work[h].l] = IF @ = 0 THEN 1 ELSE 2]
    /\ work' = [work EXCEPT ![h].op = "mark"]
    /\ UNCHANGED <<link, late, excused>>

MarkUsed(h) ==
    /\ work[h].op = "mark"
    /\ link' = [link EXCEPT ![work[h].l].state = "used"]
    /\ work' = [work EXCEPT ![h] = Free]
    /\ UNCHANGED <<active, uses, late, excused>>

Die(h) ==
    /\ work[h] # Free
    /\ excused' = IF work[h].op = "mark" THEN excused \cup {work[h].l} ELSE excused
    /\ work' = [work EXCEPT ![h] = Free]
    /\ UNCHANGED <<link, active, uses, late>>

(* set_member_active: the account, not its links *)
SetMemberActive ==
    /\ active' = ~active
    /\ UNCHANGED <<link, work, uses, late, excused>>

Next ==
    \/ \E h \in Handlers :
         \/ \E p \in Purposes : InvalidateEarlier(h, p)
         \/ \E l \in Links : CreateLink(h, l) \/ Resolve(h, l)
         \/ SetPassword(h) \/ MarkUsed(h) \/ Die(h)
    \/ \E l \in Links : Expire(l)
    \/ SetMemberActive

Spec == Init /\ [][Next]_vars

-----------------------------------------------------------------------------
(* Every variable keeps its type. *)
TypeOK ==
    /\ link \in [Links -> {NoLink} \cup [purpose : Purposes, state : {"usable", "expired", "used"}]]
    /\ active \in BOOLEAN
    /\ \A h \in Handlers :
         \/ work[h] = Free
         \/ work[h] \in [op : {"issue"}, purpose : Purposes, seen : SUBSET Links]
         \/ work[h] \in [op : {"accept", "mark"}, l : Links] /\ link[work[h].l] # NoLink
    /\ uses \in [Links -> 0..2]
    /\ late \cup excused \subseteq Links

(* An account has at most one living link of each purpose; a link that is  *)
(* alive beside another was created between the two commits of its issue.  *)
OneLivingLink ==
    \A p \in Purposes :
        Cardinality({l \in Links \ late : link[l].purpose = p /\ IsUsable(l)}) =< 1

(* A link serves once: a second password is chosen through it only when    *)
(* two requests had loaded it, or when a request died before ending it.    *)
LinkServesOnce == \A l \in Links \ excused : uses[l] =< 1
=============================================================================
