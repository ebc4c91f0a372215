------------------------------- MODULE Console -------------------------------
(***************************************************************************)
(* The requests of the platform console: who may send one, what it writes, *)
(* and what it leaves in the audit journal (platform_admin/console_views,  *)
(* views, services, permissions).                                          *)
(*                                                                         *)
(* The console runs without ATOMIC_REQUESTS: a view is a sequence of       *)
(* separately committed writes, any of which the service may refuse, and   *)
(* the audit row is one more write, the last or nearly.  Each view is the  *)
(* sequence of its commits:                                                *)
(*     Try      a write the called service may refuse (the view answers    *)
(*              402, 409 or 422 and ends)                                  *)
(*     Do       a write that is not refused                                *)
(*     Log      the audit row                                              *)
(*     LogDiff  the audit row, only if the fields compared before and      *)
(*              after differ                                               *)
(* What the writes do to clients, subscriptions or referentials is the     *)
(* business of the other modules; only the levels of the platform's own    *)
(* administrators are state here.                                          *)
(***************************************************************************)
EXTENDS Naturals, Sequences, FiniteSets

CONSTANTS
    Admins,     \* accounts that are, or may become, administrators of the platform
    Sessions    \* console requests served at the same time

Try == "try"
Do == "do"
Log == "log"
LogDiff == "logdiff"

(* the members' sheet: each change is followed by its own row *)
MemberPatch == <<Try, Log, Try, Log>>

(* deadline, notes, negotiated quotas and period, in this order, then one comparison *)
SubscriptionPatch == <<Try, Do, Try, Do, LogDiff>>

(* the account is created before the company, which capacity may refuse *)
DemoConvert == <<Do, Try, Do, Log>>

ClientCreate == <<Try, Log>>
ClientPatch == <<Try, LogDiff>>
ClientDelete == <<Try, Log>>
ClientArchive == <<Do, Log>>
MemberInvite == <<Try, Log>>
MemberDelete == <<Try, Log>>
PasswordReset == <<Do, Do, Log>>
FeaturesPut == <<Try, LogDiff>>
FeaturesDelete == <<Do, LogDiff>>
MonitoredAdd == <<Try, Log>>
MonitoredRemove == <<Do, Log>>
ActionOnData == <<Do, Try, Log>>
PlanCreate == <<Try, Log>>
PlanPatch == <<Do, LogDiff>>
PlanDuplicate == <<Try, Log>>
PlanDelete == <<Try, Log>>
SubscriptionAction == <<Try, Log>>
NotesPatch == <<Do>>
DemoPatch == <<Do, Log>>
AccessRequestHandle == <<Try, Do, Log>>
SettingPatch == <<Try, Log>>
SettingReset == <<Do, Log>>
Export == <<Log>>
ReferentialCreate == <<Try, Do, Log>>
ReferentialImport == <<Try, Log>>
ReferentialDomain == <<Try, Log>>
ReferentialMeasure == <<Try, Log>>
ReferentialSubset == <<Try, Log>>
OverridePut == <<Do, Log>>
OverrideDelete == <<Do, Log>>
ReferentialAssign == <<Try, Log>>
ReferentialRevoke == <<Do, Log>>
CourseAssign == <<Do, Log>>
CourseRevoke == <<Do, Log>>

(* invite_platform_admin saves the account, its level and its link one after the other *)
AdminInvite == <<Do, Do, Do, Log>>
AdminLevel == <<Try, Log>>
AdminRevoke == <<Try, Do, Log>>

ProspectCreate == <<Try, Log>>
ProspectPatch == <<Try, LogDiff>>
ProspectNote == <<Try, Log>>

(* the prospects are the one domain a commercial may write to *)
ForCommercials ==
    [prospect_create |-> ProspectCreate, prospect_patch |-> ProspectPatch,
     prospect_note |-> ProspectNote, export |-> Export]

ForStaff ==
    [admin_invite |-> AdminInvite, admin_level |-> AdminLevel, admin_revoke |-> AdminRevoke,
     member_off |-> MemberPatch]

ForFull ==
    [client_create |-> ClientCreate, client_patch |-> ClientPatch, client_delete |-> ClientDelete,
     client_archive |-> ClientArchive, member_invite |-> MemberInvite,
     member_delete |-> MemberDelete, password_reset |-> PasswordReset,
     subscription_patch |-> SubscriptionPatch, features_put |-> FeaturesPut,
     features_delete |-> FeaturesDelete, monitored_add |-> MonitoredAdd,
     monitored_remove |-> MonitoredRemove, action_on_data |-> ActionOnData,
     plan_create |-> PlanCreate, plan_patch |-> PlanPatch, plan_duplicate |-> PlanDuplicate,
     plan_delete |-> PlanDelete, subscription_action |-> SubscriptionAction,
     notes_patch |-> NotesPatch, demo_patch |-> DemoPatch, demo_convert |-> DemoConvert,
     access_request |-> AccessRequestHandle, setting_patch |-> SettingPatch,
     setting_reset |-> SettingReset, referential_create |-> ReferentialCreate,
     referential_import |-> ReferentialImport, referential_domain |-> ReferentialDomain,
     referential_measure |-> ReferentialMeasure, referential_subset |-> ReferentialSubset,
     override_put |-> OverridePut, override_delete |-> OverrideDelete,
     referential_assign |-> ReferentialAssign, referential_revoke |-> ReferentialRevoke,
     course_assign |-> CourseAssign, course_revoke |-> CourseRevoke]

Staff == DOMAIN ForStaff

Views == DOMAIN ForCommercials \cup Staff \cup DOMAIN ForFull

Commits(v) == IF v \in DOMAIN ForCommercials THEN ForCommercials[v]
              ELSE IF v \in Staff THEN ForStaff[v] ELSE ForFull[v]

VARIABLES
    level,    \* level[a]: "none" (not is_staff), "commercial" or "full"
    off,      \* the accounts whose is_active is false
    req,      \* req[s]: the request a session is serving
    silent,   \* history: the request that has just ended, if it changed something and left no row
    cause,    \* history: the view that left the console without a full administrator
    wanted    \* history: the accounts somebody wanted to be full administrators, or whose
              \* invitation ended half way

vars == <<level, off, req, silent, cause, wanted>>

Levels == {"none", "commercial", "full"}

Idle == [view |-> "idle"]

Nothing == <<"nothing", "nothing">>

FullAdmins == {a \in Admins : level[a] = "full"} \ off

Init ==
    /\ level \in [Admins -> Levels]
    /\ off = {}
    /\ FullAdmins # {}
    /\ req = [s \in Sessions |-> Idle]
    /\ silent = Nothing
    /\ cause = "none"
    /\ wanted = {a \in Admins : level[a] = "full"}

-----------------------------------------------------------------------------
(* admin_level, IsPlatformAdmin and IsFullPlatformAdmin: read once, when the request comes in *)
MayWrite(a, v) ==
    /\ a \notin off
    /\ IF v \in DOMAIN ForCommercials THEN level[a] # "none" ELSE level[a] = "full"

(* _count_full_admins counts the active ones *)
LastFull(b) == FullAdmins \ {b} = {}

\* Mutant: lowering somebody's level looks at nobody.
StaffAllowsLastFull(a, v, b, l) ==
    /\ v = "admin_level" => level[b] # "none"
    /\ v = "admin_revoke" => a # b /\ level[b] # "none" /\ ~LastFull(b)
    /\ v = "member_off" => b \notin off

(* change_admin_level and revoke_platform_admin refuse oneself and the     *)
(* last full administrator; an invitation and the deactivation of a member *)
(* refuse neither.                                                         *)
StaffAllows(a, v, b, l) ==
    /\ v = "admin_level" => a # b /\ level[b] # "none" /\ (l = "full" \/ ~LastFull(b))
    /\ v = "admin_revoke" => a # b /\ level[b] # "none" /\ ~LastFull(b)
    /\ v = "member_off" => b \notin off

Begin(s, a, v, b, l) ==
    /\ req[s] = Idle
    /\ MayWrite(a, v)
    /\ v \in Staff => StaffAllows(a, v, b, l)
    /\ v \notin Staff => b = a /\ l = "full"
    /\ req' = [req EXCEPT ![s] = [view |-> v, on |-> b, to |-> l, at |-> 1, dirty |-> FALSE,
                                  fresh |-> TRUE]]
    /\ wanted' = IF v \in Staff /\ l = "full" THEN wanted \cup {b} ELSE wanted
    /\ silent' = Nothing
    /\ UNCHANGED <<level, off, cause>>

(* What a commit of a staff request does to the administrators.  An        *)
(* account that becomes staff has no profile until the next commit, and a  *)
(* staff account without a profile is a full administrator.                *)
Effect(s) ==
    LET v == req[s].view
        b == req[s].on
        n == req[s].at
        done == /\ level' = [level EXCEPT ![b] =
                      CASE v = "admin_invite" /\ n = 1 -> IF @ = "none" THEN "full" ELSE @
                        [] v = "admin_invite" /\ n = 2 -> req[s].to
                        [] v = "admin_level" -> req[s].to
                        [] v = "admin_revoke" -> "none"
                        [] OTHER -> @]
                /\ off' = IF v = "member_off" /\ n = 3 THEN off \cup {b} ELSE off
    IN /\ IF v \in Staff THEN done ELSE UNCHANGED <<level, off>>
       /\ cause' = IF FullAdmins' # {} THEN "none"
                   ELSE IF FullAdmins = {} THEN cause
                   ELSE IF req[s].fresh THEN v ELSE "overtaken"

Advance(s, dirty) ==
    req' = [x \in Sessions |->
              IF x = s THEN [req[s] EXCEPT !.at = @ + 1, !.dirty = dirty]
              ELSE IF req[x] = Idle \/ (level' = level /\ off' = off) THEN req[x]
              ELSE [req[x] EXCEPT !.fresh = FALSE]]

Now(s) == Commits(req[s].view)[req[s].at]

Running(s) == req[s] # Idle /\ req[s].at =< Len(Commits(req[s].view))

(* a write is committed; a service that finds nothing to change, or is not asked to, changes nothing *)
Write(s) ==
    /\ Running(s)
    /\ Now(s) \in {Try, Do}
    /\ \E changes \in (IF req[s].view \in Staff \ {"member_off"} THEN {TRUE} ELSE BOOLEAN) :
         /\ IF changes THEN Effect(s) ELSE UNCHANGED <<level, off, cause>>
         /\ Advance(s, req[s].dirty \/ changes)
    /\ UNCHANGED <<silent, wanted>>

End(s, how) ==
    /\ req' = [req EXCEPT ![s] = Idle]
    /\ silent' = IF req[s].dirty THEN <<req[s].view, how>> ELSE Nothing
    /\ wanted' = IF how = "died" /\ req[s].view = "admin_invite"
                 THEN wanted \cup {req[s].on} ELSE wanted
    /\ UNCHANGED <<level, off, cause>>

Refuse(s) ==
    /\ Running(s)
    /\ Now(s) = Try
    /\ End(s, "refused")

(* record_admin_action *)
Audit(s) ==
    /\ Running(s)
    /\ Now(s) \in {Log, LogDiff}
    /\ UNCHANGED <<level, off, cause, silent, wanted>>
    /\ Advance(s, FALSE)

(* diff_fields finds no difference: nothing was changed, or the compared   *)
(* fields do not show it (a composition equal to the offer's leaves the    *)
(* effective features as they were).                                       *)
NoDifference(s) ==
    /\ Running(s)
    /\ Now(s) = LogDiff
    /\ req[s].dirty => req[s].view \in {"features_put", "features_delete"}
    /\ End(s, "unseen")

Answer(s) ==
    /\ req[s] # Idle
    /\ ~Running(s)
    /\ End(s, "never")

(* the process dies, a broker or a mail server answers with an error *)
Die(s) ==
    /\ Running(s)
    /\ End(s, "died")

Next ==
    \E s \in Sessions :
        \/ \E a \in Admins, v \in Views, b \in Admins, l \in {"commercial", "full"} :
             Begin(s, a, v, b, l)
        \/ Write(s) \/ Refuse(s) \/ Audit(s) \/ NoDifference(s) \/ Answer(s) \/ Die(s)

Spec == Init /\ [][Next]_vars

-----------------------------------------------------------------------------
(* Every variable keeps its type. *)
TypeOK ==
    /\ level \in [Admins -> Levels]
    /\ off \subseteq Admins
    /\ \A s \in Sessions :
         \/ req[s] = Idle
         \/ /\ req[s] \in [view : Views, on : Admins, to : Levels, at : 1..6,
                           dirty : BOOLEAN, fresh : BOOLEAN]
            /\ req[s].at =< Len(Commits(req[s].view)) + 1
    /\ cause \in Staff \cup {"none", "overtaken"}
    /\ wanted \subseteq Admins

(* "les administrateurs plateforme ne sont pas au-dessus de l'audit": a    *)
(* request that changed something leaves a row, whichever of its later     *)
(* commits is refused.  The exceptions are a process that dies, and the    *)
(* views below: a quota refused after the deadline and the notes were      *)
(* saved, a task or a company refused after its job or its account was     *)
(* created, a composition equal to the offer's, and the internal notes.    *)
ChangesAreAudited ==
    silent # Nothing =>
        \/ silent[2] = "died"
        \/ silent \in {<<"subscription_patch", "refused">>, <<"demo_convert", "refused">>,
                       <<"action_on_data", "refused">>, <<"features_put", "unseen">>,
                       <<"features_delete", "unseen">>, <<"notes_patch", "never">>}

(* The console keeps an active full administrator, except for two things:  *)
(* an invitation at a lower level and the deactivation of a member who is  *)
(* also staff do not look, and two requests that look at the same time.    *)
FullAdminUnless ==
    FullAdmins = {} => cause \in {"overtaken", "admin_invite", "member_off"}

(* A commercial is not a full administrator: an account has that level     *)
(* only if somebody asked for it, while its invitation is being written,   *)
(* or after an invitation that ended between the account and its profile.  *)
LevelWasAsked ==
    \A a \in Admins : level[a] = "full" =>
        \/ a \in wanted
        \/ \E s \in Sessions : req[s].view = "admin_invite" /\ req[s].on = a /\ req[s].at =< 2
=============================================================================
