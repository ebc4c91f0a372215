---------------------------- MODULE Demonstration -----------------------------
(***************************************************************************)
(* The demonstration client (threat_intelligence's seed_demo_tenant): one  *)
(* transaction that creates it, brings it back with --reset, and may be    *)
(* run again at any time beside the presenter, who acts on it through the  *)
(* product.  Days pass, and what is older than the retention is purged.    *)
(***************************************************************************)
EXTENDS Naturals, FiniteSets

CONSTANTS
    Retention,      \* BREACH_SECRET_RETENTION_DAYS
    Elapse,         \* days that pass at a time
    MaxTouches      \* bound: gestures of the presenter and of time

-----------------------------------------------------------------------------
(* demo_findings_payloads: where the observation comes from, whom and what *)
(* service it names, which secret it holds, how old it is, on which asset. *)
Leak(endpoint, who, src, secret, days, asset) ==
    [endpoint |-> endpoint, who |-> who, src |-> src, secret |-> secret, days |-> days, asset |-> asset]

Payloads ==
    [MarieStealer |-> Leak("stealer", "marie", "expert-comptable", "hiver", 41, 0),
     MarieSession |-> Leak("sessions", "marie", "microsoftonline", "cookie", 9, 3),
     MarieCreds |-> Leak("creds", "marie", "boutique", "hiver", 58, 1),
     PaulStealer |-> Leak("stealer", "paul", "mutuelle", "cabinet", 96, 0),
     PaulCombo |-> Leak("combo", "paul", "combo-2025", "bureau", 64, 1),
     SophieCreds |-> Leak("creds", "sophie", "plateforme", "printemps", 128, 1),
     OldCombo |-> Leak("combo", "sophie", "combo-2019", "archive", 400, 1),
     ContactCreds |-> Leak("creds", "contact", "prestataire", "contact", 155, 1),
     AwsKey |-> Leak("nhi", "svc", "portable", "token", 27, 0),
     Contract |-> Leak("docs", "doc-4471", "9f2c", "", 75, 1),
     NearDomain |-> Leak("radar", "durrand", "domaine", "", 4, 0),
     Forum |-> Leak("radar", "durand", "forum", "", 16, 0),
     Phishing |-> Leak("asm", "durand.co", "pphish", "", 6, 0),
     Actor |-> Leak("darkweb", "durand", "ForumDemo", "", 21, 0)]

DemoLeaks == DOMAIN Payloads

Endpoints == {"stealer", "sessions", "nhi", "creds", "combo", "docs", "radar", "asm", "darkweb"}

\* FUITES_DEJA_TRAITEES: an endpoint and an identifier
Processed == {<<"creds", "contact">>, <<"combo", "paul">>}

\* What DEMO_SYNTHESIS tells of.
Described == {"MarieStealer", "MarieSession", "MarieCreds", "AwsKey"}

\* demo_watched_history, demo_watched_new
History == {"SID", "HSID", "SSID", "3PSID", "NID", "MSPAuth", "RPSSecAuth", "bcookie", "stealer"}
New == {"li_at", "ESTSAUTHPERSISTENT"}
Sightings == History \cup New

\* DEMO_DOCUMENTS, in their order; the first is validated
Documents == {"security_policy", "incident_procedure", "committee_report"}

VARIABLES
    subscription,   \* "none", "active", "cancelled"
    anssi,          \* is the ANSSI referential loaded?
    leak,           \* the leaks that exist: "open", "treated"
    born,           \* born[l]: days elapsed when it was created
    held,           \* leaks whose secret is in the database
    synthesis,      \* "none", "fresh", "stale"
    account,        \* the watched account: "none", "active", "removed"
    seen,           \* the sightings that exist: "open", "treated", "ignored"
    first,          \* sightings marked as found by the first pass
    diagnostics,    \* number of finished diagnostics
    plan,           \* "none", "demo", "moved"
    doc,            \* the documents that exist: "draft", "validated"
    talk,           \* has somebody talked with the assistant?
    wording,        \* the reworded measure: "none", "demo", "own"
    mails,          \* notification preferences: "default", "muted", "on"
    clock,          \* days elapsed
    touches,        \* counts what the bound limits
    last,           \* history: "none", "reset", "run", or "act" (anything else)
    rewritten,      \* history: a plain run has rewritten the synthesis beside other leaks
    sent            \* history: a bulletin has left by default

vars == <<subscription, anssi, leak, born, held, synthesis, account, seen, first, diagnostics,
          plan, doc, talk, wording, mails, clock, touches, last, rewritten, sent>>

Nothing == [x \in {} |-> "none"]

Init ==
    /\ subscription = "none" /\ anssi \in BOOLEAN
    /\ leak = Nothing /\ born = Nothing /\ held = {}
    /\ synthesis = "none"
    /\ account = "none" /\ seen = Nothing /\ first = {}
    /\ diagnostics = 0 /\ plan = "none" /\ doc = Nothing
    /\ talk = FALSE /\ wording = "none" /\ mails = "default"
    /\ clock = 0 /\ touches = 0
    /\ last = "none" /\ rewritten = FALSE /\ sent = FALSE

Created == last # "none"
LineOf(l) == <<Payloads[l].endpoint, Payloads[l].who>>
Secret(l) == Payloads[l].secret # ""

\* _spread_detection_dates: found two days after the leak
Expired(l, date, now) == Payloads[l].days - 2 + (now - date) > Retention

-----------------------------------------------------------------------------
(* The steps of the command, each for what it changes.                     *)

\* _reset_demo_data empties the tables first
Left(reset, rows) == IF reset THEN Nothing ELSE rows

\* start_trial and activate; an offer that is absent leaves a client without one
EnsureSubscription(offered) ==
    subscription' = IF subscription = "none" /\ offered THEN "active" ELSE subscription

\* _ensure_findings, then _traiter_des_fuites on what is open
Known(reset, l) == l \in DOMAIN Left(reset, leak)
Ingested(reset, l) == IF Known(reset, l) THEN leak[l] ELSE "open"

EnsureFindings(reset) ==
    /\ leak' = [l \in DemoLeaks |->
           IF LineOf(l) \in Processed /\ Ingested(reset, l) = "open"
           THEN "treated" ELSE Ingested(reset, l)]
    /\ born' = [l \in DemoLeaks |-> IF Known(reset, l) THEN born[l] ELSE clock]
    /\ held' = {l \in DemoLeaks : /\ Secret(l) /\ (Known(reset, l) => l \in held)
                                  /\ ~ Expired(l, born'[l], clock)}

\* save_exposure_synthesis
EnsureSynthesis ==
    /\ synthesis' = "fresh"
    /\ rewritten' = (\E l \in Described : leak'[l] # "open")

\* A new declaration goes through the guards of the offer; a removed account
\* is found and receives the observations.
EnsureWatched(reset) ==
    LET account1 == IF reset THEN "none" ELSE account
        seen1 == Left(reset, seen)
        account2 == IF account1 = "none" /\ subscription' = "active" THEN "active" ELSE account1
        kept(s) == s \in DOMAIN seen1 /\ seen1[s] # "open"
        shown(s) == IF kept(s) THEN seen1[s]
                    ELSE IF s = "HSID" THEN "treated" ELSE IF s = "NID" THEN "ignored" ELSE "open" IN
    /\ account' = account2
    /\ seen' = IF account2 = "none" THEN seen1 ELSE [s \in Sightings |-> shown(s)]
    /\ first' = IF account2 = "none" THEN {} ELSE IF account1 = "none" THEN History ELSE first

\* _ensure_referentiels: the rewording is written again
EnsureReferentiels == wording' = IF anssi THEN "demo" ELSE wording

\* start_or_resume, submit, complete, generate: once
EnsureDiagnostic(reset) ==
    LET before == IF reset THEN 0 ELSE diagnostics IN
    /\ diagnostics' = IF before = 0 /\ anssi THEN 1 ELSE before
    /\ plan' = IF before = 0 /\ anssi THEN "demo" ELSE IF reset THEN "none" ELSE plan

EnsureDocuments(reset) ==
    doc' = [d \in Documents |->
        IF d \in DOMAIN Left(reset, doc) THEN doc[d]
        ELSE IF d = "security_policy" THEN "validated" ELSE "draft"]

MuteEmails == mails' = "muted"

\* A platform at its capacity refuses the subscription, and the whole transaction
\* with it.
Seed(reset, offered) ==
    /\ EnsureSubscription(offered)
    /\ EnsureFindings(reset)
    /\ EnsureSynthesis
    /\ EnsureWatched(reset)
    /\ EnsureReferentiels
    /\ EnsureDiagnostic(reset)
    /\ EnsureDocuments(reset)
    /\ MuteEmails
    /\ talk' = (talk /\ ~ reset)
    /\ last' = IF reset THEN "reset" ELSE "run"
    /\ UNCHANGED <<anssi, clock, touches, sent>>

-----------------------------------------------------------------------------
(* The presenter, the operator, the scheduler.                             *)
Leaking == <<leak, born, held>>
Watching == <<account, seen, first>>
Working == <<diagnostics, plan, doc, talk, wording>>

Touch ==
    /\ Created /\ touches < MaxTouches
    /\ touches' = touches + 1
    /\ last' = "act"

\* set_finding_status makes the synthesis stale
Process(l, status) ==
    /\ Touch /\ l \in DOMAIN leak /\ leak[l] # status
    /\ leak' = [leak EXCEPT ![l] = status]
    /\ synthesis' = IF synthesis = "none" THEN "none" ELSE "stale"
    /\ rewritten' = FALSE
    /\ UNCHANGED <<subscription, anssi, born, held, Watching, Working, mails, clock, sent>>

\* delete_asset: its leaks go with it
DeleteAsset(asset) ==
    LET gone == {l \in DOMAIN leak : Payloads[l].asset = asset} IN
    /\ Touch /\ gone # {}
    /\ leak' = [l \in DOMAIN leak \ gone |-> leak[l]]
    /\ born' = [l \in DOMAIN leak \ gone |-> born[l]]
    /\ held' = held \ gone
    /\ rewritten' = TRUE
    /\ UNCHANGED <<subscription, anssi, synthesis, Watching, Working, mails, clock, sent>>

RemoveAccount ==
    /\ Touch /\ account = "active"
    /\ account' = "removed"
    /\ UNCHANGED <<subscription, anssi, Leaking, synthesis, seen, first, Working, mails, clock, rewritten, sent>>

Sort(s, status) ==
    /\ Touch /\ s \in DOMAIN seen /\ seen[s] # status
    /\ seen' = [seen EXCEPT ![s] = status]
    /\ UNCHANGED <<subscription, anssi, Leaking, synthesis, account, first, Working, mails, clock, rewritten, sent>>

\* A diagnostic done again, an action that advances, a document
\* validated, a question to the assistant, another wording.
Work ==
    /\ Touch
    /\ \/ diagnostics \in 1..2 /\ diagnostics' = diagnostics + 1 /\ UNCHANGED <<plan, doc, talk, wording>>
       \/ plan = "demo" /\ plan' = "moved" /\ UNCHANGED <<diagnostics, doc, talk, wording>>
       \/ \E d \in DOMAIN doc : doc[d] = "draft" /\ doc' = [doc EXCEPT ![d] = "validated"]
                               /\ UNCHANGED <<diagnostics, plan, talk, wording>>
       \/ talk' = TRUE /\ UNCHANGED <<diagnostics, plan, doc, wording>>
       \/ wording' = "own" /\ UNCHANGED <<diagnostics, plan, doc, talk>>
    /\ UNCHANGED <<subscription, anssi, Leaking, synthesis, Watching, mails, clock, rewritten, sent>>

\* The console: a subscription cancelled or created, the preferences of the client.
Administer ==
    /\ Touch
    /\ \/ subscription = "active" /\ subscription' = "cancelled" /\ UNCHANGED <<mails, anssi>>
       \/ mails' = "on" /\ UNCHANGED <<subscription, anssi>>
       \/ ~ anssi /\ anssi' = TRUE /\ UNCHANGED <<subscription, mails>>
    /\ UNCHANGED <<Leaking, synthesis, Watching, Working, clock, rewritten, sent>>

\* purge_expired_secrets, every night
DaysPass ==
    /\ Touch
    /\ clock' = clock + Elapse
    /\ held' = {l \in held : ~ Expired(l, born[l], clock')}
    /\ UNCHANGED <<subscription, anssi, leak, born, synthesis, Watching, Working, mails, rewritten, sent>>

\* send_due_weather_emails at 8: the preferences decide, members receive
Morning ==
    /\ Created /\ mails = "default" /\ sent' = TRUE
    /\ last' = "act"
    /\ UNCHANGED <<subscription, anssi, Leaking, synthesis, Watching, Working, mails, clock, touches, rewritten>>

Next ==
    \/ \E reset, offered \in BOOLEAN : Seed(reset, offered)
    \/ \E l \in {"MarieCreds", "ContactCreds"}, status \in {"open", "treated"} : Process(l, status)
    \/ \E asset \in {1, 3} : DeleteAsset(asset)
    \/ RemoveAccount
    \/ \E s \in {"HSID", "SID"}, status \in {"open", "ignored"} : Sort(s, status)
    \/ Work \/ Administer \/ DaysPass \/ Morning

Spec == Init /\ [][Next]_vars

-----------------------------------------------------------------------------
(* Values of the variables. *)
TypeOK ==
    /\ subscription \in {"none", "active", "cancelled"}
    /\ DOMAIN leak \subseteq DemoLeaks /\ DOMAIN born = DOMAIN leak /\ held \subseteq DOMAIN leak
    /\ DOMAIN seen \in {{}, Sightings} /\ first \subseteq Sightings
    /\ DOMAIN doc \in {{}, Documents}

(* "La suivante doit repartir du meme etat": after --reset everything that *)
(* the demonstration shows is as it was the first time, whatever the       *)
(* presenter did and however old the previous data; the account needs a    *)
(* living subscription, the diagnostic the ANSSI referential.              *)
ResetRestores == last = "reset" =>
    /\ DOMAIN leak = DemoLeaks
    /\ \A l \in DemoLeaks :
         /\ leak[l] = IF l \in {"ContactCreds", "PaulCombo"} THEN "treated" ELSE "open"
         /\ l \in held <=> Secret(l) /\ Payloads[l].days - 2 =< Retention
    /\ "MarieCreds" \in held /\ "OldCombo" \notin held
    /\ synthesis = "fresh" /\ ~ rewritten
    /\ subscription = "active" =>
         /\ account = "active" /\ first = History
         /\ {s \in DOMAIN seen : seen[s] = "open"} = Sightings \ {"HSID", "NID"}
    /\ anssi => diagnostics = 1 /\ plan = "demo" /\ wording = "demo"
    /\ DOMAIN doc = Documents
    /\ \A d \in Documents : doc[d] = IF d = "security_policy" THEN "validated" ELSE "draft"
    /\ ~ talk

(* The synthesis that is shown as up to date describes leaks that are      *)
(* open, unless the command was run again on what the presenter had        *)
(* changed, or an asset was deleted.                                       *)
SynthesisDescribes == synthesis = "fresh" /\ ~ rewritten =>
    \A l \in Described : l \in DOMAIN leak /\ leak[l] = "open"

(* "Une donnee de demonstration ne doit rien envoyer": no bulletin leaves  *)
(* because nobody had said anything about mails.                           *)
NothingSentByDefault == ~ sent

(* The data of the demonstration: every endpoint, no two observations that *)
(* ingestion takes for one, the two that are treated found by what names   *)
(* them, the scenario of the revelation not among them.                    *)
DemoIsSound ==
    /\ {Payloads[l].endpoint : l \in DemoLeaks} = Endpoints
    /\ \A l, m \in DemoLeaks :
         [Payloads[l] EXCEPT !.days = 0, !.asset = 0] = [Payloads[m] EXCEPT !.days = 0, !.asset = 0] => l = m
    /\ \A p \in Processed : Cardinality({l \in DemoLeaks : LineOf(l) = p}) = 1
    /\ \A l \in Described : LineOf(l) \notin Processed
    /\ \E l \in DemoLeaks \ {"MarieCreds"} :
         Payloads[l].who = Payloads["MarieCreds"].who /\ Payloads[l].secret = Payloads["MarieCreds"].secret

(* "Rejouable a volonte": run again with nothing in between, the command   *)
(* changes nothing; run again without --reset, it does not begin the       *)
(* diagnostic, the plan or a document again.                               *)
RerunChangesNothing ==
    [][last' = "run" =>
         /\ last \in {"reset", "run"} => UNCHANGED <<leak, held, synthesis, seen, first, diagnostics, plan, doc, wording>>
                                         \/ subscription' # subscription
         /\ diagnostics # 0 => diagnostics' = diagnostics /\ plan' = plan
         /\ \A d \in DOMAIN doc : doc'[d] = doc[d]]_vars
=============================================================================
