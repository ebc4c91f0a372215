------------------------------ MODULE Documents ------------------------------
(***************************************************************************)
(* The documents composed by code from the facts of a client: the security *)
(* policy, the incident procedure and register, the continuity plan, the   *)
(* awareness sheet and the report of the committee.  The facts are read    *)
(* one table after the other, outside any transaction, while the client    *)
(* goes on working; a preview is read the same way and saves nothing.      *)
(* Prose that no fact changes is left out: a page is what each of its      *)
(* sections shows, {} where it shows the mark "à compléter" or a dash.     *)
(***************************************************************************)
EXTENDS Integers, Sequences, FiniteSets, FiniteSetsExt

CONSTANTS MaxChanges,   \* bound: changes of the client's facts
          MaxPages      \* bound: pages composed or previewed

People == {"ada", "bob"}            \* bob gave no name
Named == {"ada"}
Leaks == {"account", "signal"}      \* a leak, and a pre-incident signal
NoScore == -1                       \* None: every measure was "non applicable"
Types == {"security_policy", "incident_procedure", "incident_register",
          "continuity_plan", "awareness_sheet", "committee_report"}

NewClient ==
    [contact |-> "", role |-> [p \in People |-> IF p = "ada" THEN "admin" ELSE "contributor"],
     assets |-> {}, diagnostics |-> <<>>, action |-> "none", alert |-> "none",
     leak |-> [l \in Leaks |-> "absent"], checks |-> {}]
Diagnostic(referential, score) == [referential |-> referential, score |-> score]
Equipped ==
    [NewClient EXCEPT !.contact = "boss", !.assets = {"site"}, !.action = "todo", !.alert = "open",
        !.diagnostics = <<Diagnostic("anssi", 50)>>, !.leak["account"] = "open", !.checks = {"ok"}]
Busy == [Equipped EXCEPT !.role["bob"] = "admin", !.alert = "closed", !.leak["signal"] = "open",
            !.diagnostics = <<Diagnostic("anssi", 50), Diagnostic("iso", 100), Diagnostic("anssi", 0)>>]
Clients == {NewClient, Equipped, Busy}

VARIABLES
    past,       \* the facts, at the start and after each change
    versions,   \* the versions there are of each document
    reading,    \* the composition under way
    pages       \* the pages that were composed or shown

vars == <<past, versions, reading, pages>>
Facts == past[Len(past)]
Idle == [type |-> "none"]

-----------------------------------------------------------------------------
(* context.py: what each read takes from the client's tables.              *)
Parts == <<"entreprise", "actifs", "maturite", "plan_action", "evenements">>
Fields(part) ==
    CASE part = "entreprise" -> {"contact", "role"} [] part = "actifs" -> {"assets"}
      [] part = "maturite" -> {"diagnostics"} [] part = "plan_action" -> {"action"}
      [] part = "evenements" -> {"alert", "leak"} [] part = "exposition" -> {"leak"}
      [] part = "surveillance" -> {"checks"}
\* the report reads its figures again, after the rest
Order(type) == Parts \o IF type = "committee_report"
                        THEN <<"exposition", "plan_action", "maturite", "surveillance">> ELSE <<>>

Referents(f) == {p \in People : f.role[p] = "admin"}
Evaluated(f) == f.diagnostics # <<>>
LastOf(f) == f.diagnostics[Len(f.diagnostics)]
Gaps(d) == IF d.score \in {NoScore, 100} THEN {} ELSE {"urgent", "heavy"}
OpenActions(f) == IF f.action \in {"todo", "late"} THEN {f.action} ELSE {}
Events(f) == [alerts |-> IF f.alert = "open" THEN {"alert"} ELSE {},
              leaks |-> {l \in Leaks \ {"signal"} : f.leak[l] # "absent"}]

\* _ou: a text or a figure that is known, and nothing for None, "" or zero
Ou(value) == {value} \ {""}
OuFigure(figure) == {figure} \ {NoScore, 0}
Referent(f) == Referents(f) \cap Named
Generic(f) == IF Evaluated(f) THEN {} ELSE {"diagnostic"}
Empty(f) == IF f.assets = {} THEN {"assets"} ELSE {}

-----------------------------------------------------------------------------
(* The figures of the report: the last two diagnostics of each             *)
(* referential, and a progress where the two means are of the same ones.   *)
Scored(f) == {i \in DOMAIN f.diagnostics : f.diagnostics[i].score # NoScore}
Follows(f, i, j) == i < j /\ f.diagnostics[i].referential = f.diagnostics[j].referential
Currents(f) == {j \in Scored(f) : \A k \in Scored(f) : ~ Follows(f, j, k)}
Precedents(f) == {i \in Scored(f) : \E j \in Currents(f) :
                     Follows(f, i, j) /\ \A k \in Scored(f) : ~ (Follows(f, i, k) /\ Follows(f, k, j))}
Mean(f, chosen) ==
    IF chosen = {} THEN NoScore
    ELSE MapThenSumSet(LAMBDA i : f.diagnostics[i].score, chosen) \div Cardinality(chosen)
Comparable(f) ==
    LET Of(s) == {f.diagnostics[i].referential : i \in s} IN Of(Currents(f)) = Of(Precedents(f))
MaturityDelta(f) ==
    IF Currents(f) # {} /\ Comparable(f) THEN Mean(f, Currents(f)) - Mean(f, Precedents(f)) ELSE 0

Open(f) == {l \in Leaks : f.leak[l] = "open"}
ExposureScore(f) == 40 * Cardinality(Open(f))
Uptime(f) == IF f.checks = {} THEN NoScore ELSE (100 * Cardinality({"ok"} \cap f.checks)) \div Cardinality(f.checks)

Highlights(f) ==
    {<<"critical", Cardinality(Open(f))>>, <<"closed", Cardinality({l \in Leaks : f.leak[l] = "closed"})>>,
     <<"new", Cardinality({l \in Leaks : f.leak[l] # "absent"})>>, <<"maturity", MaturityDelta(f)>>,
     <<"completed", IF f.action = "done" THEN 1 ELSE 0>>}
    \ {<<about, 0>> : about \in {"critical", "closed", "new", "maturity", "completed"}}
Remaining(f) ==
    {about \in {"leaks", "overdue", "undated", "open", "diagnostic"} :
        CASE about = "leaks" -> Open(f) # {} [] about = "overdue" -> f.action = "late"
          [] about = "undated" -> f.action = "todo" [] about = "open" -> OpenActions(f) # {}
          [] about = "diagnostic" -> Mean(f, Currents(f)) = NoScore}

-----------------------------------------------------------------------------
(* The composers: what the sections show of the facts they were given; the *)
(* policy, and the first table of the procedure, leave the referent open.  *)
PolitiqueDeSecurite(f) ==
    [generic |-> Generic(f) \cup Empty(f), assets |-> f.assets, contact |-> Ou(f.contact),
     gaps |-> IF Evaluated(f) THEN Gaps(LastOf(f)) ELSE {}, open |-> OpenActions(f)]
ProcedureIncidents(f) ==
    [generic |-> {}, contact |-> Ou(f.contact), referent |-> Referent(f), emails |-> Referents(f)]
RegistreIncidents(f) == [generic |-> {}, alerts |-> Events(f).alerts, leaks |-> Events(f).leaks]
PlanDeContinuite(f) ==
    [generic |-> Empty(f), assets |-> f.assets, contact |-> Ou(f.contact), referent |-> Referent(f), emails |-> Referents(f)]
FicheSensibilisation(f) ==
    [generic |-> Generic(f), score |-> IF Evaluated(f) THEN {LastOf(f).score} ELSE {},
     urgent |-> IF Evaluated(f) THEN Gaps(LastOf(f)) \cap {"urgent"} ELSE {}, leaks |-> Events(f).leaks,
     referent |-> Referent(f), emails |-> Referents(f), contact |-> Ou(f.contact)]
RapportComite(f) ==
    [generic |-> {}, highlights |-> Highlights(f), remaining |-> Remaining(f),
     score |-> OuFigure(Mean(f, Currents(f))), exposure |-> OuFigure(ExposureScore(f)),
     uptime |-> OuFigure(Uptime(f)), untreated |-> Cardinality(Open(f)), open |-> OpenActions(f)]

Build(type, f) ==
    CASE type = "security_policy" -> PolitiqueDeSecurite(f) [] type = "incident_procedure" -> ProcedureIncidents(f)
      [] type = "incident_register" -> RegistreIncidents(f) [] type = "continuity_plan" -> PlanDeContinuite(f)
      [] type = "awareness_sheet" -> FicheSensibilisation(f) [] type = "committee_report" -> RapportComite(f)

\* the registry: what a document needs to speak of this client, and what lacks
NeedsAssessment == {"security_policy", "awareness_sheet"}
NeedsAssets == {"security_policy", "continuity_plan"}
Readiness(type, f) ==
    (IF type \in NeedsAssessment THEN Generic(f) ELSE {}) \cup (IF type \in NeedsAssets THEN Empty(f) ELSE {})

-----------------------------------------------------------------------------
Init ==
    /\ past \in {<<client>> : client \in Clients}
    /\ versions = [type \in Types |-> 0] /\ reading = Idle /\ pages = <<>>

(* preview_document and compose_document: both carry the next version; the *)
(* second creates the row before it reads anything.                        *)
Begin(type, saved) ==
    /\ reading = Idle /\ Len(pages) < MaxPages
    /\ reading' = [type |-> type, saved |-> saved, version |-> versions[type] + 1,
                   seen |-> NewClient, next |-> 1, began |-> Len(past)]
    /\ versions' = IF saved THEN [versions EXCEPT ![type] = @ + 1] ELSE versions
    /\ UNCHANGED <<past, pages>>

Read ==
    /\ reading # Idle /\ reading.next =< Len(Order(reading.type))
    /\ reading' = [reading EXCEPT !.next = @ + 1,
          !.seen = [x \in DOMAIN Facts |->
                       IF x \in Fields(Order(reading.type)[reading.next]) THEN Facts[x] ELSE @[x]]]
    /\ UNCHANGED <<past, versions, pages>>

Finish ==
    /\ reading # Idle /\ reading.next > Len(Order(reading.type))
    /\ pages' = Append(pages, [type |-> reading.type, saved |-> reading.saved, version |-> reading.version,
                               began |-> reading.began, ended |-> Len(past),
                               shows |-> Build(reading.type, reading.seen)])
    /\ reading' = Idle
    /\ UNCHANGED <<past, versions>>

(* What the client and the platform do meanwhile; the plan is generated in *)
(* the request that closes a diagnostic.                                   *)
Changes(f) ==
    {[f EXCEPT !.contact = "boss"], [f EXCEPT !.assets = {"site"} \ f.assets],
     [f EXCEPT !.role["ada"] = "left"], [f EXCEPT !.role["bob"] = "admin"],
     [f EXCEPT !.action = "done"], [f EXCEPT !.action = IF @ = "todo" THEN "late" ELSE @],
     [f EXCEPT !.alert = IF @ = "open" THEN "closed" ELSE "open"], [f EXCEPT !.checks = @ \cup {"down"}]}
    \cup {[f EXCEPT !.leak[l] = IF @ = "open" THEN "closed" ELSE "open"] : l \in Leaks}
    \cup {[f EXCEPT !.diagnostics = Append(@, d), !.action = IF Gaps(d) # {} THEN "todo" ELSE @] :
             d \in {Diagnostic("anssi", s) : s \in {NoScore, 0, 100}} \cup {Diagnostic("iso", 50)}}
Change ==
    /\ Len(past) =< MaxChanges
    /\ \E f \in Changes(Facts) \ {Facts} :
         /\ f.action = "done" => Facts.action # "none"
         /\ past' = Append(past, f)
    /\ UNCHANGED <<versions, reading, pages>>

Next == Read \/ Finish \/ Change \/ \E type \in Types, saved \in BOOLEAN : Begin(type, saved)
Spec == Init /\ [][Next]_vars

-----------------------------------------------------------------------------
Shown == {pages[i] : i \in DOMAIN pages}
During(p) == {past[i] : i \in p.began..p.ended}
Shows(p, key) == key \in DOMAIN p.shows

(* Values of the variables. *)
TypeOK ==
    /\ \A p \in Shown : p.type \in Types /\ p.began \in 1..p.ended /\ p.ended \in DOMAIN past
    /\ versions \in [Types -> 0..MaxPages]
    /\ reading # Idle => reading.version = versions[reading.type] + IF reading.saved THEN 0 ELSE 1

(* Nobody who has left, and no contributor, is given as the person to call *)
(* ("un administrateur désactivé n'est jamais proposé"), but for one who   *)
(* left while the document was being composed.                             *)
OnlyAdminsAreNamed ==
    \A p \in Shown : Shows(p, "emails") =>
        \A who \in p.shows.referent \cup p.shows.emails : \E f \in During(p) : f.role[who] = "admin"

(* What readiness says before the generation is what the document itself   *)
(* says, where nothing changed while it was composed.                      *)
ReadinessIsKept ==
    \A p \in Shown : p.began = p.ended => p.shows.generic = Readiness(p.type, past[p.began])

(* "Dire la même chose du même client le même jour": two pages with no     *)
(* change since the first began agree on what both show, and a preview is  *)
(* what the generation gives.  But for a score the report reads as zero or *)
(* unknown, or as a mean of several referentials.                          *)
OneScore(f) == \A i \in DOMAIN f.diagnostics : f.diagnostics[i].referential = "anssi" /\ f.diagnostics[i].score > 0
PagesAgree ==
    \A i, j \in DOMAIN pages : i < j /\ pages[i].began = pages[j].ended =>
        LET p == pages[i] q == pages[j] IN
        /\ \A key \in (DOMAIN p.shows \cap DOMAIN q.shows) \ {"generic"} :
             p.shows[key] = q.shows[key] \/ (key = "score" /\ ~ OneScore(past[p.began]))
        /\ p.type = q.type =>
             p.shows = q.shows /\ q.version = p.version + IF p.saved THEN 1 ELSE 0

(* The register has the leaks whatever was done of them, and the alerts    *)
(* that are open; a leak one register has is in those that follow.         *)
RegisterIsComplete ==
    \A p \in Shown : p.type = "incident_register" =>
        /\ (\A f \in During(p) : f.leak["account"] # "absent") => "account" \in p.shows.leaks
        /\ (\A f \in During(p) : f.alert = "open") => p.shows.alerts # {}
        /\ \A q \in Shown : q.type = p.type /\ p.ended =< q.began => p.shows.leaks \subseteq q.shows.leaks

(* The report says "rien de bloquant" only of a client who had, while it   *)
(* was read, no open leak, no open action and a score; and a progress only *)
(* where a referential moved that way since its previous diagnostic.       *)
Moved(f, up) ==
    \E i \in Precedents(f), j \in Currents(f) : Follows(f, i, j) /\
        IF up THEN f.diagnostics[i].score < f.diagnostics[j].score
        ELSE f.diagnostics[i].score > f.diagnostics[j].score
ReportIsFounded ==
    \A p \in Shown : p.type = "committee_report" =>
        /\ p.shows.remaining = {} =>
             /\ \E f \in During(p) : \A l \in Leaks : f.leak[l] # "open"
             /\ \E f \in During(p) : f.action \notin {"todo", "late"}
             /\ \E f \in During(p) : Scored(f) # {}
        /\ \A n \in -100..100 \ {0} : <<"maturity", n>> \in p.shows.highlights =>
             \E f \in During(p) : Moved(f, n > 0)
=============================================================================
