------------------------------ MODULE Findings ------------------------------
(***************************************************************************)
(* Breach findings of one client: how apps.threat_intelligence ingests what *)
(* the provider reports, how the client closes a finding, and how the      *)
(* cached AI synthesis is invalidated.                                     *)
(*                                                                         *)
(* ingest_raw_findings runs in Celery workers (a scan) and in the web      *)
(* process (a webhook), outside any transaction: every query is a step of  *)
(* its own here, and several ingestions interleave with each other, with   *)
(* the client's PATCH of a status and with refresh_exposure_synthesis.  A  *)
(* worker may die between two steps.  An exception that ends a batch and a *)
(* death have the same effect on the tables; the scan is retried, the      *)
(* webhook redelivered, and both are just one more Start.                  *)
(*                                                                         *)
(* Abstractions.  A leak stands for one dedup_hash.  All leaks are on one  *)
(* asset, as the alert of an asset is what ingestions share.  Time stamps  *)
(* and authors (last_seen_at, treated_at, treated_by) are left out.        *)
(* The secret is the subject of BreachSecrets.                             *)
(***************************************************************************)
EXTENDS Integers, FiniteSets

CONSTANTS
    Leaks,         \* what the provider may report
    Critical,      \* the leaks whose alert severity is "critical" (else "warning")
    PreIncident,   \* the leaks of a PRE_INCIDENT_ENDPOINTS endpoint
    Legacies,      \* rows ingested before V2-1, keyed by a "legacy:" fingerprint
    Matches,       \* Matches[g]: leaks with the identity and masked secret of row g
    Workers,       \* ingestions that may run at the same time
    MayCrash,      \* may a process die in the middle of a batch?
    None

ASSUME LeakAssumption ==
    /\ Critical \subseteq Leaks
    /\ PreIncident \subseteq Leaks
    /\ Leaks \cap Legacies = {}
    /\ None \notin Leaks \cup Legacies
    /\ Matches \in [Legacies -> SUBSET Leaks]
    /\ MayCrash \in BOOLEAN

\* A row created for leak l is named l: it keeps the key l for ever, so a leak
\* creates at most one row.  A row of before V2-1 is named by its legacy name.
Rows == Leaks \cup Legacies

VARIABLES
    finding,   \* finding[r]: key (None: no row; r itself when still legacy), status, ...
    alert,     \* severity of the open BREACH_COMPROMISE alert of the asset, or "none"
    ingest,    \* ingest[w]: the state of one run of ingest_raw_findings
    mails,     \* mails[l]: pre-incident signal mails queued for leak l
    marking,   \* a PATCH has saved its status and not yet called mark_synthesis_stale
    synthesis, \* the cached row: exists, is_stale, the open findings it describes
    refresh,   \* the open findings a running refresh has read, or None
    cut        \* history: a batch that had created findings was cut short

vars == <<finding, alert, ingest, mails, marking, synthesis, refresh, cut>>

Statuses == {"open", "treated", "ignored"}
Closed == {"treated", "ignored"}
Steps == {"idle", "next", "legacy", "reconcile", "create", "alert", "open_alert", "link"}

\* _FINDING_SEVERITY_TO_ALERT_SEVERITY
AlertSeverity(l) == IF l \in Critical THEN "critical" ELSE "warning"

\* BreachFinding.Meta: (tenant, dedup_hash) is unique.
RowsWith(k) == {r \in Rows : finding[r].key = k}
OpenRows == {r \in Rows : finding[r].key # None /\ finding[r].status = "open"}

NoRow == [key |-> None, status |-> "open", alert |-> FALSE]
Idle == [pc |-> "idle", todo |-> {}, leak |-> None, row |-> None, created |-> {}]

LegacyRow(g, s, linked) == [key |-> g, status |-> s, alert |-> linked]
NoSynthesis == [exists |-> FALSE, stale |-> FALSE, basis |-> {}, overtaken |-> FALSE]

\* The legacy rows have raised the alert of the asset, unless the batch that created
\* them died before.
Init ==
    /\ \E s \in [Legacies -> {"open", "treated"}], linked \in BOOLEAN :
          /\ linked \/ MayCrash
          /\ finding = [r \in Rows |-> IF r \in Legacies THEN LegacyRow(r, s[r], linked) ELSE NoRow]
          /\ alert = IF linked /\ Legacies # {} THEN "warning" ELSE "none"
    /\ ingest = [w \in Workers |-> Idle]
    /\ mails = [l \in Leaks |-> 0]
    /\ marking = FALSE
    /\ synthesis = NoSynthesis
    /\ refresh = None
    /\ cut = FALSE

-----------------------------------------------------------------------------
(* ingest_raw_findings, one query per step                                 *)

At(w, step) == ingest[w].pc = step
Goto(w, step) == ingest' = [ingest EXCEPT ![w].pc = step]
\* continue: the loop goes on to the next raw finding.
Continue(w) == ingest' = [ingest EXCEPT ![w].pc = "next", ![w].leak = None, ![w].row = None]
NotIngest == UNCHANGED <<marking, synthesis, refresh, cut>>

\* execute_scan or ingest_webhook_payload hands over a batch, test findings
\* already skipped.
Start(w) ==
    /\ At(w, "idle")
    /\ \E batch \in (SUBSET Leaks) \ {{}} :
          ingest' = [ingest EXCEPT ![w] = [Idle EXCEPT !.pc = "next", !.todo = batch]]
    /\ UNCHANGED <<finding, alert, mails>> /\ NotIngest

\* Mutant: a known finding that is reported again is opened again.
LookupReopening(w) ==
    /\ At(w, "next")
    /\ \E l \in ingest[w].todo :
          IF RowsWith(l) # {}
          THEN /\ ingest' = [ingest EXCEPT ![w].todo = @ \ {l}]
               /\ finding' = [r \in Rows |-> IF finding[r].key = l
                                  THEN [finding[r] EXCEPT !.status = "open"] ELSE finding[r]]
          ELSE /\ ingest' = [ingest EXCEPT ![w].todo = @ \ {l}, ![w].leak = l, ![w].pc = "legacy"]
               /\ UNCHANGED finding
    /\ UNCHANGED <<alert, mails>> /\ NotIngest

\* The next raw finding is looked up by its dedup_hash: a known one only has its
\* last observation dated, an unknown one is searched among the legacy rows.
Lookup(w) ==
    /\ At(w, "next")
    /\ \E l \in ingest[w].todo :
          IF RowsWith(l) # {}
          THEN ingest' = [ingest EXCEPT ![w].todo = @ \ {l}]
          ELSE ingest' = [ingest EXCEPT ![w].todo = @ \ {l}, ![w].leak = l, ![w].pc = "legacy"]
    /\ UNCHANGED <<finding, alert, mails>> /\ NotIngest

\* The legacy rows that still carry their first fingerprint and match leak l.
LegacyOf(l) == {g \in Legacies : finding[g].key = g /\ l \in Matches[g]}

\* Mutant: the legacy rows are not searched.
SkipLegacy(w) ==
    /\ At(w, "legacy")
    /\ Goto(w, "create")
    /\ UNCHANGED <<finding, alert, mails>> /\ NotIngest

LookupLegacy(w) ==
    /\ At(w, "legacy")
    /\ IF LegacyOf(ingest[w].leak) = {}
       THEN Goto(w, "create")
       ELSE \E g \in LegacyOf(ingest[w].leak) :
               ingest' = [ingest EXCEPT ![w].pc = "reconcile", ![w].row = g]
    /\ UNCHANGED <<finding, alert, mails>> /\ NotIngest

\* An uncaught exception, or the death of the process: the batch ends where it is.
CutShort(w) ==
    /\ ingest' = [ingest EXCEPT ![w] = Idle]
    /\ cut' = (cut \/ ingest[w].created # {})
    /\ UNCHANGED <<finding, alert, mails, marking, synthesis, refresh>>

\* legacy.save(): the row takes the current key, whatever key it has by now.
Reconcile(w) ==
    /\ At(w, "reconcile")
    /\ LET g == ingest[w].row
           l == ingest[w].leak
       IN IF RowsWith(l) \ {g} # {}
          THEN CutShort(w)                                      \* IntegrityError
          ELSE /\ finding' = [finding EXCEPT ![g].key = l]
               /\ Continue(w)
               /\ UNCHANGED <<alert, mails>> /\ NotIngest

\* create() in a transaction of its own; the IntegrityError of a row created
\* meanwhile is caught, and the leak counts as seen again.
Create(w) ==
    /\ At(w, "create")
    /\ LET l == ingest[w].leak
       IN IF RowsWith(l) # {}
          THEN /\ Continue(w)
               /\ UNCHANGED finding
          ELSE /\ finding' = [finding EXCEPT ![l] = [NoRow EXCEPT !.key = l]]
               /\ ingest' = [ingest EXCEPT ![w].pc = "alert", ![w].created = @ \cup {l}]
    /\ UNCHANGED <<alert, mails>> /\ NotIngest

\* _open_or_update_alert: an open alert takes the severity of the new finding
\* (its details name the finding, so it always counts as changed).
UpdateAlert(w) ==
    /\ At(w, "alert")
    /\ IF alert = "none"
       THEN /\ Goto(w, "open_alert")
            /\ UNCHANGED alert
       ELSE /\ alert' = AlertSeverity(ingest[w].leak)
            /\ Goto(w, "link")
    /\ UNCHANGED <<finding, mails>> /\ NotIngest

\* Alert.create(), under the unique constraint on open alerts; nobody catches
\* its IntegrityError.
OpenAlert(w) ==
    /\ At(w, "open_alert")
    /\ IF alert # "none"
       THEN CutShort(w)
       ELSE /\ alert' = AlertSeverity(ingest[w].leak)
            /\ Goto(w, "link")
            /\ UNCHANGED <<finding, mails>> /\ NotIngest

\* finding.alert = alert
Link(w) ==
    /\ At(w, "link")
    /\ finding' = [finding EXCEPT ![ingest[w].leak].alert = TRUE]
    /\ Continue(w)
    /\ UNCHANGED <<alert, mails>> /\ NotIngest

MarkStale == synthesis' = [synthesis EXCEPT !.stale = synthesis.exists]

\* A webhook queues a mail for each pre-incident signal it created (the broker may
\* refuse one; the error is swallowed).  A scan queues none; which of the two an
\* ingestion is matters only here.
QueueMails(w) ==
    \E webhook \in BOOLEAN, queued \in SUBSET (ingest[w].created \cap PreIncident) :
        /\ queued # {} => webhook
        /\ mails' = [l \in Leaks |-> IF l \in queued THEN mails[l] + 1 ELSE mails[l]]

\* The end of the batch: the synthesis is stale when something was created.
Finish(w) ==
    /\ At(w, "next") /\ ingest[w].todo = {}
    /\ IF ingest[w].created # {} THEN MarkStale ELSE UNCHANGED synthesis
    /\ QueueMails(w)
    /\ ingest' = [ingest EXCEPT ![w] = Idle]
    /\ UNCHANGED <<finding, alert, marking, refresh, cut>>

Crash(w) == MayCrash /\ ~ At(w, "idle") /\ CutShort(w)

-----------------------------------------------------------------------------
(* The client closes a finding; the serializer accepts treated and ignored. *)

\* Mutant: the status changes and the synthesis is not marked.
SetFindingStatusUnmarked(r, status) ==
    /\ finding[r].key # None
    /\ ~ marking
    /\ finding' = [finding EXCEPT ![r].status = status]
    /\ UNCHANGED <<alert, ingest, mails, marking, synthesis, refresh, cut>>

\* set_finding_status: the status is saved, then the synthesis is marked.
SetFindingStatus(r, status) ==
    /\ finding[r].key # None
    /\ ~ marking
    /\ finding' = [finding EXCEPT ![r].status = status]
    /\ marking' = TRUE
    /\ UNCHANGED <<alert, ingest, mails, synthesis, refresh, cut>>

MarkSynthesisStale ==
    /\ marking
    /\ MarkStale
    /\ marking' = FALSE
    /\ UNCHANGED <<finding, alert, ingest, mails, refresh, cut>>

-----------------------------------------------------------------------------
(* refresh_exposure_synthesis: the findings are read, the model is called for *)
(* a while, the answer is saved as fresh.                                  *)

BeginRefresh ==
    /\ refresh = None
    /\ refresh' = OpenRows
    /\ UNCHANGED <<finding, alert, ingest, mails, marking, synthesis, cut>>

SaveExposureSynthesis ==
    /\ refresh # None
    /\ synthesis' = [exists |-> TRUE, stale |-> FALSE, basis |-> refresh,
                     overtaken |-> refresh # OpenRows]
    /\ refresh' = None
    /\ UNCHANGED <<finding, alert, ingest, mails, marking, cut>>

\* The call fails (after its retries): nothing is written.
RefreshFails ==
    /\ refresh # None
    /\ refresh' = None
    /\ UNCHANGED <<finding, alert, ingest, mails, marking, synthesis, cut>>

-----------------------------------------------------------------------------
Step(w) ==
    \/ Start(w) \/ Lookup(w) \/ LookupLegacy(w) \/ Reconcile(w) \/ Create(w)
    \/ UpdateAlert(w) \/ OpenAlert(w) \/ Link(w) \/ Finish(w) \/ Crash(w)

Next ==
    \/ \E w \in Workers : Step(w)
    \/ \E r \in Rows, s \in Closed : SetFindingStatus(r, s)
    \/ MarkSynthesisStale
    \/ BeginRefresh \/ SaveExposureSynthesis \/ RefreshFails

Spec == Init /\ [][Next]_vars

-----------------------------------------------------------------------------
FindingRows ==
    [key : Rows \cup {None}, status : Statuses, alert : BOOLEAN]

\* The open alert of the asset.
AlertStates == {"none", "warning", "critical"}

IngestStates ==
    [pc : Steps, todo : SUBSET Leaks, leak : Leaks \cup {None},
     row : Legacies \cup {None}, created : SUBSET Leaks]

\* The shape of the tables; a leak is in hand wherever one is needed.
TypeOK ==
    /\ finding \in [Rows -> FindingRows]
    /\ alert \in AlertStates
    /\ ingest \in [Workers -> IngestStates]
    /\ \A w \in Workers :
          /\ At(w, "idle") \/ At(w, "next") <=> ingest[w].leak = None
          /\ At(w, "reconcile") <=> ingest[w].row # None
    /\ mails \in [Leaks -> Nat]
    /\ marking \in BOOLEAN
    /\ synthesis \in [exists : BOOLEAN, stale : BOOLEAN, basis : SUBSET Rows, overtaken : BOOLEAN]
    /\ refresh \in (SUBSET Rows) \cup {None}
    /\ cut \in BOOLEAN

\* The comment of services.py 329-337: a leak the client has seen is not shown to
\* him again.  No interleaving of a scan with a redelivered webhook gives a leak
\* two rows, nor a new row to a leak whose only trace is a legacy row.
NoSecondRow ==
    /\ \A k \in Leaks : Cardinality(RowsWith(k)) <= 1
    /\ \A g \in Legacies : \A l \in Leaks : Matches[g] = {l} => finding[l].key = None

\* A worker saves, for another leak, the row that shows leak l: it had read it as a
\* legacy row of both, before another one gave it to l.
TakesRowOf(w, l) ==
    /\ At(w, "reconcile") /\ ~ At(w, "reconcile")'
    /\ finding[ingest[w].row].key = l /\ ingest[w].leak # l

\* "on ne touche jamais au statut" (services.py 334): a leak the client closed
\* never shows as open again, whatever the provider reports afterwards.  But for the
\* row that two ingestions read for two leaks: the last one to save keeps it.
ShowsClosed(l) == \E r \in Rows : finding[r].key = l /\ finding[r].status \in Closed
ClosedStaysClosed ==
    [][\A l \in Leaks :
         ShowsClosed(l) => ShowsClosed(l)' \/ \E w \in Workers : TakesRowOf(w, l)]_vars

\* Every finding created by a batch that ran to its end is linked to an alert:
\* an unlinked row is in the hands of a worker about to link it.
InHand(l) ==
    \E w \in Workers : /\ ingest[w].leak = l
                       /\ ingest[w].pc \in {"alert", "open_alert", "link"}
LinkedUnlessCut ==
    cut \/ \A l \in Leaks : finding[l].key # None => finding[l].alert \/ InHand(l)

\* A redelivered webhook does not mail a pre-incident signal a second time.
MailedOnce == \A l \in Leaks : mails[l] <= 1

\* The rows a batch leaves behind agree with the leaks that were reported: one row
\* and one e-mail for a leak, and an alert for every row, unless a batch was cut short.
RowsKept == TypeOK /\ NoSecondRow /\ LinkedUnlessCut /\ MailedOnce

\* mark_synthesis_stale is called on every path that changes the open findings:
\* a synthesis shown as up to date describes the findings that are open, unless
\* the change is still being marked, a batch was cut short, or the findings
\* changed while the synthesis was being written.
Marking == marking \/ \E w \in Workers : ingest[w].created # {}
FreshUnlessOvertaken ==
    /\ synthesis.exists /\ ~ synthesis.stale
    /\ ~ Marking /\ ~ cut /\ ~ synthesis.overtaken
    => synthesis.basis = OpenRows

-----------------------------------------------------------------------------
(* What the documentation says and the code does not keep.                 *)

\* services.py 436: "opens/escalates the corresponding monitoring alert for every
\* non-test raw finding".  Once no ingestion is under way, every finding that
\* was created is linked to its alert.
EveryFindingAlerted ==
    (\A w \in Workers : At(w, "idle")) =>
        \A l \in Leaks : finding[l].key # None => finding[l].alert

=============================================================================
