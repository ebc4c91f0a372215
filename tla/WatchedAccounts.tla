---------------------------- MODULE WatchedAccounts ----------------------------
(***************************************************************************)
(* The named accounts a client has watched                                 *)
(* (threat_intelligence/watched_accounts.py, run_watched_account_scan_task *)
(* and the views that declare, remove and scan them): declarations within  *)
(* the offer's quota, on-demand scans by a Celery task that is retried and *)
(* may be delivered twice, and the notification of what is new.            *)
(*                                                                         *)
(* A scan loads the declarations once, asks the provider for each of them  *)
(* and writes leak by leak; nothing of it is one transaction.              *)
(***************************************************************************)
EXTENDS Naturals, FiniteSets

CONSTANTS
    Declarations,   \* identities of declarations
    Values,         \* the accounts one may declare
    Leaks,          \* observations of the provider (dedup_hash)
    ValueOf,        \* ValueOf[l]: the account an observation is about
    Quota,          \* watched_accounts_quota of the client's offer
    Handlers,       \* requests served at the same time
    Jobs,           \* scan jobs
    Workers,        \* Celery workers
    MaxRetries,     \* max_retries of the task
    MaxMishaps      \* bound: scans, ingestions and workers that fail

VARIABLES
    account,    \* account[d]: its value and whether it is "active" or "removed"
    first,      \* the declarations whose first_scanned_at is set
    rows,       \* rows[l]: the declaration it was stored under, and from_first_scan
    known,      \* the observations the provider has
    job,        \* job[j]: status of the BreachScanJob and its account_ids
    queue,      \* messages waiting, <<job, retries>>
    task,       \* task[w]: how far a run is
    req,        \* req[h]: a declaration whose checks have passed
    missing,    \* requests the provider has counted and the usage table has not
    lost,       \* history: requests of runs that died before they recorded them
    told,       \* history: the observations the client was notified of
    silent,     \* history: those written by a run that could not announce them
    baseline,   \* history: baseline[d], what the provider had when the first pass ended
    excuse,     \* history: declarations scanned twice at once for the first time, or raced
    mishaps     \* history

vars == <<account, first, rows, known, job, queue, task, req, missing, lost, told,
          silent, baseline, excuse, mishaps>>

Absent == [value |-> "none", state |-> "none"]
NoRow == [d |-> "none", early |-> FALSE]
NoJob == [status |-> "none", ids |-> {}]
Idle == [pc |-> "idle"]
Free == [op |-> "free"]
Finished == {"done", "failed"}

Active == {d \in Declarations : account[d].state = "active"}

Init ==
    /\ account = [d \in Declarations |-> Absent]
    /\ first = {}
    /\ rows = [l \in Leaks |-> NoRow]
    /\ known \in SUBSET Leaks
    /\ job = [j \in Jobs |-> NoJob]
    /\ queue = {}
    /\ task = [w \in Workers |-> Idle]
    /\ req = [h \in Handlers |-> Free]
    /\ missing = 0 /\ lost = 0
    /\ told = {} /\ silent = {}
    /\ baseline = [d \in Declarations |-> {}]
    /\ excuse = {} /\ mishaps = 0

Requests == <<account, first, req>>
Runs == <<rows, job, queue, task, missing, lost, told, silent, baseline, mishaps>>

-----------------------------------------------------------------------------
(* Declarations. *)

\* ensure_watched_account_quota
QuotaAllows == Cardinality(Active) < Quota

\* declare_watched_account, the declaration is signed and the quota read...
BeginDeclare(h, d, v) ==
    /\ req[h] = Free
    /\ account[d] = Absent
    /\ \A x \in Handlers : req[x] # Free => req[x].d # d
    /\ QuotaAllows
    /\ req' = [req EXCEPT ![h] = [op |-> "declare", d |-> d, v |-> v]]
    /\ UNCHANGED <<account, first, known, Runs, excuse>>

\* ... and the row, which unique_active_watched_account refuses beside an active one.
Declare(h) ==
    /\ req[h].op = "declare"
    /\ LET d == req[h].d IN
       IF \E x \in Active : account[x].value = req[h].v
       THEN UNCHANGED <<account, excuse>>
       ELSE /\ account' = [account EXCEPT ![d] = [value |-> req[h].v, state |-> "active"]]
            /\ excuse' = IF QuotaAllows THEN excuse ELSE excuse \cup {"quota"}
    /\ req' = [req EXCEPT ![h] = Free]
    /\ UNCHANGED <<first, known, Runs>>

\* remove_watched_account: the row stays, with what was found.
Remove(d) ==
    /\ d \in Active
    /\ account' = [account EXCEPT ![d].state = "removed"]
    /\ UNCHANGED <<first, known, req, Runs, excuse>>

\* The provider publishes.
Publish(l) ==
    /\ l \notin known
    /\ known' = known \cup {l}
    /\ UNCHANGED <<Requests, Runs, excuse>>

-----------------------------------------------------------------------------
(* Scans. *)

\* WatchedAccountScanTriggerView: some of the active accounts, the job and its message.
Trigger(j, ids) ==
    /\ job[j] = NoJob
    /\ ids \subseteq Active /\ ids # {}
    /\ job' = [job EXCEPT ![j] = [status |-> "pending", ids |-> ids]]
    /\ queue' = queue \cup {<<j, 0>>}
    /\ UNCHANGED <<Requests, known, rows, task, missing, lost, told, silent, baseline, excuse, mishaps>>

\* run_watched_account_scan_task: a finished job is left; the accounts are loaded.
Receive(w, m) ==
    /\ task[w] = Idle
    /\ m \in queue
    /\ queue' = queue \ {m}
    /\ LET targets == job[m[1]].ids \cap Active IN
       IF job[m[1]].status \in Finished
       THEN UNCHANGED <<job, task>>
       ELSE IF targets = {}
       THEN job' = [job EXCEPT ![m[1]].status = "done"] /\ UNCHANGED task
       ELSE /\ job' = [job EXCEPT ![m[1]].status = "running"]
            /\ task' = [task EXCEPT ![w] = [pc |-> "next", j |-> m[1], retries |-> m[2], todo |-> targets,
                 fresh |-> targets \ first, cur |-> "none", left |-> {}, here |-> {}, made |-> {},
                 requests |-> 0, ok |-> FALSE]]
    /\ UNCHANGED <<Requests, known, rows, missing, lost, told, silent, baseline, excuse, mishaps>>

\* scan_email: the provider counts the request and answers.
Scan(w, d) ==
    /\ task[w].pc = "next"
    /\ d \in task[w].todo
    /\ missing' = missing + 1
    /\ task' = [task EXCEPT ![w].pc = "ingest", ![w].todo = @ \ {d}, ![w].cur = d, ![w].here = {},
                ![w].left = {l \in known : ValueOf[l] = account[d].value}, ![w].requests = @ + 1]
    /\ UNCHANGED <<Requests, known, rows, job, queue, lost, told, silent, baseline, excuse, mishaps>>

\* ... or fails before it is counted: the other accounts go on.
ScanFails(w, d) ==
    /\ task[w].pc = "next"
    /\ d \in task[w].todo
    /\ mishaps < MaxMishaps
    /\ mishaps' = mishaps + 1
    /\ task' = [task EXCEPT ![w].todo = @ \ {d}]
    /\ UNCHANGED <<Requests, known, rows, job, queue, missing, lost, told, silent, baseline, excuse>>

\* _ingest: get_or_create; an observation already known is only seen again.
Ingest(w, l) ==
    /\ task[w].pc = "ingest"
    /\ l \in task[w].left
    /\ rows' = IF rows[l] = NoRow
               THEN [rows EXCEPT ![l] = [d |-> task[w].cur, early |-> task[w].cur \in task[w].fresh]] ELSE rows
    /\ task' = [task EXCEPT ![w].left = @ \ {l}, ![w].here = IF rows[l] = NoRow THEN @ \cup {l} ELSE @]
    /\ UNCHANGED <<Requests, known, job, queue, missing, lost, told, silent, baseline, excuse, mishaps>>

\* An exception in the middle: what was created is kept, and not counted.
IngestFails(w) ==
    /\ task[w].pc = "ingest"
    /\ mishaps < MaxMishaps
    /\ mishaps' = mishaps + 1
    /\ silent' = silent \cup task[w].here
    /\ task' = [task EXCEPT ![w].pc = "next", ![w].here = {}, ![w].left = {}]
    /\ UNCHANGED <<Requests, known, rows, job, queue, missing, lost, told, baseline, excuse>>

\* Another run that also takes this for the first pass.
AlsoFirst(w, d) ==
    \E x \in Workers \ {w} : task[x] # Idle /\ d \in task[x].fresh /\ (d \in task[x].todo \/ d = task[x].cur)

\* The end of an account: first_scanned_at and last_scanned_at.
EndAccount(w) ==
    /\ task[w].pc = "ingest" /\ task[w].left = {}
    /\ LET d == task[w].cur IN
       /\ first' = first \cup ({d} \cap task[w].fresh)
       /\ baseline' = IF d \in first THEN baseline ELSE [baseline EXCEPT ![d] = known]
       /\ excuse' = IF d \notin first /\ AlsoFirst(w, d) THEN excuse \cup {d} ELSE excuse
    /\ task' = [task EXCEPT ![w].pc = "next", ![w].made = @ \cup task[w].here, ![w].here = {}, ![w].ok = TRUE]
    /\ UNCHANGED <<account, req, known, rows, job, queue, missing, lost, told, silent, mishaps>>

\* When every account has failed the task is retried, then given up.
Conclude(w) ==
    IF task[w].ok
    THEN task' = [task EXCEPT ![w].pc = "notify", ![w].requests = 0] /\ UNCHANGED <<queue, job>>
    ELSE /\ task' = [task EXCEPT ![w] = Idle]
         /\ IF task[w].retries < MaxRetries
            THEN queue' = queue \cup {<<task[w].j, task[w].retries + 1>>} /\ UNCHANGED job
            ELSE job' = [job EXCEPT ![task[w].j].status = "failed"] /\ UNCHANGED queue

\* Mutant: usage is recorded only when an account has answered.
RecordSuccessOnly(w) ==
    /\ task[w].pc = "next" /\ task[w].todo = {}
    /\ missing' = IF task[w].ok THEN missing - task[w].requests ELSE missing
    /\ Conclude(w)
    /\ UNCHANGED <<Requests, known, rows, lost, told, silent, baseline, excuse, mishaps>>

\* record_usage, even when accounts have failed.
Record(w) ==
    /\ task[w].pc = "next" /\ task[w].todo = {}
    /\ missing' = missing - task[w].requests
    /\ Conclude(w)
    /\ UNCHANGED <<Requests, known, rows, lost, told, silent, baseline, excuse, mishaps>>

\* notify_tenant_admins, of new observations only.
Notify(w) ==
    /\ task[w].pc = "notify"
    /\ told' = told \cup task[w].made
    /\ task' = [task EXCEPT ![w].pc = "done", ![w].made = {}]
    /\ UNCHANGED <<Requests, known, rows, job, queue, missing, lost, silent, baseline, excuse, mishaps>>

MarkDone(w) ==
    /\ task[w].pc = "done"
    /\ job' = [job EXCEPT ![task[w].j].status = "done"]
    /\ task' = [task EXCEPT ![w] = Idle]
    /\ UNCHANGED <<Requests, known, rows, queue, missing, lost, told, silent, baseline, excuse, mishaps>>

\* The message comes back: the worker has died with what it knew, or is only slow.
Redeliver(w) ==
    /\ task[w] # Idle
    /\ mishaps < MaxMishaps
    /\ mishaps' = mishaps + 1
    /\ queue' = queue \cup {<<task[w].j, task[w].retries>>}
    /\ \/ UNCHANGED <<task, silent, lost>>
       \/ /\ task' = [task EXCEPT ![w] = Idle]
          /\ silent' = silent \cup task[w].made \cup task[w].here
          /\ lost' = lost + task[w].requests
    /\ UNCHANGED <<Requests, known, rows, job, missing, told, baseline, excuse>>

Next ==
    \/ \E h \in Handlers : Declare(h) \/ \E d \in Declarations, v \in Values : BeginDeclare(h, d, v)
    \/ \E d \in Declarations : Remove(d)
    \/ \E l \in Leaks : Publish(l)
    \/ \E j \in Jobs, ids \in SUBSET Declarations : Trigger(j, ids)
    \/ \E w \in Workers :
         \/ \E m \in queue : Receive(w, m)
         \/ \E d \in Declarations : Scan(w, d) \/ ScanFails(w, d)
         \/ \E l \in Leaks : Ingest(w, l)
         \/ IngestFails(w) \/ EndAccount(w) \/ Record(w) \/ Notify(w) \/ MarkDone(w) \/ Redeliver(w)

Spec == Init /\ [][Next]_vars

-----------------------------------------------------------------------------
(* Every variable keeps its type; a row keeps the declaration it was found under. *)
TypeOK ==
    /\ account \in [Declarations -> {Absent} \cup [value : Values, state : {"active", "removed"}]]
    /\ first \subseteq Declarations
    /\ \A l \in Leaks : rows[l] # NoRow => account[rows[l].d].value = ValueOf[l]
    /\ job \in [Jobs -> [status : {"none", "pending", "running"} \cup Finished, ids : SUBSET Declarations]]
    /\ queue \subseteq Jobs \X (0..MaxRetries)
    /\ told \cup silent \subseteq {l \in Leaks : rows[l] # NoRow}

(* The offer's number of watched accounts is not exceeded and no account   *)
(* is watched twice, unless two declarations read the quota together.      *)
WithinQuota ==
    /\ "quota" \notin excuse => Cardinality(Active) =< Quota
    /\ \A d, x \in Active : account[d].value = account[x].value => d = x

(* Every observation that is stored is announced by the run that stored    *)
(* it, unless that run failed or died in between: the next one finds it    *)
(* known and says nothing of it.                                           *)
NewIsAnnounced ==
    \A l \in Leaks : rows[l] # NoRow =>
        \/ l \in told \cup silent
        \/ \E w \in Workers : task[w] # Idle /\ l \in task[w].made \cup task[w].here

(* "historique" and "apparu depuis": what is shown as history was there    *)
(* when the first pass ended, however often it was interrupted; and what   *)
(* is shown as new came after a first pass.  Unless two first passes met.  *)
HistoryIsHistory ==
    \A l \in Leaks : rows[l] # NoRow /\ rows[l].d \notin excuse =>
        IF rows[l].early THEN rows[l].d \in first => l \in baseline[rows[l].d] ELSE rows[l].d \in first

(* Every request the provider counts is in the usage table that the        *)
(* quota reads, whatever fails; only a worker that dies takes its own away.*)
RequestsRecorded ==
    LET inHand == UNION {{w} \X (1..task[w].requests) : w \in {x \in Workers : task[x] # Idle}}
    IN missing = lost + Cardinality(inHand)
=============================================================================
