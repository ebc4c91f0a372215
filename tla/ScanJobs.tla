------------------------------ MODULE ScanJobs ------------------------------
(***************************************************************************)
(* An analysis of a client's assets: the request that asks for it, the     *)
(* Celery task that runs it, and what it costs.                            *)
(*                                                                         *)
(* The view checks the guards, creates a BreachScanJob and publishes a     *)
(* message; a worker takes the message, reads the job, marks it running,   *)
(* queries the provider asset by asset, records the usage, starts the      *)
(* cooldown and concludes: done, failed, or a new message for a retry.     *)
(* Messages are acknowledged after the task (acks_late), so a worker that  *)
(* dies leaves its message to be delivered again, and a message that is    *)
(* held for too long is delivered while its worker still runs.             *)
(*                                                                         *)
(* Abstractions.  One client whose subscription is operational.  One       *)
(* request to the provider per asset.  The findings are in module Findings *)
(* and the throttle in Throttle.  A scan of a new asset (signals.py) has   *)
(* no job row: its status is "rowless" once it was asked for.  The guard   *)
(* on the licence's remaining requests compares a figure from a cache that *)
(* may be as old as the last usage: it may pass or refuse at any time.     *)
(***************************************************************************)
EXTENDS Integers, FiniteSets

CONSTANTS
    Scans,            \* the analyses that may be asked for
    Manual,           \* those a client asks for (TriggeredBy.MANUAL)
    Initial,          \* those of a new asset (INITIAL); the others are PLATFORM_ADMIN
    Workers,          \* Celery workers of the monitoring queue
    MaxAssets,        \* bound: assets of one analysis
    MaxRetries,       \* max_retries of the task
    MonthlyScans,     \* monthly_scans_quota of the client, 0 for unlimited
    PlatformScans,    \* monthly_scan_capacity of the platform
    Budget,           \* requests the licence allows
    MaxRedeliveries   \* bound: messages delivered again

ASSUME ScanAssumption ==
    /\ IsFiniteSet(Scans) /\ Scans # {} /\ IsFiniteSet(Workers)
    /\ Manual \subseteq Scans /\ Initial \subseteq Scans \ Manual
    /\ MaxAssets \in Nat /\ MaxRetries \in Nat /\ MonthlyScans \in Nat
    /\ PlatformScans \in Nat /\ Budget \in Nat /\ MaxRedeliveries \in Nat

VARIABLES
    job,          \* job[s]: status of the BreachScanJob, "absent" before s is asked for
    queue,        \* queue[s][r]: messages waiting for s with r retries behind them
    task,         \* task[w]: the message w holds and how far it is
    usage,        \* BreachIntelligenceUsage rows of the month
    recorded,     \* sum of their requests_consumed
    cooldown,     \* is the cooldown key of the client set?
    spent,        \* requests the provider has counted
    lost,         \* history: requests of analyses that ended before they were recorded
    attempts,     \* history: attempts[s], executions of execute_scan for s
    redelivered,  \* history: redelivered[s], messages of s delivered again
    doubled       \* history: scans that have had two messages at a time

vars == <<job, queue, task, usage, recorded, cooldown, spent, lost,
          attempts, redelivered, doubled>>

Finished == {"done", "failed"}
JobStates == {"absent", "pending", "running", "rowless"} \cup Finished
HasJob(s) == s \notin Initial
Retries == 0..MaxRetries

Idle(s) == [pc |-> "idle", scan |-> s, retries |-> 0, left |-> 0, ok |-> 0, count |-> 0]
AnyScan == CHOOSE s \in Scans : TRUE
Rest == Idle(AnyScan)

Init ==
    /\ job = [s \in Scans |-> "absent"]
    /\ queue = [s \in Scans |-> [r \in Retries |-> 0]]
    /\ task = [w \in Workers |-> Rest]
    /\ usage = 0 /\ recorded = 0 /\ spent = 0 /\ lost = 0
    /\ cooldown = FALSE
    /\ attempts = [s \in Scans |-> 0]
    /\ redelivered = [s \in Scans |-> 0]
    /\ doubled = {}

Held(s) == {w \in Workers : task[w].pc # "idle" /\ task[w].scan = s}
Waiting(s) == \E r \in Retries : queue[s][r] > 0
Publish(s, r) == queue' = [queue EXCEPT ![s][r] = @ + 1]

History == <<lost, attempts, redelivered, doubled>>

-----------------------------------------------------------------------------
(* Asking for an analysis                                                  *)

\* ensure_scan_quota counts rows, ensure_scan_budget_available requests.
EnsureScanQuota == MonthlyScans = 0 \/ usage < MonthlyScans
EnsureScanBudget == recorded + 1 <= PlatformScans

\* ensure_scan_cooldown_elapsed.
EnsureCooldownElapsed == ~ cooldown

\* BreachScanTriggerView, or the console's "scan": the job is created, then the
\* message is published; the broker may be down.
Trigger(s) ==
    /\ HasJob(s) /\ job[s] = "absent"
    /\ EnsureScanQuota
    /\ s \in Manual => EnsureScanBudget /\ EnsureCooldownElapsed
    /\ job' = [job EXCEPT ![s] = "pending"]
    /\ Publish(s, 0) \/ UNCHANGED queue
    /\ UNCHANGED <<task, usage, recorded, cooldown, spent, History>>

\* trigger_initial_scan, when an asset is declared: no guard, no job; a broker
\* that is down is ignored.
TriggerInitial(s) ==
    /\ ~ HasJob(s) /\ job[s] = "absent"
    /\ job' = [job EXCEPT ![s] = "rowless"]
    /\ Publish(s, 0) \/ UNCHANGED queue
    /\ UNCHANGED <<task, usage, recorded, cooldown, spent, History>>

-----------------------------------------------------------------------------
(* run_breach_scan_task                                                    *)

At(w, step) == task[w].pc = step
Goto(w, step) == task' = [task EXCEPT ![w].pc = step]

\* Mutant: a job that has ended is run again.
ReceiveUnguarded(w, s, r) ==
    /\ At(w, "idle") /\ queue[s][r] > 0
    /\ queue' = [queue EXCEPT ![s][r] = @ - 1]
    /\ task' = [task EXCEPT ![w] = [Idle(s) EXCEPT !.pc = IF HasJob(s) THEN "mark" ELSE "begin",
                                                   !.retries = r]]
    /\ UNCHANGED <<job, usage, recorded, cooldown, spent, History>>

\* The worker takes a message and reads the job: one that has ended is left.
Receive(w, s, r) ==
    /\ At(w, "idle") /\ queue[s][r] > 0
    /\ queue' = [queue EXCEPT ![s][r] = @ - 1]
    /\ task' = [task EXCEPT ![w] =
                   [Idle(s) EXCEPT !.pc = IF ~ HasJob(s) THEN "begin"
                                          ELSE IF job[s] \in Finished THEN "ack" ELSE "mark",
                                   !.retries = r]]
    /\ UNCHANGED <<job, usage, recorded, cooldown, spent, History>>

\* mark_job_done, mark_job_failed.
SetJob(s, status) == job' = IF HasJob(s) THEN [job EXCEPT ![s] = status] ELSE job

MarkJobRunning(w) ==
    /\ At(w, "mark")
    /\ job' = [job EXCEPT ![task[w].scan] = "running"]
    /\ Goto(w, "begin")
    /\ UNCHANGED <<queue, usage, recorded, cooldown, spent, History>>

\* scannable_assets: with none, the job is done at once.
Begin(w, n) ==
    /\ At(w, "begin")
    /\ IF n = 0
       THEN /\ SetJob(task[w].scan, "done")
            /\ Goto(w, "ack")
            /\ UNCHANGED attempts
       ELSE /\ task' = [task EXCEPT ![w].pc = "scan", ![w].left = n]
            /\ attempts' = [attempts EXCEPT ![task[w].scan] = @ + 1]
            /\ UNCHANGED job
    /\ UNCHANGED <<queue, usage, recorded, cooldown, spent, lost, redelivered, doubled>>

\* One asset: the requests are counted when scan_domain returns, not before.
\*   "ok"      scanned and ingested
\*   "ingest"  scanned, then the ingestion fails
\*   "midway"  the provider fails after it has counted the request
\*   "refused" the provider fails before it counts anything
Costs == {"ok", "ingest", "midway"}
ScanAsset(w, outcome) ==
    /\ At(w, "scan") /\ task[w].left > 0
    /\ outcome \in Costs => spent < Budget
    /\ spent' = IF outcome \in Costs THEN spent + 1 ELSE spent
    /\ lost' = IF outcome = "midway" THEN lost + 1 ELSE lost
    /\ task' = [task EXCEPT ![w] =
                   [task[w] EXCEPT !.left = @ - 1,
                                   !.count = IF outcome \in {"ok", "ingest"} THEN @ + 1 ELSE @,
                                   !.ok = IF outcome = "ok" THEN @ + 1 ELSE @]]
    /\ UNCHANGED <<job, queue, usage, recorded, cooldown, attempts, redelivered, doubled>>

\* Mutant: an analysis with an asset that failed is not recorded.
RecordSuccessOnly(w) ==
    /\ At(w, "scan") /\ task[w].left = 0
    /\ IF task[w].count > 0 /\ task[w].ok = task[w].count
       THEN /\ usage' = usage + 1
            /\ recorded' = recorded + task[w].count
       ELSE UNCHANGED <<usage, recorded>>
    /\ task' = [task EXCEPT ![w].pc = "cool", ![w].count = 0]
    /\ UNCHANGED <<job, queue, cooldown, spent, History>>

\* record_usage, for the whole batch, failed assets included.
RecordUsage(w) ==
    /\ At(w, "scan") /\ task[w].left = 0
    /\ IF task[w].count > 0
       THEN /\ usage' = usage + 1
            /\ recorded' = recorded + task[w].count
       ELSE UNCHANGED <<usage, recorded>>
    /\ task' = [task EXCEPT ![w].pc = "cool", ![w].count = 0]
    /\ UNCHANGED <<job, queue, cooldown, spent, History>>

MarkScanCooldown(w) ==
    /\ At(w, "cool")
    /\ cooldown' = (cooldown \/ task[w].scan \in Manual)
    /\ Goto(w, "conclude")
    /\ UNCHANGED <<job, queue, usage, recorded, spent, History>>

\* Mutant: the last failure is logged and nothing else.
ConcludeSilent(w) ==
    LET t == task[w] IN
    /\ At(w, "conclude")
    /\ IF t.ok > 0
       THEN SetJob(t.scan, "done") /\ UNCHANGED queue
       ELSE IF t.retries < MaxRetries
            THEN Publish(t.scan, t.retries + 1) /\ UNCHANGED job
            ELSE UNCHANGED <<job, queue>>
    /\ Goto(w, "ack")
    /\ UNCHANGED <<usage, recorded, cooldown, spent, History>>

\* An analysis fails when all its assets have; it is retried, then given up.
Conclude(w) ==
    LET t == task[w] IN
    /\ At(w, "conclude")
    /\ IF t.ok > 0
       THEN SetJob(t.scan, "done") /\ UNCHANGED queue
       ELSE IF t.retries < MaxRetries
            THEN Publish(t.scan, t.retries + 1) /\ UNCHANGED job
            ELSE SetJob(t.scan, "failed") /\ UNCHANGED queue
    /\ Goto(w, "ack")
    /\ UNCHANGED <<usage, recorded, cooldown, spent, History>>

\* The message leaves the broker only now (acks_late).
Ack(w) ==
    /\ At(w, "ack")
    /\ task' = [task EXCEPT ![w] = Rest]
    /\ UNCHANGED <<job, queue, usage, recorded, cooldown, spent, History>>

-----------------------------------------------------------------------------
(* Time and failures                                                       *)

\* One element per message that was delivered again.
Redeliveries == {x \in Scans \X (1..MaxRedeliveries) : x[2] <= redelivered[x[1]]}

MayRedeliver == Cardinality(Redeliveries) < MaxRedeliveries

\* A worker dies: its message is delivered again, and what its analysis has cost
\* and not recorded is lost.  If the retry was already published, there are two
\* messages from now on.
Crash(w) ==
    LET t == task[w] IN
    /\ ~ At(w, "idle")
    /\ MayRedeliver
    /\ redelivered' = [redelivered EXCEPT ![t.scan] = @ + 1]
    /\ Publish(t.scan, t.retries)
    /\ task' = [task EXCEPT ![w] = Rest]
    /\ lost' = lost + t.count
    /\ doubled' = IF Waiting(t.scan) \/ Held(t.scan) # {w} THEN doubled \cup {t.scan} ELSE doubled
    /\ UNCHANGED <<job, usage, recorded, cooldown, spent, attempts>>

\* The broker gives a message out again although its worker still runs.
VisibilityTimeout(w) ==
    LET s == task[w].scan IN
    /\ ~ At(w, "idle")
    /\ MayRedeliver
    /\ redelivered' = [redelivered EXCEPT ![s] = @ + 1]
    /\ Publish(s, task[w].retries)
    /\ doubled' = doubled \cup {s}
    /\ UNCHANGED <<job, task, usage, recorded, cooldown, spent, lost, attempts>>

\* The cooldown key expires.
CooldownEnds ==
    /\ cooldown
    /\ cooldown' = FALSE
    /\ UNCHANGED <<job, queue, task, usage, recorded, spent, History>>

-----------------------------------------------------------------------------
Step(w) ==
    \/ \E s \in Scans, r \in Retries : Receive(w, s, r)
    \/ MarkJobRunning(w)
    \/ \E n \in 0..MaxAssets : Begin(w, n)
    \/ \E outcome \in Costs \cup {"refused"} : ScanAsset(w, outcome)
    \/ RecordUsage(w) \/ MarkScanCooldown(w) \/ Conclude(w) \/ Ack(w)

Next ==
    \/ \E s \in Scans : Trigger(s) \/ TriggerInitial(s)
    \/ \E w \in Workers : Step(w) \/ Crash(w) \/ VisibilityTimeout(w)
    \/ CooldownEnds

Spec == Init /\ [][Next]_vars

\* The workers of the queue keep working.
FairSpec == Spec /\ \A w \in Workers : WF_vars(Step(w))

-----------------------------------------------------------------------------
(* Properties                                                              *)

\* The statuses of a job, and the phases of a task: only a task that is scanning
\* holds requests it has not recorded yet.
TypeOK ==
    /\ job \in [Scans -> JobStates]
    /\ \A s \in Scans : ~ HasJob(s) => job[s] \in {"absent", "rowless"}
    /\ \A s \in Scans, r \in Retries : queue[s][r] \in 0..(1 + MaxRedeliveries)
    /\ task \in [Workers -> [pc : {"idle", "mark", "begin", "scan", "cool", "conclude", "ack"},
                             scan : Scans, retries : Retries, left : 0..MaxAssets,
                             ok : 0..MaxAssets, count : 0..MaxAssets]]
    /\ \A w \in Workers : ~ At(w, "scan") => task[w].left = 0 /\ task[w].count = 0
    /\ usage \in Nat /\ recorded \in 0..Budget /\ spent \in 0..Budget /\ lost \in 0..Budget
    /\ cooldown \in BOOLEAN
    /\ attempts \in [Scans -> Nat]
    /\ redelivered \in [Scans -> 0..MaxRedeliveries]
    /\ doubled \in SUBSET Scans

\* One element per request that a worker has counted and not recorded yet.
Unrecorded == {x \in Workers \X (1..MaxAssets) : x[2] <= task[x[1]].count}

\* execute_scan, "enregistre MEME en cas d'echec partiel": every request the provider
\* has counted is in the usage rows, is about to be recorded by the worker that made
\* it, or belongs to an asset or a worker that failed half way.
RequestsAccounted ==
    spent = recorded + lost + Cardinality(Unrecorded)

\* tasks.py, "a redelivery of an already-finished job is a no-op": a job that has
\* ended keeps its status and costs nothing more, although its message may come
\* again, unless two of its messages were out at the same time.
RedeliveryIsNoOp ==
    [][\A s \in Scans \ doubled :
          job[s] \in Finished => job'[s] = job[s] /\ attempts'[s] = attempts[s]]_vars

\* max_retries: an analysis is attempted at most MaxRetries + 1 times per delivery of
\* its message, whatever fails.
AttemptsBounded ==
    \A s \in Scans : attempts[s] <= (MaxRetries + 1) * (1 + redelivered[s])

\* What an analysis costs is bounded and recorded, whatever fails in it.
AttemptsAccounted == TypeOK /\ RequestsAccounted /\ AttemptsBounded

\* A job whose message was published does not stay pending or running for ever, even
\* if workers die and the provider never answers.
JobsEnd ==
    \A s \in Scans : (HasJob(s) /\ (Waiting(s) \/ Held(s) # {})) ~> job[s] \in Finished
=============================================================================
