------------------------------- MODULE Checks -------------------------------
(***************************************************************************)
(* The availability checks of one website: the dispatcher that Beat wakes  *)
(* every five minutes, the tasks it enqueues, and the "down" alert         *)
(* (monitoring/tasks and services).                                        *)
(*                                                                         *)
(* Time is counted in windows, from one wake-up of the dispatcher to the   *)
(* next.  A result of the last window is less than five minutes old when   *)
(* the dispatcher wakes up, or exactly as old as the jitter of the two     *)
(* wake-ups allows: it may or may not be due.  Messages are acknowledged   *)
(* late, and a task that fails is retried.                                 *)
(***************************************************************************)
EXTENDS Naturals, Sequences, FiniteSets

CONSTANTS
    Workers,        \* Celery workers of the monitoring queue
    Consecutive,    \* CONSECUTIVE_FAILURES_FOR_DOWN
    MaxQueue,       \* bound: messages waiting
    MaxDeaths       \* bound: workers that die or fail

VARIABLES
    site,       \* "up" or "down"
    active,     \* Asset.is_active
    age,        \* windows since the last result, 2 for more and for none
    seen,       \* is there a result in this window?
    recent,     \* the last results, newest first
    queue,      \* messages waiting
    work,       \* work[w]: how far a task is
    open,       \* is there an open "down" alert?
    mailed,     \* history: the e-mail of the open alert was asked for
    deaths,     \* history: workers that died or failed
    silent,     \* history: the task that opened the alert died before it asked for the e-mail
    crowded     \* history: there were two messages at a time

vars == <<site, active, age, seen, recent, queue, work, open, mailed, deaths, silent, crowded>>

Idle == [op |-> "idle"]
Busy == {w \in Workers : work[w] # Idle}
Messages == queue + Cardinality(Busy)

Init ==
    /\ site \in {"up", "down"}
    /\ active = TRUE
    /\ age = 2
    /\ seen = FALSE
    /\ recent = <<>>
    /\ queue = 0
    /\ work = [w \in Workers |-> Idle]
    /\ open = FALSE
    /\ mailed = FALSE /\ silent = FALSE /\ crowded = FALSE
    /\ deaths = 0

History == <<deaths, silent, crowded>>

\* The site goes down or comes back; the client switches the asset off or on.
Environment ==
    /\ \/ site' = (IF site = "up" THEN "down" ELSE "up") /\ UNCHANGED active
       \/ active' = ~ active /\ UNCHANGED site
    /\ UNCHANGED <<age, seen, recent, queue, work, open, mailed, History>>

Older(a) == IF a = 2 THEN 2 ELSE a + 1

\* Mutant: an asset is checked as long as it has no result.
DueOnce == IF active /\ recent = <<>> THEN {TRUE} ELSE {FALSE}

\* list_due_assets: never checked, or not since the interval; the wake-up that follows a result
\* at a distance of about the interval may find the asset due or not.
Due == IF ~ active THEN {FALSE} ELSE IF Older(age) = 2 THEN {TRUE} ELSE BOOLEAN

\* dispatch_due_checks: a new window; whether a message is already waiting is not looked at.
DispatchDueChecks ==
    /\ queue < MaxQueue
    /\ age' = Older(age)
    /\ seen' = FALSE
    /\ \E due \in Due :
         /\ queue' = IF due THEN queue + 1 ELSE queue
         /\ crowded' = (crowded \/ (due /\ Messages > 0))
    /\ UNCHANGED <<site, active, recent, work, open, mailed, deaths, silent>>

\* run_single_check: the asset is read, then the site is asked.
Probe(w) ==
    /\ work[w] = Idle
    /\ queue > 0
    /\ queue' = queue - 1
    /\ work' = IF active THEN [work EXCEPT ![w] = [op |-> "record", status |-> site]] ELSE work
    /\ UNCHANGED <<site, active, age, seen, recent, open, mailed, History>>

\* run_check: the result is one more row, dated when it is written.
Record(w) ==
    /\ work[w].op = "record"
    /\ recent' = SubSeq(<<[status |-> work[w].status, again |-> seen /\ work[w].status = "down"]>> \o recent, 1,
                        IF Len(recent) < Consecutive THEN Len(recent) + 1 ELSE Consecutive)
    /\ age' = 0
    /\ seen' = TRUE
    /\ work' = [work EXCEPT ![w] = [op |-> "evaluate"]]
    /\ UNCHANGED <<site, active, queue, open, mailed, History>>

AllDown(results) == \A i \in DOMAIN results : results[i].status = "down"

Confirmed(results) == Len(results) = Consecutive /\ AllDown(results)

Verdict(results) ==
    IF results[1].status = "up" THEN "resolve"
    ELSE IF Confirmed(results) THEN "open" ELSE "nothing"

\* history: the task has read three failures of three windows
Apart(results) == Len(results) = 3 /\ AllDown(results) /\ \A i \in 1..3 : ~ results[i].again

\* _evaluate_down_alert reads the last results, whoever wrote them.
Evaluate(w) ==
    /\ work[w].op = "evaluate"
    /\ work' = [work EXCEPT ![w] = IF Verdict(recent) = "nothing" THEN Idle
                                   ELSE [op |-> Verdict(recent), apart |-> Apart(recent)]]
    /\ UNCHANGED <<site, active, age, seen, recent, queue, open, mailed, History>>

ResolveAlert(w) ==
    /\ work[w].op = "resolve"
    /\ open' = FALSE
    /\ mailed' = FALSE /\ silent' = FALSE
    /\ work' = [work EXCEPT ![w] = Idle]
    /\ UNCHANGED <<site, active, age, seen, recent, queue, deaths, crowded>>

\* _open_or_update_alert: an open alert whose error is the same is left alone.
FindAlert(w) ==
    /\ work[w].op = "open"
    /\ \/ ~ open /\ work' = [work EXCEPT ![w].op = "create"]
       \/ open /\ work' = [work EXCEPT ![w] = Idle]
       \/ open /\ work' = [work EXCEPT ![w] = [op |-> "publish"]]
    /\ UNCHANGED <<site, active, age, seen, recent, queue, open, mailed, History>>

\* The row; the database refuses a second open one, and the task is retried from the start.
CreateAlert(w) ==
    /\ work[w].op = "create"
    /\ ~ open
    /\ open' = TRUE
    /\ mailed' = FALSE /\ silent' = FALSE
    /\ work' = [work EXCEPT ![w] = [op |-> "publish"]]
    /\ UNCHANGED <<site, active, age, seen, recent, queue, deaths, crowded>>

Publish(w) ==
    /\ work[w].op = "publish"
    /\ mailed' = open
    /\ work' = [work EXCEPT ![w] = Idle]
    /\ UNCHANGED <<site, active, age, seen, recent, queue, open, History>>

\* Back to the queue: the refused row, which is retried, or a worker that dies.
Again(w) ==
    /\ work' = [work EXCEPT ![w] = Idle]
    /\ queue' = queue + 1
    /\ crowded' = TRUE
    /\ UNCHANGED <<site, active, age, seen, recent, open, mailed>>

Conflict(w) ==
    /\ work[w].op = "create" /\ open
    /\ Again(w)
    /\ UNCHANGED <<deaths, silent>>

Die(w) ==
    /\ work[w] # Idle
    /\ deaths < MaxDeaths
    /\ deaths' = deaths + 1
    /\ silent' = (silent \/ work[w].op = "publish")
    /\ Again(w)

Work(w) ==
    \/ Probe(w) \/ Record(w) \/ Evaluate(w) \/ ResolveAlert(w) \/ FindAlert(w)
    \/ CreateAlert(w) \/ Publish(w) \/ Conflict(w)

Next ==
    \/ Environment
    \/ DispatchDueChecks
    \/ \E w \in Workers : Work(w) \/ Die(w)

Spec == Init /\ [][Next]_vars

\* Beat wakes the dispatcher up, and a worker goes on.
FairSpec ==
    /\ Spec
    /\ WF_vars(DispatchDueChecks)
    /\ \A w \in Workers : WF_vars(Work(w))

-----------------------------------------------------------------------------
Results == [status : {"up", "down"}, again : BOOLEAN]

(* Every variable keeps its type; the alert engine looks at the last three results. *)
TypeOK ==
    /\ site \in {"up", "down"} /\ {active, seen, open, mailed, silent, crowded} \subseteq BOOLEAN
    /\ age \in 0..2 /\ queue \in 0..(MaxQueue + Cardinality(Workers)) /\ deaths \in 0..MaxDeaths
    /\ recent \in UNION {[1..n -> Results] : n \in 0..Consecutive}
    /\ \A w \in Workers :
         \/ work[w] \in [op : {"idle", "evaluate", "publish"}]
         \/ work[w] \in [op : {"record"}, status : {"up", "down"}]
         \/ work[w] \in [op : {"resolve", "open", "create"}, apart : BOOLEAN]

(* "confirmer un DOWN par 3 echecs consecutifs avant d'alerter": the alert *)
(* opens on three failures of three windows, unless two messages for the   *)
(* site were alive at a time (a backlog, a retry or a redelivery), whose   *)
(* results of one window count as several.                                 *)
DownIsConfirmed ==
    [][~ open /\ open' =>
         \E w \in Workers :
            work[w].op = "create" /\ work'[w] # work[w] /\ (crowded \/ work[w].apart)]_vars

(* The client is written to about every alert that opens, unless the task  *)
(* that opened it died before it asked for the e-mail: run again, it finds *)
(* the alert open and says nothing.                                        *)
AlertsAreMailed ==
    open => mailed \/ silent \/ \E w \in Workers : work[w].op = "publish"

(* The alert of a site that is back for good is closed for good. *)
RecoveryCloses == <>[](site = "up" /\ active) => <>[](~ open)

(* A site that stays down is in the end the object of an open alert, for as long as it is. *)
OutageIsSeen == <>[](site = "down" /\ active) => <>[]open
=============================================================================
