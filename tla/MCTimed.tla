------------------------------- MODULE MCTimed -------------------------------
(***************************************************************************)
(* What time, tasks and retries make happen: the checks of a site and the  *)
(* alerts they open, the daily bulletin, the reminders of the training     *)
(* campaigns, the jobs of the assistant, the locks after failed logins,    *)
(* the cached settings and what a scan asks of the provider, in one run.   *)
(* They share no variable and each property speaks of one of them, so it   *)
(* is enough to let one of them move in a behaviour.                       *)
(***************************************************************************)
EXTENDS Naturals, FiniteSets, TLC

CONSTANTS
    a, b, e1, Workers, Handlers

\* Processes are finitely many.
ASSUME ProcessesAssumption == IsFiniteSet(Workers) /\ IsFiniteSet(Handlers)

VARIABLES
    part,       \* the part that moves
    site, active, age, seen, recent, checksQueue, checksWork, open, mailed, deaths,
    silent, crowded,
    days, missing, issues, ssl, hdr, eml, telling, told, untold, worst, blind,
    hour, bulletinEnabled, recipients, bulletinLog, bulletinQueue, bulletinWork,
    bulletinSent, bulletinMishaps, bulletinExcuse,
    day, remindersEnabled, over, revoked, remindersLog, pending, remindersTask,
    holds, remindersSent, today, runs, remindersMishaps, excused,
    failures, window, lock, at, overlap,
    stored, settingsCached, settingsWork, settingsRaced,
    kind, used, doc, job, jobsQueue, jobsTask, req, replies, calls, lost,
    redelivered, again, orphan, jobsRaced, signed, early,
    queriesMode, queriesPages, queriesScan, queriesGot, queriesRemaining,
    queriesCached, queriesTime, queriesExcuse

\* the first day of each kind of reminder
DayOf == [mid |-> 1, before |-> 2, after |-> 3]

\* the pieces of work that may be asked for: one of the library, or two composed
OfKinds(x, y) == [j \in {a, b} |-> IF j = a THEN x ELSE y]
Mixes == {OfKinds("charter", "nothing"), OfKinds("reply", "nothing"),
          OfKinds("synthesis", "nothing"), OfKinds("composed", "composed")}

C == INSTANCE Checks WITH
    Consecutive <- 3, MaxQueue <- 1, MaxDeaths <- 1, queue <- checksQueue,
    work <- checksWork
A == INSTANCE AlertRules WITH
    Thresholds <- {1, 2, 3}, Longest <- 4, Headers <- {"hsts", "csp"}
B == INSTANCE Bulletin WITH
    MaxRetries <- 1, MaxMishaps <- 1, enabled <- bulletinEnabled,
    log <- bulletinLog, queue <- bulletinQueue, work <- bulletinWork,
    sent <- bulletinSent, mishaps <- bulletinMishaps, excuse <- bulletinExcuse
R == INSTANCE Reminders WITH
    Enrolments <- {e1}, DayOf <- DayOf, LastDay <- 4, MaxMishaps <- 1,
    enabled <- remindersEnabled, log <- remindersLog, task <- remindersTask,
    sent <- remindersSent, mishaps <- remindersMishaps
L == INSTANCE Lockout WITH
    Attempts <- Handlers, MaxFailures <- 21
S == INSTANCE Settings WITH
    Keys <- {"cti_mode", "trial_plan_code"}, Values <- {"v", "w"},
    Readers <- Handlers, cached <- settingsCached, work <- settingsWork,
    raced <- settingsRaced
J == INSTANCE AIJobs WITH
    Works <- {a, b}, Mixes <- Mixes, Limit <- 1, MaxRetries <- 1,
    MaxRedeliveries <- 1, queue <- jobsQueue, task <- jobsTask, raced <- jobsRaced
Q == INSTANCE Queries WITH
    Scans <- {a, b}, PagesOf <- {<<3, 1>>}, Cassettes <- {1},
    MAX_PAGINATION_PAGES <- 2, MAX_RETRIES <- 1, Licence <- 3, Margin <- 1,
    Replayed <- 9, Timeout <- 1, MaxTime <- 2, mode <- queriesMode,
    pages <- queriesPages, scan <- queriesScan, got <- queriesGot,
    remaining <- queriesRemaining, cached <- queriesCached, time <- queriesTime,
    excuse <- queriesExcuse

checksVars ==
      <<site, active, age, seen, recent, checksQueue, checksWork, open, mailed, deaths,
      silent, crowded>>
rulesVars == <<days, missing, issues, ssl, hdr, eml, telling, told, untold, worst, blind>>
bulletinVars ==
      <<hour, bulletinEnabled, recipients, bulletinLog, bulletinQueue, bulletinWork,
      bulletinSent, bulletinMishaps, bulletinExcuse>>
remindersVars ==
      <<day, remindersEnabled, over, revoked, remindersLog, pending, remindersTask,
      holds, remindersSent, today, runs, remindersMishaps, excused>>
lockoutVars == <<failures, window, lock, at, overlap>>
settingsVars == <<stored, settingsCached, settingsWork, settingsRaced>>
jobsVars ==
      <<kind, used, doc, job, jobsQueue, jobsTask, req, replies, calls, lost,
      redelivered, again, orphan, jobsRaced, signed, early>>
queriesVars ==
      <<queriesMode, queriesPages, queriesScan, queriesGot, queriesRemaining,
      queriesCached, queriesTime, queriesExcuse>>
vars == <<part, checksVars, rulesVars, bulletinVars, remindersVars, lockoutVars, settingsVars, jobsVars, queriesVars>>

Parts == {"checks", "rules", "bulletin", "reminders", "lockout", "settings", "jobs", "queries"}

Init ==
    /\ part \in Parts
    /\ C!Init
    /\ A!Init
    /\ B!Init
    /\ R!Init
    /\ L!Init
    /\ S!Init
    /\ J!Init
    /\ Q!Init
    /\ part = "checks" \/ site = "up"
    /\ part = "rules" \/ (days = 4 /\ missing = {} /\ issues = {})
    /\ part = "jobs" \/ kind = OfKinds("charter", "nothing")

Next ==
    \/ /\ part = "checks" /\ C!Next
       /\ UNCHANGED <<part, rulesVars, bulletinVars, remindersVars, lockoutVars, settingsVars, jobsVars, queriesVars>>
    \/ /\ part = "rules" /\ A!Next
       /\ UNCHANGED <<part, checksVars, bulletinVars, remindersVars, lockoutVars, settingsVars, jobsVars, queriesVars>>
    \/ /\ part = "bulletin" /\ B!Next
       /\ UNCHANGED <<part, checksVars, rulesVars, remindersVars, lockoutVars, settingsVars, jobsVars, queriesVars>>
    \/ /\ part = "reminders" /\ R!Next
       /\ UNCHANGED <<part, checksVars, rulesVars, bulletinVars, lockoutVars, settingsVars, jobsVars, queriesVars>>
    \/ /\ part = "lockout" /\ L!Next
       /\ UNCHANGED <<part, checksVars, rulesVars, bulletinVars, remindersVars, settingsVars, jobsVars, queriesVars>>
    \/ /\ part = "settings" /\ S!Next
       /\ UNCHANGED <<part, checksVars, rulesVars, bulletinVars, remindersVars, lockoutVars, jobsVars, queriesVars>>
    \/ /\ part = "jobs" /\ J!Next
       /\ UNCHANGED <<part, checksVars, rulesVars, bulletinVars, remindersVars, lockoutVars, settingsVars, queriesVars>>
    \/ /\ part = "queries" /\ Q!Next
       /\ UNCHANGED <<part, checksVars, rulesVars, bulletinVars, remindersVars, lockoutVars, settingsVars, jobsVars>>

(* The fairness of each part, for the part that moves. *)
Fairness ==
    /\ WF_checksVars(part = "checks" /\ C!DispatchDueChecks)
    /\ \A w \in Workers : WF_checksVars(part = "checks" /\ C!Work(w))
    /\ WF_bulletinVars(part = "bulletin" /\ B!Wake)
    /\ \A w \in Workers : WF_bulletinVars(part = "bulletin" /\ B!Work(w))
    /\ WF_remindersVars(part = "reminders" /\ R!NewDay)
    /\ \A w \in Workers : WF_remindersVars(part = "reminders" /\ R!Run(w))
    /\ WF_lockoutVars(part = "lockout" /\ L!Tick)
    /\ \A h \in Handlers : WF_lockoutVars(part = "lockout" /\ L!Finish(h))
    /\ WF_settingsVars(part = "settings" /\ S!EntryExpires)
    /\ \A w \in Workers : WF_jobsVars(part = "jobs" /\ J!Work(w))
    /\ \A h \in Handlers : WF_jobsVars(part = "jobs" /\ J!Serve(h))
    /\ \A j \in {a, b} : WF_queriesVars(part = "queries" /\ Q!Run(j))

Spec == Init /\ [][Next]_vars /\ Fairness

-----------------------------------------------------------------------------
(* Every alert and every reminder leaves by e-mail once: an alert that     *)
(* opens, each threshold of a certificate, one bulletin a day, one         *)
(* reminder of a kind and one a day.  But for the task that died between   *)
(* the row and the e-mail, or between the e-mail and the row.              *)
MailsOnce ==
    /\ part = "checks" =>
         /\ C!TypeOK
         /\ C!AlertsAreMailed
    /\ part = "rules" =>
         /\ A!TypeOK
         /\ A!ThresholdsToldOnce
    /\ part = "bulletin" =>
         /\ B!TypeOK
         /\ B!OneBulletinADay
    /\ part = "reminders" =>
         /\ R!TypeOK
         /\ R!EachKindOnce
         /\ R!OnePerDay

(* The ceilings hold: nobody tries more passwords than the rungs allow, a  *)
(* locked account compares none, the value served is the one stored, every *)
(* call of the assistant that was billed is counted, and each question     *)
(* gets one reply, versions differ and a validated document keeps its      *)
(* text.  A scan has every page it could reach, and the budget is not      *)
(* refused while there is some.  But for the requests served together, the *)
(* calls whose answer or task was lost, the tasks that came back and those *)
(* that failed with their reply written.                                   *)
LimitsHold ==
    /\ part = "lockout" =>
         /\ L!TypeOK
         /\ L!SequentialCeiling
         /\ L!LockedMeansNotCompared
    /\ part = "settings" =>
         /\ S!TypeOK
         /\ S!FreshUnlessRaced
    /\ part = "jobs" =>
         /\ J!TypeOK
         /\ J!CallsAccounted
         /\ J!VersionsDiffer
         /\ J!ValidatedKeepsItsText
         /\ J!OneReply
    /\ part = "queries" =>
         /\ Q!TypeOK
         /\ Q!DoneIsComplete
         /\ Q!FigureNotBelow
         /\ Q!FigureIsRecent

(* An outage is confirmed before it is told, an alert closes only when     *)
(* nothing wrong was seen; a site that stays down has an open alert in the *)
(* end, and one that is back for good has none.                            *)
OutagesFollowed ==
    /\ C!DownIsConfirmed
    /\ A!ClosedBySight
    /\ part = "checks" => C!RecoveryCloses /\ C!OutageIsSeen

(* Nothing hangs, under the fairness above.  "La meteo part toujours": a   *)
(* day on which the dispatcher wakes up ends with its bulletin, unless the *)
(* client does not want it or has nobody to receive it, the server refused *)
(* it, or a task ran over midnight.  An employee whose link a reminder has replaced receives one  *)
(* that works, unless a second run replaced it with an old list, as long   *)
(* as reminders are on.  "Rester en generation en cours pour toujours      *)
(* serait le pire des etats": a document being written is finished or      *)
(* failed, unless its message was never published.  A lock ends, and a     *)
(* stale value is replaced.  A scan ends, whatever the provider answers.   *)
NothingHangs ==
    []remindersEnabled => \A j \in {a, b} :
        \/ part = "bulletin" /\ hour = "due"
        \/ part = "reminders" /\ e1 \notin holds
        \/ part = "jobs" /\ doc[j].status = "generating"
        \/ part = "lockout" /\ lock > 0
        \/ part = "settings" /\ S!Stale
        \/ part = "queries" /\ Q!At(j, "asked")
      ~>
        \/ part = "bulletin" /\ (bulletinSent > 0 \/ bulletinExcuse \/ hour = "before")
        \/ part = "reminders" /\ (e1 \in holds \cup over \cup revoked \/ excused[e1] # {})
        \/ part = "jobs" /\ (doc[j].status # "generating" \/ j \in orphan)
        \/ part = "lockout" /\ lock = 0
        \/ part = "settings" /\ ~ S!Stale
        \/ part = "queries" /\ Q!Over(j)
=============================================================================
