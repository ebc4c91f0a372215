------------------------------ MODULE Bulletin ------------------------------
(***************************************************************************)
(* The daily "weather" e-mail of one client (notifications/services and    *)
(* tasks).  What it says is composed at once and is not modelled.          *)
(*                                                                         *)
(* Beat wakes the dispatcher up every quarter of an hour; in the quarter   *)
(* the client has chosen it enqueues a task, which looks in the log for a  *)
(* bulletin of today, composes the message, sends it and writes the log.   *)
(* Messages are acknowledged late and a task that fails is retried.        *)
(***************************************************************************)
EXTENDS Naturals

CONSTANTS
    Workers,        \* Celery workers of the emails queue
    MaxRetries,     \* max_retries of the task
    MaxMishaps      \* bound: workers that die, sends that fail, dispatchers that sleep

VARIABLES
    hour,       \* of the client's day: "before" the chosen quarter, or "due" since
    enabled,    \* NotificationPreferences.weather_enabled
    recipients, \* has the client an administrator to write to?
    log,        \* is there a row of EmailLog of today?
    queue,      \* messages waiting, by the retries behind them
    work,       \* work[w]: how far a task is
    sent,       \* bulletins sent today
    mishaps,    \* history
    excuse      \* history: what may have cost today its bulletin, or given it a second one

vars == <<hour, enabled, recipients, log, queue, work, sent, mishaps, excuse>>

Idle == [op |-> "idle"]
Client == <<enabled, recipients>>

Init ==
    /\ hour = "before"
    /\ enabled = TRUE /\ recipients = TRUE
    /\ log = FALSE
    /\ queue = {}
    /\ work = [w \in Workers |-> Idle]
    /\ sent = 0
    /\ mishaps = 0 /\ excuse = FALSE

UpdatePreferences ==
    /\ enabled' = ~ enabled
    /\ UNCHANGED <<hour, recipients, log, queue, work, sent, mishaps, excuse>>

\* list_recipient_emails: the last administrator leaves the company, or a first one joins it.
MembersChange ==
    /\ recipients' = ~ recipients
    /\ UNCHANGED <<hour, enabled, log, queue, work, sent, mishaps, excuse>>

Busy == {w \in Workers : work[w] # Idle}

\* list_preferences_due_for_weather, send_due_weather_emails: one wake-up in the quarter.
Wake ==
    /\ hour = "before"
    /\ hour' = "due"
    /\ queue' = IF enabled THEN queue \cup {0} ELSE queue
    /\ excuse' = (excuse \/ ~ enabled \/ queue # {} \/ Busy # {})
    /\ UNCHANGED <<Client, log, work, sent, mishaps>>

\* Beat is down, or late by a quarter: the day has no bulletin.
Oversleep ==
    /\ hour = "before"
    /\ mishaps < MaxMishaps
    /\ mishaps' = mishaps + 1
    /\ hour' = "due"
    /\ excuse' = TRUE
    /\ UNCHANGED <<Client, log, queue, work, sent>>

\* Midnight: whatever is still running writes its log under the new date.
Midnight ==
    /\ hour = "due"
    /\ hour' = "before"
    /\ log' = FALSE
    /\ sent' = 0
    /\ excuse' = (queue # {} \/ Busy # {})
    /\ UNCHANGED <<Client, queue, work, mishaps>>

\* send_weather_email: the preference, the log, the recipients.
Begin(w, r) ==
    /\ work[w] = Idle
    /\ r \in queue
    /\ queue' = queue \ {r}
    /\ work' = IF enabled /\ ~ log /\ recipients
                THEN [work EXCEPT ![w] = [op |-> "send", retries |-> r]] ELSE work
    /\ excuse' = (excuse \/ ~ enabled \/ ~ recipients)
    /\ UNCHANGED <<hour, Client, log, sent, mishaps>>

\* The message leaves (the AI's paragraph, when it fails, is only left out)...
Send(w) ==
    /\ work[w].op = "send"
    /\ sent' = sent + 1
    /\ work' = [work EXCEPT ![w].op = "log"]
    /\ UNCHANGED <<hour, Client, log, queue, mishaps, excuse>>

\* ... and then the log is written.
WriteLog(w) ==
    /\ work[w].op = "log"
    /\ log' = TRUE
    /\ work' = [work EXCEPT ![w] = Idle]
    /\ UNCHANGED <<hour, Client, queue, sent, mishaps, excuse>>

\* Mutant: a refused message is given up at once.
RefuseForGood(w) ==
    /\ work[w].op = "send"
    /\ mishaps < MaxMishaps
    /\ mishaps' = mishaps + 1
    /\ excuse' = (excuse \/ work[w].retries = MaxRetries)
    /\ work' = [work EXCEPT ![w] = Idle]
    /\ UNCHANGED <<hour, Client, log, queue, sent>>

\* The server refuses the message: the task is retried, then given up.
Refuse(w) ==
    /\ work[w].op = "send"
    /\ mishaps < MaxMishaps
    /\ mishaps' = mishaps + 1
    /\ queue' = IF work[w].retries < MaxRetries THEN queue \cup {work[w].retries + 1} ELSE queue
    /\ excuse' = (excuse \/ work[w].retries = MaxRetries)
    /\ work' = [work EXCEPT ![w] = Idle]
    /\ UNCHANGED <<hour, Client, log, sent>>

\* A worker dies, or is slow: its message is delivered again.
Redeliver(w) ==
    /\ work[w] # Idle
    /\ mishaps < MaxMishaps
    /\ mishaps' = mishaps + 1
    /\ queue' = queue \cup {work[w].retries}
    /\ work' \in {work, [work EXCEPT ![w] = Idle]}
    /\ excuse' = (excuse \/ work[w].op = "log" \/ work' = work)
    /\ UNCHANGED <<hour, Client, log, sent>>

Work(w) == (\E r \in queue : Begin(w, r)) \/ Send(w) \/ WriteLog(w)

Next ==
    \/ UpdatePreferences \/ MembersChange \/ Wake \/ Oversleep \/ Midnight
    \/ \E w \in Workers : Work(w) \/ Refuse(w) \/ Redeliver(w)

Spec == Init /\ [][Next]_vars

\* Beat and the workers go on; the day only ends when nothing is left to do, or late.
FairSpec ==
    /\ Spec
    /\ WF_vars(Wake)
    /\ \A w \in Workers : WF_vars(Work(w))

-----------------------------------------------------------------------------
(* Every variable keeps its type. *)
TypeOK ==
    /\ hour \in {"before", "due"} /\ {enabled, recipients, log, excuse} \subseteq BOOLEAN
    /\ queue \subseteq 0..MaxRetries
    /\ \A w \in Workers : work[w] = Idle
                          \/ work[w] \in [op : {"send", "log"}, retries : 0..MaxRetries]
    /\ sent \in Nat /\ mishaps \in 0..MaxMishaps

(* "sending the same email twice would be a real user-visible bug": one    *)
(* bulletin a day, unless a delivery overlapped another, a worker died     *)
(* between the message and the log, or a task ran over midnight.           *)
OneBulletinADay == sent =< 1 \/ excuse
=============================================================================
