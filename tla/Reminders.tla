----------------------------- MODULE Reminders -----------------------------
(***************************************************************************)
(* The daily reminders of the training campaigns (training/campagnes and   *)
(* tasks), the nominative link that each of them replaces, and the request *)
(* of an employee whose link is dead (training/services).                  *)
(*                                                                         *)
(* One task a day computes the whole list, then takes the enrolments one   *)
(* by one: a new link is saved, the e-mail leaves, the log is written.     *)
(* These are three commits.  A task that fails or dies is run again, and   *)
(* computes its list again.                                                *)
(***************************************************************************)
EXTENDS Integers, FiniteSets

CONSTANTS
    Enrolments,     \* enrolments of one campaign
    Workers,        \* Celery workers
    DayOf,          \* DayOf[k]: the first day of a kind of reminder
    LastDay,        \* the last day of the links: due date and margin
    MaxMishaps      \* bound: tasks that die or whose e-mail is refused

Kinds == {"after", "before", "mid"}

VARIABLES
    day,        \* days since the enrolment
    enabled,    \* ReminderPolicy.enabled
    over,       \* the enrolments that have a certificate
    revoked,    \* the enrolments whose access was withdrawn
    log,        \* log[e]: ReminderLog rows
    pending,    \* messages of the task waiting: today's, or a retry
    task,       \* task[w]: the list of a run, and how far it is
    holds,      \* the enrolments whose employee holds the link that works
    sent,       \* history: sent[e][k], reminders that left: none, one, more
    today,      \* history: today[e], reminders of today
    runs,       \* history: runs started today
    mishaps,    \* history
    excused     \* history: excused[e], the kinds that were sent and not logged, or listed twice

vars == <<day, enabled, over, revoked, log, pending, task, holds, sent, today, runs, mishaps, excused>>

Idle == [op |-> "idle"]
State == <<over, revoked>>
History == <<sent, today, excused>>

Init ==
    /\ day = 0
    /\ enabled = TRUE
    /\ over = {} /\ revoked = {}
    /\ log = [e \in Enrolments |-> {}]
    /\ pending = 0
    /\ task = [w \in Workers |-> Idle]
    /\ holds = Enrolments
    /\ sent = [e \in Enrolments |-> [k \in Kinds |-> 0]]
    /\ today = [e \in Enrolments |-> 0]
    /\ runs = 0
    /\ mishaps = 0
    /\ excused = [e \in Enrolments |-> {}]

-----------------------------------------------------------------------------
(* What the campaign does meanwhile. *)

\* soumettre_le_quiz delivers the certificate.
Finish(e) ==
    /\ e \in holds \ (over \cup revoked)
    /\ day =< LastDay
    /\ over' = over \cup {e}
    /\ UNCHANGED <<day, enabled, revoked, log, pending, task, holds, runs, mishaps, History>>

Revoke(e) ==
    /\ e \notin revoked
    /\ revoked' = revoked \cup {e}
    /\ UNCHANGED <<day, enabled, over, log, pending, task, holds, runs, mishaps, History>>

\* regler_la_politique
SetPolicy ==
    /\ enabled' = ~ enabled
    /\ UNCHANGED <<day, State, log, pending, task, holds, runs, mishaps, History>>

\* A new day: Beat sends the task.
NewDay ==
    /\ day =< LastDay
    /\ pending = 0 /\ \A w \in Workers : task[w] = Idle
    /\ day' = day + 1
    /\ pending' = 1
    /\ runs' = 0
    /\ today' = [e \in Enrolments |-> 0]
    /\ UNCHANGED <<enabled, State, log, task, holds, mishaps, sent, excused>>

-----------------------------------------------------------------------------
(* relances_du_jour. *)

Concerned(e) == enabled /\ e \notin revoked /\ day =< LastDay /\ e \notin over

\* "after" is looked at first, then "before", then "mid"; one at most.
Due(e) == {k \in Kinds \ log[e] : day >= DayOf[k]}
First(ks) == IF "after" \in ks THEN "after" ELSE IF "before" \in ks THEN "before" ELSE "mid"

\* Mutant: every kind that is due is listed.
ListAll == UNION {{<<e, k>> : k \in Due(e)} : e \in {x \in Enrolments : Concerned(x)}}

List == {<<e, First(Due(e))>> : e \in {x \in Enrolments : Concerned(x) /\ Due(x) # {}}}

\* What the other runs have listed and not logged.
InHand == UNION {task[v].todo \cup {task[v].cur} : v \in {x \in Workers : task[x] # Idle}}

StartRun(w) ==
    /\ task[w] = Idle
    /\ pending > 0
    /\ pending' = pending - 1
    /\ task' = [task EXCEPT ![w] = [op |-> "next", todo |-> List, cur |-> <<>>, fresh |-> TRUE]]
    /\ runs' = runs + 1
    /\ excused' = [e \in Enrolments |-> excused[e] \cup {k \in Kinds : <<e, k>> \in List \cap InHand}]
    /\ UNCHANGED <<day, enabled, State, log, holds, mishaps, sent, today>>

-----------------------------------------------------------------------------
(* envoyer_les_relances. *)

\* The link a run has just saved for this employee is no longer the last one.
Stale(e) == [w \in Workers |-> IF task[w].op = "mail" /\ task[w].cur[1] = e
                               THEN [task[w] EXCEPT !.fresh = FALSE] ELSE task[w]]

\* EnrollmentLinkView: the administrator passes the new link on.
RenewLink(e) ==
    /\ e \notin revoked
    /\ holds' = holds \cup {e}
    /\ task' = Stale(e)
    /\ UNCHANGED <<day, enabled, State, log, pending, runs, mishaps, History>>

\* renouveler_le_lien, on the enrolment as it was loaded with the list.
Renew(w) ==
    /\ task[w].op = "next"
    /\ \E x \in task[w].todo :
         /\ task' = [Stale(x[1]) EXCEPT ![w] = [op |-> "mail", todo |-> task[w].todo \ {x}, cur |-> x, fresh |-> TRUE]]
         /\ holds' = holds \ {x[1]}
    /\ UNCHANGED <<day, enabled, State, log, pending, runs, mishaps, History>>

\* envoyer_relance
Mail(w) ==
    /\ task[w].op = "mail"
    /\ LET e == task[w].cur[1]
           k == task[w].cur[2] IN
       /\ sent' = [sent EXCEPT ![e][k] = IF @ = 0 THEN 1 ELSE 2]
       /\ today' = [today EXCEPT ![e] = IF @ = 0 THEN 1 ELSE 2]
       /\ holds' = IF task[w].fresh THEN holds \cup {e} ELSE holds
    /\ task' = [task EXCEPT ![w].op = "log"]
    /\ UNCHANGED <<day, enabled, State, log, pending, runs, mishaps, excused>>

\* unique_reminder_per_kind refuses a second row: the exception ends the run, and it is retried.
WriteLog(w) ==
    /\ task[w].op = "log"
    /\ LET e == task[w].cur[1]
           k == task[w].cur[2] IN
       IF k \in log[e]
       THEN /\ pending' = pending + 1
            /\ task' = [task EXCEPT ![w] = Idle]
            /\ UNCHANGED log
       ELSE /\ log' = [log EXCEPT ![e] = @ \cup {k}]
            /\ task' = [task EXCEPT ![w].op = "next"]
            /\ UNCHANGED pending
    /\ UNCHANGED <<day, enabled, State, holds, runs, mishaps, History>>

EndRun(w) ==
    /\ task[w].op = "next" /\ task[w].todo = {}
    /\ task' = [task EXCEPT ![w] = Idle]
    /\ UNCHANGED <<day, enabled, State, log, pending, holds, runs, mishaps, History>>

\* The e-mail is refused (retry) or the worker dies (late acknowledgement): the task runs again.
Fail(w) ==
    /\ task[w] # Idle
    /\ mishaps < MaxMishaps
    /\ mishaps' = mishaps + 1
    /\ pending' = pending + 1
    /\ task' = [task EXCEPT ![w] = Idle]
    /\ excused' = IF task[w].op = "log" THEN [excused EXCEPT ![task[w].cur[1]] = @ \cup {task[w].cur[2]}] ELSE excused
    /\ UNCHANGED <<day, enabled, State, log, holds, runs, sent, today>>

\* A message is delivered while the run it started is still going (visibility timeout),
\* or someone runs the task by hand.
RunAgain ==
    /\ mishaps < MaxMishaps
    /\ mishaps' = mishaps + 1
    /\ pending' = pending + 1
    /\ UNCHANGED <<day, enabled, State, log, task, holds, runs, History>>

Run(w) == StartRun(w) \/ Renew(w) \/ Mail(w) \/ WriteLog(w) \/ EndRun(w)

Next ==
    \/ \E e \in Enrolments : Finish(e) \/ Revoke(e) \/ RenewLink(e)
    \/ SetPolicy \/ NewDay \/ RunAgain
    \/ \E w \in Workers : Run(w) \/ Fail(w)

\* Beat wakes up every day, and workers go on.
Fairness == WF_vars(NewDay) /\ \A w \in Workers : WF_vars(Run(w))

Spec == Init /\ [][Next]_vars
FairSpec == Spec /\ Fairness

-----------------------------------------------------------------------------
(* Every variable keeps its type. *)
TypeOK ==
    /\ day \in 0..LastDay + 1 /\ enabled \in BOOLEAN
    /\ over \cup revoked \cup holds \subseteq Enrolments
    /\ log \in [Enrolments -> SUBSET Kinds] /\ excused \in [Enrolments -> SUBSET Kinds]
    /\ pending \in Nat /\ runs \in Nat /\ mishaps \in 0..MaxMishaps
    /\ \A w \in Workers : task[w] = Idle \/ task[w].todo \subseteq Enrolments \X Kinds
    /\ sent \in [Enrolments -> [Kinds -> 0..2]] /\ today \in [Enrolments -> 0..2]

(* "Chaque nature de relance part une fois par inscription, jamais plus":  *)
(* true but of a run that stopped between the e-mail and the log, or of    *)
(* two runs that had listed the same reminder.                             *)
EachKindOnce == \A e \in Enrolments : \A k \in Kinds \ excused[e] : sent[e][k] =< 1

(* One reminder a day and an employee, as long as the task runs once a day. *)
OnePerDay == runs =< 1 => \A e \in Enrolments : today[e] =< 1

=============================================================================
