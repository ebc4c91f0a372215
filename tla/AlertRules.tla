----------------------------- MODULE AlertRules -----------------------------
(***************************************************************************)
(* The alerts that the daily checks of an asset open, update and close:    *)
(* certificate, security headers, e-mail configuration (monitoring/checks  *)
(* and the alert engine of monitoring/services).  One check at a time:     *)
(* what two tasks do to one alert is in module Checks.                     *)
(*                                                                         *)
(* A check whose target does not answer records a critical result without  *)
(* details.  Days are counted in a small scale whose thresholds are the    *)
(* constants.  The certificate alert is written with its thresholds marked *)
(* as notified; the task then asks for the e-mail, and one that dies in    *)
(* between, or whose broker does not answer, never asks: when its message  *)
(* comes back, nothing is new for the alert.                               *)
(***************************************************************************)
EXTENDS Integers, FiniteSets, FiniteSetsExt

CONSTANTS
    Thresholds,     \* SSL_NOTIFY_THRESHOLDS
    Longest,        \* bound: days a certificate may have left
    Headers         \* REQUIRED_HEADERS

Issues == {"spf_missing", "dmarc_missing", "dmarc_policy_none"}

VARIABLES
    days,       \* days the certificate has left
    missing,    \* the required headers the site does not send
    issues,     \* what the DNS lacks
    ssl,        \* the certificate alert
    hdr,        \* the headers alert
    eml,        \* the e-mail alert
    telling,    \* the thresholds a task has just marked and has still to ask the e-mail of
    told,       \* history: the thresholds whose e-mail was asked for, for this alert
    untold,     \* history: the thresholds whose task stopped before it asked
    worst,      \* history: the fewest days a check has seen since the alert opened
    blind       \* history: the alerts closed by a check that saw nothing

vars == <<days, missing, issues, ssl, hdr, eml, telling, told, untold, worst, blind>>

Closed == [open |-> FALSE]
Certificate == <<ssl, telling, told, untold, worst>>
IssueSets == {S \in SUBSET Issues : ~ {"dmarc_missing", "dmarc_policy_none"} \subseteq S}

Init ==
    /\ days \in 0..Longest
    /\ missing \in SUBSET Headers
    /\ issues \in IssueSets
    /\ ssl = Closed /\ hdr = Closed /\ eml = Closed
    /\ telling = {} /\ told = {} /\ untold = {} /\ worst = Longest
    /\ blind = {}

\* A day goes by, the certificate is renewed, the client edits the site or the DNS.
Environment ==
    \/ /\ days' \in ({days - 1} \cup (days + 1)..Longest) \cap -1..Longest
       /\ UNCHANGED <<missing, issues, hdr, eml, blind, Certificate>>
    \/ /\ missing' \in (SUBSET Headers) \ {missing}
       /\ UNCHANGED <<days, issues, hdr, eml, blind, Certificate>>
    \/ /\ issues' \in IssueSets \ {issues}
       /\ UNCHANGED <<days, missing, hdr, eml, blind, Certificate>>

-----------------------------------------------------------------------------
Crossed(d) == {t \in Thresholds : d =< t}

\* The thresholds kept with the alert: those it had and the new ones.
Notified(new) == IF ssl.open THEN ssl.notified \cup new ELSE new

\* _evaluate_ssl_alert: above the highest threshold the alert is closed; a threshold that is new
\* for the alert opens or updates it and is marked there, before any e-mail is asked for;
\* otherwise nothing is written, severity included.
EvaluateSsl(d) ==
    LET new == Crossed(d) \ (IF ssl.open THEN ssl.notified ELSE {}) IN
    IF d > Max(Thresholds)
    THEN ssl' = Closed /\ told' = {} /\ untold' = {} /\ worst' = Longest /\ UNCHANGED telling
    ELSE IF new = {}
    THEN UNCHANGED Certificate
    ELSE /\ ssl' = [open |-> TRUE, severity |-> IF d =< Min(Thresholds) THEN "critical" ELSE "warning",
                    notified |-> Notified(new)]
         /\ telling' = new
         /\ UNCHANGED <<told, untold>>
         /\ worst' = Min({d, IF ssl.open THEN worst ELSE d})

\* check_ssl_certificate: an expired certificate does not answer either.
CheckSsl ==
    /\ days >= 0
    /\ telling = {}
    /\ EvaluateSsl(days)
    /\ UNCHANGED <<days, missing, issues, hdr, eml, blind>>

\* run_single_check, after run_check: the e-mail is asked for.
AskMail ==
    /\ telling # {}
    /\ told' = told \cup telling
    /\ telling' = {}
    /\ UNCHANGED <<days, missing, issues, ssl, hdr, eml, untold, worst, blind>>

\* The worker dies, or the broker does not answer.
MailNotAsked ==
    /\ telling # {}
    /\ untold' = untold \cup telling
    /\ telling' = {}
    /\ UNCHANGED <<days, missing, issues, ssl, hdr, eml, told, worst, blind>>

\* _evaluate_headers_alert
EvaluateHeaders(m) == hdr' = IF m = {} THEN Closed ELSE [open |-> TRUE, missing |-> m]

CheckHeaders ==
    /\ EvaluateHeaders(missing)
    /\ blind' = blind \ {"headers"}
    /\ UNCHANGED <<days, missing, issues, eml, Certificate>>

Status(i) == IF {"spf_missing", "dmarc_missing"} \subseteq i THEN "critical" ELSE "warning"

\* _evaluate_email_alert
EvaluateEmail(i) ==
    eml' = IF i = {} THEN Closed ELSE [open |-> TRUE, issues |-> i, severity |-> Status(i)]

CheckEmail ==
    /\ EvaluateEmail(issues)
    /\ blind' = blind \ {"email"}
    /\ UNCHANGED <<days, missing, issues, hdr, Certificate>>

\* The target does not answer: no missing header, no issue and no date in the details.
CheckBlind(kind) ==
    /\ IF kind = "headers" THEN EvaluateHeaders({}) /\ UNCHANGED eml
       ELSE EvaluateEmail({}) /\ UNCHANGED hdr
    /\ blind' = blind \cup {kind}
    /\ UNCHANGED <<days, missing, issues, Certificate>>

Next ==
    \/ Environment
    \/ CheckSsl \/ AskMail \/ MailNotAsked
    \/ CheckHeaders \/ CheckEmail
    \/ \E kind \in {"headers", "email"} : CheckBlind(kind)

Spec == Init /\ [][Next]_vars

-----------------------------------------------------------------------------
(* Every variable keeps its type; an alert says something. *)
TypeOK ==
    /\ days \in -1..Longest /\ missing \subseteq Headers /\ issues \in IssueSets
    /\ ssl = Closed \/ ssl \in [open : {TRUE}, severity : {"warning", "critical"},
                                notified : (SUBSET Thresholds) \ {{}}]
    /\ hdr = Closed \/ hdr \in [open : {TRUE}, missing : (SUBSET Headers) \ {{}}]
    /\ eml = Closed \/ eml \in [open : {TRUE}, issues : IssueSets \ {{}}, severity : {"warning", "critical"}]
    /\ telling \cup told \cup untold \subseteq Thresholds /\ worst \in 0..Longest
    /\ blind \subseteq {"headers", "email"}

(* "each is a distinct notification point on the same still-open alert":   *)
(* for one alert, each threshold the certificate has been seen to cross    *)
(* has been marked once, in whatever order the checks see the days go down *)
(* and a short renewal push them up again; its e-mail was asked for once,  *)
(* or is about to be, or never will because the task stopped in between.   *)
ThresholdsToldOnce ==
    /\ telling \cap (told \cup untold) = {} /\ told \cap untold = {}
    /\ telling \cup told \cup untold = IF ssl.open THEN ssl.notified ELSE {}
    /\ ssl.open => ssl.notified = Crossed(worst)
                   /\ (ssl.severity = "critical" <=> worst =< Min(Thresholds))

(* A headers or e-mail alert closes only when a check has seen nothing     *)
(* wrong, except that a check whose target does not answer closes it too.  *)
ClosedBySight ==
    [][/\ hdr.open /\ ~ hdr'.open => missing = {} \/ "headers" \in blind'
       /\ eml.open /\ ~ eml'.open => issues = {} \/ "email" \in blind']_vars
=============================================================================
