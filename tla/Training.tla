------------------------------ MODULE Training ------------------------------
(***************************************************************************)
(* One employee and one course of the training module (training/services,  *)
(* campagnes, tasks, views): enrolment and invitation, the nominative      *)
(* link, the screens, the quiz and its attempts, the certificate, and the  *)
(* purge of old results.                                                   *)
(*                                                                         *)
(* Each request loads the enrolment first and writes later; the enrolment  *)
(* and the submission are transactions, but what they have read is not     *)
(* locked.  Only the unique constraints stand between two submissions.     *)
(***************************************************************************)
EXTENDS Naturals, FiniteSets

CONSTANTS
    Enrolments,     \* identities of enrolments
    Screens,        \* screens of the published version
    Handlers,       \* requests served at the same time
    Questions,      \* number of questions of the quiz
    Threshold,      \* pass_threshold, in percent
    MaxAttempts,    \* max_attempts of the version
    MaxExtra        \* bound: attempts the administrators grant

VARIABLES
    active,     \* Learner.is_active
    assigned,   \* is there a CourseAssignment?
    enrol,      \* enrol[e]: "none", "live" or "revoked"
    expired,    \* the enrolments past their due date and its margin
    seen,       \* seen[e]: ScreenProgress rows
    extra,      \* extra[e]: extra_attempts
    tries,      \* tries[e]: Attempt rows
    cert,       \* cert[e]: score of its Certificate, NoCert without one
    req,        \* req[h]: what a request has loaded
    invited,    \* history: the enrolments whose invitation has left
    granted,    \* history: granted[e], attempts granted
    made,       \* history: made[e], attempts made since the enrolment
    excuse      \* history: what the guards do not cover

vars == <<active, assigned, enrol, expired, seen, extra, tries, cert, req,
          invited, granted, made, excuse>>

Idle == [op |-> "idle"]
NoCert == 1000
Excuses == {"purged", "grant"}

Init ==
    /\ active = TRUE
    /\ assigned \in BOOLEAN
    /\ enrol = [e \in Enrolments |-> "none"]
    /\ expired = {}
    /\ seen = [e \in Enrolments |-> {}]
    /\ extra = [e \in Enrolments |-> 0]
    /\ tries = [e \in Enrolments |-> {}]
    /\ cert = [e \in Enrolments |-> NoCert]
    /\ req = [h \in Handlers |-> Idle]
    /\ invited = {}
    /\ granted = [e \in Enrolments |-> 0]
    /\ made = [e \in Enrolments |-> 0]
    /\ excuse = {}

Course == <<seen, extra, tries, cert>>
History == <<invited, granted, made, excuse>>

-----------------------------------------------------------------------------
(* The administrator's side. *)

\* attribuer_cours, retirer_cours: no enrolment is touched.
Assign ==
    /\ assigned' = ~ assigned
    /\ UNCHANGED <<active, enrol, expired, Course, req, History>>

\* A departure or a return: the links of an inactive employee stop working.
SetLearnerActive ==
    /\ active' = ~ active
    /\ UNCHANGED <<assigned, enrol, expired, Course, req, History>>

\* inscrire, in the transaction of inscrire_et_inviter: the guards, then the row;
\* unique_active_enrollment makes a second INSERT wait for the first.
Enrol(h, e) ==
    /\ req[h] = Idle
    /\ active /\ assigned
    /\ \A x \in Enrolments : enrol[x] # "live"
    /\ \A x \in Handlers : req[x].op \notin {"invite", "commit"}
    /\ enrol[e] = "none"
    /\ req' = [req EXCEPT ![h] = [op |-> "invite", e |-> e]]
    /\ UNCHANGED <<active, assigned, enrol, expired, Course, History>>

\* envoyer_invitation, inside the transaction...
Invite(h) ==
    /\ req[h].op = "invite"
    /\ invited' = invited \cup {req[h].e}
    /\ req' = [req EXCEPT ![h].op = "commit"]
    /\ UNCHANGED <<active, assigned, enrol, expired, Course, granted, made, excuse>>

\* ... which ends after it.
CommitEnrolment(h) ==
    /\ req[h].op = "commit"
    /\ enrol' = [enrol EXCEPT ![req[h].e] = "live"]
    /\ req' = [req EXCEPT ![h] = Idle]
    /\ UNCHANGED <<active, assigned, expired, Course, History>>

\* revoquer
Revoke(e) ==
    /\ enrol[e] = "live"
    /\ enrol' = [enrol EXCEPT ![e] = "revoked"]
    /\ UNCHANGED <<active, assigned, expired, Course, req, History>>

\* accorder_des_essais: the number is read with the enrolment...
BeginGrant(h, e) ==
    /\ req[h] = Idle
    /\ enrol[e] # "none"
    /\ \A x \in Enrolments : granted[x] < MaxExtra
    /\ req' = [req EXCEPT ![h] = [op |-> "grant", e |-> e, extra |-> extra[e]]]
    /\ UNCHANGED <<active, assigned, enrol, expired, Course, History>>

\* ... and written back one higher, over what another administrator has written meanwhile.
Grant(h) ==
    /\ req[h].op = "grant"
    /\ LET e == req[h].e IN
       /\ extra' = [extra EXCEPT ![e] = req[h].extra + 1]
       /\ granted' = [granted EXCEPT ![e] = @ + 1]
       /\ excuse' = IF extra[e] # req[h].extra THEN excuse \cup {"grant"} ELSE excuse
    /\ req' = [req EXCEPT ![h] = Idle]
    /\ UNCHANGED <<active, assigned, enrol, expired, seen, tries, cert, invited, made>>

-----------------------------------------------------------------------------
(* The employee's side. *)

\* The due date and its margin go by (Enrollment.is_expired).
Expire(e) ==
    /\ enrol[e] # "none" /\ e \notin expired
    /\ expired' = expired \cup {e}
    /\ UNCHANGED <<active, assigned, enrol, Course, req, History>>

IsUsable(e) == enrol[e] = "live" /\ e \notin expired /\ active

\* resoudre_session: the link of an enrolment that is usable.
ResolveSession(h, e) ==
    /\ req[h] = Idle
    /\ IsUsable(e)
    /\ req' = [req EXCEPT ![h] = [op |-> "session", e |-> e]]
    /\ UNCHANGED <<active, assigned, enrol, expired, Course, History>>

\* marquer_ecran_vu: get_or_create, whatever has become of the enrolment.
ScreenDone(h, s) ==
    /\ req[h].op = "session"
    /\ seen' = [seen EXCEPT ![req[h].e] = @ \cup {s}]
    /\ req' = [req EXCEPT ![h] = Idle]
    /\ UNCHANGED <<active, assigned, enrol, expired, extra, tries, cert, History>>

AttemptsAllowed(e) == MaxAttempts + extra[e]
QuizUnlocked(e) == seen[e] = Screens
Passed(e) == \E a \in tries[e] : a.passed

\* The guards of soumettre_le_quiz, on the state it reads (etat_de_session).
QuizOpen(e) ==
    ~ Passed(e) /\ QuizUnlocked(e) /\ Cardinality(tries[e]) < AttemptsAllowed(e)

NextNumber(e) == Cardinality(tries[e]) + 1

BeginQuiz(h) ==
    /\ req[h].op = "session"
    /\ QuizOpen(req[h].e)
    /\ req' = [req EXCEPT ![h] = [op |-> "quiz", e |-> req[h].e, n |-> NextNumber(req[h].e)]]
    /\ UNCHANGED <<active, assigned, enrol, expired, Course, History>>

\* round(100 * right / questions), halves to even as Python rounds
Score(right) ==
    LET q == (100 * right) \div Questions
        r == (100 * right) % Questions
    IN IF 2 * r > Questions \/ (2 * r = Questions /\ q % 2 = 1) THEN q + 1 ELSE q

\* _delivrer_lattestation: the first one stays
CertificateOf(old, score) == IF old # NoCert \/ score < Threshold THEN old ELSE score

\* The rest of soumettre_le_quiz; unique_attempt_number refuses a number already taken
\* and everything is rolled back.
SubmitQuiz(h, right) ==
    /\ req[h].op = "quiz"
    /\ LET e == req[h].e IN
       IF \E a \in tries[e] : a.n = req[h].n
       THEN UNCHANGED <<tries, cert, made>>
       ELSE /\ tries' = [tries EXCEPT ![e] = @ \cup {[n |-> req[h].n, passed |-> Score(right) >= Threshold, old |-> FALSE]}]
            /\ cert' = [cert EXCEPT ![e] = CertificateOf(@, Score(right))]
            /\ made' = [made EXCEPT ![e] = @ + 1]
    /\ req' = [req EXCEPT ![h] = Idle]
    /\ UNCHANGED <<active, assigned, enrol, expired, seen, extra, invited, granted, excuse>>

\* A request that is refused, or dies: its transaction is rolled back.
GiveUp(h) ==
    /\ req[h] # Idle
    /\ req' = [req EXCEPT ![h] = Idle]
    /\ UNCHANGED <<active, assigned, enrol, expired, Course, History>>

\* TRAINING_RESULTS_RETENTION_MONTHS go by, of a campaign that lasts as long or is over (once: a bound).
Years ==
    /\ "purged" \notin excuse
    /\ \A h \in Handlers : req[h] = Idle
    /\ tries' = [e \in Enrolments |-> {[a EXCEPT !.old = TRUE] : a \in tries[e]}]
    /\ UNCHANGED <<active, assigned, enrol, expired, seen, extra, cert, req, History>>

\* purger_les_resultats: the attempts, not the certificates.
PurgeResults ==
    /\ \E e \in Enrolments : \E a \in tries[e] : a.old
    /\ tries' = [e \in Enrolments |-> {a \in tries[e] : ~ a.old}]
    /\ excuse' = excuse \cup {"purged"}
    /\ UNCHANGED <<active, assigned, enrol, expired, seen, extra, cert, req, invited, granted, made>>

Next ==
    \/ Assign \/ SetLearnerActive \/ Years \/ PurgeResults
    \/ \E e \in Enrolments : Revoke(e) \/ Expire(e)
    \/ \E h \in Handlers :
         \/ \E e \in Enrolments : Enrol(h, e) \/ BeginGrant(h, e) \/ ResolveSession(h, e)
         \/ \E s \in Screens : ScreenDone(h, s)
         \/ \E right \in 0..Questions : SubmitQuiz(h, right)
         \/ Invite(h) \/ CommitEnrolment(h) \/ Grant(h) \/ BeginQuiz(h) \/ GiveUp(h)

Spec == Init /\ [][Next]_vars

-----------------------------------------------------------------------------
(* Every variable keeps its type. *)
TypeOK ==
    /\ active \in BOOLEAN /\ assigned \in BOOLEAN
    /\ enrol \in [Enrolments -> {"none", "live", "revoked"}]
    /\ expired \cup invited \subseteq Enrolments
    /\ seen \in [Enrolments -> SUBSET Screens]
    /\ extra \in [Enrolments -> Nat] /\ granted \in [Enrolments -> Nat] /\ made \in [Enrolments -> Nat]
    /\ \A e \in Enrolments : tries[e] \subseteq [n : Nat \ {0}, passed : BOOLEAN, old : BOOLEAN]
    /\ cert \in [Enrolments -> 0..100 \cup {NoCert}]
    /\ \A h \in Handlers : req[h] = Idle \/ req[h].e \in Enrolments
    /\ excuse \subseteq Excuses

(* "Une inscription muette serait pire qu'aucune": whoever is enrolled has *)
(* been sent the link, and at most one enrolment lives.                    *)
EnrolledIsInvited ==
    /\ \A e \in Enrolments : enrol[e] # "none" => e \in invited
    /\ Cardinality({e \in Enrolments : enrol[e] = "live"}) =< 1

(* Submissions that overlap never give an attempt more than the version    *)
(* and the administrators allow, nor two attempts one number: the count    *)
(* is read before the write, and the unique number is what refuses the     *)
(* second.  Only the purge gives attempts back.                            *)
AttemptsWithinAllowance ==
    "purged" \notin excuse =>
        \A e \in Enrolments :
            /\ made[e] =< MaxAttempts + granted[e]
            /\ {a.n : a \in tries[e]} = 1..made[e]

(* The certificate is the proof of a success: there is one exactly when an *)
(* attempt has succeeded, and it outlives the purge of that attempt, the   *)
(* revocation of the link and the withdrawal of the course.                *)
CertificateIsSuccess ==
    \A e \in Enrolments :
        /\ Passed(e) => cert[e] # NoCert
        /\ cert[e] # NoCert => cert[e] >= Threshold /\ ("purged" \in excuse \/ Passed(e))

(* ... and what it says never changes. *)
CertificateStays == [][\A e \in Enrolments : cert[e] # NoCert => cert'[e] = cert[e]]_vars

(* An attempt granted counts, unless two administrators granted at once.   *)
GrantsCount == "grant" \notin excuse => extra = granted
=============================================================================
