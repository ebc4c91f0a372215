------------------------------ MODULE Evidence ------------------------------
(***************************************************************************)
(* A training campaign offered as evidence for one measure of the          *)
(* diagnostic (training/preuves, rapports and tasks): the nightly task     *)
(* proposes, an administrator confirms or dismisses, and a confirmation    *)
(* answers the measure of the diagnostic in progress.                      *)
(*                                                                         *)
(* A view loads the suggestion before the transaction that treats it, and  *)
(* two administrators may have loaded the same one.                        *)
(***************************************************************************)
EXTENDS Naturals, FiniteSets

CONSTANTS
    Suggestions,    \* identities of suggestions
    Handlers,       \* requests and nightly tasks served at the same time
    MaxLearners,    \* bound: employees enrolled
    MinLearners,    \* MINIMUM_SALARIES
    Threshold       \* SEUIL_REUSSITE, in percent

VARIABLES
    total,      \* enrolments of the campaign that are not revoked
    done,       \* those that have a certificate
    sug,        \* sug[s]: its status and the figures it was made with
    diagnostic, \* the client's latest diagnostic: "none", "open", "closed"
    answer,     \* its answer to the measure: "none", "client", "training"
    req,        \* req[h]: what a request has read
    proof,      \* history: the suggestion the answer comes from
    excuse      \* history: suggestions two requests held, "late" for an answer after the end

vars == <<total, done, sug, diagnostic, answer, req, proof, excuse>>

Idle == [op |-> "idle"]
NoSuggestion == [status |-> "none", total |-> 0, done |-> 0]

Init ==
    /\ total = 0 /\ done = 0
    /\ sug = [s \in Suggestions |-> NoSuggestion]
    /\ diagnostic = "none" /\ answer = "none"
    /\ req = [h \in Handlers |-> Idle]
    /\ proof = "none"
    /\ excuse = {}

Diagnostic == <<diagnostic, answer, proof>>

\* Enrolments, successes and revocations.
Campaign ==
    /\ \/ total < MaxLearners /\ total' = total + 1 /\ UNCHANGED done
       \/ done < total /\ done' = done + 1 /\ UNCHANGED total
       \/ total > 0 /\ total' = total - 1 /\ done' \in {done, done - 1} \cap 0..total'
    /\ UNCHANGED <<sug, Diagnostic, req, excuse>>

\* A new diagnostic: a confirmation that had read the earlier one writes there.
OpenDiagnostic ==
    /\ diagnostic # "open"
    /\ diagnostic' = "open" /\ answer' = "none" /\ proof' = "none"
    /\ req' = [h \in Handlers |-> IF req[h].op = "confirm" THEN [req[h] EXCEPT !.current = FALSE] ELSE req[h]]
    /\ UNCHANGED <<total, done, sug, excuse>>

ClientAnswers ==
    /\ diagnostic = "open"
    /\ answer' = "client" /\ proof' = "none"
    /\ UNCHANGED <<total, done, sug, diagnostic, req, excuse>>

CloseDiagnostic ==
    /\ diagnostic = "open" /\ answer # "none"
    /\ diagnostic' = "closed"
    /\ excuse' = IF \E h \in Handlers : req[h].op = "confirm" THEN excuse \cup {"late"} ELSE excuse
    /\ UNCHANGED <<total, done, sug, answer, proof, req>>

\* _pourcent of agregats: round, halves to even.
Percent(part, all) ==
    IF all = 0 THEN 0
    ELSE LET q == (100 * part) \div all
             r == (100 * part) % all
         IN IF 2 * r > all \/ (2 * r = all /\ q % 2 = 1) THEN q + 1 ELSE q

\* campagnes_probantes
Convincing == total >= MinLearners /\ Percent(done, total) >= Threshold

Already == \E s \in Suggestions : sug[s].status \in {"pending", "dismissed"}

\* proposer, the guards and the figures...
BeginPropose(h) ==
    /\ req[h] = Idle
    /\ Convincing
    /\ ~ Already
    /\ req' = [req EXCEPT ![h] = [op |-> "propose", total |-> total, done |-> done]]
    /\ UNCHANGED <<total, done, sug, Diagnostic, excuse>>

\* ... and the row, which unique_pending_measure_suggestion refuses beside another.
Propose(h, s) ==
    /\ req[h].op = "propose"
    /\ sug[s] = NoSuggestion
    /\ IF \E x \in Suggestions : sug[x].status = "pending"
       THEN UNCHANGED <<sug, excuse>>
       ELSE /\ sug' = [sug EXCEPT ![s] = [status |-> "pending", total |-> req[h].total, done |-> req[h].done]]
            /\ excuse' = IF Already THEN excuse \cup {s} ELSE excuse
    /\ req' = [req EXCEPT ![h] = Idle]
    /\ UNCHANGED <<total, done, Diagnostic>>

\* PreuveDetailView: the suggestion is loaded; confirmer and ecarter look at what was loaded.
Load(h, s, op) ==
    /\ req[h] = Idle
    /\ sug[s].status = "pending"
    /\ op = "confirm" => diagnostic = "open"
    /\ req' = [req EXCEPT ![h] = [op |-> op, s |-> s, current |-> TRUE]]
    /\ excuse' = IF \E x \in Handlers : req[x].op \in {"confirm", "dismiss"} /\ req[x].s = s
                 THEN excuse \cup {s} ELSE excuse
    /\ UNCHANGED <<total, done, sug, Diagnostic>>

\* confirmer: submit_answer on the diagnostic that was loaded, over the client's own answer.
Confirm(h) ==
    /\ req[h].op = "confirm"
    /\ IF req[h].current
       THEN answer' = "training" /\ proof' = req[h].s
       ELSE UNCHANGED <<answer, proof>>
    /\ sug' = [sug EXCEPT ![req[h].s].status = "accepted"]
    /\ req' = [req EXCEPT ![h] = Idle]
    /\ UNCHANGED <<total, done, diagnostic, excuse>>

\* ecarter
Dismiss(h) ==
    /\ req[h].op = "dismiss"
    /\ sug' = [sug EXCEPT ![req[h].s].status = "dismissed"]
    /\ req' = [req EXCEPT ![h] = Idle]
    /\ UNCHANGED <<total, done, Diagnostic, excuse>>

Next ==
    \/ Campaign \/ OpenDiagnostic \/ ClientAnswers \/ CloseDiagnostic
    \/ \E h \in Handlers :
         \/ BeginPropose(h) \/ Confirm(h) \/ Dismiss(h)
         \/ \E s \in Suggestions : Propose(h, s) \/ Load(h, s, "confirm") \/ Load(h, s, "dismiss")

Spec == Init /\ [][Next]_vars

-----------------------------------------------------------------------------
(* Every variable keeps its type. *)
TypeOK ==
    /\ total \in 0..MaxLearners /\ done \in 0..total
    /\ sug \in [Suggestions -> {NoSuggestion} \cup
                  [status : {"pending", "accepted", "dismissed"}, total : 1..MaxLearners, done : 1..MaxLearners]]
    /\ diagnostic \in {"none", "open", "closed"}
    /\ answer \in {"none", "client", "training"}
    /\ proof \in Suggestions \cup {"none"}
    /\ excuse \subseteq Suggestions \cup {"late"}

(* The measure is answered by the training only with a suggestion an       *)
(* administrator confirmed, whose frozen figures reach the thresholds,     *)
(* unless another administrator was dismissing it.                         *)
AnswerHasProof ==
    answer = "training" =>
        /\ proof \in Suggestions
        /\ sug[proof].total >= MinLearners
        /\ 100 * sug[proof].done >= (Threshold - 1) * sug[proof].total
        /\ sug[proof].status = "accepted" \/ proof \in excuse

(* "La reproposer chaque nuit serait le transformer en automate            *)
(* insistant": once a suggestion is dismissed no other follows, unless it  *)
(* was being proposed at that moment.                                      *)
DismissedForGood ==
    Cardinality({s \in Suggestions \ excuse : sug[s].status \in {"pending", "dismissed"}}) =< 1

(* The answers of a diagnostic that is closed do not change any more,      *)
(* unless the confirmation had read it before it closed.                   *)
ClosedStays ==
    [][diagnostic = "closed" /\ diagnostic' = "closed" /\ "late" \notin excuse' => answer' = answer]_vars
=============================================================================
