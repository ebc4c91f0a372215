------------------------------- MODULE Studio -------------------------------
(***************************************************************************)
(* The versions of one course in the training studio (training/studio and  *)
(* studio_views): writing, reordering and deleting screens, writing and    *)
(* deleting questions, publishing, and opening the next version.           *)
(*                                                                         *)
(* Each view loads the version, looks whether it is published, checks what *)
(* it has to, and writes: nothing is locked in between, so what another    *)
(* author does falls between the two steps of a request.                   *)
(***************************************************************************)
EXTENDS Naturals, FiniteSets, Sequences

CONSTANTS
    Screens,        \* identities of screens; a copy keeps the name of its original
    Questions,      \* identities of questions
    Handlers,       \* requests served at the same time
    MaxVersions,    \* bound: versions of the course
    MaxOrder        \* bound: order of a new screen

Versions == 1..MaxVersions

VARIABLES
    state,      \* state[v]: "none", "draft", "published"
    order,      \* order[v]: the order of each screen of a version, Absent for the others
    target,     \* target[v]: the screen each question of a version points to, or NoScreen
    req,        \* req[h]: what a request has checked
    excuse      \* history: the versions a request wrote to after another had changed them

vars == <<state, order, target, req, excuse>>

Idle == [op |-> "idle"]
Absent == 0
NoScreen == "none"
Of(v) == {s \in Screens : order[v][s] # Absent}
Asked(v) == {q \in Questions : target[v][q] # NoScreen}
NoContent == [s \in Screens |-> Absent]
NoQuestions == [q \in Questions |-> NoScreen]

(* creer_cours *)
Init ==
    /\ state = [v \in Versions |-> IF v = 1 THEN "draft" ELSE "none"]
    /\ order = [v \in Versions |-> NoContent]
    /\ target = [v \in Versions |-> NoQuestions]
    /\ req = [h \in Handlers |-> Idle]
    /\ excuse = {}

Last(v) == CHOOSE n \in {0} \cup {order[v][s] : s \in Of(v)} : \A s \in Of(v) : order[v][s] =< n

\* Mutant: a published version is written to.
ModifiableAny(v) == state[v] # "none"

\* _version_modifiable
Modifiable(v) == state[v] = "draft"

Check(h, r) ==
    /\ req[h] = Idle
    /\ Modifiable(r.v)
    /\ req' = [req EXCEPT ![h] = r]
    /\ UNCHANGED <<state, order, target, excuse>>

(* A committed write makes what the other requests have checked stale. *)
Done(h, v) ==
    req' = [x \in Handlers |-> IF x = h THEN Idle
                               ELSE IF req[x] # Idle /\ req[x].v = v
                               THEN [req[x] EXCEPT !.fresh = FALSE] ELSE req[x]]

Blame(h) == excuse' = IF req[h].fresh THEN excuse ELSE excuse \cup {req[h].v}

\* A unique constraint, or a row that is gone: the request ends in an error.
Error(h) == req' = [req EXCEPT ![h] = Idle] /\ UNCHANGED <<order, target, excuse>>

-----------------------------------------------------------------------------
(* Screens. *)

\* ecrire_ecran: a screen of the version, or a new one after the last.
BeginWriteScreen(h, v, s) ==
    /\ Last(v) < MaxOrder \/ s \in Of(v)
    /\ Check(h, [op |-> "screen", v |-> v, s |-> s, fresh |-> TRUE,
                 n |-> IF s \in Of(v) THEN order[v][s] ELSE Last(v) + 1])

\* unique_screen_order may refuse; a screen deleted meanwhile is inserted again.
WriteScreen(h) ==
    /\ req[h].op = "screen"
    /\ LET v == req[h].v
           s == req[h].s IN
       IF \E x \in Of(v) \ {s} : order[v][x] = req[h].n
       THEN Error(h)
       ELSE /\ order' = [order EXCEPT ![v][s] = IF @ # Absent THEN @ ELSE req[h].n]
            /\ Done(h, v) /\ Blame(h)
            /\ UNCHANGED target
    /\ UNCHANGED state

\* The orders of a screen list: each screen of the version once.
Lists(v) == {p \in [1..Cardinality(Of(v)) -> Of(v)] : {p[i] : i \in DOMAIN p} = Of(v)}

BeginReorder(h, v) ==
    \E p \in Lists(v) : p # <<>> /\ Check(h, [op |-> "order", v |-> v, p |-> p, fresh |-> TRUE])

\* The first pass: no screen may take the order of one that has not moved yet.
CanReorder(v, p) ==
    \A i, j \in DOMAIN p : i < j => order[v][p[j]] # i + Len(p)

\* reordonner_ecrans: past the last order, then from 1.
Reorder(h) ==
    /\ req[h].op = "order"
    /\ LET v == req[h].v
           p == req[h].p IN
       IF \/ \E i \in DOMAIN p : p[i] \notin Of(v)
          \/ ~ CanReorder(v, p)
          \/ \E s \in Of(v) : (\A i \in DOMAIN p : p[i] # s) /\ order[v][s] =< 2 * Len(p)
       THEN Error(h)
       ELSE /\ order' = [order EXCEPT ![v] =
                 [s \in Screens |-> IF \E i \in DOMAIN p : p[i] = s
                                    THEN CHOOSE i \in DOMAIN p : p[i] = s ELSE @[s]]]
            /\ Done(h, v) /\ Blame(h)
            /\ UNCHANGED target
    /\ UNCHANGED state

NothingPoints(v, s) == \A q \in Questions : target[v][q] # s

BeginDeleteScreen(h, v, s) ==
    /\ s \in Of(v)
    /\ NothingPoints(v, s)
    /\ Check(h, [op |-> "drop", v |-> v, s |-> s, fresh |-> TRUE])

\* Mutant: the questions written since keep their screen.
DeleteScreenOnly(h) ==
    /\ req[h].op = "drop"
    /\ order' = [order EXCEPT ![req[h].v][req[h].s] = Absent]
    /\ Done(h, req[h].v) /\ Blame(h)
    /\ UNCHANGED <<state, target>>

\* supprimer_ecran: the questions written since go with the screen (CASCADE).
DeleteScreen(h) ==
    /\ req[h].op = "drop"
    /\ LET v == req[h].v
           s == req[h].s IN
       /\ order' = [order EXCEPT ![v][s] = Absent]
       /\ target' = [target EXCEPT ![v] = [q \in Questions |-> IF @[q] = s THEN NoScreen ELSE @[q]]]
       /\ Done(h, v) /\ Blame(h)
    /\ UNCHANGED state

-----------------------------------------------------------------------------
(* Questions: ecrire_question (with its choices, one at least right) and supprimer_question. *)

BeginWriteQuestion(h, v, q, s) ==
    /\ s \in Of(v)
    /\ Check(h, [op |-> "question", v |-> v, q |-> q, s |-> s, fresh |-> TRUE])

WriteQuestion(h) ==
    /\ req[h].op = "question"
    /\ LET v == req[h].v IN
       IF req[h].s \notin Of(v)
       THEN Error(h)
       ELSE /\ target' = [target EXCEPT ![v][req[h].q] = req[h].s]
            /\ Done(h, v) /\ Blame(h)
            /\ UNCHANGED order
    /\ UNCHANGED state

BeginDeleteQuestion(h, v, q) ==
    /\ q \in Asked(v)
    /\ Check(h, [op |-> "unask", v |-> v, q |-> q, fresh |-> TRUE])

DeleteQuestion(h) ==
    /\ req[h].op = "unask"
    /\ target' = [target EXCEPT ![req[h].v][req[h].q] = NoScreen]
    /\ Done(h, req[h].v) /\ Blame(h)
    /\ UNCHANGED <<state, order>>

-----------------------------------------------------------------------------
(* Publishing, and the next version. *)

\* controles_avant_publication
Publishable(v) == Of(v) # {} /\ Asked(v) # {}

BeginPublish(h, v) ==
    /\ Publishable(v)
    /\ Check(h, [op |-> "publish", v |-> v, fresh |-> TRUE])

\* publier
Publish(h) ==
    /\ req[h].op = "publish"
    /\ state' = [state EXCEPT ![req[h].v] = "published"]
    /\ Done(h, req[h].v) /\ Blame(h)
    /\ UNCHANGED <<order, target>>

Draft == {v \in Versions : state[v] = "draft"}
Published == {v \in Versions : state[v] = "published"}
Latest == CHOOSE v \in Published : \A x \in Published : x =< v

MayOpen == Published # {} /\ Draft = {}

BeginNewVersion(h) ==
    /\ req[h] = Idle
    /\ MayOpen
    /\ Latest < MaxVersions
    /\ req' = [req EXCEPT ![h] = [op |-> "version", v |-> Latest, fresh |-> TRUE]]
    /\ UNCHANGED <<state, order, target, excuse>>

\* nouvelle_version and _recopier_contenu; unique_version_number_per_course refuses the second of two.
NewVersion(h) ==
    /\ req[h].op = "version"
    /\ LET v == req[h].v IN
       IF state[v + 1] # "none"
       THEN Error(h) /\ UNCHANGED state
       ELSE /\ state' = [state EXCEPT ![v + 1] = "draft"]
            /\ order' = [order EXCEPT ![v + 1] = order[v]]
            /\ target' = [target EXCEPT ![v + 1] = target[v]]
            /\ req' = [req EXCEPT ![h] = Idle]
            /\ UNCHANGED excuse

Next ==
    \E h \in Handlers :
        \/ \E v \in Versions :
             \/ BeginReorder(h, v) \/ BeginPublish(h, v)
             \/ \E s \in Screens : BeginWriteScreen(h, v, s) \/ BeginDeleteScreen(h, v, s)
             \/ \E q \in Questions : BeginDeleteQuestion(h, v, q)
             \/ \E q \in Questions, s \in Screens : BeginWriteQuestion(h, v, q, s)
        \/ BeginNewVersion(h)
        \/ WriteScreen(h) \/ Reorder(h) \/ DeleteScreen(h) \/ WriteQuestion(h) \/ DeleteQuestion(h)
        \/ Publish(h) \/ NewVersion(h)

Spec == Init /\ [][Next]_vars

-----------------------------------------------------------------------------
(* Every variable keeps its type. *)
TypeOK ==
    /\ state \in [Versions -> {"none", "draft", "published"}]
    /\ order \in [Versions -> [Screens -> Nat]]
    /\ target \in [Versions -> [Questions -> Screens \cup {NoScreen}]]
    /\ \A h \in Handlers : req[h] = Idle \/ req[h].v \in Versions
    /\ excuse \subseteq Versions

(* A question always points to a screen of its own version, in the copy as *)
(* in the original, and two screens never share an order.                  *)
QuestionsPointInside ==
    \A v \in Versions :
        /\ \A q \in Asked(v) : target[v][q] \in Of(v)
        /\ \A s, x \in Of(v) : s # x => order[v][s] # order[v][x]

(* At most one version is being written, however many authors open the     *)
(* next one at a time, and it is the latest.                               *)
OneDraft == \A v \in Draft : \A x \in Versions : state[x] # "none" => x =< v /\ (x \in Draft => x = v)

(* What is published can be followed and marked: it has a screen and a     *)
(* question, unless an author changed it between the check and the stamp.  *)
PublishedIsSound == \A v \in Published \ excuse : Of(v) # {} /\ Asked(v) # {}

(* "Elle ne se modifie plus": a published version keeps its content; only  *)
(* a request that had seen it as a draft can still change it.              *)
PublishedIsFrozen ==
    [][\A v \in Published :
         v \notin excuse' => order'[v] = order[v] /\ target'[v] = target[v]]_vars

(* No question is lost by the deletion of a screen, unless it was written  *)
(* after the deletion was checked.                                         *)
NoQuestionLost ==
    [][\A v \in Versions : v \notin excuse' /\ order'[v] # order[v] => target'[v] = target[v] \/ state[v] = "none"]_vars
=============================================================================
