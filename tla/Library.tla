------------------------------ MODULE Library -------------------------------
(***************************************************************************)
(* The courses delivered with the product and the commands that put them   *)
(* in place (training/catalogue.py, seed_catalogue_formation,              *)
(* seed_training_demo, platform_admin's preparer_client): loading and      *)
(* reloading content while the studio writes the next version, proposing   *)
(* courses to a client, and preparing the space of a new client.           *)
(*                                                                         *)
(* Loading a course is one transaction.  Preparing a client is none: every *)
(* step commits by itself, and the journal is written at the end.          *)
(***************************************************************************)
EXTENDS Naturals, Sequences, FiniteSets

CONSTANTS
    Documents,      \* types of composed documents of registry.all_specs()
    MaxVersions     \* bound: versions of a course

-----------------------------------------------------------------------------
(* What is delivered.  A course has screens, a pass mark and questions;    *)
(* a question points to a screen and has so many right answers.            *)

Single(screen) == [screen |-> screen, kind |-> "single", right |-> 1]
Multiple(screen) == [screen |-> screen, kind |-> "multiple", right |-> 2]

MotsDePasse == [screens |-> 6, mark |-> 80,
    quiz |-> <<Single(1), Multiple(2), Single(3), Single(4), Single(5), Single(5)>>]
Rancongiciel == [screens |-> 5, mark |-> 80,
    quiz |-> <<Single(3), Multiple(2), Single(4), Single(5), Single(5), Single(3)>>]
FraudeAuVirement == [screens |-> 5, mark |-> 80,
    quiz |-> <<Multiple(2), Single(3), Single(4), Single(4), Single(5), Single(1)>>]
TravailADistance == [screens |-> 5, mark |-> 70,
    quiz |-> <<Single(2), Single(2), Multiple(3), Single(4), Single(5), Single(5)>>]
DonneesPersonnelles == [screens |-> 5, mark |-> 70,
    quiz |-> <<Multiple(1), Single(2), Single(3), Single(4), Single(5), Multiple(5)>>]
Appareils == [screens |-> 5, mark |-> 70,
    quiz |-> <<Single(1), Single(2), Single(3), Multiple(4), Single(5), Single(2)>>]
Hameconnage == [screens |-> 7, mark |-> 70,
    quiz |-> <<Single(2), Single(3), Multiple(4), Single(3), Single(5), Single(6)>>]

COURS == {MotsDePasse, Rancongiciel, FraudeAuVirement, TravailADistance, DonneesPersonnelles, Appareils}

\* controles_avant_publication: something to read, something to answer, and
\* every question can be answered.
Refuses(course) ==
    \/ course.screens = 0
    \/ course.quiz = <<>>
    \/ \E i \in DOMAIN course.quiz : course.quiz[i].right = 0

\* QUESTIONS_MINIMUM_POUR_UN_SEUIL, avertissements_de_quiz
Warns(course) == Len(course.quiz) < 5

\* ecrans[vise - 1], and one right answer is not enough for several boxes
WellFormed(course) ==
    \A i \in DOMAIN course.quiz :
        /\ course.quiz[i].screen \in 1..course.screens
        /\ course.quiz[i].kind = "single" <=> course.quiz[i].right = 1

-----------------------------------------------------------------------------
(* One course of the library and the one of seed_training_demo.            *)
Courses == {"catalogue", "hameconnage"}
Versions == 1..MaxVersions

VARIABLES
    content,    \* content[c][v]: "absent" when there is no such version, "empty",
                \* "shipped", or what an author wrote: "sound", "broken"
    published,  \* published[c]: versions with a publication date
    offered,    \* courses with a CourseAssignment for the client
    learner,    \* the administrator's Learner row: "none", "loose" (no account), "linked", "left"
    enrolled,   \* enrolled[c][v]: "no", "on", "revoked"
    done,       \* versions in which the learner has finished screens, by course
    role,       \* the administrator's membership: "none", "member", "admin"
    room,       \* does the offer have a seat left?
    docs,       \* types of documents the client has
    run,        \* how far preparer_client is
    untraced,   \* history: what it has created that the journal does not tell
    excuse      \* history: why a property may not hold

vars == <<content, published, offered, learner, enrolled, done, role, room, docs, run, untraced, excuse>>

Idle == [pc |-> "idle"]
Nothing == [c \in Courses |-> [v \in Versions |-> "absent"]]

Init ==
    /\ content = Nothing
    /\ published = [c \in Courses |-> {}]
    /\ offered = {}
    /\ learner \in {"none", "loose"}
    /\ enrolled = [c \in Courses |-> [v \in Versions |-> "no"]]
    /\ done = [c \in Courses |-> {}]
    /\ role \in {"none", "member"}
    /\ room = TRUE
    /\ docs = {}
    /\ run = Idle
    /\ untraced = {} /\ excuse = {}

Content == <<content, published>>
Client == <<learner, enrolled, role, room, docs>>
Command == <<run, untraced>>

Existing(c) == {v \in Versions : content[c][v] # "absent"}
Newest(S) == CHOOSE v \in S : \A w \in S : w =< v
Last(c) == IF Existing(c) = {} THEN 1 ELSE Newest(Existing(c))
Library == {c \in Courses : published[c] # {}}      \* services.bibliotheque()

-----------------------------------------------------------------------------
(* Loading.                                                                *)

\* The screens go with --reset, and what was finished goes with them; a version
\* that has screens is left alone otherwise.
Fill(c, reset) ==
    LET v == Last(c)
        loads == reset \/ content[c][v] \in {"absent", "empty"} IN
    /\ content' = [content EXCEPT ![c][v] = IF loads THEN "shipped" ELSE @]
    /\ done' = [done EXCEPT ![c] = IF reset THEN @ \ {v} ELSE @]
    /\ excuse' = IF reset THEN excuse \cup {"reset"} ELSE excuse
    /\ published' = [published EXCEPT ![c] =
           IF c = "hameconnage" \/ (loads /\ ~ Refuses(MotsDePasse)) THEN @ \cup {v} ELSE @]

\* Mutant: what is there is loaded again, --reset or not.
FillAlways(c, reset) ==
    /\ content' = [content EXCEPT ![c][Last(c)] = "shipped"]
    /\ published' = [published EXCEPT ![c] = @ \cup {Last(c)}]
    /\ UNCHANGED <<done, excuse>>

\* seed_catalogue_formation: published by studio.publier, proposed in the client's context.
SeedCatalogue(reset, toClient) ==
    /\ Fill("catalogue", reset)
    /\ offered' = IF toClient THEN offered \cup {"catalogue"} ELSE offered
    /\ UNCHANGED <<Client, Command>>

\* seed_training_demo: the date is written whatever the version holds.  Outside
\* the client's context an existing assignment is not seen, and creating it
\* again undoes the whole command.
SeedTrainingDemo(reset, toClient) ==
    /\ toClient => "hameconnage" \notin offered
    /\ LET v == Last("hameconnage") IN
       IF ~ reset /\ content["hameconnage"][v] = "broken" /\ v \notin published["hameconnage"]
       THEN /\ published' = [published EXCEPT !["hameconnage"] = @ \cup {v}]
            /\ excuse' = excuse \cup {"unchecked"}
            /\ UNCHANGED <<content, done>>
       ELSE Fill("hameconnage", reset)
    /\ offered' = IF toClient THEN offered \cup {"hameconnage"} ELSE offered
    /\ UNCHANGED <<Client, Command>>

-----------------------------------------------------------------------------
(* The studio, the console and the learner, meanwhile.                     *)

\* nouvelle_version: a copy of the published one
NouvelleVersion(c) ==
    /\ Last(c) \in published[c] /\ Last(c) < MaxVersions
    /\ content' = [content EXCEPT ![c][Last(c) + 1] = content[c][Last(c)]]
    /\ UNCHANGED <<published, offered, done, Client, Command, excuse>>

\* ecrire_ecran, supprimer_ecran, ecrire_question...
Write(c, what) ==
    /\ content[c][Last(c)] \notin {"absent", what} /\ Last(c) \notin published[c]
    /\ content' = [content EXCEPT ![c][Last(c)] = what]
    /\ UNCHANGED <<published, offered, done, Client, Command, excuse>>

Publier(c) ==
    /\ Last(c) \in Existing(c) \ published[c]
    /\ content[c][Last(c)] \in {"shipped", "sound"}
    /\ published' = [published EXCEPT ![c] = @ \cup {Last(c)}]
    /\ UNCHANGED <<content, offered, done, Client, Command, excuse>>

\* attribuer_cours, retirer_cours
Propose(c) ==
    /\ c \in Library \ offered
    /\ offered' = offered \cup {c}
    /\ UNCHANGED <<Content, done, Client, Command, excuse>>

Retirer(c) ==
    /\ c \in offered
    /\ offered' = offered \ {c}
    /\ UNCHANGED <<Content, done, Client, Command, excuse>>

\* marquer_ecran_termine; revoquer; an employee who leaves
Study(c, v) ==
    /\ enrolled[c][v] = "on" /\ v \notin done[c]
    /\ done' = [done EXCEPT ![c] = @ \cup {v}]
    /\ UNCHANGED <<Content, offered, Client, Command, excuse>>

Revoquer(c, v) ==
    /\ enrolled[c][v] = "on"
    /\ enrolled' = [enrolled EXCEPT ![c][v] = "revoked"]
    /\ UNCHANGED <<Content, offered, done, learner, role, room, docs, Command, excuse>>

Leave ==
    /\ learner = "linked" /\ learner' = "left"
    /\ UNCHANGED <<Content, offered, done, enrolled, role, room, docs, Command, excuse>>

OfferFills ==
    /\ room /\ room' = FALSE
    /\ UNCHANGED <<Content, offered, done, learner, enrolled, role, docs, Command, excuse>>

-----------------------------------------------------------------------------
(* preparer_client (not --dry-run, which writes nothing).                  *)

Made(what) == untraced' = untraced \cup {what}
Goto(pc) == run' = [run EXCEPT !.pc = pc]

\* _formations reads the library and what is already proposed once.
Prepare(steps) ==
    /\ run = Idle
    /\ run' = [pc |-> "access", steps |-> steps, library |-> Library, offered |-> offered, docs |-> docs]
    /\ UNCHANGED <<Content, offered, done, Client, untraced, excuse>>

Acces ==
    /\ run.pc = "access"
    /\ "acces" \in run.steps => role # "none" \/ room
    /\ role' = IF "acces" \in run.steps THEN "admin" ELSE role
    /\ IF role' # role THEN Made("role") ELSE UNCHANGED untraced
    /\ run' = [run EXCEPT !.pc = "offer", !.library = Library, !.offered = offered]
    /\ UNCHANGED <<Content, offered, done, learner, enrolled, room, docs, excuse>>

Trains == "formations" \in run.steps /\ run.library # {}

Attribuer(c) ==
    /\ run.pc = "offer" /\ Trains
    /\ c \in run.library \ run.offered
    /\ offered' = offered \cup {c}
    /\ IF c \in offered THEN UNCHANGED untraced ELSE Made("offer")
    /\ run' = [run EXCEPT !.offered = @ \cup {c}]
    /\ UNCHANGED <<Content, done, Client, excuse>>

\* creer_apprenant, or the account given to the row that is there
Apprenant ==
    /\ run.pc = "offer" /\ Trains => run.library \subseteq run.offered
    /\ run.pc = "offer"
    /\ learner' = IF Trains /\ learner \in {"none", "loose"} THEN "linked" ELSE learner
    /\ IF learner' # learner THEN Made("learner") ELSE UNCHANGED untraced
    /\ Goto("enrol")
    /\ UNCHANGED <<Content, offered, done, enrolled, role, room, docs, excuse>>

CanEnrol(c) == learner # "left" /\ c \in offered

Inscrire(c) ==
    /\ run.pc = "enrol" /\ Trains
    /\ c \in run.library
    /\ LET v == Newest(published[c]) IN
       /\ enrolled[c][v] = "on" \/ CanEnrol(c)
       /\ enrolled' = [enrolled EXCEPT ![c][v] = "on"]
       /\ IF enrolled[c][v] = "on" THEN UNCHANGED untraced ELSE Made("enrolment")
    /\ run' = [run EXCEPT !.library = @ \ {c}, !.steps = IF run.library = {c} THEN @ \ {"formations"} ELSE @]
    /\ UNCHANGED <<Content, offered, done, learner, role, room, docs, excuse>>

ReadDocuments ==
    /\ run.pc = "enrol" /\ ~ Trains
    /\ run' = [run EXCEPT !.pc = "documents", !.docs = docs]
    /\ UNCHANGED <<Content, offered, done, Client, untraced, excuse>>

Missing == IF "documents" \in run.steps THEN Documents \ run.docs ELSE {}

\* compose_document, left as a draft
Compose(d) ==
    /\ run.pc = "documents" /\ d \in Missing
    /\ docs' = docs \cup {d}
    /\ Made("document")
    /\ run' = [run EXCEPT !.docs = @ \cup {d}]
    /\ UNCHANGED <<Content, offered, done, learner, enrolled, role, room, excuse>>

\* _tracer
Tracer ==
    /\ run.pc = "documents" /\ Missing = {}
    /\ run' = Idle
    /\ untraced' = {}
    /\ UNCHANGED <<Content, offered, done, Client, excuse>>

\* The offer is full, the learner has left or the course was withdrawn
\* (InscriptionRefusee), or the process dies: nothing is taken back.
Stops ==
    /\ run # Idle
    /\ run' = Idle
    /\ excuse' = IF untraced = {} THEN excuse ELSE excuse \cup {"stopped"}
    /\ UNCHANGED <<Content, offered, done, Client, untraced>>

Next ==
    \/ \E reset, toClient \in BOOLEAN : SeedCatalogue(reset, toClient) \/ SeedTrainingDemo(reset, toClient)
    \/ \E c \in Courses : \/ NouvelleVersion(c) \/ Publier(c) \/ Propose(c) \/ Retirer(c)
                          \/ \E what \in {"empty", "sound", "broken"} : Write(c, what)
                          \/ \E v \in Versions : Study(c, v) \/ Revoquer(c, v)
                          \/ Attribuer(c) \/ Inscrire(c)
    \/ Leave \/ OfferFills
    \/ \E steps \in {{"formations"}, {"acces", "formations", "documents"}} : Prepare(steps)
    \/ Acces \/ Apprenant \/ ReadDocuments \/ Tracer \/ Stops
    \/ \E d \in Documents : Compose(d)

Spec == Init /\ [][Next]_vars

-----------------------------------------------------------------------------
(* Values of the variables. *)
TypeOK ==
    /\ content \in [Courses -> [Versions -> {"absent", "empty", "shipped", "sound", "broken"}]]
    /\ published \in [Courses -> SUBSET Versions]
    /\ done \in [Courses -> SUBSET Versions]
    /\ offered \subseteq Courses
    /\ learner \in {"none", "loose", "linked", "left"}
    /\ enrolled \in [Courses -> [Versions -> {"no", "on", "revoked"}]]
    /\ role \in {"none", "member", "admin"}
    /\ docs \subseteq Documents

(* "La commande n'a pas le droit de publier ce que le studio refuserait":  *)
(* what is delivered passes the controls of the studio, without a warning, *)
(* and every question has the screen that answers it.                      *)
DeliveredIsSound == \A course \in COURS \cup {Hameconnage} :
    ~ Refuses(course) /\ ~ Warns(course) /\ WellFormed(course)

(* A published version can be followed and passed, whoever published it:   *)
(* but for seed_training_demo, which publishes the draft of an author      *)
(* without looking at it.                                                  *)
PublishedCanBePassed ==
    "unchecked" \notin excuse =>
        \A c \in Courses : \A v \in published[c] : content[c][v] \in {"shipped", "sound"}

(* "Sans elle, l'apparition de donnees dans l'espace d'un client serait    *)
(* inexplicable": what the command has created is in the journal when it   *)
(* has ended, unless it stopped half-way.                                  *)
PreparationIsTraced == run = Idle /\ untraced # {} => "stopped" \in excuse

(* Nobody is enrolled in what nobody may follow: an enrolment is in a      *)
(* published version.                                                      *)
EnrolledInPublished ==
    \A c \in Courses, v \in Versions : enrolled[c][v] # "no" => v \in published[c]

(* What a learner has finished stays finished, and what an author writes   *)
(* stays, however often the commands are run without --reset.              *)
NothingRedone ==
    []["reset" \notin excuse' =>
         \A c \in Courses :
           /\ done[c] \subseteq done'[c]
           /\ \A v \in published[c] : content'[c][v] = content[c][v]]_vars
=============================================================================
