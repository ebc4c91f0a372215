------------------------------ MODULE MCContent ------------------------------
(***************************************************************************)
(* Referentials, diagnostics, courses, the evidence they leave, the        *)
(* courses delivered with the product and the documents composed for a     *)
(* client, in one run. They share no variable and each property speaks of  *)
(* one of them, so it is enough to let one of them move in a behaviour.    *)
(* Handlers are the requests served at the same time, Pair the identities  *)
(* of the rows they create.                                                *)
(***************************************************************************)
EXTENDS Naturals, Sequences, FiniteSets, TLC

CONSTANTS
    m1, m2, Handlers, Pair

VARIABLES
    part,       \* the part that moves
    owner, measures, held, model, catalogueWork, raced,
    assessmentsGranted, catalogue, composed, diag, assessmentsAnswer, item,
    assessmentsWork, twin, moved, late, died,
    active, assigned, enrol, expired, seen, extra, tries, cert, trainingReq,
    invited, trainingGranted, made, trainingExcuse,
    state, order, target, studioReq, studioExcuse,
    total, evidenceDone, sug, diagnostic, evidenceAnswer, evidenceReq, proof,
    evidenceExcuse,
    libraryContent, libraryPublished, libraryOffered, libraryLearner,
    libraryEnrolled, libraryDone, libraryRole, libraryRoom, libraryDocs, libraryRun,
    libraryUntraced, libraryExcuse,
    documentsPast, documentsVersions, documentsReading, documentsPages

Weight == m1 :> 2 @@ m2 :> 1

Domains == {"d1", "d2"}

\* The files somebody may import: two rows at most, the first in d1; two
\* rows have no empty cell.
Cells(domains, codes) == [domain : domains, code : codes, told : BOOLEAN]
Files == {<<>>} \cup {<<r>> : r \in Cells({"d1", ""}, Pair \cup {""})}
                \cup {<<r, q>> : r \in Cells({"d1"}, Pair), q \in Cells(Domains, Pair)}

C == INSTANCE Catalogue WITH
    Clients <- Pair, Slugs <- {"s1"}, Codes <- Pair, Domains <- Domains,
    Files <- Files, work <- catalogueWork
A == INSTANCE Assessments WITH
    Measures <- {m1, m2}, Diagnostics <- Pair, Offered <- {"partial", "na"},
    Weight <- Weight, granted <- assessmentsGranted, answer <- assessmentsAnswer,
    work <- assessmentsWork
T == INSTANCE Training WITH
    Enrolments <- Pair, Screens <- {"screen"}, Questions <- 2, Threshold <- 60,
    MaxAttempts <- 1, MaxExtra <- 1, req <- trainingReq, granted <- trainingGranted,
    excuse <- trainingExcuse
S == INSTANCE Studio WITH
    Screens <- Pair, Questions <- {"question"}, MaxVersions <- 3, MaxOrder <- 2,
    req <- studioReq, excuse <- studioExcuse
E == INSTANCE Evidence WITH
    Suggestions <- Pair, MaxLearners <- 4, MinLearners <- 3, Threshold <- 80,
    done <- evidenceDone, answer <- evidenceAnswer, req <- evidenceReq,
    excuse <- evidenceExcuse
L == INSTANCE Library WITH
    Documents <- {"policy"}, MaxVersions <- 2, content <- libraryContent,
    published <- libraryPublished, offered <- libraryOffered,
    learner <- libraryLearner, enrolled <- libraryEnrolled, done <- libraryDone,
    role <- libraryRole, room <- libraryRoom, docs <- libraryDocs,
    run <- libraryRun, untraced <- libraryUntraced, excuse <- libraryExcuse
D == INSTANCE Documents WITH
    MaxChanges <- 1, MaxPages <- 2, past <- documentsPast,
    versions <- documentsVersions, reading <- documentsReading,
    pages <- documentsPages

catalogueVars == <<owner, measures, held, model, catalogueWork, raced>>
assessmentsVars ==
      <<assessmentsGranted, catalogue, composed, diag, assessmentsAnswer, item,
      assessmentsWork, twin, moved, late, died>>
trainingVars ==
      <<active, assigned, enrol, expired, seen, extra, tries, cert, trainingReq,
      invited, trainingGranted, made, trainingExcuse>>
studioVars == <<state, order, target, studioReq, studioExcuse>>
evidenceVars ==
      <<total, evidenceDone, sug, diagnostic, evidenceAnswer, evidenceReq, proof,
      evidenceExcuse>>
libraryVars ==
      <<libraryContent, libraryPublished, libraryOffered, libraryLearner,
      libraryEnrolled, libraryDone, libraryRole, libraryRoom, libraryDocs, libraryRun,
      libraryUntraced, libraryExcuse>>
documentsVars == <<documentsPast, documentsVersions, documentsReading, documentsPages>>
vars == <<part, catalogueVars, assessmentsVars, trainingVars, studioVars, evidenceVars, libraryVars, documentsVars>>

Parts == {"catalogue", "assessments", "training", "studio", "evidence", "library", "documents"}

Init ==
    /\ part \in Parts
    /\ C!Init
    /\ A!Init
    /\ T!Init
    /\ S!Init
    /\ E!Init
    /\ L!Init
    /\ D!Init
    /\ part = "documents" \/ documentsPast = <<D!NewClient>>
    /\ part = "library" \/ libraryLearner = "none"
    /\ libraryLearner = "none" <=> libraryRole = "none"
    /\ part = "assessments" \/ catalogue = {m1, m2}
    /\ part = "training" \/ assigned

Next ==
    \/ /\ part = "catalogue" /\ C!Next
       /\ UNCHANGED <<part, assessmentsVars, trainingVars, studioVars, evidenceVars, libraryVars, documentsVars>>
    \/ /\ part = "assessments" /\ A!Next
       /\ UNCHANGED <<part, catalogueVars, trainingVars, studioVars, evidenceVars, libraryVars, documentsVars>>
    \/ /\ part = "training" /\ T!Next
       /\ UNCHANGED <<part, catalogueVars, assessmentsVars, studioVars, evidenceVars, libraryVars, documentsVars>>
    \/ /\ part = "studio" /\ S!Next
       /\ UNCHANGED <<part, catalogueVars, assessmentsVars, trainingVars, evidenceVars, libraryVars, documentsVars>>
    \/ /\ part = "evidence" /\ E!Next
       /\ UNCHANGED <<part, catalogueVars, assessmentsVars, trainingVars, studioVars, libraryVars, documentsVars>>
    \/ /\ part = "library" /\ L!Next
       /\ UNCHANGED <<part, catalogueVars, assessmentsVars, trainingVars, studioVars, evidenceVars, documentsVars>>
    \/ /\ part = "documents" /\ D!Next
       /\ UNCHANGED <<part, catalogueVars, assessmentsVars, trainingVars, studioVars, evidenceVars, libraryVars>>

Spec == Init /\ [][Next]_vars

Symmetry == Permutations(Handlers) \cup Permutations(Pair)

-----------------------------------------------------------------------------
(* Bounds: beside a request that previews or imports two rows, one that    *)
(* imports one row; one excuse, one closed diagnostic and one that has     *)
(* answers; one enrolment that makes or is granted attempts; one excuse in *)
(* the studio and for the library, and no change of the last version the   *)
(* studio can create; once two courses are delivered nothing of them       *)
(* changes, and a second version is written while no client is prepared; a *)
(* second page is composed if nothing changed since the first, or if both  *)
(* are registers.                                                          *)
OneExcuse ==
    /\ \A h, k \in Handlers :
         /\ h # k
         /\ catalogueWork[h].op \in {"preview", "import"} /\ Len(catalogueWork[h].f) = 2
         => \/ catalogueWork[k] = C!Free
            \/ catalogueWork[k].op = "import" /\ Len(catalogueWork[k].f) = 1
    /\ Cardinality(twin) + Cardinality(moved) + Cardinality(late) + Cardinality(died) =< 1
    /\ Cardinality(A!Completed) =< 1
    /\ Cardinality({d \in Pair : assessmentsAnswer[d] # A!NoAnswers}) =< 1
    /\ Cardinality({e \in Pair : made[e] > 0 \/ trainingGranted[e] > 0}) =< 1
    /\ Cardinality(studioExcuse) =< 1
    /\ Len(documentsPages) = 1 /\ documentsReading # D!Idle =>
         \/ documentsPages[1].began = Len(documentsPast)
         \/ documentsPages[1].type = "incident_register" /\ documentsReading.type = "incident_register"
    /\ \A h \in Handlers : studioReq[h] # S!Idle => studioReq[h].v < 3
    /\ Cardinality(libraryExcuse) =< 1
    /\ \/ \E c \in L!Courses : L!Existing(c) = {}
       \/ /\ libraryRoom /\ libraryLearner # "left"
          /\ \A c \in L!Courses :
               /\ L!Existing(c) = {1} /\ libraryContent[c][1] = "shipped"
               /\ libraryDone[c] = {} /\ libraryEnrolled[c][1] # "revoked"
    /\ \A c \in L!Courses : /\ libraryContent[c][2] # "absent" =>
                                libraryRoom /\ libraryLearner # "left" /\ libraryExcuse \subseteq {"unchecked"}
                            /\ libraryContent[c][2] \notin {"absent", "shipped"} => libraryRun = L!Idle

-----------------------------------------------------------------------------
(* The console, the clients and the command accept the same files, and     *)
(* write as many measures as a preview counts; what a preview says of the  *)
(* referential it would create or update stays so until the import, unless *)
(* another request writes that referential in between.  A client follows   *)
(* no referential of another, but for imports that had both read the owner *)
(* before either was written.                                              *)
ReferentialsKept ==
    /\ part = "catalogue" =>
         /\ C!TypeOK
         /\ C!ImportsAgree
         /\ C!PreviewStands
         /\ C!OnlyOwnReferentials

(* A closed diagnostic is complete, its score is that of its answers and   *)
(* its plan covers every gap; one diagnostic is in progress at a time; an  *)
(* answer that training gave has its proof.  But for what was checked      *)
(* before another request wrote.  The documents composed from them name    *)
(* who answers for the company, say what they lack, agree with each other, *)
(* and the register and the report leave nothing out.                      *)
DiagnosticsKept ==
    /\ part = "assessments" =>
         /\ A!TypeOK
         /\ A!OneInProgress
         /\ A!ClosedIsComplete
         /\ A!ScoreIsOfItsAnswers
         /\ A!PlanCoversGaps
         /\ A!ProjectionGains
    /\ part = "evidence" =>
         /\ E!TypeOK
         /\ E!AnswerHasProof
         /\ E!DismissedForGood
    /\ part = "documents" =>
         /\ D!TypeOK
         /\ D!OnlyAdminsAreNamed
         /\ D!ReadinessIsKept
         /\ D!PagesAgree
         /\ D!RegisterIsComplete
         /\ D!ReportIsFounded

(* A certificate is a success, attempts stay within the allowance, who is  *)
(* enrolled was invited; a published version is sound, a course has one    *)
(* draft and its questions point to its screens.  What is delivered can be *)
(* followed and passed, and preparing a client leaves a trace.  But for    *)
(* the races and the stops that the history variables name.                *)
CoursesKept ==
    /\ part = "training" =>
         /\ T!TypeOK
         /\ T!EnrolledIsInvited
         /\ T!AttemptsWithinAllowance
         /\ T!CertificateIsSuccess
         /\ T!GrantsCount
    /\ part = "studio" =>
         /\ S!TypeOK
         /\ S!QuestionsPointInside
         /\ S!OneDraft
         /\ S!PublishedIsSound
    /\ part = "library" =>
         /\ L!TypeOK
         /\ L!DeliveredIsSound
         /\ L!PublishedCanBePassed
         /\ L!PreparationIsTraced
         /\ L!EnrolledInPublished

(* What is settled stays: owners and measures of a referential, progress   *)
(* of a plan, a closed suggestion, a certificate, a published version and  *)
(* its questions, what was finished or written before a command ran again. *)
SettledStays ==
    /\ C!OwnersStay
    /\ C!MeasuresStay
    /\ A!ProgressKept
    /\ E!ClosedStays
    /\ T!CertificateStays
    /\ S!PublishedIsFrozen
    /\ S!NoQuestionLost
    /\ L!NothingRedone
=============================================================================
