----------------------------- MODULE Assessments -----------------------------
(***************************************************************************)
(* The diagnostics of one client on one referential, and the action plan   *)
(* they produce (assessments/services.py, assessments/views.py,            *)
(* actions/services.py).  A diagnostic is about the whole referential or   *)
(* about a composition of its measures; both may be edited while it is     *)
(* being filled in.  Starting, answering, composing and closing each read  *)
(* first and write later, in separate commits.                             *)
(***************************************************************************)
EXTENDS Naturals, FiniteSets, FiniteSetsExt

CONSTANTS
    Measures,     \* measures the referential has or may be given
    Diagnostics,  \* identities of diagnostics
    Handlers,     \* requests served at the same time
    Offered,      \* bound: the values clients answer with
    Weight        \* Weight[m]: the weight of a measure in the score, in halves


VARIABLES
    granted,      \* the referential is attributed to the client
    catalogue,    \* the measures of the referential
    composed,     \* the measures of the composition
    diag,         \* diag[d]: status, whether it is about the composition, score snapshot
    answer,       \* answer[d][m]
    item,         \* item[d][m]: the status of the action, "none" when there is none
    work,         \* work[h]: what a request has checked and still has to write
    twin,         \* history: the diagnostics created beside one their check had not seen
    moved,        \* history: the diagnostics whose measures changed after they were started
    late,         \* history: the diagnostics answered between the check and the end of their closing
    died          \* history: the diagnostics whose closing stopped before the plan was complete

vars == <<granted, catalogue, composed, diag, answer, item, work, twin, moved, late, died>>

Values == {"yes", "partial", "no", "na"}

GapValues == {"no", "partial"}

NoDiag == [status |-> "none", composed |-> FALSE, score |-> <<0, 0>>]

Free == [op |-> "free"]

NoAnswers == [m \in Measures |-> "none"]

Init ==
    /\ granted = TRUE
    /\ catalogue \in {S \in SUBSET Measures : S # {}}
    /\ composed = {}
    /\ diag = [d \in Diagnostics |-> NoDiag]
    /\ answer = [d \in Diagnostics |-> NoAnswers]
    /\ item = [d \in Diagnostics |-> NoAnswers]
    /\ work = [h \in Handlers |-> Free]
    /\ twin = {} /\ moved = {} /\ late = {} /\ died = {}

(* get_assessment_measures: the one definition of what a diagnostic is about *)
Scope(d) == IF diag[d].composed THEN composed \cap catalogue ELSE catalogue

Answered(d) == {m \in Measures : answer[d][m] # "none"}

Points == [yes |-> 2, partial |-> 1, no |-> 0]

(* score_from_values: measures without an answer or not applicable are in  *)
(* neither sum; <<0, 0>> is the score that does not exist.                 *)
Score(values, S) ==
    LET scored == {m \in S : values[m] \in DOMAIN Points}
    IN <<MapThenSumSet(LAMBDA m : Points[values[m]] * Weight[m], scored),
         MapThenSumSet(LAMBDA m : 2 * Weight[m], scored)>>

(* compute_projected_score: a measure whose action is done counts in full *)
Projected(d) ==
    Score([m \in Measures |-> IF item[d][m] = "done" THEN "yes" ELSE answer[d][m]], Scope(d))

Current == {d \in Diagnostics : diag[d].status = "in_progress"}

Completed == {d \in Diagnostics : diag[d].status = "completed"}

-----------------------------------------------------------------------------
(* The catalogue and the attribution, from the console. *)

(* assign_referential, revoke_referential *)
AssignOrRevoke ==
    /\ granted' = ~granted
    /\ UNCHANGED <<catalogue, composed, diag, answer, item, work, twin, moved, late, died>>

Moved(d) == \E m \in Measures : (m \in Scope(d)) # (m \in Scope(d)')

(* add_measure, or an import that brings a new measure *)
AddMeasure(m) ==
    /\ m \notin catalogue
    /\ catalogue' = catalogue \cup {m}
    /\ UNCHANGED <<granted, composed, diag, answer, item, work, twin, late, died>>
    /\ moved' = moved \cup {d \in Current \cup Completed : Moved(d)}

(* create_subset on a composition that exists: the old measures go in one  *)
(* commit, the new ones come in another                                    *)
ClearComposition(h, S) ==
    /\ work[h] = Free
    /\ granted
    /\ S # {} /\ S \subseteq catalogue
    /\ composed' = {}
    /\ work' = [work EXCEPT ![h] = [op |-> "compose", S |-> S]]
    /\ UNCHANGED <<granted, catalogue, diag, answer, item, twin, late, died>>
    /\ moved' = moved \cup {d \in Current \cup Completed : Moved(d)}

FillComposition(h) ==
    /\ work[h].op = "compose"
    /\ composed' = composed \cup work[h].S
    /\ work' = [work EXCEPT ![h] = Free]
    /\ UNCHANGED <<granted, catalogue, diag, answer, item, twin, late, died>>
    /\ moved' = moved \cup {d \in Current \cup Completed : Moved(d)}

-----------------------------------------------------------------------------
(* The life of a diagnostic. *)

(* StartAssessmentView, start_or_resume_assessment: one in progress is resumed, nothing is written *)
BeginStart(h, c) ==
    /\ work[h] = Free
    /\ granted
    /\ Current = {}
    /\ c => composed # {}
    /\ work' = [work EXCEPT ![h] = [op |-> "start", composed |-> c]]
    /\ UNCHANGED <<granted, catalogue, composed, diag, answer, item, twin, moved, late, died>>

(* twin records a creation that the check did not foresee: another start   *)
(* was between its check and its creation at the same time                 *)
CreateAssessment(h, d) ==
    /\ work[h].op = "start"
    /\ diag[d] = NoDiag
    /\ diag' = [diag EXCEPT ![d] = [NoDiag EXCEPT !.status = "in_progress",
                                                   !.composed = work[h].composed]]
    /\ twin' = IF \E x \in Handlers \ {h} : work[x].op = "start" THEN twin \cup {d} ELSE twin
    /\ work' = [work EXCEPT ![h] = Free]
    /\ UNCHANGED <<granted, catalogue, composed, answer, item, moved, late, died>>

(* AnswerView, submit_answer: attribution, status and scope are read first *)
BeginAnswer(h, d, m, v) ==
    /\ work[h] = Free
    /\ granted
    /\ d \in Current
    /\ m \in Scope(d)
    /\ work' = [work EXCEPT ![h] = [op |-> "answer", d |-> d, m |-> m, v |-> v]]
    /\ UNCHANGED <<granted, catalogue, composed, diag, answer, item, twin, moved, late, died>>

Closing(d) == \E h \in Handlers : work[h].op \in {"close", "plan"} /\ work[h].d = d

WriteAnswer(h) ==
    /\ work[h].op = "answer"
    /\ answer' = [answer EXCEPT ![work[h].d][work[h].m] = work[h].v]
    /\ late' = IF work[h].d \in Completed \/ Closing(work[h].d) THEN late \cup {work[h].d} ELSE late
    /\ work' = [work EXCEPT ![h] = Free]
    /\ UNCHANGED <<granted, catalogue, composed, diag, item, twin, moved, died>>

(* complete_assessment counts the answers of the diagnostic, whatever their measure *)
EnoughAnswers(d) == Cardinality(Answered(d)) >= Cardinality(Scope(d))

BeginComplete(h, d) ==
    /\ work[h] = Free
    /\ granted
    /\ d \in Current
    /\ EnoughAnswers(d)
    /\ work' = [work EXCEPT ![h] = [op |-> "close", d |-> d]]
    /\ UNCHANGED <<granted, catalogue, composed, diag, answer, item, twin, moved, late, died>>

(* the score is taken from the answers as they are now, and saved with the status *)
SaveCompleted(h) ==
    /\ work[h].op = "close"
    /\ LET d == work[h].d IN
       diag' = [diag EXCEPT ![d].status = "completed", ![d].score = Score(answer[d], Scope(d))]
    /\ work' = [work EXCEPT ![h].op = "plan"]
    /\ UNCHANGED <<granted, catalogue, composed, answer, item, twin, moved, late, died>>

Gaps(d) == {m \in Scope(d) : answer[d][m] \in GapValues}

WithItems(d, S) ==
    [item EXCEPT ![d] = [m \in Measures |-> IF m \in S /\ @[m] = "none" THEN "todo" ELSE @[m]]]

\* Mutant: a partial answer is no gap.
GenerateShortPlan(h) ==
    /\ work[h].op = "plan"
    /\ item' = WithItems(work[h].d, {m \in Gaps(work[h].d) : answer[work[h].d][m] = "no"})
    /\ work' = [work EXCEPT ![h] = Free]
    /\ UNCHANGED <<granted, catalogue, composed, diag, answer, twin, moved, late, died>>

(* generate_action_plan: get_or_create leaves the items that exist alone *)
GenerateActionPlan(h) ==
    /\ work[h].op = "plan"
    /\ item' = WithItems(work[h].d, Gaps(work[h].d))
    /\ work' = [work EXCEPT ![h] = Free]
    /\ UNCHANGED <<granted, catalogue, composed, diag, answer, twin, moved, late, died>>

(* the process dies; each item is a commit of its own *)
Die(h) ==
    /\ work[h] # Free
    /\ IF work[h].op = "plan"
       THEN /\ \E S \in SUBSET Gaps(work[h].d) : item' = WithItems(work[h].d, S)
            /\ died' = died \cup {work[h].d}
       ELSE UNCHANGED <<item, died>>
    /\ work' = [work EXCEPT ![h] = Free]
    /\ UNCHANGED <<granted, catalogue, composed, diag, answer, twin, moved, late>>

(* ActionItemDetailView, update_status; note, assignee and due date change nothing here *)
UpdateStatus(d, m, s) ==
    /\ item[d][m] \notin {"none", s}
    /\ item' = [item EXCEPT ![d][m] = s]
    /\ UNCHANGED <<granted, catalogue, composed, diag, answer, work, twin, moved, late, died>>

Next ==
    \/ AssignOrRevoke
    \/ \E m \in Measures : AddMeasure(m)
    \/ \E h \in Handlers :
         \/ \E S \in SUBSET Measures : ClearComposition(h, S)
         \/ FillComposition(h) \/ WriteAnswer(h) \/ SaveCompleted(h)
         \/ GenerateActionPlan(h) \/ Die(h)
         \/ \E c \in BOOLEAN : BeginStart(h, c)
         \/ \E d \in Diagnostics :
              \/ CreateAssessment(h, d) \/ BeginComplete(h, d)
              \/ \E m \in Measures, v \in Offered : BeginAnswer(h, d, m, v)
    \/ \E d \in Diagnostics, m \in Measures, s \in {"todo", "done"} : UpdateStatus(d, m, s)

Spec == Init /\ [][Next]_vars

-----------------------------------------------------------------------------
(* Every variable keeps its type; only a diagnostic that exists has answers, and only a closed one a plan. *)
TypeOK ==
    /\ granted \in BOOLEAN
    /\ catalogue \cup composed \subseteq Measures
    /\ diag \in [Diagnostics -> [status : {"none", "in_progress", "completed"},
                                 composed : BOOLEAN, score : Nat \X Nat]]
    /\ answer \in [Diagnostics -> [Measures -> Values \cup {"none"}]]
    /\ item \in [Diagnostics -> [Measures -> {"none", "todo", "done"}]]
    /\ \A h \in Handlers :
         \/ work[h] = Free
         \/ work[h] \in [op : {"compose"}, S : SUBSET Measures]
         \/ work[h] \in [op : {"start"}, composed : BOOLEAN]
         \/ work[h] \in [op : {"answer"}, d : Current \cup Completed, m : Measures, v : Values]
         \/ work[h] \in [op : {"close", "plan"}, d : Current \cup Completed]
    /\ twin \cup moved \cup late \cup died \subseteq Diagnostics
    /\ \A d \in Diagnostics : item[d] # NoAnswers => d \in Completed

(* A client has one diagnostic in progress on a referential: a second one  *)
(* exists only if two starts had both looked before either was written.    *)
OneInProgress == Cardinality(Current \ twin) =< 1

(* "toutes les mesures doivent avoir une reponse": a closed diagnostic is  *)
(* complete, unless its measures changed after it was started.             *)
ClosedIsComplete == \A d \in Completed \ moved : Scope(d) \subseteq Answered(d)

(* "deliberately not recomputed later": the score kept with a closed       *)
(* diagnostic is the score of its answers, unless its measures changed or  *)
(* an answer was written while it was being closed or after.               *)
ScoreIsOfItsAnswers ==
    \A d \in Completed \ (moved \cup late) : diag[d].score = Score(answer[d], Scope(d))

(* The plan lists every gap of a closed diagnostic, except while it is     *)
(* being written, after a closing that died (a second closing is refused), *)
(* and for what was answered or added too late.                            *)
PlanCoversGaps ==
    \A d \in Completed \ (moved \cup late \cup died) :
        Closing(d) \/ \A m \in Gaps(d) : item[d][m] # "none"

(* Doing what the plan asks never lowers the projected score: it is at     *)
(* least the score of the answers, and full when every gap is done.        *)
ProjectionGains ==
    \A d \in Completed \ late :
        LET was == Score(answer[d], Scope(d))
            now == Projected(d)
        IN /\ now[1] * was[2] >= was[1] * now[2]
           /\ (\A m \in Gaps(d) : item[d][m] = "done") => now[1] = now[2]

(* Progress made on an action is never undone by a closing: an item goes   *)
(* back to "todo" only when somebody says so, never in a generation.       *)
ProgressKept ==
    [][\A d \in Diagnostics, m \in Measures :
         item[d][m] = "done" /\ item'[d][m] # "done" => work' = work]_vars

=============================================================================
