--------------------------- MODULE FindingsProofs ---------------------------
(***************************************************************************)
(* Proofs about Findings, for any number of leaks, legacy rows and         *)
(* ingestions that run at the same time, with processes that may die.      *)
(*                                                                         *)
(* What a step of an ingestion does is stated once, field by field, by the *)
(* lemmas of the first part; the invariants and the action property follow *)
(* from those, one action at a time.                                       *)
(***************************************************************************)
EXTENDS Findings, FiniteSetTheorems, TLAPS

-----------------------------------------------------------------------------
(* What a step does to the ingestions.                                     *)

\* A leak is in hand between two passages through "next", a row while it is reconciled.
InHandWhenNeeded(s) ==
    /\ s.pc \in {"idle", "next"} <=> s.leak = None
    /\ s.pc = "reconcile" <=> s.row # None

\* The ingestion w moves to a state of these fields, and no other one moves.
Moves(w, pc, todo, leak, row, created) ==
    /\ ingest' \in [Workers -> IngestStates]
    /\ \A v \in Workers \ {w} : ingest'[v] = ingest[v]
    /\ ingest'[w].pc = pc
    /\ ingest'[w].todo = todo
    /\ ingest'[w].leak = leak
    /\ ingest'[w].row = row
    /\ ingest'[w].created = created

\* What TypeOK says of an ingestion and of a row, and of the names.
LEMMA Shapes ==
    ASSUME TypeOK
    PROVE  /\ None \notin Leaks /\ None \notin Legacies
           /\ Leaks \subseteq Rows /\ Legacies \subseteq Rows /\ Rows = Leaks \cup Legacies
           /\ Leaks \cap Legacies = {}
           /\ \A g \in Legacies : Matches[g] \subseteq Leaks
           /\ finding \in [Rows -> FindingRows]
           /\ ingest \in [Workers -> IngestStates]
           /\ mails \in [Leaks -> Nat]
           /\ \A w \in Workers :
                 /\ InHandWhenNeeded(ingest[w])
                 /\ ingest[w].todo \subseteq Leaks
                 /\ ingest[w].created \subseteq Leaks
                 /\ ingest[w].leak # None => ingest[w].leak \in Leaks
                 /\ ingest[w].row # None => ingest[w].row \in Legacies
           /\ \A r \in Rows : /\ finding[r].key \in Rows \cup {None}
                              /\ finding[r].status \in Statuses
                              /\ finding[r].alert \in BOOLEAN
<1>1. /\ finding \in [Rows -> FindingRows] /\ ingest \in [Workers -> IngestStates]
      /\ mails \in [Leaks -> Nat]
      /\ \A w \in Workers : InHandWhenNeeded(ingest[w])
  BY DEF TypeOK, InHandWhenNeeded, At
<1>2. ASSUME NEW w \in Workers PROVE ingest[w] \in IngestStates
  BY <1>1
<1>3. ASSUME NEW r \in Rows PROVE finding[r] \in FindingRows
  BY <1>1
<1> QED BY <1>1, <1>2, <1>3, LeakAssumption DEF Rows, IngestStates, FindingRows

\* What an ingestion's action does: where the ingestion goes, what it writes.
LEMMA Effects ==
    ASSUME TypeOK, NEW w \in Workers
    PROVE
      LET s == ingest[w]
          Others == UNCHANGED <<marking, synthesis, refresh, cut>>
          Unwritten == UNCHANGED <<finding, alert, mails>> /\ Others
          Cut == /\ Moves(w, "idle", {}, None, None, {})
                 /\ cut' = (cut \/ s.created # {})
                 /\ UNCHANGED <<finding, alert, mails, marking, synthesis, refresh>>
          Writes(r, key, status, linked) ==
                 /\ finding'[r].key = key /\ finding'[r].status = status
                 /\ finding'[r].alert = linked
                 /\ \A q \in Rows \ {r} : finding'[q] = finding[q]
                 /\ finding' \in [Rows -> FindingRows]
      IN
      /\ Start(w) => /\ s.pc = "idle"
                     /\ \E batch \in SUBSET Leaks : Moves(w, "next", batch, None, None, {})
                     /\ Unwritten
      /\ Lookup(w) => /\ s.pc = "next"
                      /\ \E l \in Leaks :
                            \/ Moves(w, "next", s.todo \ {l}, None, None, s.created)
                            \/ Moves(w, "legacy", s.todo \ {l}, l, None, s.created)
                      /\ Unwritten
      /\ LookupLegacy(w) =>
            /\ s.pc = "legacy" /\ s.leak \in Leaks
            /\ \/ /\ LegacyOf(s.leak) = {}
                  /\ Moves(w, "create", s.todo, s.leak, None, s.created)
               \/ \E g \in LegacyOf(s.leak) : Moves(w, "reconcile", s.todo, s.leak, g, s.created)
            /\ Unwritten
      /\ Reconcile(w) =>
            /\ s.pc = "reconcile" /\ s.leak \in Leaks /\ s.row \in Legacies
            /\ \/ Cut
               \/ /\ \A r \in Rows \ {s.row} : finding[r].key # s.leak
                  /\ Writes(s.row, s.leak, finding[s.row].status, finding[s.row].alert)
                  /\ Moves(w, "next", s.todo, None, None, s.created)
                  /\ UNCHANGED <<alert, mails>> /\ Others
      /\ Create(w) =>
            /\ s.pc = "create" /\ s.leak \in Leaks
            /\ \/ /\ \E r \in Rows : finding[r].key = s.leak
                  /\ Moves(w, "next", s.todo, None, None, s.created)
                  /\ UNCHANGED finding
               \/ /\ \A r \in Rows : finding[r].key # s.leak
                  /\ Writes(s.leak, s.leak, "open", FALSE)
                  /\ Moves(w, "alert", s.todo, s.leak, None, s.created \cup {s.leak})
            /\ UNCHANGED <<alert, mails>> /\ Others
      /\ UpdateAlert(w) =>
            /\ s.pc = "alert"
            /\ \E pc \in {"open_alert", "link"} :
                  Moves(w, pc, s.todo, s.leak, None, s.created)
            /\ alert' \in {alert} \cup {"warning", "critical"}
            /\ UNCHANGED <<finding, mails>> /\ Others
      /\ OpenAlert(w) =>
            /\ s.pc = "open_alert"
            /\ \/ Cut
               \/ /\ Moves(w, "link", s.todo, s.leak, None, s.created)
                  /\ alert' \in {"warning", "critical"}
                  /\ UNCHANGED <<finding, mails>> /\ Others
      /\ Link(w) =>
            /\ s.pc = "link" /\ s.leak \in Leaks
            /\ Writes(s.leak, finding[s.leak].key, finding[s.leak].status, TRUE)
            /\ Moves(w, "next", s.todo, None, None, s.created)
            /\ UNCHANGED <<alert, mails>> /\ Others
      /\ Finish(w) =>
            /\ s.pc = "next"
            /\ Moves(w, "idle", {}, None, None, {})
            /\ synthesis' = IF s.created = {} THEN synthesis
                            ELSE [synthesis EXCEPT !.stale = synthesis.exists]
            /\ mails' \in [Leaks -> Nat]
            /\ \A l \in Leaks : \/ mails'[l] = mails[l]
                                \/ l \in s.created /\ mails'[l] = mails[l] + 1
            /\ UNCHANGED <<finding, alert, marking, refresh, cut>>
      /\ Crash(w) => Cut
<1> DEFINE s == ingest[w]
<1>1. /\ ingest \in [Workers -> IngestStates] /\ s \in IngestStates /\ InHandWhenNeeded(s)
      /\ finding \in [Rows -> FindingRows] /\ mails \in [Leaks -> Nat]
      /\ s.todo \subseteq Leaks /\ s.created \subseteq Leaks
      /\ Leaks \subseteq Rows /\ Legacies \subseteq Rows /\ None \notin Rows
      /\ s.leak # None => s.leak \in Leaks
      /\ s.row # None => s.row \in Legacies
  BY Shapes
<1>2. ASSUME Start(w)
      PROVE  \E batch \in SUBSET Leaks : Moves(w, "next", batch, None, None, {})
  <2>1. PICK batch \in SUBSET Leaks :
           ingest' = [ingest EXCEPT ![w] = [Idle EXCEPT !.pc = "next", !.todo = batch]]
    BY <1>2 DEF Start
  <2>2. Moves(w, "next", batch, None, None, {})
    BY <1>1, <2>1 DEF Moves, IngestStates, Idle, Steps
  <2> QED BY <2>2
<1>3. ASSUME Lookup(w)
      PROVE  \E l \in Leaks : \/ Moves(w, "next", s.todo \ {l}, None, None, s.created)
                              \/ Moves(w, "legacy", s.todo \ {l}, l, None, s.created)
  <2>0. s.pc = "next" /\ s.leak = None /\ s.row = None
    BY <1>1, <1>3 DEF Lookup, At, InHandWhenNeeded
  <2>1. PICK l \in Leaks :
           \/ ingest' = [ingest EXCEPT ![w].todo = @ \ {l}]
           \/ ingest' = [ingest EXCEPT ![w].todo = @ \ {l}, ![w].leak = l, ![w].pc = "legacy"]
    BY <1>1, <1>3 DEF Lookup
  <2>2. CASE ingest' = [ingest EXCEPT ![w].todo = @ \ {l}]
    <3>1. Moves(w, "next", s.todo \ {l}, None, None, s.created)
      BY <1>1, <2>0, <2>2 DEF Moves, IngestStates, Steps
    <3> QED BY <3>1
  <2>3. CASE ingest' = [ingest EXCEPT ![w].todo = @ \ {l}, ![w].leak = l, ![w].pc = "legacy"]
    <3>1. Moves(w, "legacy", s.todo \ {l}, l, None, s.created)
      BY <1>1, <2>0, <2>3 DEF Moves, IngestStates, Steps
    <3> QED BY <3>1
  <2> QED BY <2>1, <2>2, <2>3
<1>4. ASSUME LookupLegacy(w)
      PROVE  /\ s.pc = "legacy" /\ s.leak \in Leaks
             /\ \/ /\ LegacyOf(s.leak) = {}
                   /\ Moves(w, "create", s.todo, s.leak, None, s.created)
                \/ \E g \in LegacyOf(s.leak) : Moves(w, "reconcile", s.todo, s.leak, g, s.created)
  <2>0. s.pc = "legacy" /\ s.leak \in Leaks /\ s.row = None
    BY <1>1, <1>4 DEF LookupLegacy, At, InHandWhenNeeded
  <2>1. CASE LegacyOf(s.leak) = {}
    <3>1. ingest' = [ingest EXCEPT ![w].pc = "create"]
      BY <1>4, <2>1 DEF LookupLegacy, Goto
    <3>2. Moves(w, "create", s.todo, s.leak, None, s.created)
      BY <1>1, <2>0, <3>1 DEF Moves, IngestStates, Steps
    <3> QED BY <2>0, <2>1, <3>2
  <2>2. CASE LegacyOf(s.leak) # {}
    <3>1. PICK g \in LegacyOf(s.leak) :
             ingest' = [ingest EXCEPT ![w].pc = "reconcile", ![w].row = g]
      BY <1>4, <2>2 DEF LookupLegacy
    <3>2. g \in Legacies
      BY DEF LegacyOf
    <3>3. Moves(w, "reconcile", s.todo, s.leak, g, s.created)
      BY <1>1, <2>0, <3>1, <3>2 DEF Moves, IngestStates, Steps
    <3> QED BY <2>0, <3>3
  <2> QED BY <2>1, <2>2
<1>c. ASSUME CutShort(w) PROVE Moves(w, "idle", {}, None, None, {})
  BY <1>1, <1>c DEF CutShort, Moves, IngestStates, Idle, Steps
<1>w. ASSUME NEW r \in Rows, NEW key \in Rows \cup {None}, NEW status \in Statuses,
             NEW linked \in BOOLEAN,
             finding' = [finding EXCEPT ![r] = [key |-> key, status |-> status, alert |-> linked]]
      PROVE  /\ finding'[r].key = key /\ finding'[r].status = status
             /\ finding'[r].alert = linked
             /\ \A q \in Rows \ {r} : finding'[q] = finding[q]
             /\ finding' \in [Rows -> FindingRows]
  BY <1>1, <1>w DEF FindingRows
<1>n. ASSUME Continue(w)
      PROVE  Moves(w, "next", s.todo, None, None, s.created)
  BY <1>1, <1>n DEF Continue, Moves, IngestStates, Steps
<1>5. ASSUME Reconcile(w), ~ CutShort(w)
      PROVE  /\ \A r \in Rows \ {s.row} : finding[r].key # s.leak
             /\ finding'[s.row].key = s.leak
             /\ finding'[s.row].status = finding[s.row].status
             /\ finding'[s.row].alert = finding[s.row].alert
             /\ \A q \in Rows \ {s.row} : finding'[q] = finding[q]
             /\ finding' \in [Rows -> FindingRows]
  <2>0. s.pc = "reconcile" /\ s.leak \in Leaks /\ s.row \in Legacies
    BY <1>1, <1>5 DEF Reconcile, At, InHandWhenNeeded
  <2>1. /\ RowsWith(s.leak) \ {s.row} = {}
        /\ finding' = [finding EXCEPT ![s.row].key = s.leak]
    BY <1>5 DEF Reconcile
  <2> QED BY <1>1, <2>0, <2>1 DEF RowsWith, FindingRows
<1>6. ASSUME Create(w)
      PROVE  \/ /\ \E r \in Rows : finding[r].key = s.leak
                /\ Moves(w, "next", s.todo, None, None, s.created)
                /\ UNCHANGED finding
             \/ /\ \A r \in Rows : finding[r].key # s.leak
                /\ finding' = [finding EXCEPT ![s.leak] = [key |-> s.leak, status |-> "open", alert |-> FALSE]]
                /\ Moves(w, "alert", s.todo, s.leak, None, s.created \cup {s.leak})
  <2>0. s.pc = "create" /\ s.leak \in Leaks /\ s.row = None
    BY <1>1, <1>6 DEF Create, At, InHandWhenNeeded
  <2>1. CASE RowsWith(s.leak) # {}
    BY <1>6, <1>n, <2>1 DEF Create, RowsWith
  <2>2. CASE RowsWith(s.leak) = {}
    <3>1. /\ finding' = [finding EXCEPT ![s.leak] = [key |-> s.leak, status |-> "open", alert |-> FALSE]]
          /\ ingest' = [ingest EXCEPT ![w].pc = "alert", ![w].created = @ \cup {s.leak}]
      BY <1>6, <2>2 DEF Create, NoRow
    <3>2. Moves(w, "alert", s.todo, s.leak, None, s.created \cup {s.leak})
      BY <1>1, <2>0, <3>1 DEF Moves, IngestStates, Steps
    <3> QED BY <2>2, <3>1, <3>2 DEF RowsWith
  <2> QED BY <2>1, <2>2
<1>g. ASSUME NEW pc \in {"open_alert", "link"}, Goto(w, pc)
      PROVE  Moves(w, pc, s.todo, s.leak, s.row, s.created)
  BY <1>1, <1>g DEF Goto, Moves, IngestStates, Steps
<1>7. ASSUME UpdateAlert(w)
      PROVE  /\ \E pc \in {"open_alert", "link"} :
                   Moves(w, pc, s.todo, s.leak, None, s.created)
             /\ alert' \in {alert} \cup {"warning", "critical"}
  BY <1>1, <1>7, <1>g DEF UpdateAlert, At, InHandWhenNeeded, AlertSeverity
<1>8. ASSUME OpenAlert(w), ~ CutShort(w)
      PROVE  /\ Moves(w, "link", s.todo, s.leak, None, s.created)
             /\ alert' \in {"warning", "critical"}
  BY <1>1, <1>8, <1>g DEF OpenAlert, At, InHandWhenNeeded, AlertSeverity
<1>9. ASSUME Link(w)
      PROVE  /\ s.leak \in Leaks
             /\ finding'[s.leak].key = finding[s.leak].key
             /\ finding'[s.leak].status = finding[s.leak].status
             /\ finding'[s.leak].alert = TRUE
             /\ \A q \in Rows \ {s.leak} : finding'[q] = finding[q]
             /\ finding' \in [Rows -> FindingRows]
  <2>0. s.leak \in Leaks
    BY <1>1, <1>9 DEF Link, At, InHandWhenNeeded
  <2>1. finding' = [finding EXCEPT ![s.leak].alert = TRUE]
    BY <1>9 DEF Link
  <2> QED BY <1>1, <2>0, <2>1 DEF FindingRows
<1>10. ASSUME Finish(w)
       PROVE  /\ Moves(w, "idle", {}, None, None, {})
              /\ mails' \in [Leaks -> Nat]
              /\ \A l \in Leaks : \/ mails'[l] = mails[l]
                                  \/ l \in s.created /\ mails'[l] = mails[l] + 1
  <2>1. ingest' = [ingest EXCEPT ![w] = Idle]
    BY <1>10 DEF Finish
  <2>2. Moves(w, "idle", {}, None, None, {})
    BY <1>1, <2>1 DEF Moves, IngestStates, Idle, Steps
  <2>3. PICK queued \in SUBSET (s.created \cap PreIncident) :
           mails' = [l \in Leaks |-> IF l \in queued THEN mails[l] + 1 ELSE mails[l]]
    BY <1>10 DEF Finish, QueueMails
  <2> QED BY <1>1, <2>2, <2>3
<1>11. (Start(w) \/ Lookup(w) \/ LookupLegacy(w)) =>
          UNCHANGED <<finding, alert, mails, marking, synthesis, refresh, cut>>
  BY DEF Start, Lookup, LookupLegacy, NotIngest
<1>12. CutShort(w) => /\ cut' = (cut \/ s.created # {})
                      /\ UNCHANGED <<finding, alert, mails, marking, synthesis, refresh>>
  BY DEF CutShort
<1>13. Start(w) => s.pc = "idle"
  BY DEF Start, At
<1>14. Lookup(w) => s.pc = "next"
  BY DEF Lookup, At
<1>15. Reconcile(w) => /\ s.pc = "reconcile" /\ s.leak \in Leaks /\ s.row \in Legacies
                       /\ \/ CutShort(w)
                          \/ Continue(w) /\ UNCHANGED <<alert, mails, marking, synthesis, refresh, cut>>
  BY <1>1 DEF Reconcile, At, InHandWhenNeeded, NotIngest
<1>16. Create(w) => /\ s.pc = "create" /\ s.leak \in Leaks
                    /\ UNCHANGED <<alert, mails, marking, synthesis, refresh, cut>>
  BY <1>1 DEF Create, At, InHandWhenNeeded, NotIngest
<1>17. UpdateAlert(w) => /\ s.pc = "alert"
                         /\ UNCHANGED <<finding, mails, marking, synthesis, refresh, cut>>
  BY DEF UpdateAlert, At, NotIngest
<1>18. OpenAlert(w) => /\ s.pc = "open_alert"
                       /\ \/ CutShort(w)
                          \/ UNCHANGED <<finding, mails, marking, synthesis, refresh, cut>>
  BY DEF OpenAlert, At, NotIngest
<1>19. Link(w) => /\ s.pc = "link" /\ Continue(w)
                  /\ UNCHANGED <<alert, mails, marking, synthesis, refresh, cut>>
  BY DEF Link, At, NotIngest
<1>20. Finish(w) => /\ s.pc = "next"
                    /\ synthesis' = IF s.created = {} THEN synthesis
                                    ELSE [synthesis EXCEPT !.stale = synthesis.exists]
                    /\ UNCHANGED <<finding, alert, marking, refresh, cut>>
  BY DEF Finish, At, MarkStale
<1>21. Crash(w) => CutShort(w)
  BY DEF Crash
<1>22. Create(w) =>
            /\ s.pc = "create" /\ s.leak \in Leaks
            /\ \/ /\ \E r \in Rows : finding[r].key = s.leak
                  /\ Moves(w, "next", s.todo, None, None, s.created)
                  /\ UNCHANGED finding
               \/ /\ \A r \in Rows : finding[r].key # s.leak
                  /\ finding'[s.leak].key = s.leak /\ finding'[s.leak].status = "open"
                  /\ finding'[s.leak].alert = FALSE
                  /\ \A q \in Rows \ {s.leak} : finding'[q] = finding[q]
                  /\ finding' \in [Rows -> FindingRows]
                  /\ Moves(w, "alert", s.todo, s.leak, None, s.created \cup {s.leak})
            /\ UNCHANGED <<alert, mails>> /\ UNCHANGED <<marking, synthesis, refresh, cut>>
  <2>1. "open" \in Statuses /\ FALSE \in BOOLEAN
    BY DEF Statuses
  <2>2. ASSUME s.leak \in Leaks,
               finding' = [finding EXCEPT ![s.leak] = [key |-> s.leak, status |-> "open", alert |-> FALSE]]
        PROVE  /\ finding'[s.leak].key = s.leak /\ finding'[s.leak].status = "open"
               /\ finding'[s.leak].alert = FALSE
               /\ \A q \in Rows \ {s.leak} : finding'[q] = finding[q]
               /\ finding' \in [Rows -> FindingRows]
    BY <1>1, <1>w, <2>1, <2>2
  <2> QED BY <1>6, <1>16, <2>2
<1> QED
  BY <1>c, <1>n, <1>2, <1>3, <1>4, <1>5, <1>7, <1>8, <1>9, <1>10, <1>11, <1>12, <1>13,
     <1>14, <1>15, <1>17, <1>18, <1>19, <1>20, <1>21, <1>22, Zenon

\* The actions of the client and of the synthesis, on the tables the ingestions share.
LEMMA ClientEffects ==
    ASSUME TypeOK
    PROVE  /\ \A r \in Rows, c \in Closed : SetFindingStatus(r, c) =>
                     /\ finding[r].key # None
                     /\ finding'[r].key = finding[r].key
                     /\ finding'[r].status = c
                     /\ finding'[r].alert = finding[r].alert
                     /\ \A q \in Rows \ {r} : finding'[q] = finding[q]
                     /\ finding' \in [Rows -> FindingRows]
                     /\ marking' = TRUE
                     /\ UNCHANGED <<alert, ingest, mails, synthesis, refresh, cut>>
           /\ MarkSynthesisStale \/ BeginRefresh \/ SaveExposureSynthesis \/ RefreshFails =>
                     UNCHANGED <<finding, alert, ingest, mails, cut>>
<1>1. ASSUME NEW r \in Rows, NEW c \in Closed, SetFindingStatus(r, c)
      PROVE  /\ finding[r].key # None
             /\ finding'[r].key = finding[r].key
             /\ finding'[r].status = c
             /\ finding'[r].alert = finding[r].alert
             /\ \A q \in Rows \ {r} : finding'[q] = finding[q]
             /\ finding' \in [Rows -> FindingRows]
             /\ marking' = TRUE
             /\ UNCHANGED <<alert, ingest, mails, synthesis, refresh, cut>>
  <2>1. finding \in [Rows -> FindingRows] /\ c \in Statuses
    BY Shapes DEF Closed, Statuses
  <2> QED BY <1>1, <2>1 DEF SetFindingStatus, FindingRows
<1>2. MarkSynthesisStale \/ BeginRefresh \/ SaveExposureSynthesis \/ RefreshFails =>
         UNCHANGED <<finding, alert, ingest, mails, cut>>
  BY DEF MarkSynthesisStale, BeginRefresh, SaveExposureSynthesis, RefreshFails
<1> QED BY <1>1, <1>2, Zenon

-----------------------------------------------------------------------------
(* The tables and the ingestions keep their shape.                         *)

SynthesisRows == [exists : BOOLEAN, stale : BOOLEAN, basis : SUBSET Rows, overtaken : BOOLEAN]

\* A step of one ingestion keeps the types when the states it leaves are typed.
LEMMA TypesKept ==
    ASSUME TypeOK, NEW w \in Workers,
           \A v \in Workers \ {w} : ingest'[v] = ingest[v],
           ingest' \in [Workers -> IngestStates], InHandWhenNeeded(ingest'[w]),
           finding' \in [Rows -> FindingRows], alert' \in AlertStates,
           mails' \in [Leaks -> Nat], cut' \in BOOLEAN, synthesis' \in SynthesisRows,
           UNCHANGED <<marking, refresh>>
    PROVE  TypeOK'
<1>1. \A v \in Workers : InHandWhenNeeded(ingest'[v])
  BY DEF TypeOK, InHandWhenNeeded, At
<1> QED BY <1>1 DEF TypeOK, InHandWhenNeeded, At, SynthesisRows

\* Every reachable state of the tables, the ingestions and the synthesis is well
\* typed, whatever interleaves and whatever dies.
THEOREM TypeCorrect == Spec => []TypeOK
<1>1. Init => TypeOK
  <2> SUFFICES ASSUME Init PROVE TypeOK
    OBVIOUS
  <2>1. finding \in [Rows -> FindingRows] /\ alert \in AlertStates
    <3>1. PICK s \in [Legacies -> {"open", "treated"}], linked \in BOOLEAN :
             /\ finding = [r \in Rows |-> IF r \in Legacies THEN LegacyRow(r, s[r], linked) ELSE NoRow]
             /\ alert = IF linked /\ Legacies # {} THEN "warning" ELSE "none"
      BY DEF Init
    <3>2. ASSUME NEW r \in Rows
          PROVE  (IF r \in Legacies THEN LegacyRow(r, s[r], linked) ELSE NoRow) \in FindingRows
      BY <3>1 DEF LegacyRow, NoRow, FindingRows, Statuses, Rows
    <3> QED BY <3>1, <3>2 DEF AlertStates
  <2>2. ingest = [w \in Workers |-> Idle] /\ Idle \in IngestStates
    BY DEF Init, IngestStates, Idle, Steps
  <2>3. \A w \in Workers : At(w, "idle") /\ ingest[w].leak = None /\ ingest[w].row = None
    BY <2>2 DEF At, Idle
  <2>4. \A w \in Workers : ~ At(w, "reconcile")
    BY <2>2 DEF At, Idle
  <2>5. /\ mails \in [Leaks -> Nat] /\ marking \in BOOLEAN /\ cut \in BOOLEAN
        /\ refresh \in (SUBSET Rows) \cup {None}
        /\ synthesis \in SynthesisRows
    <3>1. synthesis = [exists |-> FALSE, stale |-> FALSE, basis |-> {}, overtaken |-> FALSE]
      BY DEF Init, NoSynthesis
    <3>2. synthesis \in SynthesisRows
      BY <3>1 DEF SynthesisRows
    <3>3. mails \in [Leaks -> Nat]
      BY DEF Init
    <3>4. refresh = None /\ marking = FALSE /\ cut = FALSE
      BY DEF Init
    <3> QED BY <3>2, <3>3, <3>4, Zenon
  <2> QED BY <2>1, <2>2, <2>3, <2>4, <2>5 DEF TypeOK, SynthesisRows
<1>2. TypeOK /\ [Next]_vars => TypeOK'
  <2> SUFFICES ASSUME TypeOK, [Next]_vars PROVE TypeOK'
    OBVIOUS
  <2>t. /\ finding \in [Rows -> FindingRows] /\ ingest \in [Workers -> IngestStates]
        /\ alert \in AlertStates /\ mails \in [Leaks -> Nat] /\ marking \in BOOLEAN
        /\ synthesis \in SynthesisRows
        /\ refresh \in (SUBSET Rows) \cup {None} /\ cut \in BOOLEAN
    BY DEF TypeOK, SynthesisRows
  <2>n. None \notin Leaks /\ None \notin Legacies
    BY LeakAssumption
  <2>1. ASSUME NEW w \in Workers, Step(w) PROVE TypeOK'
    <3>c. InHandWhenNeeded(ingest[w])
      BY Shapes
    <3>i. /\ finding' \in [Rows -> FindingRows] /\ mails' \in [Leaks -> Nat]
          /\ alert' \in AlertStates
          /\ ingest' \in [Workers -> IngestStates]
          /\ \A v \in Workers \ {w} : ingest'[v] = ingest[v]
          /\ InHandWhenNeeded(ingest'[w])
      <4>1. CASE Start(w)
        BY <2>t, <2>n, <4>1, Effects DEF Moves, InHandWhenNeeded, AlertStates
      <4>2. CASE Lookup(w)
        <5>1. PICK l \in Leaks :
                 \/ Moves(w, "next", ingest[w].todo \ {l}, None, None, ingest[w].created)
                 \/ Moves(w, "legacy", ingest[w].todo \ {l}, l, None, ingest[w].created)
          BY <4>2, Effects
        <5>2. UNCHANGED <<finding, alert, mails>>
          BY <4>2, Effects
        <5> QED BY <2>t, <2>n, <5>1, <5>2 DEF Moves, InHandWhenNeeded
      <4>3. CASE LookupLegacy(w)
        <5>1. LegacyOf(ingest[w].leak) \subseteq Legacies
          BY DEF LegacyOf
        <5> QED BY <2>t, <2>n, <4>3, <5>1, Effects DEF Moves, InHandWhenNeeded, AlertStates
      <4>4. CASE Reconcile(w)
        BY <2>t, <2>n, <4>4, Effects DEF Moves, InHandWhenNeeded, AlertStates
      <4>5. CASE Create(w)
        <5>1. /\ finding' \in [Rows -> FindingRows] /\ UNCHANGED <<alert, mails>>
              /\ ingest[w].leak \in Leaks
              /\ \/ Moves(w, "next", ingest[w].todo, None, None, ingest[w].created)
                 \/ Moves(w, "alert", ingest[w].todo, ingest[w].leak, None,
                          ingest[w].created \cup {ingest[w].leak})
          BY <2>t, <4>5, Effects
        <5> QED BY <2>t, <2>n, <5>1 DEF Moves, InHandWhenNeeded
      <4>6. CASE UpdateAlert(w)
        BY <2>t, <2>n, <3>c, <4>6, Effects DEF Moves, InHandWhenNeeded, AlertStates
      <4>7. CASE OpenAlert(w)
        BY <2>t, <2>n, <3>c, <4>7, Effects DEF Moves, InHandWhenNeeded, AlertStates
      <4>8. CASE Link(w)
        BY <2>t, <2>n, <4>8, Effects DEF Moves, InHandWhenNeeded, AlertStates
      <4>9. CASE Finish(w)
        BY <2>t, <2>n, <4>9, Effects DEF Moves, InHandWhenNeeded, AlertStates
      <4>10. CASE Crash(w)
        BY <2>t, <2>n, <4>10, Effects DEF Moves, InHandWhenNeeded, AlertStates
      <4> QED BY <2>1, <4>1, <4>2, <4>3, <4>4, <4>5, <4>6, <4>7, <4>8, <4>9, <4>10 DEF Step
    <3>s. synthesis' \in SynthesisRows /\ cut' \in BOOLEAN /\ UNCHANGED <<marking, refresh>>
      BY <2>1, <2>t
      DEF Step, Start, Lookup, LookupLegacy, Reconcile, Create, UpdateAlert, OpenAlert, Link,
          Finish, Crash, CutShort, MarkStale, NotIngest, SynthesisRows
    <3> QED BY <3>i, <3>s, TypesKept
  <2>2. ASSUME NEW r \in Rows, NEW c \in Closed, SetFindingStatus(r, c) PROVE TypeOK'
    <3>1. /\ finding' \in [Rows -> FindingRows] /\ marking' = TRUE
          /\ UNCHANGED <<alert, ingest, mails, synthesis, refresh, cut>>
      BY <2>2, ClientEffects
    <3> QED BY <3>1 DEF TypeOK, At
  <2>3. CASE MarkSynthesisStale \/ BeginRefresh \/ SaveExposureSynthesis \/ RefreshFails
    <3>1. UNCHANGED <<finding, alert, ingest, mails, cut>>
      BY <2>3, ClientEffects
    <3>2. OpenRows \subseteq Rows
      BY DEF OpenRows
    <3>3. /\ marking' \in BOOLEAN /\ synthesis' \in SynthesisRows
          /\ refresh' \in (SUBSET Rows) \cup {None}
      <4>1. CASE MarkSynthesisStale
        BY <2>t, <4>1 DEF MarkSynthesisStale, MarkStale, SynthesisRows
      <4>2. CASE BeginRefresh
        BY <2>t, <3>2, <4>2 DEF BeginRefresh
      <4>3. CASE SaveExposureSynthesis
        <5>0. refresh # None /\ refresh' = None /\ UNCHANGED marking
          BY <4>3 DEF SaveExposureSynthesis
        <5>1. refresh \in SUBSET Rows
          BY <2>t, <5>0, Zenon
        <5>4. (refresh # OpenRows) \in BOOLEAN
          BY Zenon
        <5>2. synthesis' = [exists |-> TRUE, stale |-> FALSE, basis |-> refresh,
                            overtaken |-> refresh # OpenRows]
          BY <4>3 DEF SaveExposureSynthesis
        <5>3. synthesis' \in SynthesisRows
          BY <5>1, <5>2, <5>4 DEF SynthesisRows
        <5> QED BY <2>t, <5>0, <5>3, Zenon
      <4>4. CASE RefreshFails
        BY <2>t, <4>4, Zenon DEF RefreshFails
      <4> QED BY <2>3, <4>1, <4>2, <4>3, <4>4
    <3> QED BY <3>1, <3>3 DEF TypeOK, SynthesisRows, At
  <2>4. CASE UNCHANGED vars
    BY <2>4 DEF vars, TypeOK, At
  <2> QED BY <2>1, <2>2, <2>3, <2>4 DEF Next
<1> QED BY <1>1, <1>2, PTL DEF Spec

-----------------------------------------------------------------------------
(* Which row holds which leak.  That a leak has one row is not inductive:  *)
(* the worker that reconciles a row, or creates one, acts on what it read. *)

\* A leak is the key of one row at most; a row created for a leak keeps its key; a
\* legacy row has its own key, or that of a leak it matches.
OneRowALeak ==
    /\ \A r, s \in Rows :
          finding[r].key \in Leaks /\ finding[r].key = finding[s].key => r = s
    /\ \A l \in Leaks : finding[l].key \in {None, l}
    /\ \A g \in Legacies : finding[g].key \in {g} \cup Matches[g]

\* The row a worker is about to reconcile matches its leak; and when it has found no
\* row to reconcile, the rows that match its leak alone already carry it.
ReadIsCurrent(w) ==
    /\ At(w, "reconcile") => ingest[w].leak \in Matches[ingest[w].row]
    /\ At(w, "create") =>
          \A g \in Legacies : Matches[g] = {ingest[w].leak} => finding[g].key = ingest[w].leak

\* A leak that has a legacy row to itself gets no other.
NoRowBesides == \A g \in Legacies : \A l \in Leaks : Matches[g] = {l} => finding[l].key = None

RowsInv == OneRowALeak /\ (\A w \in Workers : ReadIsCurrent(w)) /\ NoRowBesides

(* What an ingestion has created, and what came of it.                     *)

Linking == {"alert", "open_alert", "link"}

\* What a worker created exists, nobody else created it, and it is not yet mailed.
CreatedByOne ==
    /\ \A w \in Workers :
          /\ At(w, "idle") => ingest[w].created = {}
          /\ ingest[w].pc \in Linking => ingest[w].leak \in ingest[w].created
          /\ \A l \in ingest[w].created : finding[l].key = l /\ mails[l] = 0
    /\ \A v, w \in Workers : v # w => ingest[v].created \cap ingest[w].created = {}

\* A mail is queued once, for a leak that has its row.
MailedAfter == \A l \in Leaks : mails[l] <= 1 /\ (mails[l] # 0 => finding[l].key = l)

WorkInv == CreatedByOne /\ MailedAfter /\ LinkedUnlessCut

-----------------------------------------------------------------------------
(* The rows.                                                               *)

\* A step that changes no key keeps the invariant of the rows, if what its worker
\* has read is current.
LEMMA KeysUntouched ==
    ASSUME RowsInv, NEW w \in Workers,
           \A v \in Workers \ {w} : ingest'[v] = ingest[v],
           \A r \in Rows : finding'[r].key = finding[r].key,
           Leaks \subseteq Rows, Legacies \subseteq Rows,
           ReadIsCurrent(w)'
    PROVE  RowsInv'
<1>1. OneRowALeak' /\ NoRowBesides'
  BY DEF RowsInv, OneRowALeak, NoRowBesides
<1>2. ASSUME NEW v \in Workers \ {w} PROVE ReadIsCurrent(v)'
  BY DEF RowsInv, ReadIsCurrent, At
<1> QED BY <1>1, <1>2 DEF RowsInv

\* The invariant of the rows is kept by every step of every ingestion.
LEMMA RowsStep ==
    ASSUME TypeOK, RowsInv, NEW w \in Workers, Step(w)
    PROVE  RowsInv'
<1> DEFINE s == ingest[w]
<1>s. /\ None \notin Leaks /\ None \notin Legacies
      /\ Leaks \subseteq Rows /\ Legacies \subseteq Rows /\ Rows = Leaks \cup Legacies
      /\ Leaks \cap Legacies = {}
      /\ \A g \in Legacies : Matches[g] \subseteq Leaks
  BY Shapes
<1>1. ASSUME NEW pc \in {"idle", "next", "legacy", "alert", "open_alert", "link"},
             NEW todo, NEW leak, NEW created, Moves(w, pc, todo, leak, None, created),
             \A r \in Rows : finding'[r].key = finding[r].key
      PROVE  RowsInv'
  <2>1. ReadIsCurrent(w)'
    BY <1>1 DEF ReadIsCurrent, At, Moves
  <2> QED BY <1>s, <1>1, <2>1, KeysUntouched DEF Moves
<1>2. CASE Start(w)
  BY <1>1, <1>2, Effects
<1>3. CASE Lookup(w)
  BY <1>1, <1>3, Effects
<1>4. CASE LookupLegacy(w)
  <2>0. /\ s.leak \in Leaks /\ UNCHANGED finding
    BY <1>4, Effects
  <2>1. CASE LegacyOf(s.leak) = {} /\ Moves(w, "create", s.todo, s.leak, None, s.created)
    <3>1. ASSUME NEW g \in Legacies, Matches[g] = {s.leak}
          PROVE  finding[g].key = s.leak
      <4>1. finding[g].key # g
        BY <2>1, <3>1 DEF LegacyOf
      <4> QED BY <3>1, <4>1 DEF RowsInv, OneRowALeak
    <3>2. ReadIsCurrent(w)'
      BY <2>0, <2>1, <3>1 DEF ReadIsCurrent, At, Moves
    <3> QED BY <1>s, <2>0, <2>1, <3>2, KeysUntouched DEF Moves
  <2>2. ASSUME NEW g \in LegacyOf(s.leak), Moves(w, "reconcile", s.todo, s.leak, g, s.created)
        PROVE  RowsInv'
    <3>1. ReadIsCurrent(w)'
      BY <2>2 DEF ReadIsCurrent, At, Moves, LegacyOf
    <3> QED BY <1>s, <2>0, <2>2, <3>1, KeysUntouched DEF Moves
  <2> QED BY <1>4, <2>1, <2>2, Effects
<1>5. CASE Reconcile(w)
  <2>1. CASE UNCHANGED finding /\ Moves(w, "idle", {}, None, None, {})
    BY <1>1, <2>1
  <2>2. CASE /\ s.pc = "reconcile" /\ s.leak \in Leaks /\ s.row \in Legacies
             /\ \A r \in Rows \ {s.row} : finding[r].key # s.leak
             /\ finding'[s.row].key = s.leak
             /\ \A q \in Rows \ {s.row} : finding'[q] = finding[q]
             /\ Moves(w, "next", s.todo, None, None, s.created)
    <3>1. s.leak \in Matches[s.row]
      BY <2>2 DEF RowsInv, ReadIsCurrent, At
    <3>2. OneRowALeak'
      <4>1. ASSUME NEW r \in Rows, NEW q \in Rows,
                   finding'[r].key \in Leaks, finding'[r].key = finding'[q].key
            PROVE  r = q
        BY <2>2, <4>1 DEF RowsInv, OneRowALeak
      <4>2. ASSUME NEW l \in Leaks PROVE finding'[l].key \in {None, l}
        BY <1>s, <2>2 DEF RowsInv, OneRowALeak
      <4>3. ASSUME NEW g \in Legacies PROVE finding'[g].key \in {g} \cup Matches[g]
        BY <1>s, <2>2, <3>1 DEF RowsInv, OneRowALeak
      <4> QED BY <4>1, <4>2, <4>3 DEF OneRowALeak
    <3>3. NoRowBesides'
      BY <1>s, <2>2 DEF RowsInv, NoRowBesides
    <3>4. ASSUME NEW v \in Workers PROVE ReadIsCurrent(v)'
      <4>1. CASE v = w
        BY <2>2, <4>1 DEF ReadIsCurrent, At, Moves
      <4>2. CASE v # w
        <5>1. ReadIsCurrent(v) /\ ingest'[v] = ingest[v]
          BY <2>2, <4>2 DEF RowsInv, Moves
        <5>2. ASSUME NEW g \in Legacies, Matches[g] = {ingest[v].leak},
                     finding[g].key = ingest[v].leak
              PROVE  finding'[g].key = ingest[v].leak
          BY <1>s, <2>2, <3>1, <5>2
        <5> QED BY <5>1, <5>2 DEF ReadIsCurrent, At
      <4> QED BY <4>1, <4>2
    <3> QED BY <3>2, <3>3, <3>4 DEF RowsInv
  <2> QED BY <1>5, <2>1, <2>2, Effects
<1>6. CASE Create(w)
  <2>1. CASE UNCHANGED finding /\ Moves(w, "next", s.todo, None, None, s.created)
    BY <1>1, <2>1
  <2>2. CASE /\ s.pc = "create" /\ s.leak \in Leaks
             /\ \A r \in Rows : finding[r].key # s.leak
             /\ finding'[s.leak].key = s.leak
             /\ \A q \in Rows \ {s.leak} : finding'[q] = finding[q]
             /\ Moves(w, "alert", s.todo, s.leak, None, s.created \cup {s.leak})
    <3>1. OneRowALeak'
      <4>1. ASSUME NEW r \in Rows, NEW q \in Rows,
                   finding'[r].key \in Leaks, finding'[r].key = finding'[q].key
            PROVE  r = q
        BY <2>2, <4>1 DEF RowsInv, OneRowALeak
      <4>2. ASSUME NEW l \in Leaks PROVE finding'[l].key \in {None, l}
        BY <1>s, <2>2 DEF RowsInv, OneRowALeak
      <4>3. ASSUME NEW g \in Legacies PROVE finding'[g].key \in {g} \cup Matches[g]
        BY <1>s, <2>2 DEF RowsInv, OneRowALeak
      <4> QED BY <4>1, <4>2, <4>3 DEF OneRowALeak
    <3>2. NoRowBesides'
      <4>1. ASSUME NEW g \in Legacies, NEW l \in Leaks, Matches[g] = {l}
            PROVE  finding'[l].key = None
        <5>1. l # s.leak
          BY <1>s, <2>2, <4>1 DEF RowsInv, ReadIsCurrent, At
        <5> QED BY <1>s, <2>2, <4>1, <5>1 DEF RowsInv, NoRowBesides
      <4> QED BY <4>1 DEF NoRowBesides
    <3>3. ASSUME NEW v \in Workers PROVE ReadIsCurrent(v)'
      <4>1. CASE v = w
        BY <2>2, <4>1 DEF ReadIsCurrent, At, Moves
      <4>2. CASE v # w
        <5>1. ReadIsCurrent(v) /\ ingest'[v] = ingest[v]
          BY <2>2, <4>2 DEF RowsInv, Moves
        <5>2. \A g \in Legacies : finding'[g] = finding[g]
          BY <1>s, <2>2
        <5> QED BY <5>1, <5>2 DEF ReadIsCurrent, At
      <4> QED BY <4>1, <4>2
    <3> QED BY <3>1, <3>2, <3>3 DEF RowsInv
  <2> QED BY <1>6, <2>1, <2>2, Effects
<1>7. CASE UpdateAlert(w)
  <2>1. PICK pc \in {"open_alert", "link"} : Moves(w, pc, s.todo, s.leak, None, s.created)
    BY <1>7, Effects
  <2>2. UNCHANGED finding
    BY <1>7, Effects
  <2> QED BY <1>1, <2>1, <2>2
<1>8. CASE OpenAlert(w)
  BY <1>1, <1>8, Effects
<1>9. CASE Link(w)
  BY <1>1, <1>9, Effects
<1>10. CASE Finish(w)
  BY <1>1, <1>10, Effects
<1>11. CASE Crash(w)
  BY <1>1, <1>11, Effects
<1> QED BY <1>2, <1>3, <1>4, <1>5, <1>6, <1>7, <1>8, <1>9, <1>10, <1>11 DEF Step

\* The initial rows are the legacy ones, each with its own key.
LEMMA RowsAtFirst == Init => RowsInv
<1> SUFFICES ASSUME Init PROVE RowsInv
  OBVIOUS
<1>1. PICK s \in [Legacies -> {"open", "treated"}], linked \in BOOLEAN :
         finding = [r \in Rows |-> IF r \in Legacies THEN LegacyRow(r, s[r], linked) ELSE NoRow]
  BY DEF Init
<1>2. /\ \A g \in Legacies : finding[g].key = g
      /\ \A l \in Leaks : finding[l].key = None
  BY <1>1, LeakAssumption DEF LegacyRow, NoRow, Rows
<1>3. \A w \in Workers : ReadIsCurrent(w)
  BY DEF Init, ReadIsCurrent, At, Idle
<1> QED BY <1>2, <1>3, LeakAssumption DEF RowsInv, OneRowALeak, NoRowBesides, Rows

\* Every step keeps the invariant of the rows.
LEMMA RowsKeptByNext ==
    ASSUME TypeOK, RowsInv, [Next]_vars
    PROVE  RowsInv'
<1>1. ASSUME \A r \in Rows : finding'[r].key = finding[r].key, UNCHANGED ingest
      PROVE  RowsInv'
  <2>1. OneRowALeak' /\ NoRowBesides'
    BY <1>1, Shapes DEF RowsInv, OneRowALeak, NoRowBesides
  <2>2. ASSUME NEW v \in Workers PROVE ReadIsCurrent(v)'
    BY <1>1, Shapes DEF RowsInv, ReadIsCurrent, At
  <2> QED BY <2>1, <2>2 DEF RowsInv
<1>2. ASSUME NEW w \in Workers, Step(w) PROVE RowsInv'
  BY <1>2, RowsStep
<1>3. ASSUME NEW r \in Rows, NEW c \in Closed, SetFindingStatus(r, c) PROVE RowsInv'
  BY <1>1, <1>3, ClientEffects
<1>4. CASE MarkSynthesisStale \/ BeginRefresh \/ SaveExposureSynthesis \/ RefreshFails
  BY <1>1, <1>4, ClientEffects
<1>5. CASE UNCHANGED vars
  BY <1>1, <1>5 DEF vars
<1> QED BY <1>2, <1>3, <1>4, <1>5 DEF Next

-----------------------------------------------------------------------------
(* The work of the ingestions.                                             *)

\* A step of an ingestion that creates and mails nothing keeps what is known of the
\* created leaks, if it forgets them or keeps the one in hand.
LEMMA NothingCreated ==
    ASSUME TypeOK, CreatedByOne, MailedAfter, NEW w \in Workers,
           \A v \in Workers \ {w} : ingest'[v] = ingest[v],
           ingest'[w].created \subseteq ingest[w].created,
           ingest'[w].pc = "idle" => ingest'[w].created = {},
           ingest'[w].pc \in Linking => ingest'[w].leak \in ingest'[w].created,
           \A l \in Leaks : finding'[l].key = finding[l].key,
           UNCHANGED mails
    PROVE  CreatedByOne' /\ MailedAfter'
<1>1. /\ \A v \in Workers : ingest'[v].created \subseteq ingest[v].created
      /\ \A v \in Workers : ingest[v].created \subseteq Leaks
  BY Shapes
<1>2. MailedAfter'
  BY DEF MailedAfter
<1>3. ASSUME NEW v \in Workers
      PROVE  /\ At(v, "idle")' => ingest'[v].created = {}
             /\ ingest'[v].pc \in Linking => ingest'[v].leak \in ingest'[v].created
             /\ \A l \in ingest'[v].created : finding'[l].key = l /\ mails'[l] = 0
  <2>1. \A l \in ingest'[v].created : finding'[l].key = l /\ mails'[l] = 0
    BY <1>1 DEF CreatedByOne
  <2>2. CASE v = w
    BY <2>1, <2>2 DEF At
  <2>3. CASE v # w
    BY <2>1, <2>3 DEF CreatedByOne, At
  <2> QED BY <2>2, <2>3
<1>4. ASSUME NEW v \in Workers, NEW x \in Workers, v # x
      PROVE  ingest'[v].created \cap ingest'[x].created = {}
  BY <1>1, <1>4 DEF CreatedByOne
<1> QED BY <1>2, <1>3, <1>4 DEF CreatedByOne

\* The created leaks and the mails are kept in order by every step of an ingestion.
LEMMA CreatedStep ==
    ASSUME TypeOK, CreatedByOne, MailedAfter, NEW w \in Workers, Step(w)
    PROVE  CreatedByOne' /\ MailedAfter'
<1> DEFINE s == ingest[w]
<1>s. /\ Leaks \cap Legacies = {} /\ s.created \subseteq Leaks /\ Leaks \subseteq Rows
      /\ mails \in [Leaks -> Nat]
      /\ \A v \in Workers : ingest[v].created \subseteq Leaks
  BY Shapes
<1>1. ASSUME NEW todo, NEW leak, Moves(w, "idle", todo, leak, None, {}),
             UNCHANGED <<finding, mails>>
      PROVE  CreatedByOne' /\ MailedAfter'
  <2>1. /\ \A v \in Workers \ {w} : ingest'[v] = ingest[v]
        /\ ingest'[w].pc = "idle" /\ ingest'[w].created = {}
    BY <1>1 DEF Moves
  <2> QED BY <1>1, <2>1, NothingCreated DEF Linking
<1>2. ASSUME NEW pc \in {"next", "legacy", "create", "reconcile"}, NEW todo, NEW leak, NEW row,
             NEW created, created \subseteq s.created, Moves(w, pc, todo, leak, row, created),
             \A l \in Leaks : finding'[l].key = finding[l].key, UNCHANGED mails
      PROVE  CreatedByOne' /\ MailedAfter'
  <2>1. /\ \A v \in Workers \ {w} : ingest'[v] = ingest[v]
        /\ ingest'[w].pc = pc /\ ingest'[w].created = created
    BY <1>2 DEF Moves
  <2> QED BY <1>2, <2>1, NothingCreated DEF Linking
<1>3. ASSUME NEW pc \in {"open_alert", "link"}, s.pc \in Linking,
             Moves(w, pc, s.todo, s.leak, None, s.created), UNCHANGED <<finding, mails>>
      PROVE  CreatedByOne' /\ MailedAfter'
  <2>1. /\ \A v \in Workers \ {w} : ingest'[v] = ingest[v]
        /\ ingest'[w].pc = pc /\ ingest'[w].created = s.created /\ ingest'[w].leak = s.leak
    BY <1>3 DEF Moves
  <2>2. s.leak \in s.created
    BY <1>3 DEF CreatedByOne
  <2> QED BY <1>3, <2>1, <2>2, NothingCreated DEF Linking
<1>4. CASE Start(w)
  BY <1>2, <1>4, Effects
<1>5. CASE Lookup(w)
  BY <1>2, <1>5, Effects
<1>6. CASE LookupLegacy(w)
  <2>1. UNCHANGED <<finding, mails>>
    BY <1>6, Effects
  <2>2. CASE Moves(w, "create", s.todo, s.leak, None, s.created)
    BY <1>2, <2>1, <2>2
  <2>3. ASSUME NEW g, Moves(w, "reconcile", s.todo, s.leak, g, s.created)
        PROVE  CreatedByOne' /\ MailedAfter'
    BY <1>2, <2>1, <2>3
  <2> QED BY <1>6, <2>2, <2>3, Effects
<1>7. CASE Reconcile(w)
  <2>1. CASE Moves(w, "idle", {}, None, None, {}) /\ UNCHANGED <<finding, mails>>
    BY <1>1, <2>1
  <2>2. CASE /\ s.row \in Legacies /\ UNCHANGED mails
             /\ \A q \in Rows \ {s.row} : finding'[q] = finding[q]
             /\ Moves(w, "next", s.todo, None, None, s.created)
    <3>1. \A l \in Leaks : finding'[l].key = finding[l].key
      BY <1>s, <2>2
    <3> QED BY <1>2, <2>2, <3>1
  <2> QED BY <1>7, <2>1, <2>2, Effects
<1>8. CASE Create(w)
  <2>1. CASE UNCHANGED <<finding, mails>> /\ Moves(w, "next", s.todo, None, None, s.created)
    BY <1>2, <2>1
  <2>2. CASE /\ s.leak \in Leaks /\ UNCHANGED mails
             /\ \A r \in Rows : finding[r].key # s.leak
             /\ finding'[s.leak].key = s.leak
             /\ \A q \in Rows \ {s.leak} : finding'[q] = finding[q]
             /\ Moves(w, "alert", s.todo, s.leak, None, s.created \cup {s.leak})
    <3>1. mails[s.leak] = 0 /\ \A v \in Workers : s.leak \notin ingest[v].created
      BY <1>s, <2>2 DEF CreatedByOne, MailedAfter
    <3>2. /\ \A v \in Workers \ {w} : ingest'[v] = ingest[v]
          /\ ingest'[w].pc = "alert" /\ ingest'[w].leak = s.leak
          /\ ingest'[w].created = s.created \cup {s.leak}
      BY <2>2 DEF Moves
    <3>3. MailedAfter'
      BY <1>s, <2>2, <3>1 DEF MailedAfter
    <3>4. ASSUME NEW v \in Workers
          PROVE  /\ At(v, "idle")' => ingest'[v].created = {}
                 /\ ingest'[v].pc \in Linking => ingest'[v].leak \in ingest'[v].created
                 /\ \A l \in ingest'[v].created : finding'[l].key = l /\ mails'[l] = 0
      <4>1. CASE v = w
        <5>1. ASSUME NEW l \in s.created PROVE finding'[l].key = l /\ mails'[l] = 0
          BY <1>s, <2>2, <3>1 DEF CreatedByOne
        <5> QED BY <2>2, <3>1, <3>2, <4>1, <5>1 DEF At
      <4>2. CASE v # w
        <5>1. ASSUME NEW l \in ingest[v].created PROVE finding'[l].key = l /\ mails'[l] = 0
          BY <1>s, <2>2, <3>1 DEF CreatedByOne
        <5> QED BY <3>2, <4>2, <5>1 DEF CreatedByOne, At
      <4> QED BY <4>1, <4>2
    <3>5. ASSUME NEW v \in Workers, NEW x \in Workers, v # x
          PROVE  ingest'[v].created \cap ingest'[x].created = {}
      <4>1. ingest[v].created \cap ingest[x].created = {}
        BY <3>5 DEF CreatedByOne
      <4> QED BY <3>1, <3>2, <3>5, <4>1
    <3> QED BY <3>3, <3>4, <3>5 DEF CreatedByOne
  <2> QED BY <1>8, <2>1, <2>2, Effects
<1>9. CASE UpdateAlert(w)
  <2>1. s.pc \in Linking /\ UNCHANGED <<finding, mails>>
    BY <1>9, Effects DEF Linking
  <2>2. PICK pc \in {"open_alert", "link"} : Moves(w, pc, s.todo, s.leak, None, s.created)
    BY <1>9, Effects
  <2> QED BY <1>3, <2>1, <2>2
<1>10. CASE OpenAlert(w)
  <2>1. s.pc \in Linking
    BY <1>10, Effects DEF Linking
  <2> QED BY <1>1, <1>3, <1>10, <2>1, Effects
<1>11. CASE Link(w)
  <2>1. /\ Moves(w, "next", s.todo, None, None, s.created) /\ UNCHANGED mails
        /\ finding'[s.leak].key = finding[s.leak].key
        /\ \A q \in Rows \ {s.leak} : finding'[q] = finding[q]
    BY <1>11, Effects
  <2>2. \A l \in Leaks : finding'[l].key = finding[l].key
    BY <1>s, <2>1
  <2> QED BY <1>2, <2>1, <2>2
<1>12. CASE Finish(w)
  <2>1. /\ \A v \in Workers \ {w} : ingest'[v] = ingest[v]
        /\ ingest'[w].pc = "idle" /\ ingest'[w].created = {}
        /\ UNCHANGED finding
        /\ mails' \in [Leaks -> Nat]
        /\ \A l \in Leaks : \/ mails'[l] = mails[l]
                            \/ l \in s.created /\ mails'[l] = mails[l] + 1
    BY <1>12, Effects DEF Moves
  <2>2. MailedAfter'
    <3>1. ASSUME NEW l \in Leaks, l \in s.created, mails'[l] = mails[l] + 1
          PROVE  mails'[l] <= 1 /\ finding'[l].key = l
      <4>1. finding[l].key = l /\ mails[l] = 0
        BY <3>1 DEF CreatedByOne
      <4> QED BY <2>1, <3>1, <4>1
    <3> QED BY <2>1, <3>1 DEF MailedAfter
  <2>3. ASSUME NEW v \in Workers
        PROVE  /\ At(v, "idle")' => ingest'[v].created = {}
               /\ ingest'[v].pc \in Linking => ingest'[v].leak \in ingest'[v].created
               /\ \A l \in ingest'[v].created : finding'[l].key = l /\ mails'[l] = 0
    <3>1. CASE v = w
      BY <2>1, <3>1 DEF At, Linking
    <3>2. CASE v # w
      <4>1. ASSUME NEW l \in ingest[v].created PROVE finding'[l].key = l /\ mails'[l] = 0
        <5>1. l \notin s.created
          BY <3>2, <4>1 DEF CreatedByOne
        <5>2. mails[l] = 0 /\ finding[l].key = l /\ l \in Leaks
          BY <1>s, <4>1 DEF CreatedByOne
        <5> QED BY <2>1, <5>1, <5>2
      <4> QED BY <2>1, <3>2, <4>1 DEF CreatedByOne, At
    <3> QED BY <3>1, <3>2
  <2>4. ASSUME NEW v \in Workers, NEW x \in Workers, v # x
        PROVE  ingest'[v].created \cap ingest'[x].created = {}
    BY <2>1, <2>4 DEF CreatedByOne
  <2> QED BY <2>2, <2>3, <2>4 DEF CreatedByOne
<1>13. CASE Crash(w)
  BY <1>1, <1>13, Effects
<1> QED
  BY <1>4, <1>5, <1>6, <1>7, <1>8, <1>9, <1>10, <1>11, <1>12, <1>13 DEF Step

\* A row stays linked, or in the hands of the worker that is about to link it.
LEMMA LinkedKept ==
    ASSUME LinkedUnlessCut, NEW w \in Workers,
           \A v \in Workers \ {w} : ingest'[v] = ingest[v],
           cut' = cut,
           \A l \in Leaks : /\ finding'[l].key = finding[l].key
                            /\ finding[l].alert => finding'[l].alert,
           ingest[w].pc \in Linking /\ ingest[w].leak \in Leaks =>
               \/ ingest'[w].pc \in Linking /\ ingest'[w].leak = ingest[w].leak
               \/ finding'[ingest[w].leak].alert
    PROVE  LinkedUnlessCut'
<1> SUFFICES ASSUME ~ cut', NEW l \in Leaks, finding'[l].key # None
             PROVE  finding'[l].alert \/ InHand(l)'
  BY DEF LinkedUnlessCut
<1>1. CASE finding[l].alert
  BY <1>1
<1>2. CASE InHand(l)
  <2>1. PICK v \in Workers : ingest[v].leak = l /\ ingest[v].pc \in Linking
    BY <1>2 DEF InHand, Linking
  <2>2. CASE v = w
    BY <2>1, <2>2 DEF InHand, Linking
  <2>3. CASE v # w
    BY <2>1, <2>3 DEF InHand, Linking
  <2> QED BY <2>2, <2>3
<1> QED BY <1>1, <1>2 DEF LinkedUnlessCut

\* Every step of an ingestion links what it created, or records that it was cut short.
LEMMA LinkedStep ==
    ASSUME TypeOK, CreatedByOne, LinkedUnlessCut, NEW w \in Workers, Step(w)
    PROVE  LinkedUnlessCut'
<1> DEFINE s == ingest[w]
<1>s. /\ Leaks \cap Legacies = {} /\ Leaks \subseteq Rows
      /\ cut \in BOOLEAN
  BY Shapes DEF TypeOK
<1>1. ASSUME s.pc \notin Linking, NEW pc, NEW todo, NEW leak, NEW row, NEW created,
             Moves(w, pc, todo, leak, row, created), UNCHANGED <<finding, cut>>
      PROVE  LinkedUnlessCut'
  BY <1>1, LinkedKept DEF Moves
<1>2. ASSUME NEW todo, NEW leak, Moves(w, "idle", todo, leak, None, {}),
             cut' = (cut \/ s.created # {}), UNCHANGED finding
      PROVE  LinkedUnlessCut'
  <2>1. CASE s.created # {}
    BY <1>2, <2>1 DEF LinkedUnlessCut
  <2>2. CASE s.created = {}
    <3>1. s.pc \notin Linking
      BY <2>2 DEF CreatedByOne
    <3>2. cut' = cut
      BY <1>s, <1>2, <2>2
    <3> QED BY <1>1, <1>2, <3>1, <3>2
  <2> QED BY <2>1, <2>2
<1>3. ASSUME NEW pc \in {"open_alert", "link"},
             Moves(w, pc, s.todo, s.leak, None, s.created), UNCHANGED <<finding, cut>>
      PROVE  LinkedUnlessCut'
  <2>1. /\ \A v \in Workers \ {w} : ingest'[v] = ingest[v]
        /\ ingest'[w].pc \in Linking /\ ingest'[w].leak = s.leak
    BY <1>3 DEF Moves, Linking
  <2> QED BY <1>3, <2>1, LinkedKept
<1>4. CASE Start(w)
  <2>1. s.pc \notin Linking /\ UNCHANGED <<finding, cut>>
    BY <1>4, Effects DEF Linking
  <2>2. PICK batch \in SUBSET Leaks : Moves(w, "next", batch, None, None, {})
    BY <1>4, Effects
  <2> QED BY <1>1, <2>1, <2>2
<1>5. CASE Lookup(w)
  <2>1. s.pc \notin Linking /\ UNCHANGED <<finding, cut>>
    BY <1>5, Effects DEF Linking
  <2>2. PICK l \in Leaks : \/ Moves(w, "next", s.todo \ {l}, None, None, s.created)
                           \/ Moves(w, "legacy", s.todo \ {l}, l, None, s.created)
    BY <1>5, Effects
  <2> QED BY <1>1, <2>1, <2>2
<1>6. CASE LookupLegacy(w)
  <2>1. s.pc \notin Linking /\ UNCHANGED <<finding, cut>>
    BY <1>6, Effects DEF Linking
  <2>2. \/ Moves(w, "create", s.todo, s.leak, None, s.created)
        \/ \E g \in LegacyOf(s.leak) : Moves(w, "reconcile", s.todo, s.leak, g, s.created)
    BY <1>6, Effects
  <2> QED BY <1>1, <2>1, <2>2
<1>7. CASE Reconcile(w)
  <2>1. CASE /\ Moves(w, "idle", {}, None, None, {}) /\ UNCHANGED finding
             /\ cut' = (cut \/ s.created # {})
    BY <1>2, <2>1
  <2>2. CASE /\ s.pc = "reconcile" /\ s.row \in Legacies /\ UNCHANGED cut
             /\ \A q \in Rows \ {s.row} : finding'[q] = finding[q]
             /\ Moves(w, "next", s.todo, None, None, s.created)
    <3>1. /\ \A l \in Leaks : finding'[l] = finding[l]
          /\ s.pc \notin Linking
      BY <1>s, <2>2 DEF Linking
    <3> QED BY <2>2, <3>1, LinkedKept DEF Moves
  <2> QED BY <1>7, <2>1, <2>2, Effects
<1>8. CASE Create(w)
  <2>0. s.pc = "create" /\ UNCHANGED cut
    BY <1>8, Effects
  <2>1. CASE UNCHANGED finding /\ Moves(w, "next", s.todo, None, None, s.created)
    BY <1>1, <2>0, <2>1 DEF Linking
  <2>2. CASE /\ s.leak \in Leaks
             /\ \A q \in Rows \ {s.leak} : finding'[q] = finding[q]
             /\ Moves(w, "alert", s.todo, s.leak, None, s.created \cup {s.leak})
    <3>1. /\ \A v \in Workers \ {w} : ingest'[v] = ingest[v]
          /\ ingest'[w].pc = "alert" /\ ingest'[w].leak = s.leak
      BY <2>2 DEF Moves
    <3>2. ASSUME NEW l \in Leaks, l = s.leak PROVE InHand(l)'
      BY <3>1, <3>2 DEF InHand
    <3>3. ASSUME ~ cut', NEW l \in Leaks, l # s.leak, finding'[l].key # None
          PROVE  finding'[l].alert \/ InHand(l)'
      <4>1. finding[l].alert \/ InHand(l)
        BY <1>s, <2>0, <2>2, <3>3 DEF LinkedUnlessCut
      <4>2. InHand(l) => InHand(l)'
        BY <2>0, <3>1 DEF InHand
      <4> QED BY <1>s, <2>2, <3>3, <4>1, <4>2
    <3>4. ASSUME ~ cut', NEW l \in Leaks, finding'[l].key # None
          PROVE  finding'[l].alert \/ InHand(l)'
      BY <3>2, <3>3, <3>4
    <3> QED BY <3>4 DEF LinkedUnlessCut
  <2> QED BY <1>8, <2>1, <2>2, Effects
<1>9. CASE UpdateAlert(w)
  <2>1. UNCHANGED <<finding, cut>>
    BY <1>9, Effects
  <2>2. PICK pc \in {"open_alert", "link"} : Moves(w, pc, s.todo, s.leak, None, s.created)
    BY <1>9, Effects
  <2> QED BY <1>3, <2>1, <2>2
<1>10. CASE OpenAlert(w)
  <2>1. CASE /\ Moves(w, "idle", {}, None, None, {}) /\ UNCHANGED finding
             /\ cut' = (cut \/ s.created # {})
    BY <1>2, <2>1
  <2>2. CASE Moves(w, "link", s.todo, s.leak, None, s.created) /\ UNCHANGED <<finding, cut>>
    BY <1>3, <2>2
  <2> QED BY <1>10, <2>1, <2>2, Effects
<1>11. CASE Link(w)
  <2>1. /\ s.leak \in Leaks /\ UNCHANGED cut
        /\ finding'[s.leak].key = finding[s.leak].key /\ finding'[s.leak].alert = TRUE
        /\ \A q \in Rows \ {s.leak} : finding'[q] = finding[q]
        /\ Moves(w, "next", s.todo, None, None, s.created)
    BY <1>11, Effects
  <2>2. \A l \in Leaks : /\ finding'[l].key = finding[l].key
                         /\ finding[l].alert => finding'[l].alert
    BY <1>s, <2>1
  <2>3. \A v \in Workers \ {w} : ingest'[v] = ingest[v]
    BY <2>1 DEF Moves
  <2> QED BY <2>1, <2>2, <2>3, LinkedKept
<1>12. CASE Finish(w)
  <2>1. /\ s.pc \notin Linking /\ UNCHANGED <<finding, cut>>
        /\ Moves(w, "idle", {}, None, None, {})
    BY <1>12, Effects DEF Linking
  <2> QED BY <1>1, <2>1
<1>13. CASE Crash(w)
  BY <1>2, <1>13, Effects
<1> QED
  BY <1>4, <1>5, <1>6, <1>7, <1>8, <1>9, <1>10, <1>11, <1>12, <1>13 DEF Step

\* The work of the ingestions is in order at first, and every step keeps it so.
LEMMA WorkAtFirst == Init => WorkInv
<1> SUFFICES ASSUME Init PROVE WorkInv
  OBVIOUS
<1>1. PICK s \in [Legacies -> {"open", "treated"}], linked \in BOOLEAN :
         finding = [r \in Rows |-> IF r \in Legacies THEN LegacyRow(r, s[r], linked) ELSE NoRow]
  BY DEF Init
<1>2. \A l \in Leaks : finding[l].key = None /\ mails[l] = 0
  BY <1>1, LeakAssumption DEF Init, NoRow, Rows
<1>3. \A w \in Workers : ingest[w].pc = "idle" /\ ingest[w].created = {}
  BY DEF Init, Idle
<1>4. CreatedByOne
  BY <1>3 DEF CreatedByOne, Linking
<1> QED BY <1>2, <1>4 DEF WorkInv, MailedAfter, LinkedUnlessCut

\* Every step keeps the work of the ingestions in order.
LEMMA WorkKeptByNext ==
    ASSUME TypeOK, WorkInv, [Next]_vars
    PROVE  WorkInv'
<1>s. /\ Leaks \subseteq Rows
      /\ \A v \in Workers : ingest[v].created \subseteq Leaks
  BY Shapes
<1>1. ASSUME UNCHANGED <<ingest, mails, cut>>,
             \A r \in Rows : /\ finding'[r].key = finding[r].key
                             /\ finding'[r].alert = finding[r].alert
      PROVE  WorkInv'
  <2>1. CreatedByOne'
    <3>1. \A w \in Workers : \A l \in ingest[w].created : finding'[l].key = finding[l].key
      BY <1>s, <1>1
    <3> QED BY <1>1, <3>1 DEF WorkInv, CreatedByOne, At
  <2>2. MailedAfter' /\ LinkedUnlessCut'
    BY <1>s, <1>1 DEF WorkInv, MailedAfter, LinkedUnlessCut, InHand
  <2> QED BY <2>1, <2>2 DEF WorkInv
<1>2. ASSUME NEW w \in Workers, Step(w) PROVE WorkInv'
  BY <1>2, CreatedStep, LinkedStep DEF WorkInv
<1>3. ASSUME NEW r \in Rows, NEW c \in Closed, SetFindingStatus(r, c) PROVE WorkInv'
  <2>1. /\ UNCHANGED <<ingest, mails, cut>>
        /\ finding'[r].key = finding[r].key /\ finding'[r].alert = finding[r].alert
        /\ \A q \in Rows \ {r} : finding'[q] = finding[q]
    BY <1>3, ClientEffects
  <2> QED BY <1>1, <2>1
<1>4. CASE MarkSynthesisStale \/ BeginRefresh \/ SaveExposureSynthesis \/ RefreshFails
  BY <1>1, <1>4, ClientEffects
<1>5. CASE UNCHANGED vars
  BY <1>1, <1>5 DEF vars
<1> QED BY <1>2, <1>3, <1>4, <1>5 DEF Next

\* The inductive invariant of the tables and of the ingestions.
IInv == TypeOK /\ RowsInv /\ WorkInv

LEMMA Inductive == Spec => []IInv
<1>1. Init => RowsInv /\ WorkInv
  BY RowsAtFirst, WorkAtFirst
<1>2. RowsInv /\ WorkInv /\ TypeOK /\ [Next]_vars => (RowsInv /\ WorkInv)'
  BY RowsKeptByNext, WorkKeptByNext
<1> QED BY <1>1, <1>2, TypeCorrect, PTL DEF Spec, IInv

\* services.py 329-416 and 436-475: whatever scans and webhooks interleave, and
\* wherever they are cut short, a leak has one row, a leak known by its legacy row
\* gets no other, every row a finished batch created has its alert, and a signal is
\* mailed once.
THEOREM RowsAreKept == Spec => []RowsKept
<1>1. IInv => RowsKept
  <2> SUFFICES ASSUME IInv PROVE RowsKept
    OBVIOUS
  <2>1. ASSUME NEW k \in Leaks PROVE Cardinality(RowsWith(k)) <= 1
    <3>1. CASE RowsWith(k) = {}
      BY <3>1, FS_EmptySet
    <3>2. CASE RowsWith(k) # {}
      <4>1. PICK r \in Rows : r \in RowsWith(k)
        BY <3>2 DEF RowsWith
      <4>2. RowsWith(k) = {r}
        BY <4>1 DEF IInv, RowsInv, OneRowALeak, RowsWith
      <4> QED BY <4>2, FS_Singleton
    <3> QED BY <3>1, <3>2
  <2>2. NoSecondRow
    BY <2>1 DEF NoSecondRow, IInv, RowsInv, NoRowBesides
  <2> QED BY <2>2 DEF RowsKept, IInv, WorkInv, MailedAfter, MailedOnce
<1> QED BY <1>1, Inductive, PTL

-----------------------------------------------------------------------------
(* The cached synthesis.                                                   *)

\* The open findings change only with a row's existence or status.
LEMMA SameOpenRows ==
    ASSUME \A r \in Rows : /\ finding'[r].status = finding[r].status
                           /\ finding'[r].key = None <=> finding[r].key = None
    PROVE  OpenRows' = OpenRows
BY DEF OpenRows

\* A step that leaves the synthesis and the open findings alone, and does not forget
\* that something was created, leaves the synthesis as fresh as it was.
LEMMA FreshKept ==
    ASSUME FreshUnlessOvertaken, UNCHANGED synthesis, OpenRows' = OpenRows,
           cut => cut', Marking => Marking' \/ cut'
    PROVE  FreshUnlessOvertaken'
BY DEF FreshUnlessOvertaken

\* Every step of an ingestion keeps the synthesis fresh, or marks it, or is about to.
LEMMA FreshStep ==
    ASSUME IInv, FreshUnlessOvertaken, NEW w \in Workers, Step(w)
    PROVE  FreshUnlessOvertaken'
<1> DEFINE s == ingest[w]
<1>s. /\ None \notin Leaks /\ None \notin Legacies /\ TypeOK
      /\ Leaks \subseteq Rows /\ Legacies \subseteq Rows
      /\ \A g \in Legacies : Matches[g] \subseteq Leaks
      /\ \A g \in Legacies : finding[g].key # None
  BY Shapes DEF IInv, RowsInv, OneRowALeak
<1>1. ASSUME UNCHANGED <<synthesis, marking, cut>>, OpenRows' = OpenRows,
             NEW pc, NEW todo, NEW leak, NEW row, Moves(w, pc, todo, leak, row, s.created)
      PROVE  FreshUnlessOvertaken'
  <2>1. Marking => Marking'
    <3>1. \A v \in Workers : ingest'[v].created = ingest[v].created
      BY <1>1 DEF Moves
    <3> QED BY <1>1, <3>1 DEF Marking
  <2> QED BY <1>1, <2>1, FreshKept
<1>2. ASSUME UNCHANGED <<synthesis, marking, finding>>, cut' = (cut \/ s.created # {}),
             Moves(w, "idle", {}, None, None, {})
      PROVE  FreshUnlessOvertaken'
  <2>1. Marking => Marking' \/ cut'
    <3>1. \A v \in Workers : \/ ingest'[v].created = ingest[v].created
                             \/ v = w
      BY <1>2 DEF Moves
    <3> QED BY <1>2, <3>1 DEF Marking
  <2>2. OpenRows' = OpenRows
    BY <1>2 DEF OpenRows
  <2>3. UNCHANGED synthesis /\ (cut => cut')
    BY <1>2
  <2> QED BY <2>1, <2>2, <2>3, FreshKept
<1>3. CASE Start(w)
  <2>1. s.created = {}
    BY <1>3, Effects, <1>s DEF IInv, WorkInv, CreatedByOne, At
  <2>2. PICK batch \in SUBSET Leaks : Moves(w, "next", batch, None, None, s.created)
    BY <1>3, <1>s, <2>1, Effects
  <2>3. UNCHANGED <<synthesis, marking, cut, finding>>
    BY <1>3, <1>s, Effects
  <2>4. OpenRows' = OpenRows
    BY <2>3 DEF OpenRows
  <2> QED BY <1>1, <2>2, <2>3, <2>4
<1>4. CASE Lookup(w) \/ LookupLegacy(w) \/ UpdateAlert(w)
  <2>1. \E pc, todo, leak, row : Moves(w, pc, todo, leak, row, s.created)
    BY <1>4, <1>s, Effects
  <2>2. UNCHANGED <<synthesis, marking, cut, finding>>
    BY <1>4, <1>s, Effects
  <2>3. OpenRows' = OpenRows
    BY <2>2 DEF OpenRows
  <2> QED BY <1>1, <2>1, <2>2, <2>3
<1>5. CASE Reconcile(w)
  <2>1. CASE /\ s.leak \in Leaks /\ s.row \in Legacies
             /\ finding'[s.row].key = s.leak
             /\ finding'[s.row].status = finding[s.row].status
             /\ \A q \in Rows \ {s.row} : finding'[q] = finding[q]
             /\ Moves(w, "next", s.todo, None, None, s.created)
             /\ UNCHANGED <<synthesis, marking, cut>>
    <3>1. \A r \in Rows : /\ finding'[r].status = finding[r].status
                          /\ finding'[r].key = None <=> finding[r].key = None
      BY <1>s, <2>1
    <3> QED BY <1>1, <2>1, <3>1, SameOpenRows
  <2> QED BY <1>2, <1>5, <1>s, <2>1, Effects
<1>6. CASE Create(w)
  <2>0. UNCHANGED <<synthesis, marking, cut>>
    BY <1>6, <1>s, Effects
  <2>1. CASE UNCHANGED finding /\ Moves(w, "next", s.todo, None, None, s.created)
    <3>1. OpenRows' = OpenRows
      BY <2>1 DEF OpenRows
    <3> QED BY <1>1, <2>0, <2>1, <3>1
  <2>2. CASE Moves(w, "alert", s.todo, s.leak, None, s.created \cup {s.leak})
    <3>1. s.leak \in ingest'[w].created
      BY <2>2 DEF Moves
    <3>2. Marking'
      BY <3>1 DEF Marking
    <3> QED BY <3>2 DEF FreshUnlessOvertaken
  <2> QED BY <1>6, <1>s, <2>1, <2>2, Effects
<1>7. CASE OpenAlert(w)
  <2>1. CASE /\ Moves(w, "link", s.todo, s.leak, None, s.created)
             /\ UNCHANGED <<finding, synthesis, marking, cut>>
    <3>1. OpenRows' = OpenRows
      BY <2>1 DEF OpenRows
    <3> QED BY <1>1, <2>1, <3>1
  <2> QED BY <1>2, <1>7, <1>s, <2>1, Effects
<1>8. CASE Link(w)
  <2>1. /\ s.leak \in Leaks
        /\ finding'[s.leak].key = finding[s.leak].key
        /\ finding'[s.leak].status = finding[s.leak].status
        /\ \A q \in Rows \ {s.leak} : finding'[q] = finding[q]
        /\ Moves(w, "next", s.todo, None, None, s.created)
        /\ UNCHANGED <<synthesis, marking, cut>>
    BY <1>8, <1>s, Effects
  <2>2. \A r \in Rows : /\ finding'[r].status = finding[r].status
                        /\ finding'[r].key = None <=> finding[r].key = None
    BY <1>s, <2>1
  <2> QED BY <1>1, <2>1, <2>2, SameOpenRows
<1>9. CASE Finish(w)
  <2>1. /\ synthesis' = IF s.created = {} THEN synthesis
                        ELSE [synthesis EXCEPT !.stale = synthesis.exists]
        /\ UNCHANGED <<finding, marking, cut>>
        /\ Moves(w, "idle", {}, None, None, {})
    BY <1>9, <1>s, Effects
  <2>2. CASE s.created = {}
    <3>1. OpenRows' = OpenRows
      BY <2>1 DEF OpenRows
    <3> QED BY <1>1, <2>1, <2>2, <3>1
  <2>3. CASE s.created # {}
    <3>1. synthesis \in SynthesisRows
      BY <1>s DEF TypeOK, SynthesisRows
    <3>2. synthesis'.exists => synthesis'.stale
      BY <2>1, <2>3, <3>1 DEF SynthesisRows
    <3> QED BY <3>2 DEF FreshUnlessOvertaken
  <2> QED BY <2>2, <2>3
<1>10. CASE Crash(w)
  BY <1>2, <1>10, <1>s, Effects
<1> QED BY <1>3, <1>4, <1>5, <1>6, <1>7, <1>8, <1>9, <1>10 DEF Step

\* mark_synthesis_stale (services.py): a synthesis shown as up to date describes the
\* findings that are open, unless a change is still being marked, a batch was cut
\* short, or the findings changed while the synthesis was being written.
THEOREM SynthesisIsFresh == Spec => []FreshUnlessOvertaken
<1>1. Init => FreshUnlessOvertaken
  BY DEF Init, NoSynthesis, FreshUnlessOvertaken
<1>2. IInv /\ FreshUnlessOvertaken /\ [Next]_vars => FreshUnlessOvertaken'
  <2> SUFFICES ASSUME IInv, FreshUnlessOvertaken, [Next]_vars PROVE FreshUnlessOvertaken'
    OBVIOUS
  <2>t. TypeOK /\ synthesis \in SynthesisRows
    BY DEF IInv, TypeOK, SynthesisRows
  <2>1. ASSUME NEW w \in Workers, Step(w) PROVE FreshUnlessOvertaken'
    BY <2>1, FreshStep
  <2>2. ASSUME NEW r \in Rows, NEW c \in Closed, SetFindingStatus(r, c)
        PROVE  FreshUnlessOvertaken'
    <3>1. marking'
      BY <2>2 DEF SetFindingStatus
    <3> QED BY <3>1 DEF FreshUnlessOvertaken, Marking
  <2>3. CASE MarkSynthesisStale
    <3>1. synthesis'.exists => synthesis'.stale
      BY <2>t, <2>3 DEF MarkSynthesisStale, MarkStale, SynthesisRows
    <3> QED BY <3>1 DEF FreshUnlessOvertaken
  <2>4. CASE SaveExposureSynthesis
    <3>1. /\ synthesis'.basis = refresh
          /\ synthesis'.overtaken = (refresh # OpenRows)
          /\ OpenRows' = OpenRows
      BY <2>4 DEF SaveExposureSynthesis, OpenRows
    <3> QED BY <3>1 DEF FreshUnlessOvertaken
  <2>5. CASE BeginRefresh \/ RefreshFails \/ UNCHANGED vars
    <3>1. UNCHANGED <<synthesis, marking, ingest, cut, finding>>
      BY <2>5 DEF BeginRefresh, RefreshFails, vars
    <3>2. OpenRows' = OpenRows /\ Marking' = Marking
      BY <3>1 DEF OpenRows, Marking
    <3> QED BY <3>1, <3>2, FreshKept
  <2> QED BY <2>1, <2>2, <2>3, <2>4, <2>5 DEF Next
<1> QED BY <1>1, <1>2, Inductive, PTL DEF Spec

-----------------------------------------------------------------------------
(* A closed finding stays closed.                                          *)

\* A leak keeps showing as closed when its row keeps its key and its status.
LEMMA StillCloses ==
    ASSUME NEW l \in Leaks, ShowsClosed(l),
           \A r \in Rows : finding[r].key = l /\ finding[r].status \in Closed =>
                              finding'[r].key = l /\ finding'[r].status \in Closed
    PROVE  ShowsClosed(l)'
BY DEF ShowsClosed, RowsWith

\* services.py 334, "on ne touche jamais au statut": whatever is reported again, in
\* whatever order, a leak that shows as closed goes on doing so, unless a worker that
\* had read its row for another leak saves it.
THEOREM ClosedIsFinal == Spec => ClosedStaysClosed
<1> DEFINE A == \A l \in Leaks :
                  ShowsClosed(l) => ShowsClosed(l)' \/ \E w \in Workers : TakesRowOf(w, l)
<1>1. IInv /\ [Next]_vars => [A]_vars
  <2> SUFFICES ASSUME IInv, [Next]_vars, NEW l \in Leaks, ShowsClosed(l),
                      \A w \in Workers : ~ TakesRowOf(w, l)
               PROVE  ShowsClosed(l)'
    OBVIOUS
  <2>s. /\ TypeOK /\ Leaks \subseteq Rows /\ Legacies \subseteq Rows
        /\ Leaks \cap Legacies = {} /\ None \notin Leaks
        /\ \A g \in Legacies : Matches[g] \subseteq Leaks
    BY Shapes DEF IInv
  <2>1. ASSUME UNCHANGED finding PROVE ShowsClosed(l)'
    BY <2>1, StillCloses
  <2>2. ASSUME NEW w \in Workers, Reconcile(w) PROVE ShowsClosed(l)'
    <3> DEFINE s == ingest[w]
    <3>1. CASE UNCHANGED finding
      BY <2>1, <3>1
    <3>2. CASE /\ s.pc = "reconcile" /\ s.leak \in Leaks /\ s.row \in Legacies
               /\ finding'[s.row].key = s.leak
               /\ finding'[s.row].status = finding[s.row].status
               /\ \A q \in Rows \ {s.row} : finding'[q] = finding[q]
      <4>1. At(w, "reconcile") /\ ~ At(w, "reconcile")'
        BY <2>s, <2>2, <3>2, Effects DEF At, Moves
      <4>2. finding[s.row].key = l => s.leak = l
        BY <4>1 DEF TakesRowOf
      <4> QED BY <3>2, <4>2, StillCloses
    <3> QED BY <2>s, <2>2, <3>1, <3>2, Effects
  <2>3. ASSUME NEW w \in Workers, Create(w) PROVE ShowsClosed(l)'
    <3> DEFINE s == ingest[w]
    <3>1. CASE UNCHANGED finding
      BY <2>1, <3>1
    <3>2. CASE /\ s.leak \in Leaks
               /\ \A r \in Rows : finding[r].key # s.leak
               /\ \A q \in Rows \ {s.leak} : finding'[q] = finding[q]
      <4>1. finding[s.leak].key # l
        BY <2>s, <3>2 DEF IInv, RowsInv, OneRowALeak
      <4> QED BY <3>2, <4>1, StillCloses
    <3> QED BY <2>s, <2>3, <3>1, <3>2, Effects
  <2>4. ASSUME NEW w \in Workers, Link(w) PROVE ShowsClosed(l)'
    <3>1. /\ finding'[ingest[w].leak].key = finding[ingest[w].leak].key
          /\ finding'[ingest[w].leak].status = finding[ingest[w].leak].status
          /\ \A q \in Rows \ {ingest[w].leak} : finding'[q] = finding[q]
      BY <2>s, <2>4, Effects
    <3> QED BY <3>1, StillCloses
  <2>5. ASSUME NEW w \in Workers, Start(w) \/ Lookup(w) \/ LookupLegacy(w) \/ UpdateAlert(w)
                                  \/ OpenAlert(w) \/ Finish(w) \/ Crash(w)
        PROVE  ShowsClosed(l)'
    BY <2>s, <2>1, <2>5, Effects
  <2>6. ASSUME NEW r \in Rows, NEW c \in Closed, SetFindingStatus(r, c) PROVE ShowsClosed(l)'
    <3>1. /\ finding'[r].key = finding[r].key /\ finding'[r].status = c
          /\ \A q \in Rows \ {r} : finding'[q] = finding[q]
      BY <2>s, <2>6, ClientEffects
    <3> QED BY <3>1, StillCloses
  <2>7. CASE MarkSynthesisStale \/ BeginRefresh \/ SaveExposureSynthesis \/ RefreshFails
    BY <2>s, <2>1, <2>7, ClientEffects
  <2>8. CASE UNCHANGED vars
    BY <2>1, <2>8 DEF vars
  <2> QED BY <2>2, <2>3, <2>4, <2>5, <2>6, <2>7, <2>8 DEF Next, Step
<1> QED BY <1>1, Inductive, PTL DEF Spec, ClosedStaysClosed

=============================================================================
