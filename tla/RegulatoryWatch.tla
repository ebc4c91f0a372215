---------------------------- MODULE RegulatoryWatch ----------------------------
(***************************************************************************)
(* The regulatory watch (regulatory_watch/services.py, views.py, tasks.py):*)
(* a source that is polled every week and by hand, the suggestions it      *)
(* gives, and what the operator decides of them.                           *)
(*                                                                         *)
(* A source is a page, of which the fingerprint is kept, or a feed of      *)
(* entries.  No lock is held: every request works on the copy it loaded.   *)
(* Only active sources are polled by the weekly task, all by hand.         *)
(***************************************************************************)
EXTENDS Naturals, FiniteSets

CONSTANTS
    Pubs,           \* what a source publishes: versions of the page, or entries
    None,           \* no fingerprint yet
    Pollers,        \* the weekly task and the operator's polls
    Handlers,       \* requests of the console
    Tenants,        \* active clients
    MaxFailures,    \* bound: failures in a row
    MaxMeasures     \* bound: measures made of one publication

VARIABLES
    format,     \* "page" or "feed"
    online,     \* what the source shows now
    source,     \* the WatchSource row: print, failures, active
    status,     \* status[p] of the WatchUpdate of p, "none" when there is none
    measures,   \* measures[p]: how many measures were made of it
    bell,       \* bell[p]: the clients whose administrators were told
    logged,     \* publications whose integration is in the console's journal
    poll,       \* poll[w]: how far a poll is, with its copy of the source
    req,        \* req[h]: how far a request is, with its copy
    first,      \* history: the first fingerprint
    kept,       \* history: the fingerprints that were saved
    streak,     \* history: polls that have failed since one succeeded
    excuse      \* history: "source" or "update" saved from a stale copy, "died"

vars == <<format, online, source, status, measures, bell, logged, poll, req, first, kept, streak, excuse>>

Idle == [pc |-> "idle"]
Public == {"kept", "integrated"}        \* STATUTS_PUBLICS
Decisions == {"new", "kept", "dismissed"}

Init ==
    /\ format \in {"page", "feed"}
    /\ online \in IF format = "page" THEN {{p} : p \in Pubs} ELSE {{}}
    /\ source = [print |-> None, failures |-> 0, active |-> TRUE]
    /\ status = [p \in Pubs |-> "none"]
    /\ measures = [p \in Pubs |-> 0]
    /\ bell = [p \in Pubs |-> {}]
    /\ logged = {}
    /\ poll = [w \in Pollers |-> Idle]
    /\ req = [h \in Handlers |-> Idle]
    /\ first = None /\ kept = {} /\ streak = 0 /\ excuse = {}

Queue == <<status, measures, bell, logged, req>>
Collection == <<source, poll, first, kept, streak>>
World == <<format, online>>

\* The page changes, perhaps to what it was; the feed grows.
Publish(p) ==
    /\ p \notin online
    /\ online' = IF format = "page" THEN {p} ELSE online \cup {p}
    /\ UNCHANGED <<format, Collection, Queue, excuse>>

-----------------------------------------------------------------------------
(* Collection: poll_source. *)

\* The source is loaded: by list_sources(include_inactive=False) or get_source.
BeginPoll(w, byHand) ==
    /\ poll[w] = Idle
    /\ byHand \/ source.active
    /\ poll' = [poll EXCEPT ![w] = [pc |-> "fetch", copy |-> source]]
    /\ UNCHANGED <<World, Queue, source, first, kept, streak, excuse>>

\* A copy that is older than the row, when it is saved.
Stale(copy) == copy.print # source.print \/ copy.failures # source.failures

Saved(copy) == excuse' = IF Stale(copy) THEN excuse \cup {"source"} ELSE excuse

\* _record_failure: the answer did not come, or cannot be read.
PollFails(w) ==
    /\ poll[w].pc = "fetch"
    /\ poll[w].copy.failures < MaxFailures
    /\ source' = [source EXCEPT !.failures = poll[w].copy.failures + 1]
    /\ streak' = IF streak < MaxFailures THEN streak + 1 ELSE streak
    /\ Saved(poll[w].copy)
    /\ poll' = [poll EXCEPT ![w] = Idle]
    /\ UNCHANGED <<World, Queue, first, kept>>

\* The answer of the source, before anything is written.
Fetch(w) ==
    /\ poll[w].pc = "fetch"
    /\ poll' = [poll EXCEPT ![w] = [pc |-> IF format = "page" THEN "page" ELSE "create",
                                    copy |-> poll[w].copy, todo |-> online]]
    /\ UNCHANGED <<World, Queue, source, first, kept, streak, excuse>>

\* A page: its fingerprint is saved first, and the first one only noted.
ReadPage(w) ==
    /\ poll[w].pc = "page"
    /\ LET copy == poll[w].copy
           p == CHOOSE x \in Pubs : x \in poll[w].todo IN
       /\ source' = [source EXCEPT !.failures = 0, !.print = IF copy.print = p THEN @ ELSE p]
       /\ kept' = IF copy.print = p THEN kept ELSE kept \cup {p}
       /\ first' = IF first = None THEN p ELSE first
       /\ poll' = [poll EXCEPT ![w] = IF copy.print \in {p, None} THEN Idle ELSE [@ EXCEPT !.pc = "create"]]
       /\ Saved(copy)
    /\ streak' = 0
    /\ UNCHANGED <<World, Queue>>

\* _create_update: a known publication is left as the operator has put it.
Create(w, p) ==
    /\ poll[w].pc = "create"
    /\ p \in poll[w].todo
    /\ status' = IF status[p] = "none" THEN [status EXCEPT ![p] = "new"] ELSE status
    /\ poll' = [poll EXCEPT ![w] = IF format = "page" THEN Idle ELSE [@ EXCEPT !.todo = @ \ {p}]]
    /\ UNCHANGED <<World, source, measures, bell, logged, req, first, kept, streak, excuse>>

\* _record_success, once every entry of the feed has been seen.
EndFeed(w) ==
    /\ poll[w].pc = "create" /\ poll[w].todo = {} /\ format = "feed"
    /\ source' = [source EXCEPT !.failures = 0]
    /\ streak' = 0
    /\ Saved(poll[w].copy)
    /\ poll' = [poll EXCEPT ![w] = Idle]
    /\ UNCHANGED <<World, Queue, first, kept>>

PollDies(w) ==
    /\ poll[w] # Idle
    /\ poll' = [poll EXCEPT ![w] = Idle]
    /\ excuse' = excuse \cup {"died"}
    /\ UNCHANGED <<World, Queue, source, first, kept, streak>>

-----------------------------------------------------------------------------
(* Decisions of the operator. *)

\* WatchSourceDetailView.patch loads the source...
BeginEdit(h) ==
    /\ req[h] = Idle
    /\ req' = [req EXCEPT ![h] = [pc |-> "edit", copy |-> source]]
    /\ UNCHANGED <<World, Collection, status, measures, bell, logged, excuse>>

\* ... and serializer.save() writes every column of it, the collection's included.
Edit(h) ==
    /\ req[h].pc = "edit"
    /\ source' = [req[h].copy EXCEPT !.active = ~@]
    /\ Saved(req[h].copy)
    /\ req' = [req EXCEPT ![h] = Idle]
    /\ UNCHANGED <<World, poll, first, kept, streak, status, measures, bell, logged>>

\* WatchUpdateReviewView and WatchUpdateIntegrateView load the suggestion.
BeginDecision(h, p) ==
    /\ req[h] = Idle
    /\ status[p] # "none"
    /\ req' = [req EXCEPT ![h] = [pc |-> "decide", p |-> p, was |-> status[p]]]
    /\ UNCHANGED <<World, Collection, status, measures, bell, logged, excuse>>

Overtaken(h) == excuse' = IF req[h].was # status[req[h].p] THEN excuse \cup {"update"} ELSE excuse

\* The decision is saved, and who reads the watch is told of what enters it.
Decide(h, decision) ==
    /\ status' = [status EXCEPT ![req[h].p] = decision]
    /\ req' = [req EXCEPT ![h] = IF decision \in Public /\ req[h].was \notin Public
                                 THEN [pc |-> "tell", p |-> @.p, todo |-> Tenants, log |-> FALSE] ELSE Idle]
    /\ Overtaken(h)
    /\ UNCHANGED <<World, Collection, measures, bell, logged>>

\* Mutant: "intégrée" may be left (D2).
ReviewReopening(h, decision) == req[h].pc = "decide" /\ Decide(h, decision)

\* review_update: "intégrée" is neither left nor chosen.
Review(h, decision) == req[h].pc = "decide" /\ req[h].was # "integrated" /\ Decide(h, decision)

\* add_measure, of another code than those of the referential.
AddMeasure(p) ==
    /\ measures[p] < MaxMeasures
    /\ measures' = [measures EXCEPT ![p] = @ + 1]

\* integrate_as_measure: the measure and the status in one transaction.
Integrate(h) ==
    /\ req[h].pc = "decide"
    /\ req[h].was # "integrated"
    /\ AddMeasure(req[h].p)
    /\ status' = [status EXCEPT ![req[h].p] = "integrated"]
    /\ req' = [req EXCEPT ![h] = [pc |-> "tell", p |-> @.p, todo |-> Tenants, log |-> TRUE]]
    /\ Overtaken(h)
    /\ UNCHANGED <<World, Collection, bell, logged>>

\* WatchError, or a page that is left.
Refuse(h) ==
    /\ req[h].pc = "decide"
    /\ req' = [req EXCEPT ![h] = Idle]
    /\ UNCHANGED <<World, Collection, status, measures, bell, logged, excuse>>

\* inbox.notify: a dedupe_key reaches the same person once.
Notify(p, t) == bell' = [bell EXCEPT ![p] = @ \cup {t}]

\* _prevenir_de_la_publication: client after client, once per publication.
Tell(h, t) ==
    /\ req[h].pc = "tell"
    /\ t \in req[h].todo
    /\ Notify(req[h].p, t)
    /\ req' = [req EXCEPT ![h].todo = @ \ {t}]
    /\ UNCHANGED <<World, Collection, status, measures, logged, excuse>>

\* record_admin_action, when all have been told.
EndDecision(h) ==
    /\ req[h].pc = "tell" /\ req[h].todo = {}
    /\ logged' = IF req[h].log THEN logged \cup {req[h].p} ELSE logged
    /\ req' = [req EXCEPT ![h] = Idle]
    /\ UNCHANGED <<World, Collection, status, measures, bell, excuse>>

RequestDies(h) ==
    /\ req[h].pc = "tell"
    /\ req' = [req EXCEPT ![h] = Idle]
    /\ excuse' = excuse \cup {"died"}
    /\ UNCHANGED <<World, Collection, status, measures, bell, logged>>

Next ==
    \/ \E p \in Pubs : Publish(p)
    \/ \E w \in Pollers :
         \/ \E byHand \in BOOLEAN : BeginPoll(w, byHand)
         \/ PollFails(w) \/ Fetch(w) \/ ReadPage(w) \/ EndFeed(w) \/ PollDies(w)
         \/ \E p \in Pubs : Create(w, p)
    \/ \E h \in Handlers :
         \/ BeginEdit(h) \/ Edit(h)
         \/ \E p \in Pubs : BeginDecision(h, p)
         \/ \E d \in Decisions : Review(h, d)
         \/ Integrate(h) \/ Refuse(h) \/ EndDecision(h) \/ RequestDies(h)
         \/ \E t \in Tenants : Tell(h, t)

Spec == Init /\ [][Next]_vars

-----------------------------------------------------------------------------
(* Every variable keeps its type. *)
TypeOK ==
    /\ source \in [print : Pubs \cup {None}, failures : 0..MaxFailures, active : BOOLEAN]
    /\ status \in [Pubs -> {"none", "integrated"} \cup Decisions]
    /\ bell \in [Pubs -> SUBSET Tenants]
    /\ logged \subseteq Pubs /\ kept \subseteq Pubs

(* Every change of a page that was noticed is in the queue, though the     *)
(* fingerprint that makes the next poll silent is saved before it: unless  *)
(* the process died in between, or two of them worked on the source.       *)
ChangesReported ==
    excuse \cap {"source", "died"} = {} =>
        \A p \in kept \ {first} :
            \/ status[p] # "none"
            \/ \E w \in Pollers : poll[w].pc = "create" /\ p \in poll[w].todo

(* The failures the console shows are those since the last success.        *)
FailuresCounted == "source" \notin excuse => source.failures = streak

(* "Intégrée" is a terminal state (D2): what gave a measure says so, and   *)
(* gave one; and the measure is in the journal.                            *)
IntegratedOnce ==
    \A p \in Pubs :
        /\ "update" \notin excuse => measures[p] = IF status[p] = "integrated" THEN 1 ELSE 0
        /\ measures[p] > 0 /\ "died" \notin excuse =>
              p \in logged \/ \E h \in Handlers : req[h].pc = "tell" /\ req[h].p = p /\ req[h].log

(* Every client is told of what it can read in the watch, whatever order   *)
(* the decisions come in, unless the one that publishes it dies.           *)
PublicIsTold ==
    "died" \notin excuse =>
        \A p \in Pubs : status[p] \in Public =>
            \A t \in Tenants \ bell[p] :
                \E h \in Handlers : req[h].pc = "tell" /\ req[h].p = p /\ t \in req[h].todo
=============================================================================
