--------------------------- MODULE AccessRequests ---------------------------
(***************************************************************************)
(* The requests by which a client asks for a referential or a feature, and *)
(* their follow-up in the console (access_requests/).  A client's          *)
(* cancellation and the console's decision each load the row, look at the  *)
(* loaded copy, and write it back later without a lock.                    *)
(***************************************************************************)
EXTENDS Naturals, FiniteSets

CONSTANTS
    Rows,        \* identities of request rows
    Subjects,    \* what can be asked for
    Automatic,   \* the subjects whose grant attributes something at once (referentials)
    Handlers     \* requests of the client and of the console served at the same time

VARIABLES
    row,      \* row[i]: the row, or NoRow
    held,     \* the subjects the client has now
    work,     \* work[h]: what a handler has loaded and still has to do
    given,    \* history: the rows whose grant has been applied
    overtaken,\* history: the rows written from a copy that was no longer true
    lost      \* history: the rows a handler left half decided

vars == <<row, held, work, given, overtaken, lost>>

Open == {"pending", "contacted", "proposal"}

Advanceable == {"contacted", "proposal", "granted", "declined"}

Terminal == {"granted", "declined", "cancelled"}

Statuses == Open \cup Terminal

NoRow == [subject |-> "none", status |-> "none"]

Free == [op |-> "free"]

Created == {i \in Rows : row[i] # NoRow}

OpenOn(j) == {i \in Created : row[i].subject = j /\ row[i].status \in Open}

Init ==
    /\ row = [i \in Rows |-> NoRow]
    /\ held = {}
    /\ work = [h \in Handlers |-> Free]
    /\ given = {}
    /\ overtaken = {}
    /\ lost = {}

-----------------------------------------------------------------------------
(* create_request: not held already, not asked already; two requests sent  *)
(* together both pass the second check, the partial unique constraint      *)
(* refuses the later one.                                                  *)
BeginCreate(h, j) ==
    /\ work[h] = Free
    /\ j \notin held
    /\ OpenOn(j) = {}
    /\ work' = [work EXCEPT ![h] = [op |-> "create", subject |-> j]]
    /\ UNCHANGED <<row, held, given, overtaken, lost>>

CreateRequest(h, i) ==
    /\ work[h].op = "create"
    /\ i \in Rows \ Created
    /\ IF OpenOn(work[h].subject) = {}
       THEN /\ row' = [row EXCEPT ![i] = [subject |-> work[h].subject, status |-> "pending"]]
       ELSE UNCHANGED row
    /\ work' = [work EXCEPT ![h] = Free]
    /\ UNCHANGED <<held, given, overtaken, lost>>

(* the view loads the row; the service looks at the copy *)
Load(h, i, to) ==
    /\ work[h] = Free
    /\ i \in Created
    /\ row[i].status \in Open
    /\ work' = [work EXCEPT ![h] = [op |-> "apply", i |-> i, saw |-> row[i].status, to |-> to]]
    /\ UNCHANGED <<row, held, given, overtaken, lost>>

(* advance_request: subject.grant comes before the row is saved, in a transaction of its own *)
Grant(h) ==
    /\ work[h].op = "apply"
    /\ LET i == work[h].i IN
       IF work[h].to = "granted" /\ row[i].subject \in Automatic
       THEN /\ held' = held \cup {row[i].subject}
            /\ given' = given \cup {i}
       ELSE UNCHANGED <<held, given>>
    /\ work' = [work EXCEPT ![h].op = "save"]
    /\ UNCHANGED <<row, overtaken, lost>>

(* access_request.save(update_fields=...): the copy's status replaces the  *)
(* row's; reopening a concluded row next to a newer open one violates the  *)
(* constraint, and the request ends in an error.  The notification of the  *)
(* person who asked, unique by its dedupe key, changes nothing here.       *)
Save(h) ==
    /\ work[h].op = "save"
    /\ LET i == work[h].i IN
       IF work[h].to \in Open /\ OpenOn(row[i].subject) \ {i} # {}
       THEN /\ work' = [work EXCEPT ![h] = Free]
            /\ UNCHANGED <<row, overtaken>>
       ELSE /\ row' = [row EXCEPT ![i].status = work[h].to]
            /\ overtaken' = overtaken \cup (IF row[i].status = work[h].saw THEN {} ELSE {i})
            /\ work' = [work EXCEPT ![h] = Free]
    /\ UNCHANGED <<held, given, lost>>

(* the process dies, or assign_referential refuses: what was written stays *)
Fail(h) ==
    /\ work[h].op \in {"apply", "save"}
    /\ lost' = lost \cup (IF work[h].op = "save" THEN {work[h].i} ELSE {})
    /\ work' = [work EXCEPT ![h] = Free]
    /\ UNCHANGED <<row, held, given, overtaken>>

(* the console revokes a referential, or an offer opens or closes a feature *)
Elsewhere(j) ==
    /\ held' = IF j \in held THEN held \ {j} ELSE held \cup {j}
    /\ UNCHANGED <<row, work, given, overtaken, lost>>

Next ==
    \/ \E h \in Handlers :
         \/ \E j \in Subjects : BeginCreate(h, j)
         \/ \E i \in Rows : \/ CreateRequest(h, i)
                            \/ \E to \in Advanceable \cup {"cancelled"} : Load(h, i, to)
         \/ Grant(h) \/ Save(h) \/ Fail(h)
    \/ \E j \in Subjects : Elsewhere(j)

Spec == Init /\ [][Next]_vars

-----------------------------------------------------------------------------
(* Every variable keeps its type, and what a handler works on exists. *)
TypeOK ==
    /\ row \in [Rows -> {NoRow} \cup [subject : Subjects, status : Statuses]]
    /\ held \subseteq Subjects
    /\ \A h \in Handlers :
         \/ work[h] = Free
         \/ work[h] \in [op : {"create"}, subject : Subjects]
         \/ /\ work[h] \in [op : {"apply", "save"}, i : Rows, saw : Open,
                            to : Advanceable \cup {"cancelled"}]
            /\ work[h].i \in Created
    /\ given \cup overtaken \cup lost \subseteq Created

(* A client has at most one open request for a subject, whatever order the *)
(* creations, decisions and cancellations are written in.                  *)
OneOpenRequest == \A j \in Subjects : Cardinality(OpenOn(j)) =< 1

(* A request that attributed something says so: its row is "granted", or  *)
(* the decision is still being written, was lost with the process that     *)
(* took it, or was written over another one.                               *)
GrantsAreTold ==
    \A i \in given \ (overtaken \cup lost) :
        \/ row[i].status = "granted"
        \/ \E h \in Handlers : work[h].op = "save" /\ work[h].i = i

(* "une demande conclue est une trace, et une trace ne se reecrit pas": a  *)
(* decision changes only when two handlers had loaded the row before it.   *)
DecisionsStick ==
    [][\A i \in Rows : row[i].status \in Terminal =>
           row'[i] = row[i] \/ i \in overtaken']_vars
=============================================================================
