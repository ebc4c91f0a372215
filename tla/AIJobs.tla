------------------------------- MODULE AIJobs -------------------------------
(***************************************************************************)
(* What the assistant produces for one client: the document library, the   *)
(* replies of the assistant and the exposure synthesis; the jobs and tasks *)
(* behind them, and the monthly quota they draw on (ai_assistant/services, *)
(* tasks and views).                                                       *)
(*                                                                         *)
(* A piece of work has a kind: a charter is written by a task into a row   *)
(* of the library; a composed document is assembled inside the request,    *)
(* without a task; a reply and a synthesis have no row of the library.     *)
(* Tasks are acknowledged late: the message of a worker that dies, or that *)
(* holds it for too long, is delivered again.  One call costs one unit of  *)
(* the quota.  Pseudonyms are in module Pseudonyms.                        *)
(***************************************************************************)
EXTENDS Naturals, FiniteSets, FiniteSetsExt

CONSTANTS
    Works,            \* pieces of work that may be asked for
    Mixes,            \* bound: what the works may be, functions from Works to Kinds
    Workers,          \* Celery workers of the ai queue
    Handlers,         \* requests on the library served at the same time
    Limit,            \* monthly_token_limit, in calls
    MaxRetries,       \* max_retries of the three tasks
    MaxRedeliveries   \* bound: messages of one work, and of no other, delivered again

VARIABLES
    kind,         \* kind[j]: what is asked for, fixed from the start
    used,         \* AIUsageQuota.tokens_used, in calls
    doc,          \* doc[j]: the row of the library
    job,          \* job[j]: status of the AIJob, "none" when there is none
    queue,        \* the messages waiting, <<work, retries behind it>>
    task,         \* task[w]: the message a worker holds and how far it is
    req,          \* req[h]: what a request on the library has read and still has to write
    replies,      \* replies[j]: the messages the assistant has written
    calls,        \* history: calls the provider has billed
    lost,         \* history: calls whose usage was not recorded
    redelivered,  \* history: redelivered[j]
    again,        \* history: again[j], the retries of a task that had written its reply
    orphan,       \* history: works without a message or whose request died
    raced,        \* history: documents whose version was read before another was created
    signed,       \* history: signed[j], the text that was validated
    early         \* history: documents validated while something was about to write them

vars == <<kind, used, doc, job, queue, task, req, replies, calls, lost, redelivered,
          again, orphan, raced, signed, early>>

Finished == {"done", "failed"}
HasDocument(j) == kind[j] \in {"charter", "composed"}
Documents == {j \in Works : doc[j].status # "none"}

NoDoc == [status |-> "none", text |-> "none", version |-> 0]
Idle == [pc |-> "idle"]
Free == [op |-> "free"]

Kinds == {"charter", "composed", "reply", "synthesis", "nothing"}

Init ==
    /\ kind \in Mixes
    /\ used = 0 /\ calls = 0 /\ lost = 0
    /\ doc = [j \in Works |-> NoDoc]
    /\ job = [j \in Works |-> "none"]
    /\ queue = {}
    /\ task = [w \in Workers |-> Idle]
    /\ req = [h \in Handlers |-> Free]
    /\ replies = [j \in Works |-> 0]
    /\ redelivered = [j \in Works |-> 0] /\ again = [j \in Works |-> 0]
    /\ orphan = {} /\ raced = {} /\ early = {}
    /\ signed = [j \in Works |-> "none"]

History == <<calls, lost, redelivered, again, orphan, raced, signed, early>>

Held(j) == {w \in Workers : task[w].pc # "idle" /\ task[w].j = j}
Asked(j) == doc[j].status # "none" \/ job[j] # "none"

-----------------------------------------------------------------------------
(* The requests. *)

\* ensure_ai_enabled, ensure_quota_available: the switch may be off at any time.
MayCall == used < Limit

Latest == Max({0} \cup {doc[j].version : j \in Documents})

\* _next_document_version: the highest version of the type and one.
NextDocumentVersion == Latest + 1

\* GeneratedDocumentListCreateView.post: the guards and the version are read.
BeginDocument(h, j) ==
    /\ req[h] = Free
    /\ HasDocument(j) /\ ~ Asked(j)
    /\ \A x \in Handlers : req[x].op = "create" => req[x].j # j
    /\ kind[j] = "charter" => MayCall
    /\ req' = [req EXCEPT ![h] = [op |-> "create", j |-> j, version |-> NextDocumentVersion]]
    /\ UNCHANGED <<kind, used, doc, job, queue, task, replies, History>>

\* The row: "generating", whoever writes it.
CreateRow(h) ==
    /\ req[h].op = "create"
    /\ LET j == req[h].j IN
       /\ doc' = [doc EXCEPT ![j] = [status |-> "generating", text |-> "none",
                                     version |-> req[h].version]]
       /\ raced' = IF req[h].version # NextDocumentVersion THEN raced \cup {j} ELSE raced
       /\ req' = [req EXCEPT ![h] = [op |-> IF kind[j] = "charter" THEN "publish" ELSE "compose",
                                     j |-> j]]
    /\ UNCHANGED <<kind, used, job, queue, task, replies, calls, lost, redelivered, again, orphan, signed, early>>

\* create_document_job ends, then the message; the broker may be down.
PublishDocument(h) ==
    /\ req[h].op = "publish"
    /\ LET j == req[h].j IN
       /\ job' = [job EXCEPT ![j] = "pending"]
       /\ \/ queue' = queue \cup {<<j, 0>>} /\ UNCHANGED orphan
          \/ UNCHANGED queue /\ orphan' = orphan \cup {j}
    /\ req' = [req EXCEPT ![h] = Free]
    /\ UNCHANGED <<kind, used, doc, task, replies, calls, lost, redelivered, again, raced, signed, early>>

\* compose_document: assembled at once, or marked as failed.
ComposeDocument(h) ==
    /\ req[h].op = "compose"
    /\ \/ doc' = [doc EXCEPT ![req[h].j].status = "draft", ![req[h].j].text = "written"]
       \/ doc' = [doc EXCEPT ![req[h].j].status = "failed"]
    /\ req' = [req EXCEPT ![h] = Free]
    /\ UNCHANGED <<kind, used, job, queue, task, replies, History>>

\* MessageListCreateView.post and the synthesis views: only the first asks for the quota.
AskReply(j) ==
    /\ kind[j] \in {"reply", "synthesis"} /\ ~ Asked(j)
    /\ kind[j] = "reply" => MayCall
    /\ job' = [job EXCEPT ![j] = "pending"]
    /\ \/ queue' = queue \cup {<<j, 0>>} /\ UNCHANGED orphan
       \/ UNCHANGED queue /\ orphan' = orphan \cup {j}
    /\ UNCHANGED <<kind, used, doc, task, req, replies, calls, lost, redelivered, again, raced, signed, early>>

\* GeneratedDocumentDetailView.patch: the status is read...
BeginEdit(h, j) ==
    /\ req[h] = Free
    /\ j \in Documents /\ doc[j].status # "validated"
    /\ req' = [req EXCEPT ![h] = [op |-> "edit", j |-> j]]
    /\ UNCHANGED <<kind, used, doc, job, queue, task, replies, History>>

\* ... and the text is written.
UpdateDocumentContent(h) ==
    /\ req[h].op = "edit"
    /\ doc' = [doc EXCEPT ![req[h].j].text = "edited"]
    /\ req' = [req EXCEPT ![h] = Free]
    /\ UNCHANGED <<kind, used, job, queue, task, replies, History>>

\* What is about to write the document: a request, a task, or a message.
AboutToWrite(j) ==
    \/ \E h \in Handlers : req[h].op \in {"edit", "compose", "publish"} /\ req[h].j = j
    \/ Held(j) # {}
    \/ \E r \in 0..MaxRetries : <<j, r>> \in queue

\* validate_document: whatever the status.
ValidateDocument(j) ==
    /\ j \in Documents
    /\ doc' = [doc EXCEPT ![j].status = "validated"]
    /\ signed' = [signed EXCEPT ![j] = doc[j].text]
    /\ early' = IF AboutToWrite(j) THEN early \cup {j} ELSE early
    /\ UNCHANGED <<kind, used, job, queue, task, req, replies, calls, lost, redelivered, again, orphan, raced>>

\* The process that serves a request dies.
RequestDies(h) ==
    /\ req[h] # Free
    /\ req' = [req EXCEPT ![h] = Free]
    /\ orphan' = IF req[h].op \in {"compose", "publish"} THEN orphan \cup {req[h].j} ELSE orphan
    /\ UNCHANGED <<kind, used, doc, job, queue, task, replies, calls, lost, redelivered, again, raced, signed, early>>

-----------------------------------------------------------------------------
(* generate_document_task, generate_assistant_reply_task, generate_exposure_synthesis_task. *)

Goto(w, step) == task' = [task EXCEPT ![w].pc = step]

\* A job that has ended is left; one that is running is entered again.
Receive(w, m) ==
    /\ task[w] = Idle
    /\ m \in queue
    /\ queue' = queue \ {m}
    /\ task' = IF job[m[1]] \in Finished THEN task
               ELSE [task EXCEPT ![w] = [pc |-> "mark", j |-> m[1], retries |-> m[2]]]
    /\ UNCHANGED <<kind, used, doc, job, req, replies, History>>

MarkJobRunning(w) ==
    /\ task[w].pc = "mark"
    /\ job' = [job EXCEPT ![task[w].j] = "running"]
    /\ Goto(w, "call")
    /\ UNCHANGED <<kind, used, doc, queue, req, replies, History>>

\* call_claude: only the synthesis looks again at the switch and the quota.  The provider
\* bills what it is sent, whether or not its answer comes back.
Call(w) ==
    /\ task[w].pc = "call"
    /\ kind[task[w].j] = "synthesis" => MayCall
    /\ calls' = calls + 1
    /\ Goto(w, "asked")
    /\ UNCHANGED <<kind, used, doc, job, queue, req, replies, lost, redelivered, again, orphan, raced, signed, early>>

\* The answer comes back; an exception instead, a timeout included, is Fail.
Answer(w) ==
    /\ task[w].pc = "asked"
    /\ Goto(w, "record")
    /\ UNCHANGED <<kind, used, doc, job, queue, req, replies, History>>

\* Mutant: the usage is written over a figure read before the call.
RecordUsageStale(w) ==
    /\ task[w].pc = "record"
    /\ used' = IF used = 0 THEN 1 ELSE used
    /\ Goto(w, "save")
    /\ UNCHANGED <<kind, doc, job, queue, req, replies, History>>

\* record_usage: the row of the log, and the quota incremented in the database.
RecordUsage(w) ==
    /\ task[w].pc = "record"
    /\ used' = used + 1
    /\ Goto(w, "save")
    /\ UNCHANGED <<kind, doc, job, queue, req, replies, History>>

\* The text goes over whatever the row holds by then; a reply is one more message, and the
\* conversation has still to be touched; the synthesis is in module Findings.
SaveResult(w) ==
    /\ task[w].pc = "save"
    /\ LET j == task[w].j IN
       /\ doc' = IF HasDocument(j)
                 THEN [doc EXCEPT ![j].status = "draft", ![j].text = "written"] ELSE doc
       /\ replies' = IF kind[j] = "reply" THEN [replies EXCEPT ![j] = @ + 1] ELSE replies
       /\ Goto(w, IF kind[j] = "reply" THEN "touch" ELSE "done")
    /\ UNCHANGED <<kind, used, job, queue, req, History>>

\* generate_assistant_reply ends: the date of the conversation.
TouchConversation(w) ==
    /\ task[w].pc = "touch"
    /\ Goto(w, "done")
    /\ UNCHANGED <<kind, used, doc, job, queue, req, replies, History>>

MarkJobDone(w) ==
    /\ task[w].pc = "done"
    /\ job' = [job EXCEPT ![task[w].j] = "done"]
    /\ task' = [task EXCEPT ![w] = Idle]
    /\ UNCHANGED <<kind, used, doc, queue, req, replies, History>>

\* Where an exception makes the task fail.
MayFail(w) == task[w].pc \in {"call", "asked", "record", "save", "touch"}

\* The calls the provider has billed and the quota has not counted yet.
Recording == {w \in Workers : task[w].pc \in {"asked", "record"}}

MayRetry(w) == task[w].retries < MaxRetries

\* Any exception: a new message, or the document and then the job are marked.
Fail(w) ==
    /\ MayFail(w)
    /\ lost' = IF w \in Recording THEN lost + 1 ELSE lost
    /\ IF MayRetry(w)
       THEN /\ queue' = queue \cup {<<task[w].j, task[w].retries + 1>>}
            /\ task' = [task EXCEPT ![w] = Idle]
            /\ again' = IF task[w].pc = "touch" THEN [again EXCEPT ![task[w].j] = @ + 1] ELSE again
            /\ UNCHANGED doc
       ELSE /\ doc' = IF HasDocument(task[w].j)
                      THEN [doc EXCEPT ![task[w].j].status = "failed"] ELSE doc
            /\ Goto(w, "failed")
            /\ UNCHANGED <<queue, again>>
    /\ UNCHANGED <<kind, used, job, req, replies, calls, redelivered, orphan, raced, signed, early>>

MarkJobFailed(w) ==
    /\ task[w].pc = "failed"
    /\ job' = [job EXCEPT ![task[w].j] = "failed"]
    /\ task' = [task EXCEPT ![w] = Idle]
    /\ UNCHANGED <<kind, used, doc, queue, req, replies, History>>

\* The message comes back: its worker has died, or is only slow.
Redeliver(w) ==
    /\ task[w] # Idle
    /\ redelivered[task[w].j] < MaxRedeliveries
    /\ \A j \in Works \ {task[w].j} : redelivered[j] = 0
    /\ queue' = queue \cup {<<task[w].j, task[w].retries>>}
    /\ redelivered' = [redelivered EXCEPT ![task[w].j] = @ + 1]
    /\ \/ /\ task' = [task EXCEPT ![w] = Idle]
          /\ lost' = IF w \in Recording THEN lost + 1 ELSE lost
       \/ UNCHANGED <<task, lost>>
    /\ UNCHANGED <<kind, used, doc, job, req, replies, calls, again, orphan, raced, signed, early>>

Work(w) ==
    \/ \E m \in queue : Receive(w, m)
    \/ MarkJobRunning(w) \/ Call(w) \/ Answer(w) \/ RecordUsage(w) \/ SaveResult(w)
    \/ TouchConversation(w) \/ MarkJobDone(w) \/ Fail(w) \/ MarkJobFailed(w)

Serve(h) == CreateRow(h) \/ PublishDocument(h) \/ ComposeDocument(h) \/ UpdateDocumentContent(h)

Next ==
    \/ \E h \in Handlers : Serve(h) \/ RequestDies(h)
                           \/ \E j \in Works : BeginDocument(h, j) \/ BeginEdit(h, j)
    \/ \E j \in Works : AskReply(j) \/ ValidateDocument(j)
    \/ \E w \in Workers : Work(w) \/ Redeliver(w)

Spec == Init /\ [][Next]_vars

\* A worker that holds a message goes on; a worker takes what waits; a request is served.
FairSpec ==
    /\ Spec
    /\ \A w \in Workers : WF_vars(Work(w))
    /\ \A h \in Handlers : WF_vars(Serve(h))

-----------------------------------------------------------------------------
(* Every variable keeps its type; only what was asked for has a message. *)
TypeOK ==
    /\ kind \in [Works -> Kinds]
    /\ {used, calls, lost} \subseteq Nat
    /\ doc \in [Works -> [status : {"none", "generating", "draft", "failed", "validated"},
                          text : {"none", "written", "edited"}, version : Nat]]
    /\ job \in [Works -> {"none", "pending", "running"} \cup Finished]
    /\ queue \subseteq {<<j, r>> : j \in {i \in Works : Asked(i)}, r \in 0..MaxRetries}
    /\ \A w \in Workers :
         \/ task[w] = Idle
         \/ task[w] \in [pc : {"mark", "call", "asked", "record", "save", "touch", "done", "failed"},
                         j : {i \in Works : job[i] # "none"}, retries : 0..MaxRetries]
    /\ \A h \in Handlers :
         \/ req[h] = Free
         \/ req[h] \in [op : {"create"}, j : Works, version : Nat]
         \/ req[h] \in [op : {"publish", "compose", "edit"}, j : Documents]
    /\ replies \in [Works -> Nat] /\ redelivered \in [Works -> 0..MaxRedeliveries]
    /\ again \in [Works -> Nat]
    /\ orphan \cup raced \cup early \subseteq Works
    /\ signed \in [Works -> {"none", "written", "edited"}]

(* "this function always logs the call": every call the provider has       *)
(* billed is in the quota, but for those it is answering or that are being *)
(* recorded, and for those whose answer was lost or whose task failed or   *)
(* died before the row.                                                    *)
CallsAccounted == calls = used + lost + Cardinality(Recording)

(* Two documents of a type have different versions, unless one was created *)
(* between the moment the other read the latest version and its creation.  *)
VersionsDiffer ==
    \A i, j \in Documents \ raced : i # j => doc[i].version # doc[j].version

(* "deja valide et ne peut plus etre modifie": what is validated keeps the *)
(* text that was validated, unless it was validated while a task, a        *)
(* message or another request was about to write it.                       *)
ValidatedKeepsItsText ==
    \A j \in Documents \ early :
        signed[j] # "none" => doc[j].status = "validated" /\ doc[j].text = signed[j]

(* "a duplicate document or reply would be a real user-visible bug": the   *)
(* assistant replies once, but for each delivery that begins after the     *)
(* first, and for each retry of a task that failed after it had written    *)
(* its reply, before the conversation was touched.                         *)
OneReply == \A j \in Works : replies[j] =< 1 + redelivered[j] + again[j]
=============================================================================
