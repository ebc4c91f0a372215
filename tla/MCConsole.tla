------------------------------ MODULE MCConsole ------------------------------
(***************************************************************************)
(* Companies and their members, the console, the requests of a client,     *)
(* the regulatory watch, the prospects and the demonstration client, in    *)
(* one run. They share no variable and each property speaks of one of      *)
(* them, so it is enough to let one of them move in a behaviour. Handlers  *)
(* are the requests served at the same time; the identities that a         *)
(* symmetry exchanges come from the same sets everywhere.                  *)
(***************************************************************************)
EXTENDS Naturals, FiniteSets, TLC

CONSTANTS
    t1, t2, Handlers, Names, People

VARIABLES
    part,       \* the part that moves
    tenant, name, role, sub, companiesReq, causes,
    level, off, consoleReq, silent, cause, wanted,
    requestsRow, requestsHeld, work, given, overtaken, lost,
    watchFormat, watchOnline, watchSource, watchStatus, measures, bell, logged,
    poll, watchReq, watchFirst, watchKept, streak, watchExcuse,
    prospectsRow, prospectsMade, prospectsLiving, prospectsTouched, prospectsDemo,
    prospectsReq, prospectsToday, prospectsExcuse,
    demoSubscription, demoAnssi, demoLeak, demoBorn, demoHeld, demoSynthesis,
    demoAccount, demoSeen, demoFirst, demoDiagnostics, demoPlan, demoDoc, demoTalk,
    demoWording, demoMails, demoClock, demoTouches, demoLast, demoRewritten,
    demoSent

Quota == t1 :> 1 @@ t2 :> 2

C == INSTANCE Clients WITH
    Tenants <- {t1, t2}, Users <- People, Sessions <- Handlers, MaxUsers <- Quota,
    req <- companiesReq
K == INSTANCE Console WITH
    Admins <- People, Sessions <- Handlers, req <- consoleReq
R == INSTANCE AccessRequests WITH
    Rows <- Names, Subjects <- {"referential"}, Automatic <- {"referential"},
    row <- requestsRow, held <- requestsHeld
W == INSTANCE RegulatoryWatch WITH
    Pubs <- Names, None <- "none", Pollers <- Handlers, Tenants <- {"client"},
    MaxFailures <- 1, MaxMeasures <- 2, format <- watchFormat,
    online <- watchOnline, source <- watchSource, status <- watchStatus,
    req <- watchReq, first <- watchFirst, kept <- watchKept, excuse <- watchExcuse
P == INSTANCE Prospects WITH
    Sessions <- Handlers, StaleAfter <- 2, MaxDay <- 3, MaxClients <- 2,
    row <- prospectsRow, made <- prospectsMade, living <- prospectsLiving,
    touched <- prospectsTouched, demo <- prospectsDemo, req <- prospectsReq,
    today <- prospectsToday, excuse <- prospectsExcuse
D == INSTANCE Demonstration WITH
    Retention <- 90, Elapse <- 40, MaxTouches <- 2,
    subscription <- demoSubscription, anssi <- demoAnssi, leak <- demoLeak,
    born <- demoBorn, held <- demoHeld, synthesis <- demoSynthesis,
    account <- demoAccount, seen <- demoSeen, first <- demoFirst,
    diagnostics <- demoDiagnostics, plan <- demoPlan, doc <- demoDoc,
    talk <- demoTalk, wording <- demoWording, mails <- demoMails,
    clock <- demoClock, touches <- demoTouches, last <- demoLast,
    rewritten <- demoRewritten, sent <- demoSent

companiesVars == <<tenant, name, role, sub, companiesReq, causes>>
consoleVars == <<level, off, consoleReq, silent, cause, wanted>>
requestsVars == <<requestsRow, requestsHeld, work, given, overtaken, lost>>
watchVars ==
      <<watchFormat, watchOnline, watchSource, watchStatus, measures, bell, logged,
      poll, watchReq, watchFirst, watchKept, streak, watchExcuse>>
prospectsVars ==
      <<prospectsRow, prospectsMade, prospectsLiving, prospectsTouched, prospectsDemo,
      prospectsReq, prospectsToday, prospectsExcuse>>
demoVars ==
      <<demoSubscription, demoAnssi, demoLeak, demoBorn, demoHeld, demoSynthesis,
      demoAccount, demoSeen, demoFirst, demoDiagnostics, demoPlan, demoDoc, demoTalk,
      demoWording, demoMails, demoClock, demoTouches, demoLast, demoRewritten,
      demoSent>>
vars == <<part, companiesVars, consoleVars, requestsVars, watchVars, prospectsVars, demoVars>>

Parts == {"companies", "console", "requests", "watch", "prospects", "demo"}

Init ==
    /\ part \in Parts
    /\ C!Init
    /\ K!Init
    /\ R!Init
    /\ W!Init
    /\ P!Init
    /\ D!Init
    /\ part = "demo" \/ demoAnssi
    /\ part = "console" \/ level = [a \in People |-> "full"]
    /\ part = "watch" \/ watchFormat = "feed"

Next ==
    \/ /\ part = "companies" /\ C!Next
       /\ UNCHANGED <<part, consoleVars, requestsVars, watchVars, prospectsVars, demoVars>>
    \/ /\ part = "console" /\ K!Next
       /\ UNCHANGED <<part, companiesVars, requestsVars, watchVars, prospectsVars, demoVars>>
    \/ /\ part = "requests" /\ R!Next
       /\ UNCHANGED <<part, companiesVars, consoleVars, watchVars, prospectsVars, demoVars>>
    \/ /\ part = "watch" /\ W!Next
       /\ UNCHANGED <<part, companiesVars, consoleVars, requestsVars, prospectsVars, demoVars>>
    \/ /\ part = "prospects" /\ P!Next
       /\ UNCHANGED <<part, companiesVars, consoleVars, requestsVars, watchVars, demoVars>>
    \/ /\ part = "demo" /\ D!Next
       /\ UNCHANGED <<part, companiesVars, consoleVars, requestsVars, watchVars, prospectsVars>>

Spec == Init /\ [][Next]_vars

Symmetry == Permutations(Handlers) \cup Permutations(Names) \cup Permutations(People)

-----------------------------------------------------------------------------
(* Bound: a behaviour is followed until the first excuse (the second in    *)
(* the console and its requests; of the companies, a name restored or a    *)
(* subscription revived is followed too); the requests of the console that *)
(* touch no administrator are followed one at a time, polls and decisions  *)
(* of the watch two at a time, decisions on one publication, requests on   *)
(* prospects the first day, the demonstration before any prospect.         *)
OneExcuse ==
    /\ causes \in {{}, {"restored_name"}, {"revived"}}
    /\ Cardinality(overtaken \cup lost) =< 1
    /\ \A h \in Handlers :
         consoleReq[h] # K!Idle /\ consoleReq[h].view \notin K!Staff =>
             \A x \in Handlers \ {h} : consoleReq[x] = K!Idle
    /\ watchExcuse = {}
    /\ Cardinality({h \in Handlers : watchReq[h] # W!Idle})
         + Cardinality({h \in Handlers : poll[h] # W!Idle}) =< 2
    /\ Cardinality({p \in Names : watchStatus[p] \notin {"none", "new"}}) =< 1
    /\ prospectsExcuse = {}
    /\ \A h \in Handlers : prospectsReq[h] # P!Idle =>
         prospectsToday = 1 /\ prospectsTouched[prospectsReq[h].p] =< 1
    /\ prospectsDemo = {} \/ prospectsRow["prospect"] = P!Absent

-----------------------------------------------------------------------------
(* Every company keeps an administrator, its own name and no more members  *)
(* than its offer allows, and the bin holds no service, whatever requests  *)
(* the console serves together: but for the ways "causes" names, among     *)
(* them a request about a company that another one about it overtook.      *)
(* The demonstration company starts again from the same state, shows a     *)
(* synthesis of what is open, and sends nothing that nobody asked for.     *)
CompaniesKept ==
    /\ part = "companies" =>
         /\ C!TypeOK
         /\ C!AdminUnlessOvertaken
         /\ C!NamesDistinctUnless
         /\ C!UsersWithinQuota
         /\ C!TrashHoldsNothing
    /\ part = "demo" =>
         /\ D!TypeOK
         /\ D!ResetRestores
         /\ D!SynthesisDescribes
         /\ D!NothingSentByDefault
         /\ D!DemoIsSound

(* The console answers for what it does: a change it makes leaves a row of *)
(* the journal, but for the views that write half of it; somebody is left  *)
(* who may use it; an administrator has the level that was asked for.  A   *)
(* client's request is decided once and granting it is told.  A prospect   *)
(* that is lost has a reason, one that became a client says which, and     *)
(* none is forgotten, but for the excuses of that part.                    *)
ConsoleAnswers ==
    /\ part = "console" =>
         /\ K!TypeOK
         /\ K!ChangesAreAudited
         /\ K!FullAdminUnless
         /\ K!LevelWasAsked
    /\ part = "requests" =>
         /\ R!TypeOK
         /\ R!OneOpenRequest
         /\ R!GrantsAreTold
    /\ part = "prospects" =>
         /\ P!TypeOK
         /\ P!LostHasReason
         /\ P!OriginKept
         /\ P!NobodyIsForgotten
         /\ P!DemoProspectsPass

(* The watch is complete and its clients know: a change that was noticed   *)
(* is in the queue, what clients may read they were told of, "intégrée"    *)
(* means one measure, in the journal.  But for a process that died or      *)
(* worked on an old copy.                                                  *)
WatchKept ==
    /\ part = "watch" =>
         /\ W!TypeOK
         /\ W!ChangesReported
         /\ W!FailuresCounted
         /\ W!IntegratedOnce
         /\ W!PublicIsTold

(* What is done is not undone: a company that lives is never destroyed,    *)
(* the trash is entered and left by its own operations only, and a request *)
(* that was decided stays as it was decided, but for a copy loaded before  *)
(* another request changed the row.  The command of the demonstration, run *)
(* again, does nothing again.                                              *)
DoneStaysDone == C!NeverDestroyedAlive /\ R!DecisionsStick /\ D!RerunChangesNothing
=============================================================================
