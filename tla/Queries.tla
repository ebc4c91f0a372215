------------------------------- MODULE Queries --------------------------------
(***************************************************************************)
(* What a scan asks of the provider of leaks: BreachsenseProvider._scan    *)
(* goes from endpoint to endpoint and from page to page, a request is      *)
(* tried again when it may be, and QuotaManager keeps for a while what the *)
(* provider last said of the remaining requests.                           *)
(*                                                                         *)
(* Abstractions.  The items are the numbers of the pages they come from.   *)
(* The provider counts what it answers, and may count a request whose      *)
(* answer is lost; with nothing left it only fails.  The throttle is in    *)
(* Throttle, what becomes of a failed scan in ScanJobs.                    *)
(***************************************************************************)
EXTENDS Naturals, FiniteSets

CONSTANTS
    Scans,                  \* scans that may be asked for
    PagesOf,                \* what the provider may hold: pages of each endpoint
    Cassettes,              \* pages of each endpoint in the cassette
    MAX_PAGINATION_PAGES,
    MAX_RETRIES,
    Licence,                \* requests of a month
    Margin,                 \* BREACHSENSE_QUOTA_SAFETY_MARGIN
    Replayed,               \* BREACHSENSE_REPLAY_REMAINING_QUOTA
    Timeout,                \* REMAINING_CACHE_TIMEOUT_SECONDS
    MaxTime                 \* bound: how far time goes

Modes == {"live", "replay", "null"}
None == [value |-> 0]

VARIABLES
    mode,       \* resolve_mode()
    pages,      \* what the provider holds
    scan,       \* scan[s]: how far it is
    got,        \* got[s]: the items it has collected, <<endpoint, page>>
    remaining,  \* requests the licence still allows
    cached,     \* the figure in the cache, or None
    time,
    excuse      \* history: why a figure may be wrong

vars == <<mode, pages, scan, got, remaining, cached, time, excuse>>

Endpoints == DOMAIN pages
At(s, pc) == scan[s].pc = pc
Start(pc) == [pc |-> pc, e |-> 1, page |-> 1, attempt |-> 0, consumed |-> 0]

Init ==
    /\ mode = "live"
    /\ pages \in PagesOf
    /\ scan = [s \in Scans |-> Start("none")]
    /\ got = [s \in Scans |-> {}]
    /\ remaining = Licence
    /\ cached = None
    /\ time = 0
    /\ excuse = {}

-----------------------------------------------------------------------------
(* The factory: "live" must be asked for, and needs a licence.             *)
resolve_mode(configured, licensed, recorded) ==
    CASE configured = "live" -> IF licensed THEN "live" ELSE "null"
      [] configured \in {"replay", "null"} -> configured
      [] OTHER -> IF recorded THEN "replay" ELSE "null"

\* The operator changes cti_mode; what the cache holds stays.
Configure(configured) ==
    /\ mode' = resolve_mode(configured, TRUE, TRUE)
    /\ mode' # mode
    /\ excuse' = IF cached = None THEN excuse ELSE excuse \cup {"switched"}
    /\ UNCHANGED <<pages, scan, got, remaining, cached, time>>

-----------------------------------------------------------------------------
(* QuotaManager.                                                           *)
Live == cached # None /\ time < cached.until
Figure(value, asked) == [value |-> value, asked |-> asked, until |-> time + Timeout]

\* get_remaining_quota of the provider; None when it cannot say
Said == CASE mode = "live" -> remaining [] mode = "replay" -> Replayed [] OTHER -> 0

\* get_remaining, as its caller sees it: the figure, and what the cache then holds
Remaining(known) ==
    IF Live THEN cached
    ELSE IF known /\ mode # "null" THEN Figure(Said, time) ELSE None

Cached(known) == IF Remaining(known) = None THEN cached ELSE Remaining(known)

\* ensure_query_budget_available: an unknown figure passes.
EnsureQueryBudget(s, known) ==
    /\ At(s, "none")
    /\ cached' = Cached(known)
    /\ Remaining(known) = None \/ Remaining(known).value > Margin
    /\ scan' = [scan EXCEPT ![s] = Start("asked")]
    /\ UNCHANGED <<mode, pages, got, remaining, time, excuse>>

\* After a scan: the figure is read, the row is written, then the figure goes
\* back to the cache for as long as a new one.
ReadRemaining(s, known) ==
    /\ At(s, "done") /\ scan[s].consumed > 0
    /\ cached' = Cached(known)
    /\ scan' = [scan EXCEPT ![s] = [pc |-> "record", figure |-> Remaining(known)]]
    /\ UNCHANGED <<mode, pages, got, remaining, time, excuse>>

RecordUsage(s) ==
    LET figure == scan[s].figure IN
    /\ At(s, "record")
    /\ cached' = IF figure = None THEN cached ELSE Figure(figure.value, figure.asked)
    /\ excuse' = IF figure # None /\ figure.asked < time THEN excuse \cup {"kept"} ELSE excuse
    /\ scan' = [scan EXCEPT ![s] = Start("over")]
    /\ UNCHANGED <<mode, pages, got, remaining, time>>

-----------------------------------------------------------------------------
(* BreachsenseClient.                                                      *)
\* A provider is chosen when the scan begins; a cassette is read at once.
Begin(s) ==
    /\ At(s, "asked")
    /\ scan' = [scan EXCEPT ![s] = Start(IF mode = "live" THEN "scan" ELSE "done")]
    /\ got' = [got EXCEPT ![s] = IF mode = "replay" THEN {<<e, 1>> : e \in Cassettes} ELSE {}]
    /\ UNCHANGED <<mode, pages, remaining, cached, time, excuse>>

\* get_paginated: 206 while there is more, 200 at last; at the cap it stops as
\* if that were the end.
After(r, last) ==
    CASE ~ last -> [r EXCEPT !.page = @ + 1]
      [] last /\ r.e < Cardinality(Endpoints) -> [r EXCEPT !.e = @ + 1, !.page = 1]
      [] OTHER -> [r EXCEPT !.pc = "done"]

Answered(s) ==
    LET r == scan[s]
        last == r.page >= pages[r.e] \/ r.page >= MAX_PAGINATION_PAGES IN
    /\ At(s, "scan") /\ remaining > 0
    /\ got' = [got EXCEPT ![s] = @ \cup {<<r.e, r.page>>}]
    /\ scan' = [scan EXCEPT ![s] = After([r EXCEPT !.attempt = 0, !.consumed = @ + 1], last)]
    /\ remaining' = remaining - 1
    /\ UNCHANGED <<mode, pages, cached, time, excuse>>

\* 429, 500, the network or the throttle: tried again, then the whole scan
\* fails, with what it had collected and counted.
Fails(s, counted) ==
    /\ At(s, "scan")
    /\ counted => remaining > 0
    /\ scan' = [scan EXCEPT ![s] = IF scan[s].attempt < MAX_RETRIES
                                   THEN [scan[s] EXCEPT !.attempt = scan[s].attempt + 1]
                                   ELSE Start("failed")]
    /\ got' = IF scan[s].attempt < MAX_RETRIES THEN got ELSE [got EXCEPT ![s] = {}]
    /\ remaining' = IF counted THEN remaining - 1 ELSE remaining
    /\ UNCHANGED <<mode, pages, cached, time, excuse>>

\* 400, 401, 403, 422 or anything else: at once.
Refused(s) ==
    /\ At(s, "scan")
    /\ scan' = [scan EXCEPT ![s] = Start("failed")]
    /\ got' = [got EXCEPT ![s] = {}]
    /\ UNCHANGED <<mode, pages, remaining, cached, time, excuse>>

-----------------------------------------------------------------------------
Tick ==
    /\ time < MaxTime
    /\ time' = time + 1
    /\ UNCHANGED <<mode, pages, scan, got, remaining, cached, excuse>>

\* The licence is renewed; the cache does not know.
NewMonth ==
    /\ remaining < Licence
    /\ "renewed" \notin excuse
    /\ remaining' = Licence
    /\ excuse' = excuse \cup {"renewed"}
    /\ UNCHANGED <<mode, pages, scan, got, cached, time>>

Run(s) ==
    \/ Begin(s) \/ Answered(s) \/ Refused(s) \/ RecordUsage(s)
    \/ \E counted \in BOOLEAN : Fails(s, counted)
    \/ \E known \in BOOLEAN : ReadRemaining(s, known)

Next ==
    \/ \E s \in Scans : Run(s) \/ \E known \in BOOLEAN : EnsureQueryBudget(s, known)
    \/ \E configured \in {"live", "auto"} : Configure(configured)
    \/ Tick \/ NewMonth

Fairness == \A s \in Scans : WF_vars(Run(s))
Spec == Init /\ [][Next]_vars
FairSpec == Spec /\ Fairness

-----------------------------------------------------------------------------
Over(s) == At(s, "failed") \/ At(s, "over") \/ (At(s, "done") /\ scan[s].consumed = 0)

\* Pages that a scan collects of an endpoint: the cap ends it without a word.
Reach(e) == 1..(IF pages[e] < MAX_PAGINATION_PAGES THEN pages[e] ELSE MAX_PAGINATION_PAGES)

(* Values of the variables; "live" is never a default. *)
TypeOK ==
    /\ mode \in Modes
    /\ remaining \in 0..Licence
    /\ \A s \in Scans : scan[s].pc \in {"none", "asked", "scan", "done", "record", "over", "failed"}
    /\ \A configured \in Modes \cup {"auto"}, licensed, recorded \in BOOLEAN :
         resolve_mode(configured, licensed, recorded) = "live" => configured = "live" /\ licensed

(* A scan that succeeds has every page of every endpoint up to the cap,    *)
(* each once however often it was asked for, and says how many requests    *)
(* were answered; one that fails has nothing.                              *)
DoneIsComplete ==
    \A s \in Scans :
        /\ At(s, "record") \/ At(s, "over") \/ (At(s, "done") /\ scan[s].consumed > 0) =>
             got[s] = UNION {{e} \X Reach(e) : e \in Endpoints}
        /\ At(s, "done") /\ scan[s].consumed > 0 => scan[s].consumed = Cardinality(got[s])
        /\ At(s, "failed") => got[s] = {}

(* The budget is never refused while there is some: the figure is at least *)
(* what the licence allows, unless the month began again or the mode was   *)
(* switched since.                                                         *)
FigureNotBelow ==
    excuse \cap {"renewed", "switched"} = {} /\ Live => cached.value >= remaining

(* "Mis en cache court": the figure was asked for less than the timeout    *)
(* ago, unless the end of a scan has given an old figure a new life.       *)
FigureIsRecent ==
    "kept" \notin excuse /\ Live => time < cached.asked + Timeout

(* A scan ends, whatever the provider answers. *)
ScansEnd == \A s \in Scans : At(s, "asked") ~> Over(s)
=============================================================================
