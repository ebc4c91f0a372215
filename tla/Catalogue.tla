------------------------------ MODULE Catalogue ------------------------------
(***************************************************************************)
(* The catalogue of referentials: creation by hand, imports by the console *)
(* and by the clients, attribution, and compositions                       *)
(* (assessments/importers.py, assessments/services.py, the import views).  *)
(* A referential is known by its identifier; the platform or one client    *)
(* owns it.  The console and the clients are shown what an import would do *)
(* and confirm it in a later request, which analyses the file again; the   *)
(* import reads the owner, then updates or creates the row.                *)
(***************************************************************************)
EXTENDS Naturals, Sequences, FiniteSets

CONSTANTS
    Clients,
    Slugs,        \* identifiers of referentials
    Domains,      \* codes of domains
    Codes,        \* codes of measures
    Files,        \* files somebody may import: sequences of rows
    Handlers      \* requests served at the same time

Platform == "platform"

Owners == Clients \cup {Platform}

(* A row of the spreadsheet: domain, measure, whether its title and its    *)
(* statement are there.  "" is an empty cell.                              *)
Rows == [domain : Domains \cup {""}, code : Codes \cup {""}, told : BOOLEAN]

VARIABLES
    owner,        \* owner[s]: who owns the referential, "none" when it does not exist
    measures,     \* measures[s]: the codes of its measures
    held,         \* held[c]: the referentials attributed to a client
    model,        \* model[s]: the owner of the composition of this name, "none" when there is none
    work,         \* work[h]: a preview, or an import or a composition whose checks have passed
    raced         \* history: the identifiers written from a check that was no longer true

vars == <<owner, measures, held, model, work, raced>>

Free == [op |-> "free"]

Init ==
    /\ owner = [s \in Slugs |-> "none"]
    /\ measures = [s \in Slugs |-> {}]
    /\ held = [c \in Clients |-> {}]
    /\ model = [s \in Slugs |-> "none"]
    /\ work = [h \in Handlers |-> Free]
    /\ raced = {}

-----------------------------------------------------------------------------
(* Reading a file. *)

Range1(f) == {f[i] : i \in DOMAIN f}

(* parse_csv stops at a row without a domain or a measure *)
Readable(f) == \A r \in Range1(f) : r.domain # "" /\ r.code # ""

(* _validate, for the command: rows grouped by domain, so a domain has a   *)
(* measure and no code of a domain comes twice                             *)
Validate(f) ==
    /\ Readable(f)
    /\ f # <<>>
    /\ \A r \in Range1(f) : r.told
    /\ \A i, j \in DOMAIN f : f[i].code = f[j].code => i = j

(* analyser and collecter_erreurs, for the console and the clients: every  *)
(* error with its line, those of the rows first and alone                  *)
Errors(f) ==
    IF ~Readable(f)
    THEN {<<"empty", i>> : i \in {n \in DOMAIN f : f[n].domain = "" \/ f[n].code = ""}}
    ELSE IF f = <<>> THEN {<<"no domain", 0>>}
    ELSE {<<"untold", i>> : i \in {n \in DOMAIN f : ~f[n].told}}
         \cup {<<"twice", i>> : i \in {n \in DOMAIN f :
                 /\ \A j \in 1..(n - 1) : f[j].code # f[n].code
                 /\ \E j \in DOMAIN f : j > n /\ f[j].code = f[n].code}}

-----------------------------------------------------------------------------
(* what other requests of these kinds had read of this identifier is old now *)
Overtake(done, s, kinds) ==
    work' = [x \in Handlers |->
               IF x \in done THEN Free
               ELSE IF work[x].op \in kinds /\ work[x].s = s THEN [work[x] EXCEPT !.fresh = FALSE]
               ELSE work[x]]

OwnerAllows(o, s) == owner[s] \in {"none", o}

(* The request was told by a preview what it would do. *)
Announced(h) == work[h].op = "preview" \/ (work[h].op = "import" /\ "update" \in DOMAIN work[h])

(* create_referential: an identifier is never used again *)
CreateReferential(o, s) ==
    /\ owner[s] = "none"
    /\ owner' = [owner EXCEPT ![s] = o]
    /\ Overtake({}, s, {"preview", "import"})
    /\ UNCHANGED <<measures, held, model, raced>>

(* add_measure, in a domain of the referential *)
AddMeasure(s, c) ==
    /\ owner[s] # "none"
    /\ c \notin measures[s]
    /\ measures' = [measures EXCEPT ![s] = @ \cup {c}]
    /\ work' = [x \in Handlers |->
                  IF Announced(x) /\ work[x].s = s THEN [work[x] EXCEPT !.same = FALSE] ELSE work[x]]
    /\ UNCHANGED <<owner, held, model, raced>>

(* Without "confirm" the views only answer: the measures of the file,      *)
(* whether a referential of this identifier exists, and how many measures  *)
(* it has.  Nothing is announced for a file with an error; a client is     *)
(* told at once that the identifier is another's.                          *)
Preview(h, o, s, f) ==
    /\ work[h] = Free
    /\ o \in Clients => OwnerAllows(o, s)
    /\ Errors(f) = {}
    /\ work' = [work EXCEPT ![h] = [op |-> "preview", o |-> o, s |-> s, f |-> f,
                                    update |-> owner[s] # "none", count |-> Cardinality(measures[s]),
                                    fresh |-> TRUE, same |-> TRUE]]
    /\ UNCHANGED <<owner, measures, held, model, raced>>

(* Confirmed: the file is analysed again, and import_referential looks at  *)
(* the owner.                                                              *)
Confirm(h) ==
    /\ work[h].op = "preview"
    /\ work' = [work EXCEPT ![h] =
                  IF OwnerAllows(@.o, @.s) /\ Errors(@.f) = {}
                  THEN [@ EXCEPT !.op = "import", !.fresh = TRUE, !.same = @ /\ work[h].fresh]
                  ELSE Free]
    /\ UNCHANGED <<owner, measures, held, model, raced>>

(* the command imports what _validate lets through, for the platform *)
BeginImport(h, s, f) ==
    /\ work[h] = Free
    /\ OwnerAllows(Platform, s)
    /\ Validate(f)
    /\ work' = [work EXCEPT ![h] = [op |-> "import", o |-> Platform, s |-> s, f |-> f,
                                    fresh |-> TRUE]]
    /\ UNCHANGED <<owner, measures, held, model, raced>>

Written(f) == {r.code : r \in Range1(f)}

(* import_referential: one transaction; the measures the file does not     *)
(* name stay.  A client's import attributes the referential to it.         *)
ImportReferential(h) ==
    /\ work[h].op = "import"
    /\ LET o == work[h].o
           s == work[h].s
       IN /\ owner' = [owner EXCEPT ![s] = o]
          /\ measures' = [measures EXCEPT ![s] = @ \cup Written(work[h].f)]
          /\ held' = IF o = Platform THEN held ELSE [held EXCEPT ![o] = @ \cup {s}]
          /\ raced' = IF work[h].fresh THEN raced ELSE raced \cup {s}
          /\ Overtake({h}, s, {"preview", "import"})
    /\ UNCHANGED model

\* Mutant: any referential of the catalogue can be attributed.
AssignAny(c, s) ==
    /\ owner[s] # "none"
    /\ held' = [held EXCEPT ![c] = @ \cup {s}]
    /\ UNCHANGED <<owner, measures, model, work, raced>>

(* assign_referential refuses what belongs to another client *)
AssignReferential(c, s) ==
    /\ owner[s] \in {Platform, c}
    /\ held' = [held EXCEPT ![c] = @ \cup {s}]
    /\ UNCHANGED <<owner, measures, model, work, raced>>

RevokeReferential(c, s) ==
    /\ s \in held[c]
    /\ held' = [held EXCEPT ![c] = @ \ {s}]
    /\ UNCHANGED <<owner, measures, model, work, raced>>

(* create_subset: on a referential the client holds; the platform's from   *)
(* the console; known measures; a name another owner has is refused        *)
BeginCompose(h, o, s) ==
    /\ work[h] = Free
    /\ owner[s] # "none" /\ measures[s] # {}
    /\ o \in Clients => s \in held[o]
    /\ model[s] \in {"none", o}
    /\ work' = [work EXCEPT ![h] = [op |-> "compose", o |-> o, s |-> s, fresh |-> TRUE]]
    /\ UNCHANGED <<owner, measures, held, model, raced>>

CreateSubset(h) ==
    /\ work[h].op = "compose"
    /\ model' = [model EXCEPT ![work[h].s] = work[h].o]
    /\ raced' = IF work[h].fresh THEN raced ELSE raced \cup {work[h].s}
    /\ Overtake({h}, work[h].s, {"compose"})
    /\ UNCHANGED <<owner, measures, held>>

Next ==
    \/ \E o \in Owners, s \in Slugs : CreateReferential(o, s)
    \/ \E s \in Slugs, c \in Codes : AddMeasure(s, c)
    \/ \E h \in Handlers, o \in Owners, s \in Slugs :
         \/ \E f \in Files : Preview(h, o, s, f)
         \/ BeginCompose(h, o, s)
    \/ \E h \in Handlers, s \in Slugs, f \in Files : BeginImport(h, s, f)
    \/ \E h \in Handlers : Confirm(h) \/ ImportReferential(h) \/ CreateSubset(h)
    \/ \E c \in Clients, s \in Slugs : AssignReferential(c, s) \/ RevokeReferential(c, s)

Spec == Init /\ [][Next]_vars

-----------------------------------------------------------------------------
(* Every variable keeps its type. *)
TypeOK ==
    /\ owner \in [Slugs -> Owners \cup {"none"}]
    /\ measures \in [Slugs -> SUBSET Codes]
    /\ held \in [Clients -> SUBSET Slugs]
    /\ model \in [Slugs -> Owners \cup {"none"}]
    /\ \A h \in Handlers :
         \/ work[h] = Free
         \/ work[h] \in [op : {"import"}, o : {Platform}, s : Slugs, f : Files, fresh : BOOLEAN]
         \/ work[h] \in [op : {"preview", "import"}, o : Owners, s : Slugs, f : Files,
                         update : BOOLEAN, count : Nat, fresh : BOOLEAN, same : BOOLEAN]
         \/ work[h] \in [op : {"compose"}, o : Owners, s : Slugs, fresh : BOOLEAN]
    /\ raced \subseteq Slugs

(* A file is accepted by the console, by a client and by the command alike, *)
(* and it has as many measures as the preview announces: what is about to   *)
(* be written has passed both lists of rules.                               *)
ImportsAgree ==
    \A h \in Handlers : work[h].op \in {"preview", "import"} =>
        LET f == work[h].f IN
        Validate(f) /\ Errors(f) = {} /\ Cardinality(Written(f)) = Len(f)

(* "Ce qui SERA cree": what a preview said of the referential holds until  *)
(* the import is written, unless another request has written this          *)
(* referential in between.  An import announced as an update is always     *)
(* one, and finds at least the measures that were counted.                 *)
PreviewStands ==
    \A h \in Handlers : Announced(h) =>
        LET w == work[h] IN
        /\ w.update => owner[w.s] # "none"
        /\ w.count =< Cardinality(measures[w.s])
        /\ w.same /\ w.fresh => /\ w.update <=> owner[w.s] # "none"
                               /\ w.count = Cardinality(measures[w.s])

(* No import replaces the referential of another owner, and no composition *)
(* that of another owner; only requests that had both looked before either *)
(* was written can.                                                        *)
OwnersStay ==
    [][\A s \in Slugs \ raced' :
         /\ owner[s] # "none" => owner'[s] = owner[s]
         /\ model[s] # "none" => model'[s] = model[s]]_vars

(* An import deletes no measure: answers and actions refer to them. *)
MeasuresStay == [][\A s \in Slugs : measures[s] \subseteq measures'[s]]_vars

(* A referential made for one client is attributed to no other. *)
OnlyOwnReferentials ==
    \A c \in Clients, s \in Slugs \ raced : s \in held[c] => owner[s] \in {Platform, c}
=============================================================================
