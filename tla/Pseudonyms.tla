----------------------------- MODULE Pseudonyms -----------------------------
(***************************************************************************)
(* What leaves for the model provider, and under which names               *)
(* (ai_assistant/services: pseudonymisation, contexts and use cases).      *)
(*                                                                         *)
(* A mapping gives each identifying value of the client a numbered         *)
(* placeholder.  A conversation keeps its mapping, which every reply       *)
(* extends; a charter, a weather digest and a synthesis build one that     *)
(* serves once.  The values are read once for the mapping and once for the *)
(* context, while members, assets and findings come and go.                *)
(*                                                                         *)
(* A conversation holds what the assistant answered and what users typed,  *)
(* stored as it was typed; the next replies take it with them.             *)
(*                                                                         *)
(* Abstractions.  One conversation of one client, whose old messages do    *)
(* not leave the window of the history.  Values are of one kind,           *)
(* and are numbers because collect_sensitive_values lists them in a fixed  *)
(* order.  The name of the company, whose placeholder has no number, is    *)
(* left out.                                                               *)
(***************************************************************************)
EXTENDS Naturals, FiniteSets, FiniteSetsExt, Functions

CONSTANTS
    Values,     \* identifying values: addresses of members and findings, assets
    Tasks       \* tasks that run at the same time

VARIABLES
    present,    \* the values that belong to the client now
    row,        \* the mapping of the conversation: whether it has expired, and its entries
    said,       \* the values that the messages of the conversation mention
    work,       \* work[t]: how far a task is
    leaked,     \* history: what was sent without a placeholder, for no reason below
    fresh,      \* history: fresh[t], what came, went or was given an entry since t began
    listed,     \* history: the values that the mapping of the conversation ever listed
    forgotten   \* history: those whose entry expired, or was overwritten unseen

vars == <<present, row, said, work, leaked, fresh, listed, forgotten>>

Empty == [v \in {} |-> 0]
Idle == [op |-> "idle"]

Init ==
    /\ present \in SUBSET Values
    /\ row = [expired |-> FALSE, map |-> Empty]
    /\ said = {}
    /\ work = [t \in Tasks |-> Idle]
    /\ leaked = {}
    /\ fresh = [t \in Tasks |-> {}]
    /\ listed = {}
    /\ forgotten = {}

-----------------------------------------------------------------------------
(* The mapping. *)

\* Mutant: the numbers start again.
CountersFromNothing(map) == 0

\* _counters_from_mapping: the highest number given so far.
CountersFromMapping(map) == Max({0} \cup {map[v] : v \in DOMAIN map})

\* collect_sensitive_values and _add_value: an entry is never changed, the new values are
\* numbered in order.
CollectSensitiveValues(map, S) ==
    LET new == S \ DOMAIN map
    IN [v \in DOMAIN map \cup S |->
          IF v \in DOMAIN map THEN map[v]
          ELSE CountersFromMapping(map) + Cardinality({u \in new : u =< v})]

\* load_mapping: one that has expired is as good as none.
LoadMapping == IF row.expired THEN Empty ELSE row.map

\* rehydrate_text: the value a placeholder is read back as.
Rehydrate(map, p) == CHOOSE v \in DOMAIN map : map[v] = p

-----------------------------------------------------------------------------
(* The client's data. *)

Touched(S) == fresh' = [t \in Tasks |-> IF work[t] = Idle THEN {} ELSE fresh[t] \cup S]

\* A member, an asset or a finding comes or goes.
Come(v) ==
    /\ v \notin present
    /\ present' = present \cup {v}
    /\ Touched({v})
    /\ UNCHANGED <<row, said, work, leaked, listed, forgotten>>

Go(v) ==
    /\ v \in present
    /\ present' = present \ {v}
    /\ Touched({v})
    /\ UNCHANGED <<row, said, work, leaked, listed, forgotten>>

\* expires_at goes by.
Expire ==
    /\ ~ row.expired /\ row.map # Empty
    /\ row' = [row EXCEPT !.expired = TRUE]
    /\ forgotten' = forgotten \cup DOMAIN row.map
    /\ UNCHANGED <<present, said, work, leaked, fresh, listed>>

-----------------------------------------------------------------------------
(* The calls. *)

\* create_assistant_job: the message of a user may mention anything, and is stored as it is.
CreateMessage(S) ==
    /\ said' = said \cup S
    /\ UNCHANGED <<present, row, work, leaked, fresh, listed, forgotten>>

\* get_or_create_conversation_mapping: the entries are read and extended...
BeginReply(t) ==
    /\ work[t] = Idle
    /\ work' = [work EXCEPT ![t] = [op |-> "store", flow |-> "reply", base |-> LoadMapping,
                                    map |-> CollectSensitiveValues(LoadMapping, present)]]
    /\ fresh' = [fresh EXCEPT ![t] = {}]
    /\ UNCHANGED <<present, row, said, leaked, listed, forgotten>>

\* The values a new mapping lists are listed; those it no longer lists are forgotten only if the
\* mapping it replaces is not the one it was made from.
Stored(t, map) ==
    /\ row' = [expired |-> FALSE, map |-> map]
    /\ listed' = listed \cup DOMAIN map
    /\ forgotten' = (forgotten \cup IF work[t].base = LoadMapping THEN {} ELSE DOMAIN row.map)
                      \ DOMAIN map
    /\ fresh' = [x \in Tasks |-> IF x = t \/ work[x] = Idle THEN fresh[x]
                                 ELSE fresh[x] \cup (DOMAIN map \ DOMAIN LoadMapping)]
    /\ work' = [work EXCEPT ![t] = [op |-> "send", flow |-> "reply", map |-> map]]
    /\ UNCHANGED <<present, said, leaked>>

\* Mutant: a reply starts a mapping of its own.
StoreFresh(t) ==
    /\ work[t].op = "store"
    /\ Stored(t, CollectSensitiveValues(Empty, present))

\* ... and written whole (_replace_mapping, store_mapping).
StoreMapping(t) ==
    /\ work[t].op = "store"
    /\ Stored(t, work[t].map)

\* generate_exposure_synthesis, enrich_weather_summary: a mapping that serves once.
BeginDigest(t) ==
    /\ work[t] = Idle
    /\ work' = [work EXCEPT ![t] = [op |-> "send", flow |-> "digest",
                                    map |-> CollectSensitiveValues(Empty, present)]]
    /\ fresh' = [fresh EXCEPT ![t] = {}]
    /\ UNCHANGED <<present, row, said, leaked, listed, forgotten>>

\* build_charter_context: here the context comes first, the mapping second.
BeginCharter(t) ==
    /\ work[t] = Idle
    /\ work' = [work EXCEPT ![t] = [op |-> "collect", flow |-> "charter", context |-> present]]
    /\ fresh' = [fresh EXCEPT ![t] = {}]
    /\ UNCHANGED <<present, row, said, leaked, listed, forgotten>>

\* pseudonymize_value: what has an entry leaves under its placeholder.
Unmapped(context, map) == context \ DOMAIN map

\* What only a message mentions: the client does not have it, and the mapping of the conversation
\* never listed it or has lost it.
OnlySaid == {v \in said \ present : v \notin listed \/ v \in forgotten}

Sent(t, S) == leaked' = leaked \cup (S \ (fresh[t] \cup OnlySaid))

\* The answer, read back, may mention any value of the mapping.
Answered(t) ==
    \E S \in SUBSET (IF work[t].flow = "reply" THEN DOMAIN work[t].map ELSE {}) :
        said' = said \cup S

\* The call of a reply, a digest or a synthesis: the context is read now, and a reply takes the
\* messages with it, those of the users as they typed them.
Send(t) ==
    /\ work[t].op = "send"
    /\ LET context == present \cup (IF work[t].flow = "reply" THEN said ELSE {})
       IN Sent(t, Unmapped(context, work[t].map))
    /\ Answered(t)
    /\ work' = [work EXCEPT ![t] = Idle]
    /\ fresh' = [fresh EXCEPT ![t] = {}]
    /\ UNCHANGED <<present, row, listed, forgotten>>

SendCharter(t) ==
    /\ work[t].op = "collect"
    /\ Sent(t, Unmapped(work[t].context, CollectSensitiveValues(Empty, present)))
    /\ work' = [work EXCEPT ![t] = Idle]
    /\ fresh' = [fresh EXCEPT ![t] = {}]
    /\ UNCHANGED <<present, row, said, listed, forgotten>>

Next ==
    \/ \E v \in Values : Come(v) \/ Go(v)
    \/ Expire
    \/ \E S \in SUBSET Values : CreateMessage(S)
    \/ \E t \in Tasks : BeginReply(t) \/ StoreMapping(t) \/ BeginDigest(t) \/ BeginCharter(t)
                        \/ Send(t) \/ SendCharter(t)

Spec == Init /\ [][Next]_vars

-----------------------------------------------------------------------------
(* Every variable keeps its type; the numbers of a mapping are those of its values. *)
TypeOK ==
    /\ present \cup said \cup leaked \cup listed \subseteq Values
    /\ forgotten \subseteq listed
    /\ row.expired \in BOOLEAN
    /\ DOMAIN row.map \subseteq Values
    /\ \A v \in DOMAIN row.map : row.map[v] \in 1..Cardinality(Values)
    /\ fresh \in [Tasks -> SUBSET Values]

(* "l'adresse echappe a la pseudonymisation": nothing identifying leaves   *)
(* without a placeholder, except a value that came, went or was given an   *)
(* entry while the call was prepared, and one that only a message of the   *)
(* conversation mentions: the client does not have it, and its mapping     *)
(* never listed it (users type what they want) or lost it by expiry, or to *)
(* a reply that wrote over a mapping it had not seen.                      *)
NothingLeavesInClear == leaked = {}

(* Reading an answer back gives the values that were sent: no two values   *)
(* of a mapping share a placeholder, however often it was extended.        *)
ReadBack ==
    /\ \A v \in DOMAIN row.map : Rehydrate(row.map, row.map[v]) = v
    /\ \A t \in Tasks : work[t].op = "send" =>
         \A v \in DOMAIN work[t].map : Rehydrate(work[t].map, work[t].map[v]) = v

(* "stable placeholders across a whole conversation": an entry changes or  *)
(* disappears only when a reply writes over a mapping that it did not see: *)
(* one that had expired, or one another reply had extended meanwhile.      *)
StablePlaceholders ==
    [][\A v \in DOMAIN row.map :
         (v \notin DOMAIN row'.map \/ row'.map[v] # row.map[v])
           => \E t \in Tasks : work[t].op = "store" /\ work[t].base # row.map]_vars
=============================================================================
