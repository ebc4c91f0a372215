------------------------------ MODULE Settings ------------------------------
(***************************************************************************)
(* The operating settings of the console (platform_admin/settings_registry *)
(* and the two services that write them).  A value lives in the database,  *)
(* its fallback in the environment, and every reader goes through one      *)
(* cache entry that holds all the stored values for CACHE_TTL.  A change   *)
(* is a write followed by the deletion of that entry; a reader that found  *)
(* no entry reads the database and fills it a moment later.                *)
(***************************************************************************)
EXTENDS Naturals, FiniteSets

CONSTANTS
    Keys,       \* the settings followed
    Values,     \* values the console may store, within a setting's bounds
    Readers     \* requests served at the same time

Unset == "unset"

NoEntry == [k \in {} |-> Unset]

VARIABLES
    stored,     \* stored[k]: the row of the database, Unset when there is none
    cached,     \* the cache entry: the rows it was filled with, or NoEntry
    work,       \* work[r]: what a request still has to do
    raced       \* history: the entry was filled from a read older than a deletion

vars == <<stored, cached, work, raced>>

Free == [op |-> "free"]

Init ==
    /\ stored = [k \in Keys |-> Unset]
    /\ cached = NoEntry
    /\ work = [r \in Readers |-> Free]
    /\ raced = FALSE

(* _stored, when the cache has no entry *)
ReadRows(r) ==
    /\ work[r] = Free
    /\ cached = NoEntry
    /\ work' = [work EXCEPT ![r] = [op |-> "fill", rows |-> stored]]
    /\ UNCHANGED <<stored, cached, raced>>

FillCache(r) ==
    /\ work[r].op = "fill"
    /\ cached' = work[r].rows
    /\ raced' = (work[r].rows # stored)
    /\ work' = [work EXCEPT ![r] = Free]
    /\ UNCHANGED stored

(* update_setting (coerce has accepted the value) and reset_setting: the row first *)
WriteSetting(r, k, v) ==
    /\ work[r] = Free
    /\ v # stored[k]
    /\ stored' = [stored EXCEPT ![k] = v]
    /\ work' = [work EXCEPT ![r] = [op |-> "invalidate"]]
    /\ UNCHANGED <<cached, raced>>

(* invalidate_cache *)
InvalidateCache(r) ==
    /\ work[r].op = "invalidate"
    /\ cached' = NoEntry
    /\ raced' = FALSE
    /\ work' = [work EXCEPT ![r] = Free]
    /\ UNCHANGED stored

(* CACHE_TTL is over *)
EntryExpires ==
    /\ cached # NoEntry
    /\ cached' = NoEntry
    /\ raced' = FALSE
    /\ UNCHANGED <<stored, work>>

(* a request that dies between its two steps *)
Die(r) ==
    /\ work[r] # Free
    /\ raced' = (raced \/ (work[r].op = "invalidate" /\ cached # NoEntry))
    /\ work' = [work EXCEPT ![r] = Free]
    /\ UNCHANGED <<stored, cached>>

Next ==
    \/ \E r \in Readers :
         \/ ReadRows(r) \/ FillCache(r) \/ InvalidateCache(r) \/ Die(r)
         \/ \E k \in Keys, v \in Values \cup {Unset} : WriteSetting(r, k, v)
    \/ EntryExpires

Spec == Init /\ [][Next]_vars /\ WF_vars(EntryExpires)

Stale == cached # NoEntry /\ cached # stored

-----------------------------------------------------------------------------
(* Every variable keeps its type. *)
TypeOK ==
    /\ stored \in [Keys -> Values \cup {Unset}]
    /\ cached = NoEntry \/ cached \in [Keys -> Values \cup {Unset}]
    /\ \A r \in Readers :
         \/ work[r] \in {Free, [op |-> "invalidate"]}
         \/ work[r] \in [op : {"fill"}, rows : [Keys -> Values \cup {Unset}]]
    /\ raced \in BOOLEAN

(* A setting changed in the console is what the platform reads as soon as  *)
(* the request ends: the cache answers with an older value only while a    *)
(* change is being written, after a fill that started before the change,   *)
(* or after a change that died before the deletion.                        *)
FreshUnlessRaced ==
    Stale => raced \/ \E r \in Readers : work[r].op = "invalidate"

=============================================================================
