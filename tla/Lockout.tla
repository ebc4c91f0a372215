------------------------------- MODULE Lockout -------------------------------
(***************************************************************************)
(* The progressive lockout of logins (accounts/services.py), for one       *)
(* counter: the code keeps one by account and one by address, treated      *)
(* alike.  Two cache entries carry it: the number of failures, which lives *)
(* for 15 minutes from the FIRST of them, and the lock, which lives as     *)
(* long as it locks.  An attempt looks at the lock, compares the password, *)
(* then counts: attempts served together look before either counts.        *)
(* Time is counted in minutes, the unit of every duration of the code.     *)
(***************************************************************************)
EXTENDS Naturals, FiniteSets

CONSTANTS
    Attempts,     \* logins served at the same time
    MaxFailures   \* bound: failures counted in a behaviour

VARIABLES
    failures,     \* the counter, 0 when the entry does not exist
    window,       \* minutes the counter has still to live
    lock,         \* minutes the lock has still to live
    at,           \* at[a]: "free", "checked" (not locked), "first" (incr found no counter)
    overlap       \* history: two attempts have been served together

vars == <<failures, window, lock, at, overlap>>

Ladder == {<<5, 1>>, <<10, 5>>, <<15, 15>>, <<20, 60>>}

AttemptWindow == 15

Init ==
    /\ failures = 0
    /\ window = 0
    /\ lock = 0
    /\ at = [a \in Attempts |-> "free"]
    /\ overlap = FALSE

(* _lockout_seconds_for: the last rung reached *)
LockoutFor(n) ==
    LET reached == {r \in Ladder : n >= r[1]}
    IN IF reached = {} THEN 0 ELSE (CHOOSE r \in reached : \A q \in reached : q[1] =< r[1])[2]

(* check_not_locked_out, before the password is compared *)
CheckNotLockedOut(a) ==
    /\ at[a] = "free"
    /\ lock = 0
    /\ failures < MaxFailures
    /\ at' = [at EXCEPT ![a] = "checked"]
    /\ overlap' = (overlap \/ \E x \in Attempts \ {a} : at[x] # "free")
    /\ UNCHANGED <<failures, window, lock>>

(* the lock is written anew at every failure from the first rung on *)
Count(n) ==
    /\ failures' = n
    /\ lock' = IF LockoutFor(n) > 0 THEN LockoutFor(n) ELSE lock

(* record_failed_attempt: incr keeps the life of the entry; without an     *)
(* entry it raises, and a second command writes the counter at 1.          *)
RecordFailure(a) ==
    /\ at[a] = "checked"
    /\ IF failures = 0
       THEN /\ at' = [at EXCEPT ![a] = "first"]
            /\ UNCHANGED <<failures, lock, window>>
       ELSE /\ at' = [at EXCEPT ![a] = "free"]
            /\ Count(failures + 1)
            /\ UNCHANGED window
    /\ UNCHANGED overlap

SetFirst(a) ==
    /\ at[a] = "first"
    /\ at' = [at EXCEPT ![a] = "free"]
    /\ Count(1)
    /\ window' = AttemptWindow
    /\ UNCHANGED overlap

(* a good password: clear_failed_attempts; the acceptance of a link does the same *)
ClearFailedAttempts(a) ==
    /\ at[a] = "checked"
    /\ at' = [at EXCEPT ![a] = "free"]
    /\ failures' = 0
    /\ window' = 0
    /\ lock' = 0
    /\ UNCHANGED overlap

(* a minute passes; requests are shorter than that *)
Tick ==
    /\ \A a \in Attempts : at[a] = "free"
    /\ window > 0 \/ lock > 0
    /\ window' = IF window > 0 THEN window - 1 ELSE 0
    /\ failures' = IF window =< 1 THEN 0 ELSE failures
    /\ lock' = IF lock > 0 THEN lock - 1 ELSE 0
    /\ UNCHANGED <<at, overlap>>

Next ==
    \/ \E a \in Attempts : \/ CheckNotLockedOut(a) \/ RecordFailure(a)
                           \/ SetFirst(a) \/ ClearFailedAttempts(a)
    \/ Tick

Finish(a) == RecordFailure(a) \/ SetFirst(a)

Spec == Init /\ [][Next]_vars /\ WF_vars(Tick) /\ \A a \in Attempts : WF_vars(Finish(a))

-----------------------------------------------------------------------------
(* Every variable keeps its type. *)
TypeOK ==
    /\ failures \in 0..MaxFailures + Cardinality(Attempts)
    /\ window \in 0..AttemptWindow
    /\ lock \in 0..60
    /\ at \in [Attempts -> {"free", "checked", "first"}]
    /\ overlap \in BOOLEAN
    /\ failures > 0 <=> window > 0

(* Attempts that come one after the other never take the counter past      *)
(* eleven: the locks of one and five minutes use up the fifteen minutes of *)
(* the window, so the rungs of fifteen minutes and one hour are only       *)
(* reached by attempts that were served together.                          *)
SequentialCeiling == ~overlap => failures =< 11

(* A locked account reaches no password comparison, except by an attempt   *)
(* that had looked before the lock was written.                            *)
LockedMeansNotCompared == lock > 0 /\ ~overlap => \A a \in Attempts : at[a] = "free"

=============================================================================
