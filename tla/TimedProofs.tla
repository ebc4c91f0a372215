---------------------------- MODULE TimedProofs ----------------------------
(***************************************************************************)
(* Proofs about what MCTimed composes, for any numbers of requests and of  *)
(* workers: the lockout, the cached settings, the jobs of the assistant,   *)
(* the queries of a scan, and the e-mails of checks, bulletins and         *)
(* reminders.                                                              *)
(***************************************************************************)
EXTENDS MCTimed, Sequences, FiniteSetTheorems, SequenceTheorems, TLAPS

\* How the size of a set changes when one element may come or go.
LEMMA CountMoves ==
    ASSUME NEW U, IsFiniteSet(U), NEW P, NEW N, P \subseteq U, N \subseteq U, NEW w,
           \A x \in U \ {w} : x \in P <=> x \in N
    PROVE  /\ Cardinality(P) \in Nat /\ Cardinality(N) \in Nat
           /\ Cardinality(N) = Cardinality(P) + (IF w \in N THEN 1 ELSE 0)
                                             - (IF w \in P THEN 1 ELSE 0)
<1>1. IsFiniteSet(P) /\ IsFiniteSet(N)
  BY FS_Subset
<1>2. Cardinality(P) \in Nat /\ Cardinality(N) \in Nat
  BY <1>1, FS_CardinalityType
<1>3. CASE w \in P <=> w \in N
  <2>1. N = P
    BY <1>3
  <2> QED BY <1>2, <2>1
<1>4. CASE w \in P /\ w \notin N
  <2>1. N = P \ {w}
    BY <1>4
  <2>2. Cardinality(N) = Cardinality(P) - 1
    BY <1>1, <1>4, <2>1, FS_RemoveElement
  <2> QED BY <1>2, <1>4, <2>2
<1>5. CASE w \notin P /\ w \in N
  <2>1. N = P \cup {w}
    BY <1>5
  <2>2. Cardinality(N) = Cardinality(P) + 1
    BY <1>1, <1>5, <2>1, FS_AddElement
  <2> QED BY <1>2, <1>5, <2>2
<1> QED BY <1>3, <1>4, <1>5

-----------------------------------------------------------------------------
(* The lockout.                                                            *)

\* The attempts that have looked at the lock and not yet counted.
Attempting == {x \in Handlers : at[x] # "free"}

LockTypes ==
    /\ failures \in Nat /\ window \in 0..15 /\ lock \in 0..60
    /\ at \in [Handlers -> {"free", "checked", "first"}]
    /\ overlap \in BOOLEAN
    /\ failures > 0 <=> window > 0

\* An attempt that begins below the bound counts one failure at most.
FailuresBounded == failures + Cardinality(Attempting) =< 21 + Cardinality(Handlers)

\* Attempts that were never together: one at a time, on an account that is not locked.
OneByOne ==
    ~ overlap =>
      /\ \A x, y \in Attempting : x = y
      /\ \A x \in Attempting : lock = 0 /\ (at[x] = "first" => failures = 0)

\* From the first rung on, each failure costs the window the lock of the one before.
WindowRunsOut ==
    ~ overlap =>
      /\ failures =< 11
      /\ failures \in 5..9 => window =< 19 - failures + lock
      /\ failures = 10 => window =< 5 + lock
      /\ failures = 11 => window =< lock

LockoutInv == LockTypes /\ FailuresBounded /\ OneByOne /\ WindowRunsOut

\* The lock that each number of failures writes.
LEMMA LockoutLengths ==
    ASSUME NEW n \in Nat
    PROVE  L!LockoutFor(n) = CASE n < 5 -> 0
                               [] n \in 5..9 -> 1
                               [] n \in 10..14 -> 5
                               [] n \in 15..19 -> 15
                               [] OTHER -> 60
<1> DEFINE reached == {r \in L!Ladder : n >= r[1]}
           last == CHOOSE r \in reached : \A q \in reached : q[1] =< r[1]
<1>0. L!Ladder = {<<5, 1>>, <<10, 5>>, <<15, 15>>, <<20, 60>>}
  BY DEF L!Ladder
<1>1. L!LockoutFor(n) = IF reached = {} THEN 0 ELSE last[2]
  BY DEF L!LockoutFor
<1>2. CASE n < 5
  <2>1. reached = {}
    BY <1>0, <1>2
  <2> QED BY <1>1, <1>2, <2>1
<1>3. ASSUME NEW top \in reached, \A q \in reached : q[1] =< top[1]
      PROVE  reached # {} /\ last = top
  <2>1. last \in reached /\ \A q \in reached : q[1] =< last[1]
    BY <1>3
  <2>2. last[1] =< top[1] /\ top[1] =< last[1]
    BY <1>3, <2>1
  <2>3. last \in L!Ladder /\ top \in L!Ladder
    BY <1>3, <2>1
  <2> HIDE DEF last
  <2>4. last = top
    BY <1>0, <2>2, <2>3
  <2> QED BY <2>4, <1>3
<1> HIDE DEF last
<1>4. CASE n \in 5..9
  <2>1. reached = {<<5, 1>>}
    BY <1>0, <1>4
  <2> HIDE DEF reached
  <2>2. reached # {} /\ last = <<5, 1>>
    BY <1>3, <2>1
  <2> QED BY <1>1, <1>4, <2>2
<1>5. CASE n \in 10..14
  <2>1. reached = {<<5, 1>>, <<10, 5>>}
    BY <1>0, <1>5
  <2> HIDE DEF reached
  <2>2. reached # {} /\ last = <<10, 5>>
    BY <1>3, <2>1
  <2> QED BY <1>1, <1>5, <2>2
<1>6. CASE n \in 15..19
  <2>1. reached = {<<5, 1>>, <<10, 5>>, <<15, 15>>}
    BY <1>0, <1>6
  <2> HIDE DEF reached
  <2>2. reached # {} /\ last = <<15, 15>>
    BY <1>3, <2>1
  <2> QED BY <1>1, <1>6, <2>2
<1>7. CASE n >= 20
  <2>1. reached = {<<5, 1>>, <<10, 5>>, <<15, 15>>, <<20, 60>>}
    BY <1>0, <1>7
  <2> HIDE DEF reached
  <2>2. reached # {} /\ last = <<20, 60>>
    BY <1>3, <2>1
  <2> QED BY <1>1, <1>7, <2>2
<1> QED BY <1>2, <1>4, <1>5, <1>6, <1>7

\* No attempt before the first one.
LEMMA LockoutInit == L!Init => LockoutInv
<1> SUFFICES ASSUME L!Init PROVE LockoutInv
  OBVIOUS
<1>1. /\ failures = 0 /\ window = 0 /\ lock = 0 /\ overlap = FALSE
      /\ at = [x \in Handlers |-> "free"]
  BY DEF L!Init
<1>2. LockTypes /\ Attempting = {}
  <2>1. overlap \in BOOLEAN /\ at \in [Handlers -> {"free", "checked", "first"}]
    BY <1>1
  <2> QED BY <1>1, <2>1 DEF LockTypes, Attempting
<1>3. Cardinality(Attempting) = 0 /\ Cardinality(Handlers) \in Nat
  BY <1>2, FS_EmptySet, FS_CardinalityType, ProcessesAssumption
<1> QED BY <1>1, <1>2, <1>3 DEF LockoutInv, FailuresBounded, OneByOne, WindowRunsOut

\* The attempts of a moment are finitely many, and counted one by one.
LEMMA AttemptsCounted ==
    ASSUME at \in [Handlers -> {"free", "checked", "first"}], NEW x \in Handlers
    PROVE  /\ Cardinality(Attempting) \in Nat /\ Cardinality(Handlers) \in Nat
           /\ Cardinality(Attempting) =< Cardinality(Handlers)
           /\ Attempting' = Attempting \ {x} /\ x \in Attempting =>
                Cardinality(Attempting') = Cardinality(Attempting) - 1
           /\ Attempting' = Attempting \cup {x} /\ x \notin Attempting =>
                Cardinality(Attempting') = Cardinality(Attempting) + 1
                /\ Cardinality(Attempting') =< Cardinality(Handlers)
<1>1. Attempting \subseteq Handlers
  BY DEF Attempting
<1>2. /\ IsFiniteSet(Attempting) /\ Cardinality(Attempting) =< Cardinality(Handlers)
      /\ IsFiniteSet(Handlers)
  BY <1>1, FS_Subset, ProcessesAssumption
<1>3. Cardinality(Attempting) \in Nat /\ Cardinality(Handlers) \in Nat
  BY <1>2, FS_CardinalityType
<1>4. x \in Attempting => Cardinality(Attempting \ {x}) = Cardinality(Attempting) - 1
  BY <1>2, FS_RemoveElement
<1>5. x \notin Attempting => Cardinality(Attempting \cup {x}) = Cardinality(Attempting) + 1
  BY <1>2, FS_AddElement
<1>6. Attempting \cup {x} \subseteq Handlers
  BY <1>1
<1>7. Cardinality(Attempting \cup {x}) =< Cardinality(Handlers)
  BY <1>2, <1>6, FS_Subset
<1> QED BY <1>2, <1>3, <1>4, <1>5, <1>7

\* A failure that is counted: the number, the lock it writes, and one attempt less.
LEMMA FailureCounted ==
    ASSUME LockoutInv, NEW x \in Attempting, NEW n \in Nat, n # 0,
           \/ n = failures + 1 /\ window' = window /\ failures > 0
           \/ n = 1 /\ window' = 15 /\ at[x] = "first",
           failures' = n /\ lock' = IF L!LockoutFor(n) > 0 THEN L!LockoutFor(n) ELSE lock,
           at' = [at EXCEPT ![x] = "free"], overlap' = overlap
    PROVE  LockoutInv'
<1> USE DEF LockoutInv, LockTypes
<1>1. lock' = IF n < 5 THEN lock ELSE IF n \in 5..9 THEN 1 ELSE IF n \in 10..14 THEN 5
              ELSE IF n \in 15..19 THEN 15 ELSE 60
  BY LockoutLengths
<1>2. x \in Handlers /\ Attempting' = Attempting \ {x}
      /\ \A y \in Handlers \ {x} : at'[y] = at[y]
  BY DEF Attempting
<1>3. LockTypes'
  BY <1>1, <1>2
<1>4. FailuresBounded'
  <2>1. Cardinality(Attempting') = Cardinality(Attempting) - 1
    BY <1>2, AttemptsCounted
  <2>2. Cardinality(Attempting) \in Nat /\ Cardinality(Handlers) \in Nat
    BY <1>2, AttemptsCounted
  <2>3. failures' =< failures + 1
    OBVIOUS
  <2> QED BY <2>1, <2>2, <2>3 DEF FailuresBounded
<1>5. overlap' = FALSE => Attempting' = {}
  BY <1>2 DEF OneByOne
<1>6. OneByOne'
  BY <1>5 DEF OneByOne
<1>7. WindowRunsOut'
  <2>1. ~ overlap => lock = 0 /\ (at[x] = "first" => failures = 0)
    BY DEF OneByOne
  <2> QED BY <1>1, <2>1 DEF WindowRunsOut
<1> QED BY <1>3, <1>4, <1>6, <1>7

\* Every step of the lockout keeps its invariant.
LEMMA LockoutKept ==
    ASSUME LockoutInv, L!Next
    PROVE  LockoutInv'
<1> USE DEF LockoutInv, LockTypes
<1>1. ASSUME NEW x \in Handlers, L!CheckNotLockedOut(x) PROVE LockoutInv'
  <2>1. /\ at[x] = "free" /\ lock = 0 /\ failures < 21
        /\ at' = [at EXCEPT ![x] = "checked"]
        /\ overlap' = (overlap \/ \E y \in Handlers \ {x} : at[y] # "free")
        /\ failures' = failures /\ window' = window /\ lock' = lock
    BY <1>1 DEF L!CheckNotLockedOut
  <2>2. Attempting' = Attempting \cup {x} /\ x \notin Attempting
    BY <2>1 DEF Attempting
  <2>3. LockTypes'
    <3>1. overlap' \in BOOLEAN
      BY <2>1
    <3> QED BY <2>1, <3>1
  <2>4. FailuresBounded'
    <3>1. Cardinality(Attempting') =< Cardinality(Handlers) /\ Cardinality(Handlers) \in Nat
      BY <2>2, AttemptsCounted
    <3>2. Cardinality(Attempting') \in Nat
      BY <2>2, AttemptsCounted
    <3>3. failures' =< 21
      BY <2>1
    <3> QED BY <2>3, <3>1, <3>2, <3>3 DEF FailuresBounded
  <2>5. ~ overlap' => ~ overlap /\ Attempting' = {x} /\ at'[x] = "checked"
    BY <2>1, <2>2 DEF Attempting
  <2>6. OneByOne'
    BY <2>1, <2>5 DEF OneByOne
  <2>7. WindowRunsOut'
    BY <2>1, <2>5 DEF WindowRunsOut
  <2> QED BY <2>3, <2>4, <2>6, <2>7
<1>2. ASSUME NEW x \in Handlers, L!RecordFailure(x) PROVE LockoutInv'
  <2>1. x \in Attempting /\ at[x] = "checked" /\ overlap' = overlap
    BY <1>2 DEF L!RecordFailure, Attempting
  <2>2. CASE failures = 0
    <3>1. /\ at' = [at EXCEPT ![x] = "first"]
          /\ failures' = failures /\ window' = window /\ lock' = lock
      BY <1>2, <2>2 DEF L!RecordFailure
    <3>2. Attempting' = Attempting
      BY <2>1, <3>1 DEF Attempting
    <3>3. LockTypes' /\ FailuresBounded' /\ WindowRunsOut'
      BY <2>1, <3>1, <3>2 DEF FailuresBounded, WindowRunsOut
    <3>4. OneByOne'
      BY <2>1, <2>2, <3>1, <3>2 DEF OneByOne
    <3> QED BY <3>3, <3>4
  <2>3. CASE failures # 0
    <3>1. /\ at' = [at EXCEPT ![x] = "free"]
          /\ window' = window /\ failures' = failures + 1
          /\ lock' = IF L!LockoutFor(failures + 1) > 0 THEN L!LockoutFor(failures + 1) ELSE lock
      BY <1>2, <2>3 DEF L!RecordFailure, L!Count
    <3>2. failures + 1 \in Nat /\ failures + 1 # 0 /\ failures > 0
      BY <2>3
    <3>3. PICK n \in Nat : n = failures + 1
      BY <3>2
    <3>4. /\ n # 0 /\ window' = window /\ failures > 0 /\ failures' = n
          /\ lock' = IF L!LockoutFor(n) > 0 THEN L!LockoutFor(n) ELSE lock
          /\ at' = [at EXCEPT ![x] = "free"]
      BY <3>1, <3>2, <3>3
    <3> HIDE DEF LockoutInv, LockTypes
    <3> QED BY <2>1, <3>3, <3>4, FailureCounted
  <2> QED BY <2>2, <2>3
<1>3. ASSUME NEW x \in Handlers, L!SetFirst(x) PROVE LockoutInv'
  <2>1. /\ x \in Attempting /\ at[x] = "first" /\ overlap' = overlap /\ window' = 15
        /\ at' = [at EXCEPT ![x] = "free"] /\ failures' = 1
        /\ lock' = IF L!LockoutFor(1) > 0 THEN L!LockoutFor(1) ELSE lock
    BY <1>3 DEF L!SetFirst, L!Count, L!AttemptWindow, Attempting
  <2> HIDE DEF LockoutInv, LockTypes
  <2>2. 1 \in Nat /\ 1 # 0
    OBVIOUS
  <2> QED BY <2>1, <2>2, FailureCounted
<1>4. ASSUME NEW x \in Handlers, L!ClearFailedAttempts(x) PROVE LockoutInv'
  <2>1. /\ x \in Attempting /\ at' = [at EXCEPT ![x] = "free"] /\ overlap' = overlap
        /\ failures' = 0 /\ window' = 0 /\ lock' = 0
    BY <1>4 DEF L!ClearFailedAttempts, Attempting
  <2>2. Attempting' = Attempting \ {x}
    BY <2>1 DEF Attempting
  <2>3. LockTypes'
    BY <2>1
  <2>4. FailuresBounded'
    <3>1. Cardinality(Attempting') = Cardinality(Attempting) - 1 /\ failures' = 0
      BY <2>1, <2>2, AttemptsCounted
    <3>2. Cardinality(Attempting) \in Nat /\ Cardinality(Handlers) \in Nat
      BY AttemptsCounted
    <3> QED BY <3>1, <3>2 DEF FailuresBounded
  <2>5. OneByOne' /\ WindowRunsOut'
    BY <2>1, <2>2 DEF OneByOne, WindowRunsOut
  <2> QED BY <2>3, <2>4, <2>5
<1>5. ASSUME L!Tick PROVE LockoutInv'
  <2>1. /\ at' = at /\ overlap' = overlap
        /\ window' = IF window > 0 THEN window - 1 ELSE 0
        /\ failures' = IF window =< 1 THEN 0 ELSE failures
        /\ lock' = IF lock > 0 THEN lock - 1 ELSE 0
    BY <1>5 DEF L!Tick
  <2>2. Attempting = {} /\ Attempting' = {}
    BY <1>5, <2>1 DEF L!Tick, Attempting
  <2>3. LockTypes'
    BY <2>1
  <2>4. Cardinality(Attempting) \in Nat /\ Cardinality(Handlers) \in Nat
    BY <2>2, FS_EmptySet, FS_CardinalityType, ProcessesAssumption
  <2>5. FailuresBounded'
    BY <2>1, <2>2, <2>4 DEF FailuresBounded
  <2>6. OneByOne'
    BY <2>2 DEF OneByOne
  <2>7. WindowRunsOut'
    BY <2>1 DEF WindowRunsOut
  <2> QED BY <2>3, <2>5, <2>6, <2>7
<1> QED BY <1>1, <1>2, <1>3, <1>4, <1>5 DEF L!Next

\* The invariant of the lockout holds whatever moves.
LEMMA LockoutStep == LockoutInv /\ (L!Next \/ UNCHANGED lockoutVars) => LockoutInv'
<1>1. LockoutInv /\ UNCHANGED lockoutVars => LockoutInv'
  BY DEF lockoutVars, LockoutInv, LockTypes, FailuresBounded, OneByOne, WindowRunsOut, Attempting
<1> QED BY <1>1, LockoutKept

\* What the invariant says of the lockout is what the property says.
LEMMA LockoutServes ==
    LockoutInv => L!TypeOK /\ L!SequentialCeiling /\ L!LockedMeansNotCompared
<1> SUFFICES ASSUME LockoutInv
             PROVE  L!TypeOK /\ L!SequentialCeiling /\ L!LockedMeansNotCompared
  OBVIOUS
<1> USE DEF LockoutInv, LockTypes
<1>1. L!Cardinality(Handlers) = Cardinality(Handlers)
  BY DEF Cardinality, L!Cardinality
<1>2. Cardinality(Handlers) \in Nat /\ Cardinality(Attempting) \in Nat
  <2>1. Attempting \subseteq Handlers
    BY DEF Attempting
  <2> QED BY <2>1, FS_Subset, FS_CardinalityType, ProcessesAssumption
<1>3. failures \in 0..21 + L!Cardinality(Handlers)
  BY <1>1, <1>2 DEF FailuresBounded
<1>4. L!TypeOK
  BY <1>3 DEF L!TypeOK, L!AttemptWindow
<1>5. L!SequentialCeiling
  BY DEF L!SequentialCeiling, WindowRunsOut
<1>6. L!LockedMeansNotCompared
  BY DEF L!LockedMeansNotCompared, OneByOne, Attempting
<1> QED BY <1>4, <1>5, <1>6

-----------------------------------------------------------------------------
(* The cached settings.                                                    *)

Rows == [{"cti_mode", "trial_plan_code"} -> {"v", "w"} \cup {S!Unset}]

SettingWork == {S!Free, [op |-> "invalidate"]} \cup [op : {"fill"}, rows : Rows]

\* The types, and what a stale entry is excused by.
SettingsInv ==
    /\ stored \in Rows
    /\ settingsCached = S!NoEntry \/ settingsCached \in Rows
    /\ settingsWork \in [Handlers -> SettingWork]
    /\ settingsRaced \in BOOLEAN
    /\ S!Stale => settingsRaced \/ \E h \in Handlers : settingsWork[h].op = "invalidate"

\* No row, and no entry.
LEMMA SettingsInit == S!Init => SettingsInv
<1> SUFFICES ASSUME S!Init PROVE SettingsInv
  OBVIOUS
<1>1. settingsRaced \in BOOLEAN /\ ~ S!Stale
  BY DEF S!Init, S!Stale
<1>2. stored \in Rows /\ settingsWork \in [Handlers -> SettingWork]
  BY DEF S!Init, Rows, SettingWork
<1> QED BY <1>1, <1>2 DEF S!Init, SettingsInv

\* Every step on the settings keeps their invariant.
LEMMA SettingsKept ==
    ASSUME SettingsInv, S!Next
    PROVE  SettingsInv'
<1> USE DEF SettingsInv
<1>0. S!Free.op = "free"
  BY DEF S!Free
<1>1. ASSUME NEW h \in Handlers, S!ReadRows(h) PROVE SettingsInv'
  <2>1. settingsWork' = [settingsWork EXCEPT ![h] = [op |-> "fill", rows |-> stored]]
        /\ UNCHANGED <<stored, settingsCached, settingsRaced>> /\ settingsCached = S!NoEntry
    BY <1>1 DEF S!ReadRows
  <2>2. settingsWork' \in [Handlers -> SettingWork]
    BY <2>1 DEF SettingWork
  <2> QED BY <2>1, <2>2 DEF S!Stale
<1>2. ASSUME NEW h \in Handlers, S!FillCache(h) PROVE SettingsInv'
  <2>1. settingsWork[h] \in [op : {"fill"}, rows : Rows]
    BY <1>0, <1>2 DEF S!FillCache, SettingWork
  <2>2. /\ settingsCached' = settingsWork[h].rows /\ settingsCached' \in Rows
        /\ settingsRaced' = (settingsWork[h].rows # stored)
        /\ settingsWork' = [settingsWork EXCEPT ![h] = S!Free] /\ stored' = stored
    BY <1>2, <2>1 DEF S!FillCache
  <2>3. settingsWork' \in [Handlers -> SettingWork]
    BY <2>2 DEF SettingWork
  <2>4. settingsRaced' \in BOOLEAN
    BY <2>2
  <2>5. S!Stale' => settingsRaced'
    BY <2>2 DEF S!Stale
  <2> QED BY <2>2, <2>3, <2>4, <2>5
<1>3. ASSUME NEW h \in Handlers, S!InvalidateCache(h) PROVE SettingsInv'
  <2>1. /\ settingsCached' = S!NoEntry /\ settingsRaced' = FALSE /\ stored' = stored
        /\ settingsWork' = [settingsWork EXCEPT ![h] = S!Free]
    BY <1>3 DEF S!InvalidateCache
  <2>2. settingsWork' \in [Handlers -> SettingWork]
    BY <2>1 DEF SettingWork
  <2>3. settingsRaced' \in BOOLEAN /\ ~ S!Stale'
    BY <2>1 DEF S!Stale, S!NoEntry
  <2> QED BY <2>1, <2>2, <2>3 DEF S!NoEntry
<1>4. ASSUME NEW h \in Handlers, S!Die(h) PROVE SettingsInv'
  <2>1. /\ settingsRaced' = (settingsRaced
             \/ (settingsWork[h].op = "invalidate" /\ settingsCached # S!NoEntry))
        /\ settingsWork' = [settingsWork EXCEPT ![h] = S!Free]
        /\ stored' = stored /\ settingsCached' = settingsCached
    BY <1>4 DEF S!Die
  <2>2. settingsWork' \in [Handlers -> SettingWork]
    BY <2>1 DEF SettingWork
  <2>3. settingsRaced' \in BOOLEAN
    BY <2>1
  <2>4. ASSUME S!Stale', ~ settingsRaced'
        PROVE  \E g \in Handlers : settingsWork'[g].op = "invalidate"
    <3>1. S!Stale /\ ~ settingsRaced /\ settingsWork[h].op # "invalidate"
      BY <2>1, <2>4 DEF S!Stale, S!NoEntry
    <3>2. PICK g \in Handlers : settingsWork[g].op = "invalidate"
      BY <3>1
    <3>3. settingsWork'[g] = settingsWork[g]
      BY <2>1, <3>1, <3>2
    <3> QED BY <3>2, <3>3
  <2> QED BY <2>1, <2>2, <2>3, <2>4 DEF S!NoEntry
<1>5. ASSUME NEW h \in Handlers, NEW k \in {"cti_mode", "trial_plan_code"},
             NEW v \in {"v", "w"} \cup {S!Unset}, S!WriteSetting(h, k, v)
      PROVE  SettingsInv'
  <2>1. /\ stored' = [stored EXCEPT ![k] = v]
        /\ settingsWork' = [settingsWork EXCEPT ![h] = [op |-> "invalidate"]]
        /\ settingsCached' = settingsCached /\ settingsRaced' = settingsRaced
    BY <1>5 DEF S!WriteSetting
  <2>2. stored' \in Rows
    BY <2>1 DEF Rows
  <2>3. settingsWork' \in [Handlers -> SettingWork]
    BY <2>1 DEF SettingWork
  <2>4. settingsWork'[h].op = "invalidate"
    BY <2>1
  <2> QED BY <2>1, <2>2, <2>3, <2>4 DEF S!NoEntry
<1>6. ASSUME S!EntryExpires PROVE SettingsInv'
  <2>1. /\ settingsCached' = S!NoEntry /\ settingsRaced' = FALSE
        /\ stored' = stored /\ settingsWork' = settingsWork
    BY <1>6 DEF S!EntryExpires
  <2>2. settingsRaced' \in BOOLEAN /\ ~ S!Stale'
    BY <2>1 DEF S!Stale, S!NoEntry
  <2> QED BY <2>1, <2>2 DEF S!NoEntry
<1> QED BY <1>1, <1>2, <1>3, <1>4, <1>5, <1>6 DEF S!Next

\* The invariant of the settings holds whatever moves.
LEMMA SettingsStep == SettingsInv /\ (S!Next \/ UNCHANGED settingsVars) => SettingsInv'
<1>1. SettingsInv /\ UNCHANGED settingsVars => SettingsInv'
  BY DEF settingsVars, SettingsInv, S!Stale, S!NoEntry
<1> QED BY <1>1, SettingsKept

\* What the invariant says of the settings is what the property says.
LEMMA SettingsServe == SettingsInv => S!TypeOK /\ S!FreshUnlessRaced
BY DEF SettingsInv, S!TypeOK, S!FreshUnlessRaced, SettingWork, Rows

-----------------------------------------------------------------------------
(* The jobs of the assistant.                                              *)

Works == {a, b}

DocRows == [status : {"none", "generating", "draft", "failed", "validated"},
            text : {"none", "written", "edited"}, version : Nat]

\* A worker that still has its answer to write, and one that has only its
\* conversation to touch and its job to mark.
Answering == {"mark", "call", "asked", "record", "save"}
Marking == {"touch", "done", "failed"}

TaskStates == {J!Idle} \cup [pc : Answering \cup Marking, j : Works, retries : 0..1]

Requests ==
    {J!Free} \cup [op : {"create"}, j : Works, version : Nat]
      \cup [op : {"publish", "compose", "edit"}, j : Works]

JobTypes ==
    /\ kind \in [Works -> J!Kinds]
    /\ used \in Nat /\ calls \in Nat /\ lost \in Nat
    /\ doc \in [Works -> DocRows]
    /\ job \in [Works -> {"none", "pending", "running", "done", "failed"}]
    /\ jobsQueue \subseteq Works \X (0..1)
    /\ jobsTask \in [Workers -> TaskStates]
    /\ req \in [Handlers -> Requests]
    /\ replies \in [Works -> Nat] /\ redelivered \in [Works -> 0..1]
    /\ again \in [Works -> Nat]
    /\ orphan \subseteq Works /\ jobsRaced \subseteq Works /\ early \subseteq Works
    /\ signed \in [Works -> {"none", "written", "edited"}]

\* Nothing is asked for.
LEMMA JobTypesInit == J!Init => JobTypes
<1> SUFFICES ASSUME J!Init PROVE JobTypes
  OBVIOUS
<1>1. kind \in [Works -> J!Kinds]
  <2>1. ASSUME NEW x \in J!Kinds, NEW y \in J!Kinds PROVE OfKinds(x, y) \in [Works -> J!Kinds]
    BY DEF OfKinds, Works
  <2>2. {"charter", "reply", "synthesis", "composed", "nothing"} \subseteq J!Kinds
    BY DEF J!Kinds
  <2> QED BY <2>1, <2>2 DEF J!Init, Mixes
<1>2. J!NoDoc \in DocRows
  BY DEF J!NoDoc, DocRows
<1>3. doc \in [Works -> DocRows]
  BY <1>2 DEF J!Init, Works
<1>4. jobsTask \in [Workers -> TaskStates] /\ req \in [Handlers -> Requests]
  BY DEF J!Init, TaskStates, Requests
<1>5. /\ job \in [Works -> {"none", "pending", "running", "done", "failed"}]
      /\ replies \in [Works -> Nat] /\ redelivered \in [Works -> 0..1] /\ again \in [Works -> Nat]
      /\ signed \in [Works -> {"none", "written", "edited"}]
  BY DEF J!Init, Works
<1> QED BY <1>1, <1>3, <1>4, <1>5 DEF J!Init, JobTypes

\* A worker that goes on keeps its message.
LEMMA TaskGoesOn ==
    ASSUME jobsTask \in [Workers -> TaskStates], NEW w \in Workers, jobsTask[w] # J!Idle,
           NEW pc \in Answering \cup Marking, J!Goto(w, pc)
    PROVE  /\ jobsTask' \in [Workers -> TaskStates]
           /\ \A x \in Workers \ {w} : jobsTask'[x] = jobsTask[x]
           /\ jobsTask'[w].pc = pc /\ jobsTask'[w].j = jobsTask[w].j
           /\ jobsTask'[w].retries = jobsTask[w].retries
<1>1. jobsTask[w] \in [pc : Answering \cup Marking, j : Works, retries : 0..1]
  BY DEF TaskStates
<1>2. [jobsTask[w] EXCEPT !.pc = pc] \in [pc : Answering \cup Marking, j : Works, retries : 0..1]
  BY <1>1
<1>3. jobsTask' = [jobsTask EXCEPT ![w] = [jobsTask[w] EXCEPT !.pc = pc]]
  BY DEF J!Goto
<1> QED BY <1>1, <1>2, <1>3 DEF TaskStates

\* A worker that is not idle holds a message.
LEMMA HeldMessage ==
    ASSUME jobsTask \in [Workers -> TaskStates], NEW w \in Workers
    PROVE  /\ jobsTask[w].pc \in Answering \cup Marking => jobsTask[w] # J!Idle
           /\ jobsTask[w] # J!Idle =>
                /\ jobsTask[w].pc \in Answering \cup Marking
                /\ jobsTask[w].j \in Works /\ jobsTask[w].retries \in 0..1
BY DEF TaskStates, J!Idle, Answering, Marking

\* A worker that has saved its answer has only to touch the conversation or to mark the job.
LEMMA SavedThen ==
    ASSUME NEW w \in Workers, J!SaveResult(w)
    PROVE  jobsTask[w] # J!Idle /\ \E pc \in Marking : J!Goto(w, pc)
<1>1. jobsTask[w].pc = "save" /\ (J!Goto(w, "touch") \/ J!Goto(w, "done"))
  BY DEF J!SaveResult
<1> QED BY <1>1 DEF Marking, J!Idle

\* A request that is being served holds what it has read.
LEMMA HeldRequest ==
    ASSUME req \in [Handlers -> Requests], NEW h \in Handlers
    PROVE  /\ req[h].op = "create" => req[h].j \in Works /\ req[h].version \in Nat
           /\ req[h].op \in {"publish", "compose", "edit"} => req[h].j \in Works
           /\ req[h].op \in {"free", "create", "publish", "compose", "edit"}
           /\ req[h].op = "free" <=> req[h] = J!Free
BY DEF Requests, J!Free

\* The types after each step of a request.
LEMMA RequestTypes ==
    ASSUME JobTypes,
           \/ \E h \in Handlers : J!Serve(h) \/ J!RequestDies(h)
                \/ \E j \in Works : J!BeginDocument(h, j) \/ J!BeginEdit(h, j)
           \/ \E j \in Works : J!AskReply(j) \/ J!ValidateDocument(j),
           J!Latest \in Nat
    PROVE  JobTypes'
<1> USE DEF JobTypes
<1>1. ASSUME NEW h \in Handlers, NEW j \in Works, J!BeginDocument(h, j) PROVE JobTypes'
  <2>1. J!NextDocumentVersion \in Nat
    BY DEF J!NextDocumentVersion
  <2>2. req' \in [Handlers -> Requests]
    BY <1>1, <2>1 DEF J!BeginDocument, Requests
  <2> QED BY <1>1, <2>2 DEF J!BeginDocument, J!History
<1>2. ASSUME NEW h \in Handlers, J!CreateRow(h) PROVE JobTypes'
  <2>1. req[h].j \in Works /\ req[h].version \in Nat
    BY <1>2, HeldRequest DEF J!CreateRow
  <2>2. doc' \in [Works -> DocRows]
    BY <1>2, <2>1 DEF J!CreateRow, DocRows
  <2>3. req' \in [Handlers -> Requests]
    BY <1>2, <2>1 DEF J!CreateRow, Requests
  <2> QED BY <1>2, <2>1, <2>2, <2>3 DEF J!CreateRow
<1>3. ASSUME NEW h \in Handlers, J!PublishDocument(h) PROVE JobTypes'
  <2>1. req[h].j \in Works
    BY <1>3, HeldRequest DEF J!PublishDocument
  <2>2. req' \in [Handlers -> Requests]
    BY <1>3 DEF J!PublishDocument, Requests
  <2>3. jobsQueue' \subseteq Works \X (0..1)
    BY <1>3, <2>1 DEF J!PublishDocument
  <2> QED BY <1>3, <2>1, <2>2, <2>3 DEF J!PublishDocument
<1>4. ASSUME NEW h \in Handlers, J!ComposeDocument(h) PROVE JobTypes'
  <2>1. req[h].j \in Works
    BY <1>4, HeldRequest DEF J!ComposeDocument
  <2>2. doc' \in [Works -> DocRows]
    BY <1>4, <2>1 DEF J!ComposeDocument, DocRows
  <2>3. req' \in [Handlers -> Requests]
    BY <1>4 DEF J!ComposeDocument, Requests
  <2> QED BY <1>4, <2>2, <2>3 DEF J!ComposeDocument, J!History
<1>5. ASSUME NEW h \in Handlers, J!UpdateDocumentContent(h) PROVE JobTypes'
  <2>1. req[h].j \in Works
    BY <1>5, HeldRequest DEF J!UpdateDocumentContent
  <2>2. doc' \in [Works -> DocRows]
    BY <1>5, <2>1 DEF J!UpdateDocumentContent, DocRows
  <2>3. req' \in [Handlers -> Requests]
    BY <1>5 DEF J!UpdateDocumentContent, Requests
  <2> QED BY <1>5, <2>2, <2>3 DEF J!UpdateDocumentContent, J!History
<1>6. ASSUME NEW h \in Handlers, NEW j \in Works, J!BeginEdit(h, j) PROVE JobTypes'
  <2>1. req' \in [Handlers -> Requests]
    BY <1>6 DEF J!BeginEdit, Requests
  <2> QED BY <1>6, <2>1 DEF J!BeginEdit, J!History
<1>7. ASSUME NEW h \in Handlers, J!RequestDies(h) PROVE JobTypes'
  <2>1. req' \in [Handlers -> Requests]
    BY <1>7 DEF J!RequestDies, Requests
  <2>2. orphan' \subseteq Works
    BY <1>7, HeldRequest DEF J!RequestDies
  <2> QED BY <1>7, <2>1, <2>2 DEF J!RequestDies
<1>8. ASSUME NEW j \in Works, J!AskReply(j) PROVE JobTypes'
  BY <1>8 DEF J!AskReply
<1>9. ASSUME NEW j \in Works, J!ValidateDocument(j) PROVE JobTypes'
  <2>1. doc' \in [Works -> DocRows]
    BY <1>9 DEF J!ValidateDocument, DocRows
  <2>2. signed' \in [Works -> {"none", "written", "edited"}]
    BY <1>9 DEF J!ValidateDocument, DocRows
  <2>3. early' \subseteq Works
    BY <1>9 DEF J!ValidateDocument
  <2> QED BY <1>9, <2>1, <2>2, <2>3 DEF J!ValidateDocument
<1> QED BY <1>1, <1>2, <1>3, <1>4, <1>5, <1>6, <1>7, <1>8, <1>9 DEF J!Serve

\* The types after each step of a worker.
LEMMA WorkerTypes ==
    ASSUME JobTypes, NEW w \in Workers, J!Work(w) \/ J!Redeliver(w)
    PROVE  JobTypes'
<1> USE DEF JobTypes
<1>0. J!Idle \in TaskStates
  BY DEF TaskStates
<1>1. ASSUME NEW m \in jobsQueue, J!Receive(w, m) PROVE JobTypes'
  <2>1. [pc |-> "mark", j |-> m[1], retries |-> m[2]] \in TaskStates
    BY DEF TaskStates, Answering
  <2>2. jobsTask' \in [Workers -> TaskStates]
    BY <1>1, <2>1 DEF J!Receive
  <2> QED BY <1>1, <2>2 DEF J!Receive, J!History
<1>2. ASSUME J!MarkJobRunning(w) PROVE JobTypes'
  <2>1. jobsTask[w] # J!Idle /\ J!Goto(w, "call") /\ "call" \in Answering
    BY <1>2 DEF J!MarkJobRunning, J!Idle, Answering
  <2>2. jobsTask' \in [Workers -> TaskStates] /\ jobsTask[w].j \in Works
    BY <2>1, TaskGoesOn, HeldMessage
  <2> QED BY <1>2, <2>2 DEF J!MarkJobRunning, J!History
<1>3. ASSUME J!Call(w) PROVE JobTypes'
  <2>1. jobsTask[w] # J!Idle /\ J!Goto(w, "asked") /\ "asked" \in Answering
    BY <1>3 DEF J!Call, J!Idle, Answering
  <2>2. jobsTask' \in [Workers -> TaskStates]
    BY <2>1, TaskGoesOn
  <2> QED BY <1>3, <2>2 DEF J!Call
<1>4. ASSUME J!RecordUsage(w) PROVE JobTypes'
  <2>1. jobsTask[w] # J!Idle /\ J!Goto(w, "save") /\ "save" \in Answering
    BY <1>4 DEF J!RecordUsage, J!Idle, Answering
  <2>2. jobsTask' \in [Workers -> TaskStates]
    BY <2>1, TaskGoesOn
  <2> QED BY <1>4, <2>2 DEF J!RecordUsage, J!History
<1>5. ASSUME J!SaveResult(w) PROVE JobTypes'
  <2>1. PICK pc \in Marking : jobsTask[w] # J!Idle /\ J!Goto(w, pc)
    BY <1>5, SavedThen
  <2>2. jobsTask' \in [Workers -> TaskStates] /\ jobsTask[w].j \in Works
    BY <2>1, TaskGoesOn, HeldMessage
  <2>3. doc' \in [Works -> DocRows]
    BY <1>5, <2>2 DEF J!SaveResult, DocRows
  <2>4. replies' \in [Works -> Nat]
    BY <1>5, <2>2 DEF J!SaveResult
  <2> QED BY <1>5, <2>2, <2>3, <2>4 DEF J!SaveResult, J!History
<1>6. ASSUME J!MarkJobDone(w) PROVE JobTypes'
  <2>1. jobsTask' \in [Workers -> TaskStates]
    BY <1>0, <1>6 DEF J!MarkJobDone
  <2> QED BY <1>6, <2>1 DEF J!MarkJobDone, J!History
<1>7. ASSUME J!MarkJobFailed(w) PROVE JobTypes'
  <2>1. jobsTask' \in [Workers -> TaskStates]
    BY <1>0, <1>7 DEF J!MarkJobFailed
  <2> QED BY <1>7, <2>1 DEF J!MarkJobFailed, J!History
<1>8. ASSUME J!Fail(w) PROVE JobTypes'
  <2>1. jobsTask[w] # J!Idle /\ "failed" \in Marking
    BY <1>8 DEF J!Fail, J!MayFail, J!Idle, Marking
  <2>2. jobsTask[w].j \in Works /\ jobsTask[w].retries \in 0..1
    BY <2>1, HeldMessage
  <2>3. jobsTask' \in [Workers -> TaskStates]
    <3>1. CASE J!MayRetry(w)
      BY <1>0, <1>8, <3>1 DEF J!Fail
    <3>2. CASE ~ J!MayRetry(w)
      BY <1>8, <2>1, <3>2, TaskGoesOn DEF J!Fail
    <3> QED BY <3>1, <3>2
  <2>4. jobsQueue' \subseteq Works \X (0..1)
    BY <1>8, <2>2 DEF J!Fail, J!MayRetry
  <2>5. doc' \in [Works -> DocRows]
    <3>1. doc' = doc \/ doc' = [doc EXCEPT ![jobsTask[w].j].status = "failed"]
      BY <1>8 DEF J!Fail
    <3> QED BY <2>2, <3>1 DEF DocRows
  <2>6. lost' \in Nat
    BY <1>8 DEF J!Fail
  <2>7. again' \in [Works -> Nat]
    BY <1>8, <2>2 DEF J!Fail
  <2> QED BY <1>8, <2>3, <2>4, <2>5, <2>6, <2>7 DEF J!Fail
<1>9. ASSUME J!Redeliver(w) PROVE JobTypes'
  <2>1. jobsTask[w].j \in Works /\ jobsTask[w].retries \in 0..1
    BY <1>9, HeldMessage DEF J!Redeliver
  <2>2. jobsTask' \in [Workers -> TaskStates]
    BY <1>0, <1>9 DEF J!Redeliver
  <2>3. redelivered' \in [Works -> 0..1]
    BY <1>9, <2>1 DEF J!Redeliver
  <2>4. lost' \in Nat
    BY <1>9 DEF J!Redeliver
  <2> QED BY <1>9, <2>1, <2>2, <2>3, <2>4 DEF J!Redeliver
<1>10. ASSUME J!Answer(w) \/ J!TouchConversation(w) PROVE JobTypes'
  <2>1. PICK pc \in Answering \cup Marking : jobsTask[w] # J!Idle /\ J!Goto(w, pc)
    BY <1>10 DEF J!Answer, J!TouchConversation, J!Idle, Answering, Marking
  <2>2. jobsTask' \in [Workers -> TaskStates]
    BY <2>1, TaskGoesOn
  <2> QED BY <1>10, <2>2 DEF J!Answer, J!TouchConversation, J!History
<1> QED BY <1>1, <1>2, <1>3, <1>4, <1>5, <1>6, <1>7, <1>8, <1>9, <1>10 DEF J!Work

\* Max is the greatest of the versions.
LEMMA LatestVersion ==
    ASSUME JobTypes
    PROVE  J!Latest \in Nat /\ \A j \in J!Documents : doc[j].version =< J!Latest
<1> DEFINE versions == {0} \cup {doc[j].version : j \in J!Documents}
<1>1. J!Documents \subseteq Works /\ \A j \in J!Documents : doc[j].version \in Nat
  BY DEF JobTypes, DocRows, J!Documents, Works
<1>2. \E x \in versions : \A y \in versions : x >= y
  <2> DEFINE va == IF a \in J!Documents THEN doc[a].version ELSE 0
             vb == IF b \in J!Documents THEN doc[b].version ELSE 0
  <2>1. va \in versions /\ vb \in versions /\ va \in Nat /\ vb \in Nat
    BY <1>1
  <2>2. \A y \in versions : y = 0 \/ y = va \/ y = vb
    BY <1>1 DEF Works
  <2> HIDE DEF versions, va, vb
  <2> QED BY <2>1, <2>2
<1>3. versions \subseteq Nat
  BY <1>1
<1>4. J!Latest = J!Max(versions)
  BY DEF J!Latest
<1> HIDE DEF versions
<1>5. J!Max(versions) \in versions /\ \A y \in versions : J!Max(versions) >= y
  BY <1>2 DEF J!Max
<1>6. \A j \in J!Documents : doc[j].version \in versions
  BY DEF versions
<1> QED BY <1>1, <1>3, <1>4, <1>5, <1>6

\* Who holds what: a document that is about to be created is held by one request and
\* has no job; one whose job was not published has none; only what has a job has a message.
Owned ==
    /\ \A h \in Handlers : req[h].op = "create" =>
         /\ ~ J!Asked(req[h].j) /\ J!HasDocument(req[h].j)
         /\ \A x \in Handlers \ {h} : req[x].op = "create" => req[x].j # req[h].j
    /\ \A h \in Handlers : req[h].op \in {"publish", "compose", "edit"} =>
         doc[req[h].j].status # "none"
    /\ \A h \in Handlers : req[h].op = "publish" =>
         /\ job[req[h].j] = "none" /\ kind[req[h].j] = "charter"
         /\ \A x \in Handlers \ {h} : req[x].op = "publish" => req[x].j # req[h].j
    /\ \A j \in Works : doc[j].status # "none" => J!HasDocument(j)
    /\ \A j \in Works : job[j] # "none" /\ J!HasDocument(j) => doc[j].status # "none"
    /\ \A m \in jobsQueue : job[m[1]] # "none"
    /\ \A w \in Workers : jobsTask[w] # J!Idle => job[jobsTask[w].j] # "none"

\* Nobody owns anything at first.
LEMMA OwnedInit == J!Init => Owned
<1> SUFFICES ASSUME J!Init PROVE Owned
  OBVIOUS
<1>1. \A h \in Handlers : req[h].op = "free"
  BY DEF J!Init, J!Free
<1>2. \A j \in Works : doc[j].status = "none" /\ job[j] = "none"
  BY DEF J!Init, J!NoDoc, Works
<1>3. jobsQueue = {} /\ \A w \in Workers : jobsTask[w] = J!Idle
  BY DEF J!Init
<1> QED BY <1>1, <1>2, <1>3 DEF Owned

\* What a request does to what is owned.
LEMMA RequestOwns ==
    ASSUME JobTypes, Owned,
           \/ \E h \in Handlers : J!Serve(h) \/ J!RequestDies(h)
                \/ \E j \in Works : J!BeginDocument(h, j) \/ J!BeginEdit(h, j)
           \/ \E j \in Works : J!AskReply(j) \/ J!ValidateDocument(j)
    PROVE  Owned'
<1>0. /\ req \in [Handlers -> Requests] /\ doc \in [Works -> DocRows]
      /\ job \in [Works -> {"none", "pending", "running", "done", "failed"}]
      /\ jobsQueue \subseteq Works \X (0..1) /\ jobsTask \in [Workers -> TaskStates]
      /\ \A w \in Workers : jobsTask[w] # J!Idle => jobsTask[w].j \in Works
  BY HeldMessage DEF JobTypes
<1> USE DEF Owned, J!Asked, J!HasDocument
<1>1. ASSUME NEW h \in Handlers, NEW j \in Works, J!BeginDocument(h, j) PROVE Owned'
  <2>1. /\ ~ J!Asked(j) /\ J!HasDocument(j)
        /\ \A x \in Handlers : req[x].op = "create" => req[x].j # j
        /\ UNCHANGED <<kind, doc, job, jobsQueue, jobsTask>>
        /\ req' = [req EXCEPT ![h] = [op |-> "create", j |-> j, version |-> J!NextDocumentVersion]]
    BY <1>1 DEF J!BeginDocument
  <2>2. /\ req'[h].op = "create" /\ req'[h].j = j
        /\ \A x \in Handlers \ {h} : req'[x] = req[x]
    BY <1>0, <2>1
  <2> QED BY <2>1, <2>2
<1>2. ASSUME NEW h \in Handlers, J!CreateRow(h) PROVE Owned'
  <2> DEFINE j == req[h].j
  <2>1. j \in Works /\ req[h].op = "create" /\ ~ J!Asked(j) /\ J!HasDocument(j)
    BY <1>0, <1>2, HeldRequest DEF J!CreateRow
  <2>2. /\ UNCHANGED <<kind, job, jobsQueue, jobsTask>>
        /\ doc' = [doc EXCEPT ![j] = [status |-> "generating", text |-> "none",
                                      version |-> req[h].version]]
        /\ req' = [req EXCEPT ![h] = [op |-> IF kind[j] = "charter" THEN "publish" ELSE "compose",
                                      j |-> j]]
    BY <1>2 DEF J!CreateRow
  <2>3. /\ req'[h].op = (IF kind[j] = "charter" THEN "publish" ELSE "compose") /\ req'[h].j = j
        /\ \A x \in Handlers \ {h} : req'[x] = req[x]
    BY <1>0, <2>2
  <2>4. doc'[j].status = "generating" /\ \A i \in Works \ {j} : doc'[i] = doc[i]
    BY <1>0, <2>1, <2>2
  <2>5. \A x \in Handlers : req[x].op \in {"publish", "compose", "edit"} => req[x].j \in Works \ {j}
    BY <1>0, <2>1, HeldRequest
  <2>6. \A x \in Handlers \ {h} : req[x].op = "create" => req[x].j \in Works \ {j}
    BY <1>0, <2>1, HeldRequest
  <2> HIDE DEF j
  <2> QED BY <2>1, <2>2, <2>3, <2>4, <2>5, <2>6
<1>3. ASSUME NEW h \in Handlers, J!PublishDocument(h) PROVE Owned'
  <2> DEFINE j == req[h].j
  <2>1. j \in Works /\ req[h].op = "publish" /\ doc[j].status # "none"
    BY <1>0, <1>3, HeldRequest DEF J!PublishDocument
  <2>2. /\ UNCHANGED <<kind, doc, jobsTask>>
        /\ job' = [job EXCEPT ![j] = "pending"] /\ req' = [req EXCEPT ![h] = J!Free]
        /\ jobsQueue' \subseteq jobsQueue \cup {<<j, 0>>}
    BY <1>3 DEF J!PublishDocument
  <2>3. /\ req'[h].op = "free" /\ \A x \in Handlers \ {h} : req'[x] = req[x]
        /\ job'[j] = "pending" /\ \A i \in Works \ {j} : job'[i] = job[i]
    BY <1>0, <2>1, <2>2 DEF J!Free
  <2>4. \A x \in Handlers : req[x].op = "create" => req[x].j \in Works \ {j}
    BY <1>0, <2>1, HeldRequest
  <2>5. \A x \in Handlers \ {h} : req[x].op = "publish" => req[x].j \in Works \ {j}
    BY <1>0, <2>1, HeldRequest
  <2>6. \A m \in jobsQueue' : m[1] \in Works /\ job'[m[1]] # "none"
    BY <1>0, <2>1, <2>2, <2>3
  <2> HIDE DEF j
  <2> QED BY <1>0, <2>1, <2>2, <2>3, <2>4, <2>5, <2>6
<1>4. ASSUME NEW h \in Handlers, J!ComposeDocument(h) \/ J!UpdateDocumentContent(h) PROVE Owned'
  <2> DEFINE j == req[h].j
  <2>1. j \in Works /\ doc[j].status # "none"
    BY <1>0, <1>4, HeldRequest DEF J!ComposeDocument, J!UpdateDocumentContent
  <2>2. /\ UNCHANGED <<kind, job, jobsQueue, jobsTask>> /\ req' = [req EXCEPT ![h] = J!Free]
        /\ \A i \in Works : doc'[i].status # "none" <=> doc[i].status # "none"
    BY <1>0, <1>4, <2>1 DEF J!ComposeDocument, J!UpdateDocumentContent, DocRows
  <2>3. req'[h].op = "free" /\ \A x \in Handlers \ {h} : req'[x] = req[x]
    BY <1>0, <2>2 DEF J!Free
  <2>4. \A x \in Handlers : req[x].op \in {"create", "publish", "compose", "edit"} => req[x].j \in Works
    BY <1>0, HeldRequest
  <2> HIDE DEF j
  <2> QED BY <2>2, <2>3, <2>4
<1>5. ASSUME NEW h \in Handlers, NEW j \in Works, J!BeginEdit(h, j) PROVE Owned'
  <2>1. /\ UNCHANGED <<kind, doc, job, jobsQueue, jobsTask>> /\ doc[j].status # "none"
        /\ req' = [req EXCEPT ![h] = [op |-> "edit", j |-> j]]
    BY <1>5 DEF J!BeginEdit, J!Documents
  <2>2. /\ req'[h].op = "edit" /\ req'[h].j = j
        /\ \A x \in Handlers \ {h} : req'[x] = req[x]
    BY <1>0, <2>1
  <2> QED BY <2>1, <2>2
<1>6. ASSUME NEW h \in Handlers, J!RequestDies(h) PROVE Owned'
  <2>1. /\ UNCHANGED <<kind, doc, job, jobsQueue, jobsTask>>
        /\ req' = [req EXCEPT ![h] = J!Free]
    BY <1>6 DEF J!RequestDies
  <2>2. req'[h].op = "free" /\ \A x \in Handlers \ {h} : req'[x] = req[x]
    BY <1>0, <2>1 DEF J!Free
  <2> QED BY <2>1, <2>2
<1>7. ASSUME NEW j \in Works, J!AskReply(j) PROVE Owned'
  <2>1. /\ UNCHANGED <<kind, doc, jobsTask, req>> /\ ~ J!HasDocument(j)
        /\ job' = [job EXCEPT ![j] = "pending"]
        /\ jobsQueue' \subseteq jobsQueue \cup {<<j, 0>>}
    BY <1>7 DEF J!AskReply
  <2>2. job'[j] = "pending" /\ \A i \in Works \ {j} : job'[i] = job[i]
    BY <1>0, <2>1
  <2>3. \A x \in Handlers : req[x].op \in {"create", "publish"} => req[x].j \in Works \ {j}
    BY <1>0, <2>1, HeldRequest
  <2>4. \A m \in jobsQueue' : m[1] \in Works /\ job'[m[1]] # "none"
    BY <1>0, <2>1, <2>2
  <2> QED BY <1>0, <2>1, <2>2, <2>3, <2>4
<1>8. ASSUME NEW j \in Works, J!ValidateDocument(j) PROVE Owned'
  <2>1. /\ UNCHANGED <<kind, job, jobsQueue, jobsTask, req>>
        /\ \A i \in Works : doc'[i].status # "none" <=> doc[i].status # "none"
    BY <1>0, <1>8 DEF J!ValidateDocument, J!Documents, DocRows
  <2>2. \A x \in Handlers : req[x].op \in {"create", "publish", "compose", "edit"} => req[x].j \in Works
    BY <1>0, HeldRequest
  <2> QED BY <2>1, <2>2
<1> QED BY <1>1, <1>2, <1>3, <1>4, <1>5, <1>6, <1>7, <1>8 DEF J!Serve

\* What a worker does to what is owned.
LEMMA WorkerOwns ==
    ASSUME JobTypes, Owned, NEW w \in Workers, J!Work(w) \/ J!Redeliver(w)
    PROVE  Owned'
<1>0. /\ req \in [Handlers -> Requests] /\ doc \in [Works -> DocRows]
      /\ job \in [Works -> {"none", "pending", "running", "done", "failed"}]
      /\ jobsQueue \subseteq Works \X (0..1) /\ jobsTask \in [Workers -> TaskStates]
      /\ \A x \in Workers : jobsTask[x] # J!Idle => jobsTask[x].j \in Works
      /\ \A x \in Handlers : req[x].op \in {"create", "publish", "compose", "edit"} =>
           req[x].j \in Works
  BY HeldMessage, HeldRequest DEF JobTypes
<1> DEFINE j == jobsTask[w].j
\* Whatever becomes of its message, a job that was asked for stays so, and no row appears.
<1>1. ASSUME kind' = kind, req' = req,
             \A i \in Works : doc'[i].status # "none" <=> doc[i].status # "none",
             \A i \in Works : job'[i] # "none" <=> job[i] # "none",
             \A m \in jobsQueue' : m \in jobsQueue \/ (m[1] \in Works /\ job[m[1]] # "none"),
             \A x \in Workers : jobsTask'[x] # J!Idle =>
               jobsTask'[x].j \in Works /\ job[jobsTask'[x].j] # "none"
      PROVE  Owned'
  <2>1. ASSUME NEW h \in Handlers, req[h].op \in {"create", "publish"}
        PROVE  job'[req[h].j] # "none" <=> job[req[h].j] # "none"
    BY <1>0, <1>1, <2>1
  <2>2. ASSUME NEW m \in jobsQueue' PROVE job'[m[1]] # "none"
    BY <1>0, <1>1 DEF Owned
  <2>3. ASSUME NEW x \in Workers, jobsTask'[x] # J!Idle PROVE job'[jobsTask'[x].j] # "none"
    BY <1>0, <1>1, <2>3
  <2>4. ASSUME NEW i \in Works PROVE J!HasDocument(i)' <=> J!HasDocument(i)
    BY <1>1 DEF J!HasDocument
  <2>5. ASSUME NEW i \in Works PROVE J!Asked(i)' <=> J!Asked(i)
    BY <1>1 DEF J!Asked
  <2>6. \A h \in Handlers : req[h].op = "create" =>
             /\ ~ J!Asked(req[h].j)' /\ J!HasDocument(req[h].j)'
             /\ \A x \in Handlers \ {h} : req[x].op = "create" => req[x].j # req[h].j
    <3>1. \A h \in Handlers : req[h].op = "create" => req[h].j \in Works
      BY <1>0
    <3>2. \A h \in Handlers : req'[h] = req[h]
      BY <1>1
    <3>3. \A h \in Handlers : req[h].op = "create" =>
             /\ doc'[req[h].j].status = "none" /\ job'[req[h].j] = "none"
             /\ kind'[req[h].j] \in {"charter", "composed"}
      BY <1>1, <3>1 DEF Owned, J!Asked, J!HasDocument
    <3> QED BY <1>1, <3>3 DEF Owned, J!Asked, J!HasDocument
  <2>7. \A h \in Handlers : req'[h].op \in {"publish", "compose", "edit"} =>
             doc'[req'[h].j].status # "none"
    BY <1>0, <1>1 DEF Owned
  <2>8. \A h \in Handlers : req'[h].op = "publish" =>
             /\ job'[req'[h].j] = "none" /\ kind'[req'[h].j] = "charter"
             /\ \A x \in Handlers \ {h} : req'[x].op = "publish" => req'[x].j # req'[h].j
    BY <1>0, <1>1, <2>1 DEF Owned
  <2>9. /\ \A i \in Works : doc'[i].status # "none" => J!HasDocument(i)'
        /\ \A i \in Works : job'[i] # "none" /\ J!HasDocument(i)' => doc'[i].status # "none"
    BY <1>1, <2>4 DEF Owned
  <2> QED BY <1>1, <2>2, <2>3, <2>6, <2>7, <2>8, <2>9 DEF Owned, J!Asked, J!HasDocument
<1>2. ASSUME NEW m \in jobsQueue, J!Receive(w, m) PROVE Owned'
  <2>1. /\ UNCHANGED <<kind, req, doc, job>> /\ jobsQueue' \subseteq jobsQueue
        /\ jobsTask' = jobsTask
           \/ jobsTask' = [jobsTask EXCEPT ![w] = [pc |-> "mark", j |-> m[1], retries |-> m[2]]]
    BY <1>2 DEF J!Receive
  <2>2. m[1] \in Works /\ job[m[1]] # "none"
    BY <1>0 DEF Owned
  <2>3. \A x \in Workers : jobsTask'[x] = jobsTask[x] \/ jobsTask'[x].j = m[1]
    BY <1>0, <2>1
  <2>4. \A x \in Workers : jobsTask'[x] # J!Idle =>
          jobsTask'[x].j \in Works /\ job[jobsTask'[x].j] # "none"
    BY <1>0, <2>2, <2>3 DEF Owned
  <2> QED BY <1>1, <2>1, <2>4
<1>3. ASSUME jobsTask[w] # J!Idle
      PROVE  /\ j \in Works /\ job[j] # "none"
             /\ J!HasDocument(j) => doc[j].status # "none"
  BY <1>0, <1>3 DEF Owned
<1>4. ASSUME jobsTask[w] # J!Idle, NEW pc \in Answering \cup Marking, J!Goto(w, pc)
      PROVE  \A x \in Workers : jobsTask'[x] # J!Idle =>
               jobsTask'[x].j \in Works /\ job[jobsTask'[x].j] # "none"
  BY <1>0, <1>4, TaskGoesOn DEF Owned
<1>5. ASSUME jobsTask' = [jobsTask EXCEPT ![w] = J!Idle] \/ jobsTask' = jobsTask
      PROVE  \A x \in Workers : jobsTask'[x] # J!Idle =>
               jobsTask'[x].j \in Works /\ job[jobsTask'[x].j] # "none"
  BY <1>0, <1>5 DEF Owned
<1>6. ASSUME J!MarkJobRunning(w) PROVE Owned'
  <2>1. jobsTask[w] # J!Idle /\ J!Goto(w, "call") /\ "call" \in Answering
        /\ UNCHANGED <<kind, req, doc, jobsQueue>> /\ job' = [job EXCEPT ![j] = "running"]
    BY <1>6 DEF J!MarkJobRunning, J!Idle, Answering
  <2>2. \A i \in Works : job'[i] # "none" <=> job[i] # "none"
    BY <1>0, <1>3, <2>1
  <2>3. \A x \in Workers : jobsTask'[x] # J!Idle =>
               jobsTask'[x].j \in Works /\ job[jobsTask'[x].j] # "none"
    BY <1>4, <2>1
  <2> QED BY <1>1, <2>1, <2>2, <2>3
<1>7. ASSUME J!Call(w) \/ J!Answer(w) \/ J!RecordUsage(w) \/ J!TouchConversation(w) PROVE Owned'
  <2>1. /\ jobsTask[w] # J!Idle /\ UNCHANGED <<kind, req, doc, job, jobsQueue>>
        /\ \E pc \in Answering \cup Marking : J!Goto(w, pc)
    BY <1>7 DEF J!Call, J!Answer, J!RecordUsage, J!TouchConversation, J!Idle, Answering, Marking
  <2>3. \A x \in Workers : jobsTask'[x] # J!Idle =>
               jobsTask'[x].j \in Works /\ job[jobsTask'[x].j] # "none"
    BY <1>4, <2>1
  <2> QED BY <1>1, <2>1, <2>3
<1>8. ASSUME J!SaveResult(w) PROVE Owned'
  <2>1. /\ jobsTask[w] # J!Idle /\ UNCHANGED <<kind, req, job, jobsQueue>>
        /\ \E pc \in Marking : J!Goto(w, pc)
        /\ doc' = IF J!HasDocument(j) THEN [doc EXCEPT ![j].status = "draft", ![j].text = "written"]
                  ELSE doc
    BY <1>8, SavedThen DEF J!SaveResult
  <2>2. \A i \in Works : doc'[i].status # "none" <=> doc[i].status # "none"
    BY <1>0, <1>3, <2>1 DEF DocRows
  <2>3. \A x \in Workers : jobsTask'[x] # J!Idle =>
               jobsTask'[x].j \in Works /\ job[jobsTask'[x].j] # "none"
    BY <1>4, <2>1
  <2> QED BY <1>1, <2>1, <2>2, <2>3
<1>9. ASSUME J!MarkJobDone(w) \/ J!MarkJobFailed(w) PROVE Owned'
  <2>1. /\ jobsTask[w] # J!Idle /\ UNCHANGED <<kind, req, doc, jobsQueue>>
        /\ jobsTask' = [jobsTask EXCEPT ![w] = J!Idle]
        /\ job' = [job EXCEPT ![j] = "done"] \/ job' = [job EXCEPT ![j] = "failed"]
    BY <1>9 DEF J!MarkJobDone, J!MarkJobFailed, J!Idle
  <2>2. \A i \in Works : job'[i] # "none" <=> job[i] # "none"
    BY <1>0, <1>3, <2>1
  <2> QED BY <1>1, <1>5, <2>1, <2>2
<1>10. ASSUME J!Fail(w) PROVE Owned'
  <2>1. jobsTask[w] # J!Idle /\ "failed" \in Marking
    BY <1>10 DEF J!Fail, J!MayFail, J!Idle, Marking
  <2>2. /\ UNCHANGED <<kind, req, job>>
        /\ jobsTask' = [jobsTask EXCEPT ![w] = J!Idle] \/ J!Goto(w, "failed")
        /\ jobsQueue' \subseteq jobsQueue \cup {<<j, jobsTask[w].retries + 1>>}
        /\ doc' = doc \/ (doc' = [doc EXCEPT ![j].status = "failed"] /\ J!HasDocument(j))
    BY <1>10 DEF J!Fail
  <2>3. \A i \in Works : doc'[i].status # "none" <=> doc[i].status # "none"
    BY <1>0, <1>3, <2>1, <2>2 DEF DocRows
  <2>4. \A x \in Workers : jobsTask'[x] # J!Idle =>
               jobsTask'[x].j \in Works /\ job[jobsTask'[x].j] # "none"
    BY <1>4, <1>5, <2>1, <2>2
  <2>5. \A m \in jobsQueue' : m \in jobsQueue \/ (m[1] \in Works /\ job[m[1]] # "none")
    BY <1>3, <2>1, <2>2
  <2> QED BY <1>1, <2>2, <2>3, <2>4, <2>5
<1>11. ASSUME J!Redeliver(w) PROVE Owned'
  <2>1. /\ jobsTask[w] # J!Idle /\ UNCHANGED <<kind, req, doc, job>>
        /\ jobsTask' = [jobsTask EXCEPT ![w] = J!Idle] \/ jobsTask' = jobsTask
        /\ jobsQueue' = jobsQueue \cup {<<j, jobsTask[w].retries>>}
    BY <1>11 DEF J!Redeliver
  <2>2. \A m \in jobsQueue' : m \in jobsQueue \/ (m[1] \in Works /\ job[m[1]] # "none")
    BY <1>3, <2>1
  <2> QED BY <1>1, <1>5, <2>1, <2>2
<1> QED BY <1>2, <1>6, <1>7, <1>8, <1>9, <1>10, <1>11 DEF J!Work

\* What a request leaves alone.
LEMMA RequestLeaves ==
    ASSUME \/ \E h \in Handlers : J!Serve(h) \/ J!RequestDies(h)
                \/ \E j \in Works : J!BeginDocument(h, j) \/ J!BeginEdit(h, j)
           \/ \E j \in Works : J!AskReply(j) \/ J!ValidateDocument(j)
    PROVE  UNCHANGED <<kind, used, calls, lost, jobsTask, replies, redelivered, again>>
BY DEF J!Serve, J!CreateRow, J!PublishDocument, J!ComposeDocument, J!UpdateDocumentContent,
       J!RequestDies, J!BeginDocument, J!BeginEdit, J!AskReply, J!ValidateDocument, J!History

\* The workers whose call is billed and not yet in the quota.
Recording == {w \in Workers : jobsTask[w].pc \in {"asked", "record"}}

CallsInv == calls = used + lost + Cardinality(Recording)

\* They are counted one by one.
LEMMA RecordingCounted ==
    ASSUME NEW w \in Workers
    PROVE  /\ Cardinality(Recording) \in Nat
           /\ Recording' = Recording \ {w} /\ w \in Recording =>
                Cardinality(Recording') = Cardinality(Recording) - 1
           /\ Recording' = Recording \cup {w} /\ w \notin Recording =>
                Cardinality(Recording') = Cardinality(Recording) + 1
<1>1. Recording \subseteq Workers
  BY DEF Recording
<1>2. IsFiniteSet(Recording)
  BY <1>1, FS_Subset, ProcessesAssumption
<1>3. Cardinality(Recording) \in Nat
  BY <1>2, FS_CardinalityType
<1>4. w \in Recording => Cardinality(Recording \ {w}) = Cardinality(Recording) - 1
  BY <1>2, FS_RemoveElement
<1>5. w \notin Recording => Cardinality(Recording \cup {w}) = Cardinality(Recording) + 1
  BY <1>2, FS_AddElement
<1> QED BY <1>3, <1>4, <1>5

\* Every call a worker makes is counted, in the end or as lost.
LEMMA CallsKept ==
    ASSUME JobTypes, CallsInv, NEW w \in Workers, J!Work(w) \/ J!Redeliver(w)
    PROVE  CallsInv'
<1>0. /\ jobsTask \in [Workers -> TaskStates] /\ used \in Nat /\ calls \in Nat /\ lost \in Nat
      /\ Cardinality(Recording) \in Nat
  BY RecordingCounted DEF JobTypes
<1>1. ASSUME UNCHANGED <<calls, used, lost>>, w \in Recording <=> w \in Recording',
             \A x \in Workers \ {w} : jobsTask'[x] = jobsTask[x]
      PROVE  CallsInv'
  <2>1. Recording' = Recording
    BY <1>1 DEF Recording
  <2> QED BY <1>1, <2>1 DEF CallsInv
<1>2. ASSUME UNCHANGED calls, used' + lost' = used + lost + 1,
             w \in Recording, w \notin Recording',
             \A x \in Workers \ {w} : jobsTask'[x] = jobsTask[x]
      PROVE  CallsInv'
  <2>1. Recording' = Recording \ {w}
    BY <1>2 DEF Recording
  <2>2. Cardinality(Recording') = Cardinality(Recording) - 1
    BY <1>2, <2>1, RecordingCounted
  <2> QED BY <1>0, <1>2, <2>2 DEF CallsInv
<1>3. ASSUME jobsTask' = jobsTask, UNCHANGED <<calls, used, lost>> PROVE CallsInv'
  BY <1>3 DEF CallsInv, Recording
<1>10. J!Recording = Recording
  BY DEF Recording, J!Recording
<1>4. ASSUME NEW m \in jobsQueue, J!Receive(w, m) PROVE CallsInv'
  <2>1. /\ UNCHANGED <<calls, used, lost>> /\ jobsTask[w] = J!Idle
        /\ jobsTask' = jobsTask
           \/ jobsTask' = [jobsTask EXCEPT ![w] = [pc |-> "mark", j |-> m[1], retries |-> m[2]]]
    BY <1>4 DEF J!Receive, J!History
  <2>2. jobsTask' = jobsTask
        \/ (jobsTask'[w].pc = "mark" /\ \A x \in Workers \ {w} : jobsTask'[x] = jobsTask[x])
    BY <1>0, <2>1
  <2>3. w \notin Recording /\ (jobsTask'[w].pc = "mark" => w \notin Recording')
    BY <2>1 DEF Recording, J!Idle
  <2> QED BY <1>1, <1>3, <2>1, <2>2, <2>3
\* Between the request and the row nothing is counted, nor elsewhere.
<1>5. ASSUME J!MarkJobRunning(w) \/ J!Answer(w) \/ J!SaveResult(w) \/ J!TouchConversation(w)
      PROVE  CallsInv'
  <2>1. UNCHANGED <<calls, used, lost>>
    BY <1>5 DEF J!MarkJobRunning, J!Answer, J!SaveResult, J!TouchConversation, J!History
  <2>2. PICK pc \in Answering \cup Marking :
          /\ jobsTask[w] # J!Idle /\ J!Goto(w, pc)
          /\ jobsTask[w].pc \in {"asked", "record"} <=> pc \in {"asked", "record"}
    <3>1. CASE J!MarkJobRunning(w)
      BY <3>1 DEF J!MarkJobRunning, J!Idle, Answering
    <3>2. CASE J!Answer(w)
      BY <3>2 DEF J!Answer, J!Idle, Answering
    <3>3. CASE J!SaveResult(w)
      BY <3>3, SavedThen DEF J!SaveResult, Marking
    <3>4. CASE J!TouchConversation(w)
      BY <3>4 DEF J!TouchConversation, J!Idle, Marking
    <3> QED BY <1>5, <3>1, <3>2, <3>3, <3>4
  <2>3. jobsTask'[w].pc = pc /\ \A x \in Workers \ {w} : jobsTask'[x] = jobsTask[x]
    BY <1>0, <2>2, TaskGoesOn
  <2>4. w \in Recording <=> w \in Recording'
    BY <2>2, <2>3 DEF Recording
  <2> QED BY <1>1, <2>1, <2>3, <2>4
<1>6. ASSUME J!MarkJobDone(w) \/ J!MarkJobFailed(w) PROVE CallsInv'
  <2>1. /\ UNCHANGED <<calls, used, lost>> /\ jobsTask[w].pc \notin {"asked", "record"}
        /\ jobsTask' = [jobsTask EXCEPT ![w] = J!Idle]
    BY <1>6 DEF J!MarkJobDone, J!MarkJobFailed, J!History
  <2>2. jobsTask'[w].pc = "idle" /\ \A x \in Workers \ {w} : jobsTask'[x] = jobsTask[x]
    BY <1>0, <2>1 DEF J!Idle
  <2>3. w \in Recording <=> w \in Recording'
    BY <2>1, <2>2 DEF Recording
  <2> QED BY <1>1, <2>1, <2>2, <2>3
<1>7. ASSUME J!Call(w) PROVE CallsInv'
  <2>1. /\ calls' = calls + 1 /\ UNCHANGED <<used, lost>> /\ jobsTask[w].pc = "call"
        /\ J!Goto(w, "asked") /\ "asked" \in Answering /\ jobsTask[w] # J!Idle
    BY <1>7 DEF J!Call, Answering, J!Idle
  <2>2. jobsTask'[w].pc = "asked" /\ \A x \in Workers \ {w} : jobsTask'[x] = jobsTask[x]
    BY <1>0, <2>1, TaskGoesOn
  <2>3. Recording' = Recording \cup {w} /\ w \notin Recording
    BY <2>1, <2>2 DEF Recording
  <2>4. Cardinality(Recording') = Cardinality(Recording) + 1
    BY <2>3, RecordingCounted
  <2> QED BY <1>0, <2>1, <2>4 DEF CallsInv
<1>8. ASSUME J!RecordUsage(w) PROVE CallsInv'
  <2>1. /\ used' = used + 1 /\ UNCHANGED <<calls, lost>> /\ jobsTask[w].pc = "record"
        /\ J!Goto(w, "save") /\ "save" \in Answering /\ jobsTask[w] # J!Idle
    BY <1>8 DEF J!RecordUsage, J!History, Answering, J!Idle
  <2>2. jobsTask'[w].pc = "save" /\ \A x \in Workers \ {w} : jobsTask'[x] = jobsTask[x]
    BY <1>0, <2>1, TaskGoesOn
  <2>3. used' + lost' = used + lost + 1
    BY <1>0, <2>1
  <2>4. w \in Recording /\ w \notin Recording'
    BY <2>1, <2>2 DEF Recording
  <2> QED BY <1>2, <2>1, <2>2, <2>3, <2>4
<1>9. ASSUME J!Fail(w) \/ J!Redeliver(w) PROVE CallsInv'
  <2>1. /\ UNCHANGED <<calls, used>>
        /\ \/ jobsTask' = [jobsTask EXCEPT ![w] = J!Idle]
           \/ J!Goto(w, "failed") /\ jobsTask[w].pc # "failed"
           \/ jobsTask' = jobsTask /\ lost' = lost
        /\ jobsTask' # jobsTask => lost' = IF w \in Recording THEN lost + 1 ELSE lost
        /\ jobsTask[w] # J!Idle /\ "failed" \in Marking
    BY <1>9, <1>10 DEF J!Fail, J!MayFail, J!Redeliver, Marking, J!Idle
  <2>2. \/ jobsTask' = jobsTask /\ lost' = lost
        \/ /\ jobsTask'[w].pc \in {"idle", "failed"}
           /\ \A x \in Workers \ {w} : jobsTask'[x] = jobsTask[x]
           /\ jobsTask' # jobsTask
    <3>1. CASE jobsTask' = jobsTask /\ lost' = lost
      BY <3>1
    <3>2. CASE jobsTask' = [jobsTask EXCEPT ![w] = J!Idle]
      BY <1>0, <2>1, <3>2 DEF J!Idle
    <3>3. CASE J!Goto(w, "failed") /\ jobsTask[w].pc # "failed"
      <4>1. jobsTask'[w].pc = "failed" /\ \A x \in Workers \ {w} : jobsTask'[x] = jobsTask[x]
        BY <1>0, <2>1, <3>3, TaskGoesOn
      <4> QED BY <3>3, <4>1
    <3> QED BY <2>1, <3>1, <3>2, <3>3
  <2>3. jobsTask' # jobsTask /\ w \in Recording => used' + lost' = used + lost + 1
    BY <1>0, <2>1
  <2>4. jobsTask' # jobsTask /\ w \notin Recording => lost' = lost
    BY <2>1
  <2>5. jobsTask'[w].pc \in {"idle", "failed"} => w \notin Recording'
    BY DEF Recording
  <2> QED BY <1>1, <1>2, <1>3, <2>1, <2>2, <2>3, <2>4, <2>5
<1> QED BY <1>4, <1>5, <1>6, <1>7, <1>8, <1>9 DEF J!Work

\* Only the creation of a row gives a document its version.
LEMMA RowsStay ==
    ASSUME JobTypes, Owned,
           \/ \E h \in Handlers : J!PublishDocument(h) \/ J!ComposeDocument(h)
                \/ J!UpdateDocumentContent(h) \/ J!RequestDies(h)
                \/ \E j \in Works : J!BeginDocument(h, j) \/ J!BeginEdit(h, j)
           \/ \E j \in Works : J!AskReply(j) \/ J!ValidateDocument(j)
           \/ \E w \in Workers : J!Work(w) \/ J!Redeliver(w)
    PROVE  /\ jobsRaced' = jobsRaced /\ kind' = kind
           /\ \A i \in Works : /\ doc'[i].version = doc[i].version
                               /\ doc'[i].status # "none" <=> doc[i].status # "none"
<1>0. /\ doc \in [Works -> DocRows] /\ req \in [Handlers -> Requests]
      /\ jobsTask \in [Workers -> TaskStates]
  BY DEF JobTypes
<1> DEFINE Kept == \A i \in Works : /\ doc'[i].version = doc[i].version
                                    /\ doc'[i].status # "none" <=> doc[i].status # "none"
<1>1. ASSUME NEW j \in Works, doc[j].status # "none",
             NEW s \in {"draft", "failed", "validated"},
             \/ doc' = [doc EXCEPT ![j].status = s]
             \/ doc' = [doc EXCEPT ![j].status = "draft", ![j].text = "written"]
             \/ doc' = [doc EXCEPT ![j].text = "edited"]
      PROVE  Kept
  BY <1>0, <1>1 DEF DocRows
<1>2. ASSUME NEW h \in Handlers, J!ComposeDocument(h) \/ J!UpdateDocumentContent(h)
      PROVE  Kept /\ UNCHANGED <<jobsRaced, kind>>
  <2>1. req[h].j \in Works /\ doc[req[h].j].status # "none"
    BY <1>0, <1>2, HeldRequest DEF J!ComposeDocument, J!UpdateDocumentContent, Owned
  <2>2. /\ UNCHANGED <<jobsRaced, kind>>
        /\ \/ doc' = [doc EXCEPT ![req[h].j].status = "failed"]
           \/ doc' = [doc EXCEPT ![req[h].j].status = "draft", ![req[h].j].text = "written"]
           \/ doc' = [doc EXCEPT ![req[h].j].text = "edited"]
    BY <1>2 DEF J!ComposeDocument, J!UpdateDocumentContent, J!History
  <2> HIDE DEF Kept
  <2> QED BY <1>1, <2>1, <2>2
<1>3. ASSUME NEW j \in Works, J!ValidateDocument(j) PROVE Kept /\ UNCHANGED <<jobsRaced, kind>>
  <2>1. /\ UNCHANGED <<jobsRaced, kind>> /\ doc[j].status # "none"
        /\ doc' = [doc EXCEPT ![j].status = "validated"]
    BY <1>3 DEF J!ValidateDocument, J!Documents
  <2> HIDE DEF Kept
  <2> QED BY <1>1, <2>1
<1>4. ASSUME NEW w \in Workers, J!SaveResult(w) \/ J!Fail(w) PROVE Kept /\ UNCHANGED <<jobsRaced, kind>>
  <2> DEFINE j == jobsTask[w].j
  <2>1. jobsTask[w] # J!Idle
    BY <1>4 DEF J!SaveResult, J!Fail, J!MayFail, J!Idle
  <2>2. j \in Works /\ (J!HasDocument(j) => doc[j].status # "none")
    BY <1>0, <2>1, HeldMessage DEF Owned
  <2>3. UNCHANGED <<jobsRaced, kind>>
    BY <1>4 DEF J!SaveResult, J!Fail, J!History
  <2>4. \/ doc' = doc
        \/ /\ J!HasDocument(j)
           /\ \/ doc' = [doc EXCEPT ![j].status = "failed"]
              \/ doc' = [doc EXCEPT ![j].status = "draft", ![j].text = "written"]
    BY <1>4 DEF J!SaveResult, J!Fail
  <2>5. CASE doc' = doc
    BY <2>3, <2>5
  <2> HIDE DEF Kept, j
  <2> QED BY <1>1, <2>2, <2>3, <2>4, <2>5
<1>5. ASSUME \/ \E h \in Handlers : J!PublishDocument(h) \/ J!RequestDies(h)
                \/ \E j \in Works : J!BeginDocument(h, j) \/ J!BeginEdit(h, j)
             \/ \E j \in Works : J!AskReply(j)
             \/ \E w \in Workers : (\E m \in jobsQueue : J!Receive(w, m)) \/ J!MarkJobRunning(w)
                \/ J!RecordUsage(w) \/ J!MarkJobDone(w) \/ J!Call(w) \/ J!MarkJobFailed(w)
                \/ J!Answer(w) \/ J!TouchConversation(w) \/ J!Redeliver(w)
      PROVE  UNCHANGED <<doc, jobsRaced, kind>>
  BY <1>5 DEF J!PublishDocument, J!RequestDies, J!BeginDocument, J!BeginEdit, J!AskReply,
     J!Receive, J!MarkJobRunning, J!RecordUsage, J!MarkJobDone, J!Call, J!MarkJobFailed,
     J!Answer, J!TouchConversation, J!Redeliver, J!History
<1> QED BY <1>2, <1>3, <1>4, <1>5 DEF J!Work

\* Two versions that were not read together are different.
LEMMA VersionsKept ==
    ASSUME JobTypes, Owned, J!VersionsDiffer, J!Next
    PROVE  J!VersionsDiffer'
<1>0. /\ doc \in [Works -> DocRows] /\ req \in [Handlers -> Requests]
  BY DEF JobTypes
<1>1. ASSUME jobsRaced' = jobsRaced,
             \A i \in Works : /\ doc'[i].version = doc[i].version
                              /\ doc'[i].status # "none" <=> doc[i].status # "none"
      PROVE  J!VersionsDiffer'
  BY <1>1 DEF J!VersionsDiffer, J!Documents, Works
<1>2. ASSUME NEW h \in Handlers, J!CreateRow(h) PROVE J!VersionsDiffer'
  <2> DEFINE j == req[h].j
  <2>1. j \in Works /\ req[h].version \in Nat /\ j \notin J!Documents
    BY <1>0, <1>2, HeldRequest DEF J!CreateRow, Owned, J!Asked, J!Documents
  <2>2. /\ doc' = [doc EXCEPT ![j] = [status |-> "generating", text |-> "none",
                                      version |-> req[h].version]]
        /\ jobsRaced' = IF req[h].version # J!NextDocumentVersion THEN jobsRaced \cup {j}
                        ELSE jobsRaced
    BY <1>2 DEF J!CreateRow
  <2>3. /\ doc'[j].version = req[h].version /\ \A i \in Works \ {j} : doc'[i] = doc[i]
    BY <1>0, <2>1, <2>2
  <2>4. J!Documents' \ {j} \subseteq J!Documents /\ J!Documents' \subseteq Works
    BY <2>3 DEF J!Documents, Works
  <2>5. J!Latest \in Nat /\ \A i \in J!Documents : doc[i].version =< J!Latest
    BY LatestVersion
  <2>6. \A i \in J!Documents : doc[i].version \in Nat
    BY <1>0 DEF J!Documents, DocRows, Works
  <2>7. j \notin jobsRaced' => \A i \in J!Documents : doc[i].version # req[h].version
    BY <2>2, <2>5, <2>6 DEF J!NextDocumentVersion
  <2>8. jobsRaced \subseteq jobsRaced'
    BY <2>2
  <2> HIDE DEF j
  <2>9. ASSUME NEW x \in J!Documents' \ jobsRaced', NEW y \in J!Documents' \ jobsRaced', x # y
        PROVE  doc'[x].version # doc'[y].version
    <3>1. CASE x # j /\ y # j
      BY <2>3, <2>4, <2>8, <2>9, <3>1 DEF J!VersionsDiffer
    <3>2. CASE x = j
      BY <2>3, <2>4, <2>7, <2>9, <3>2
    <3>3. CASE y = j
      BY <2>3, <2>4, <2>7, <2>9, <3>3
    <3> QED BY <3>1, <3>2, <3>3
  <2> QED BY <2>9 DEF J!VersionsDiffer
<1> QED BY <1>1, <1>2, RowsStay DEF J!Next, J!Serve, Works

\* Nothing is about to write the document: no request, no task, no message.
LeftAlone(j) ==
    /\ \A h \in Handlers : req[h].op \in {"edit", "compose", "publish"} => req[h].j # j
    /\ \A w \in Workers : jobsTask[w] # J!Idle => jobsTask[w].j # j
    /\ \A m \in jobsQueue : m[1] # j

\* What was validated with nothing about to write it is still so.
SignedInv ==
    /\ \A j \in Works : doc[j].status = "none" => signed[j] = "none"
    /\ \A j \in Works \ early : signed[j] # "none" =>
         doc[j].status = "validated" /\ doc[j].text = signed[j] /\ LeftAlone(j)

\* What AboutToWrite says.
LEMMA WritersKnown ==
    ASSUME JobTypes, NEW j \in Works
    PROVE  ~ J!AboutToWrite(j) => LeftAlone(j)
<1> SUFFICES ASSUME ~ J!AboutToWrite(j) PROVE LeftAlone(j)
  OBVIOUS
<1>1. \A h \in Handlers : req[h].op \in {"edit", "compose", "publish"} => req[h].j # j
  BY DEF J!AboutToWrite
<1>2. ASSUME NEW w \in Workers, jobsTask[w] # J!Idle PROVE jobsTask[w].j # j
  <2>1. jobsTask[w].pc # "idle"
    BY <1>2 DEF JobTypes, TaskStates, Answering, Marking, J!Idle
  <2> QED BY <2>1 DEF J!AboutToWrite, J!Held
<1>3. ASSUME NEW m \in jobsQueue PROVE m[1] # j
  <2>1. m = <<m[1], m[2]>> /\ m[2] \in 0..1
    BY DEF JobTypes
  <2> QED BY <2>1 DEF J!AboutToWrite
<1> QED BY <1>1, <1>2, <1>3 DEF LeftAlone

\* A worker writes what it holds, and passes on nothing else.
LEMMA WorkerLeavesAlone ==
    ASSUME JobTypes, NEW w \in Workers, J!Work(w) \/ J!Redeliver(w),
           NEW j \in Works, LeftAlone(j)
    PROVE  LeftAlone(j)' /\ doc'[j] = doc[j]
<1>0. /\ jobsTask \in [Workers -> TaskStates] /\ doc \in [Works -> DocRows]
      /\ jobsQueue \subseteq Works \X (0..1)
  BY DEF JobTypes
<1>1. ASSUME req' = req, \A m \in jobsQueue' : m[1] # j,
             jobsTask'[w] # J!Idle => jobsTask'[w].j # j,
             \A x \in Workers \ {w} : jobsTask'[x] = jobsTask[x]
      PROVE  LeftAlone(j)'
  BY <1>1 DEF LeftAlone
<1>2. ASSUME NEW m \in jobsQueue, J!Receive(w, m) PROVE LeftAlone(j)' /\ doc'[j] = doc[j]
  <2>1. /\ UNCHANGED <<req, doc>> /\ jobsQueue' \subseteq jobsQueue
        /\ jobsTask' = jobsTask
           \/ jobsTask' = [jobsTask EXCEPT ![w] = [pc |-> "mark", j |-> m[1], retries |-> m[2]]]
    BY <1>2 DEF J!Receive
  <2>2. jobsTask'[w] = jobsTask[w] \/ jobsTask'[w].j = m[1]
    BY <1>0, <2>1
  <2>3. \A x \in Workers \ {w} : jobsTask'[x] = jobsTask[x]
    BY <1>0, <2>1
  <2> QED BY <1>1, <2>1, <2>2, <2>3 DEF LeftAlone
<1>3. ASSUME jobsTask[w] # J!Idle, req' = req,
             jobsTask' = jobsTask \/ jobsTask' = [jobsTask EXCEPT ![w] = J!Idle]
               \/ (\E pc \in Answering \cup Marking : J!Goto(w, pc)),
             \A m \in jobsQueue' : m \in jobsQueue \/ m[1] = jobsTask[w].j
      PROVE  LeftAlone(j)'
  <2>1. jobsTask[w].j # j
    BY <1>3 DEF LeftAlone
  <2>2. \/ jobsTask' = jobsTask
        \/ /\ jobsTask'[w] = J!Idle \/ jobsTask'[w].j = jobsTask[w].j
           /\ \A x \in Workers \ {w} : jobsTask'[x] = jobsTask[x]
    BY <1>0, <1>3, TaskGoesOn
  <2>3. \A m \in jobsQueue' : m[1] # j
    BY <1>3, <2>1 DEF LeftAlone
  <2> QED BY <1>1, <1>3, <2>1, <2>2, <2>3
<1>4. ASSUME \/ J!MarkJobRunning(w) \/ J!Call(w) \/ J!Answer(w) \/ J!RecordUsage(w)
             \/ J!SaveResult(w) \/ J!TouchConversation(w)
             \/ J!MarkJobDone(w) \/ J!MarkJobFailed(w) \/ J!Fail(w) \/ J!Redeliver(w)
      PROVE  LeftAlone(j)' /\ doc'[j] = doc[j]
  <2>1. jobsTask[w] # J!Idle
    BY <1>4 DEF J!MarkJobRunning, J!Call, J!Answer, J!TouchConversation, J!RecordUsage,
       J!SaveResult, J!MarkJobDone, J!MarkJobFailed, J!Fail, J!MayFail, J!Redeliver, J!Idle
  <2>2. /\ req' = req
        /\ jobsTask' = jobsTask \/ jobsTask' = [jobsTask EXCEPT ![w] = J!Idle]
             \/ (\E pc \in Answering \cup Marking : J!Goto(w, pc))
    BY <1>4 DEF J!MarkJobRunning, J!Call, J!Answer, J!TouchConversation, J!RecordUsage,
       J!SaveResult, J!MarkJobDone, J!MarkJobFailed, J!Fail, J!Redeliver, Answering, Marking
  <2>3. jobsQueue' = jobsQueue \/ jobsQueue' = jobsQueue \cup {<<jobsTask[w].j, jobsTask[w].retries>>}
          \/ jobsQueue' = jobsQueue \cup {<<jobsTask[w].j, jobsTask[w].retries + 1>>}
    BY <1>4 DEF J!MarkJobRunning, J!Call, J!Answer, J!TouchConversation, J!RecordUsage,
       J!SaveResult, J!MarkJobDone, J!MarkJobFailed, J!Fail, J!Redeliver
  <2>4. \/ doc' = doc
        \/ doc' = [doc EXCEPT ![jobsTask[w].j].status = "failed"]
        \/ doc' = [doc EXCEPT ![jobsTask[w].j].status = "draft", ![jobsTask[w].j].text = "written"]
    BY <1>4 DEF J!MarkJobRunning, J!Call, J!Answer, J!TouchConversation, J!RecordUsage,
       J!SaveResult, J!MarkJobDone, J!MarkJobFailed, J!Fail, J!Redeliver
  <2>5. jobsTask[w].j # j
    BY <2>1 DEF LeftAlone
  <2>6. doc'[j] = doc[j]
    BY <1>0, <2>4, <2>5
  <2>7. \A m \in jobsQueue' : m \in jobsQueue \/ m[1] = jobsTask[w].j
    BY <2>3
  <2> QED BY <1>3, <2>1, <2>2, <2>6, <2>7
<1> QED BY <1>2, <1>4 DEF J!Work

\* What was validated with nothing about to write it is not written again.
LEMMA SignedKept ==
    ASSUME JobTypes, Owned, SignedInv, J!Next
    PROVE  SignedInv'
<1>0. /\ doc \in [Works -> DocRows] /\ req \in [Handlers -> Requests]
      /\ jobsQueue \subseteq Works \X (0..1)
      /\ signed \in [Works -> {"none", "written", "edited"}] /\ early \subseteq Works
  BY DEF JobTypes
<1>1. ASSUME UNCHANGED <<signed, early>>,
             \A i \in Works : doc'[i].status = "none" => doc[i].status = "none",
             \A i \in Works : LeftAlone(i) /\ signed[i] # "none" /\ doc[i].status = "validated" =>
               LeftAlone(i)' /\ doc'[i] = doc[i]
      PROVE  SignedInv'
  BY <1>1 DEF SignedInv
<1>2. ASSUME NEW w \in Workers, J!Work(w) \/ J!Redeliver(w) PROVE SignedInv'
  <2>1. UNCHANGED <<signed, early>>
    BY <1>2 DEF J!Work, J!Receive, J!MarkJobRunning, J!RecordUsage, J!MarkJobDone, J!Call,
       J!Answer, J!TouchConversation, J!MarkJobFailed, J!SaveResult, J!Fail, J!Redeliver, J!History
  <2> QED BY <1>1, <1>2, <2>1, WorkerLeavesAlone, RowsStay
<1>3. ASSUME NEW h \in Handlers, req[h] # J!Free, req'[h] = J!Free,
             \A x \in Handlers \ {h} : req'[x] = req[x], jobsTask' = jobsTask,
             \A m \in jobsQueue' : m \in jobsQueue
               \/ (req[h].op = "publish" /\ m[1] = req[h].j),
             NEW i \in Works, LeftAlone(i)
      PROVE  LeftAlone(i)'
  BY <1>3 DEF LeftAlone, J!Free
<1>4. ASSUME NEW h \in Handlers,
             J!PublishDocument(h) \/ J!ComposeDocument(h) \/ J!UpdateDocumentContent(h) \/ J!RequestDies(h)
      PROVE  SignedInv'
  <2>1. /\ UNCHANGED <<signed, early, jobsTask>> /\ req' = [req EXCEPT ![h] = J!Free]
        /\ req[h] # J!Free
        /\ jobsQueue' = jobsQueue
           \/ (req[h].op = "publish" /\ jobsQueue' = jobsQueue \cup {<<req[h].j, 0>>})
        /\ \/ doc' = doc
           \/ /\ req[h].op \in {"compose", "edit"}
              /\ \/ doc' = [doc EXCEPT ![req[h].j].status = "failed"]
                 \/ doc' = [doc EXCEPT ![req[h].j].status = "draft", ![req[h].j].text = "written"]
                 \/ doc' = [doc EXCEPT ![req[h].j].text = "edited"]
    BY <1>4 DEF J!PublishDocument, J!ComposeDocument, J!UpdateDocumentContent, J!RequestDies,
       J!History, J!Free
  <2>2. req'[h] = J!Free /\ \A x \in Handlers \ {h} : req'[x] = req[x]
    BY <1>0, <2>1
  <2>3. \A m \in jobsQueue' : m \in jobsQueue \/ (req[h].op = "publish" /\ m[1] = req[h].j)
    BY <2>1
  <2>4. \A i \in Works : LeftAlone(i) => LeftAlone(i)'
    BY <1>3, <2>1, <2>2, <2>3
  <2>5. \A i \in Works : LeftAlone(i) => doc'[i] = doc[i]
    BY <1>0, <2>1 DEF LeftAlone
  <2>6. \A i \in Works : doc'[i].status = "none" => doc[i].status = "none"
    BY <1>4, RowsStay
  <2> QED BY <1>1, <2>1, <2>4, <2>5, <2>6
<1>5. ASSUME NEW h \in Handlers, NEW j \in Works, J!BeginDocument(h, j) \/ J!BeginEdit(h, j)
      PROVE  SignedInv'
  <2>1. /\ UNCHANGED <<signed, early, jobsTask, jobsQueue, doc>>
        /\ req' = [req EXCEPT ![h] = [op |-> "create", j |-> j, version |-> J!NextDocumentVersion]]
           \/ (doc[j].status # "validated" /\ req' = [req EXCEPT ![h] = [op |-> "edit", j |-> j]])
    BY <1>5 DEF J!BeginDocument, J!BeginEdit, J!History
  <2>2. /\ req'[h].op = "create" \/ (doc[j].status # "validated" /\ req'[h].j = j)
        /\ \A x \in Handlers \ {h} : req'[x] = req[x]
    BY <1>0, <2>1
  <2>3. \A i \in Works : LeftAlone(i) /\ doc[i].status = "validated" => LeftAlone(i)'
    BY <2>1, <2>2 DEF LeftAlone
  <2> QED BY <1>1, <2>1, <2>3
<1>6. ASSUME NEW h \in Handlers, J!CreateRow(h) PROVE SignedInv'
  <2> DEFINE j == req[h].j
  <2>1. j \in Works /\ doc[j].status = "none"
    BY <1>0, <1>6, HeldRequest DEF J!CreateRow, Owned, J!Asked
  <2>2. /\ UNCHANGED <<signed, early, jobsTask, jobsQueue>>
        /\ doc' = [doc EXCEPT ![j] = [status |-> "generating", text |-> "none",
                                      version |-> req[h].version]]
        /\ req' = [req EXCEPT ![h] = [op |-> IF kind[j] = "charter" THEN "publish" ELSE "compose",
                                      j |-> j]]
    BY <1>6 DEF J!CreateRow
  <2> HIDE DEF j
  <2>3. /\ doc'[j].status = "generating" /\ \A i \in Works \ {j} : doc'[i] = doc[i]
        /\ req'[h].j = j /\ \A x \in Handlers \ {h} : req'[x] = req[x]
    BY <1>0, <2>1, <2>2
  <2>4. \A i \in Works \ {j} : LeftAlone(i) => LeftAlone(i)'
    BY <2>2, <2>3 DEF LeftAlone
  <2>5. signed[j] = "none"
    BY <2>1 DEF SignedInv
  <2> QED BY <1>1, <2>1, <2>2, <2>3, <2>4, <2>5
<1>7. ASSUME NEW j \in Works, J!AskReply(j) PROVE SignedInv'
  <2>1. /\ UNCHANGED <<signed, early, jobsTask, req, doc>> /\ doc[j].status = "none"
        /\ jobsQueue' \subseteq jobsQueue \cup {<<j, 0>>}
    BY <1>7 DEF J!AskReply, J!Asked
  <2>2. \A i \in Works \ {j} : LeftAlone(i) => LeftAlone(i)'
    BY <2>1 DEF LeftAlone
  <2> QED BY <1>1, <2>1, <2>2 DEF SignedInv
<1>8. ASSUME NEW j \in Works, J!ValidateDocument(j) PROVE SignedInv'
  <2>1. /\ doc[j].status # "none" /\ UNCHANGED <<jobsQueue, jobsTask, req>>
        /\ doc' = [doc EXCEPT ![j].status = "validated"]
        /\ signed' = [signed EXCEPT ![j] = doc[j].text]
        /\ early' = IF J!AboutToWrite(j) THEN early \cup {j} ELSE early
    BY <1>8 DEF J!ValidateDocument, J!Documents
  <2>2. /\ doc'[j].status = "validated" /\ doc'[j].text = doc[j].text
        /\ \A i \in Works \ {j} : doc'[i] = doc[i]
    BY <1>0, <2>1 DEF DocRows
  <2>3. signed'[j] = doc[j].text /\ \A i \in Works \ {j} : signed'[i] = signed[i]
    BY <1>0, <2>1
  <2>4. j \notin early' => LeftAlone(j)
    BY <2>1, WritersKnown
  <2>5. early \subseteq early'
    BY <2>1
  <2>6. \A i \in Works : LeftAlone(i) => LeftAlone(i)'
    BY <2>1 DEF LeftAlone
  <2> QED BY <2>2, <2>3, <2>4, <2>5, <2>6 DEF SignedInv
<1> QED BY <1>2, <1>4, <1>5, <1>6, <1>7, <1>8 DEF J!Next, J!Serve, Works

\* The workers that may still write the answer of a work.
Answerers(j) == {w \in Workers : jobsTask[w].pc \in Answering /\ jobsTask[w].j = j}

Waiting(j, r) == IF <<j, r>> \in jobsQueue THEN 1 ELSE 0
Holding(w, j) == IF w \in Answerers(j) THEN 1 ELSE 0

\* The answers a work has, and those it may still have.
Load(j) == replies[j] + Waiting(j, 0) + Waiting(j, 1) + Cardinality(Answerers(j))

\* The replies a work may have beyond the first.
Grants(j) == redelivered[j] + again[j]

RepliesInv ==
    \A j \in Works :
      /\ Load(j) =< 1 + Grants(j)
      /\ job[j] = "none" => replies[j] = 0

\* A worker answers for one work at a time.
LEMMA AnswerersMove ==
    ASSUME NEW w \in Workers, NEW j \in Works,
           \A x \in Workers \ {w} : jobsTask'[x] = jobsTask[x]
    PROVE  /\ Cardinality(Answerers(j)) \in Nat /\ Cardinality(Answerers(j)') \in Nat
           /\ Cardinality(Answerers(j)') = Cardinality(Answerers(j)) + Holding(w, j)' - Holding(w, j)
<1>1. Answerers(j) \subseteq Workers /\ Answerers(j)' \subseteq Workers
  BY DEF Answerers
<1>2. \A x \in Workers \ {w} : x \in Answerers(j) <=> x \in Answerers(j)'
  BY DEF Answerers
<1>3. IsFiniteSet(Workers)
  BY ProcessesAssumption
<1> QED BY <1>1, <1>2, <1>3, CountMoves DEF Holding

\* What has no job has no answer, and none may come.
LEMMA NothingComes ==
    ASSUME JobTypes, Owned, RepliesInv, NEW j \in Works, job[j] = "none"
    PROVE  Load(j) = 0 /\ replies[j] = 0
<1>1. replies[j] = 0 /\ Waiting(j, 0) = 0 /\ Waiting(j, 1) = 0
  <2>1. <<j, 0>>[1] = j /\ <<j, 1>>[1] = j
    OBVIOUS
  <2> QED BY <2>1 DEF RepliesInv, Owned, Waiting
<1>2. Answerers(j) = {}
  BY HeldMessage DEF Answerers, Owned, JobTypes
<1> QED BY <1>1, <1>2, FS_EmptySet DEF Load

\* A request asks for one answer, of a work that had none.
LEMMA RequestAsksOnce ==
    ASSUME JobTypes, Owned, RepliesInv,
           \/ \E h \in Handlers : J!Serve(h) \/ J!RequestDies(h)
                \/ \E j \in Works : J!BeginDocument(h, j) \/ J!BeginEdit(h, j)
           \/ \E j \in Works : J!AskReply(j) \/ J!ValidateDocument(j)
    PROVE  RepliesInv'
<1>0. /\ job \in [Works -> {"none", "pending", "running", "done", "failed"}]
      /\ req \in [Handlers -> Requests] /\ redelivered \in [Works -> 0..1]
      /\ replies \in [Works -> Nat] /\ again \in [Works -> Nat]
  BY DEF JobTypes
<1>1. UNCHANGED <<jobsTask, replies>> /\ \A j \in Works : Grants(j)' = Grants(j) /\ Grants(j) \in Nat
  BY <1>0, RequestLeaves DEF Grants
<1>2. \A j \in Works : Answerers(j)' = Answerers(j)
  BY <1>1 DEF Answerers
<1>3. ASSUME NEW j \in Works, job[j] = "none", job' = [job EXCEPT ![j] = "pending"],
             jobsQueue' = jobsQueue \/ jobsQueue' = jobsQueue \cup {<<j, 0>>}
      PROVE  RepliesInv'
  <2>1. Load(j) = 0
    BY <1>3, NothingComes
  <2>2. ASSUME NEW i \in Works PROVE Waiting(i, 1)' = Waiting(i, 1)
    BY <1>3 DEF Waiting
  <2>3. ASSUME NEW i \in Works \ {j} PROVE Waiting(i, 0)' = Waiting(i, 0)
    BY <1>3 DEF Waiting
  <2>4. Waiting(j, 0)' \in 0..1 /\ Waiting(j, 0) \in 0..1 /\ Waiting(j, 1) \in 0..1
    BY DEF Waiting
  <2>5. ASSUME NEW i \in Works \ {j}
        PROVE  Load(i)' =< 1 + Grants(i)' /\ (job'[i] = "none" => replies'[i] = 0)
    <3>1. Load(i)' = Load(i)
      BY <1>1, <1>2, <2>2, <2>3 DEF Load
    <3>2. job'[i] = job[i]
      BY <1>0, <1>3
    <3> QED BY <1>1, <3>1, <3>2 DEF RepliesInv
  <2>6. Load(j)' =< 1 + Grants(j)'
    <3>1. replies[j] = 0
      BY <1>3, NothingComes
    <3>2. Cardinality(Answerers(j)) \in Nat
      <4>1. Answerers(j) \subseteq Workers
        BY DEF Answerers
      <4> QED BY <4>1, FS_Subset, FS_CardinalityType, ProcessesAssumption
    <3>3. Cardinality(Answerers(j)) = 0 /\ Waiting(j, 1) = 0
      BY <2>1, <2>4, <3>1, <3>2 DEF Load
    <3>4. Waiting(j, 1)' = 0 /\ replies'[j] = 0 /\ Answerers(j)' = Answerers(j)
      BY <1>1, <1>2, <2>2, <3>1, <3>3
    <3> QED BY <1>0, <1>1, <2>4, <3>3, <3>4 DEF Load
  <2>7. job'[j] # "none"
    BY <1>0, <1>3
  <2> QED BY <2>5, <2>6, <2>7 DEF RepliesInv
<1>4. ASSUME UNCHANGED <<job, jobsQueue>> PROVE RepliesInv'
  <2>1. ASSUME NEW i \in Works PROVE Load(i)' = Load(i)
    BY <1>1, <1>2, <1>4 DEF Load, Waiting
  <2> QED BY <1>1, <1>4, <2>1 DEF RepliesInv
<1>5. ASSUME NEW h \in Handlers, J!PublishDocument(h) PROVE RepliesInv'
  <2>1. req[h].j \in Works /\ job[req[h].j] = "none"
    BY <1>0, <1>5, HeldRequest DEF J!PublishDocument, Owned
  <2>2. job' = [job EXCEPT ![req[h].j] = "pending"]
        /\ (jobsQueue' = jobsQueue \/ jobsQueue' = jobsQueue \cup {<<req[h].j, 0>>})
    BY <1>5 DEF J!PublishDocument
  <2> QED BY <1>3, <2>1, <2>2
<1>6. ASSUME NEW j \in Works, J!AskReply(j) PROVE RepliesInv'
  <2>1. job[j] = "none"
    BY <1>6 DEF J!AskReply, J!Asked
  <2>2. job' = [job EXCEPT ![j] = "pending"]
        /\ (jobsQueue' = jobsQueue \/ jobsQueue' = jobsQueue \cup {<<j, 0>>})
    BY <1>6 DEF J!AskReply
  <2> QED BY <1>3, <2>1, <2>2
<1>7. ASSUME \/ \E h \in Handlers : J!CreateRow(h) \/ J!ComposeDocument(h)
                  \/ J!UpdateDocumentContent(h) \/ J!RequestDies(h)
                  \/ \E j \in Works : J!BeginDocument(h, j) \/ J!BeginEdit(h, j)
             \/ \E j \in Works : J!ValidateDocument(j)
      PROVE  UNCHANGED <<job, jobsQueue>>
  BY <1>7 DEF J!CreateRow, J!ComposeDocument, J!UpdateDocumentContent, J!RequestDies,
     J!BeginDocument, J!BeginEdit, J!ValidateDocument
<1> QED BY <1>4, <1>5, <1>6, <1>7 DEF J!Serve

\* A worker answers once for each message, and a message comes back only as counted.
LEMMA WorkerAnswersOnce ==
    ASSUME JobTypes, Owned, RepliesInv, NEW w \in Workers, J!Work(w) \/ J!Redeliver(w)
    PROVE  RepliesInv'
<1>0. /\ job \in [Works -> {"none", "pending", "running", "done", "failed"}]
      /\ jobsTask \in [Workers -> TaskStates] /\ redelivered \in [Works -> 0..1]
      /\ jobsQueue \subseteq Works \X (0..1) /\ replies \in [Works -> Nat]
      /\ again \in [Works -> Nat] /\ \A i \in Works : Grants(i) \in Nat
  BY DEF JobTypes, Grants
<1>1. ASSUME NEW i \in Works, NEW r \in {0, 1}
      PROVE  Waiting(i, r) \in 0..1 /\ Waiting(i, r)' \in 0..1
             /\ Holding(w, i) \in 0..1 /\ Holding(w, i)' \in 0..1
  BY DEF Waiting, Holding
\* One inequality for every step: what comes is paid by what goes.
<1>2. ASSUME \A x \in Workers \ {w} : jobsTask'[x] = jobsTask[x],
             \A i \in Works :
               /\ replies'[i] + Waiting(i, 0)' + Waiting(i, 1)' + Holding(w, i)' + Grants(i)
                    =< replies[i] + Waiting(i, 0) + Waiting(i, 1) + Holding(w, i) + Grants(i)'
               /\ replies'[i] \in Nat /\ Grants(i)' \in Nat
               /\ job'[i] = "none" => job[i] = "none" /\ replies'[i] = replies[i]
      PROVE  RepliesInv'
  <2>1. ASSUME NEW i \in Works PROVE Load(i)' =< 1 + Grants(i)'
    <3>1. /\ Cardinality(Answerers(i)) \in Nat /\ Cardinality(Answerers(i)') \in Nat
          /\ Cardinality(Answerers(i)') = Cardinality(Answerers(i)) + Holding(w, i)' - Holding(w, i)
      BY <1>2, AnswerersMove
    <3>2. Load(i) =< 1 + Grants(i)
      BY DEF RepliesInv
    <3>3. /\ Load(i) = replies[i] + Waiting(i, 0) + Waiting(i, 1) + Cardinality(Answerers(i))
          /\ Load(i)' = replies'[i] + Waiting(i, 0)' + Waiting(i, 1)' + Cardinality(Answerers(i)')
      BY DEF Load
    <3>4. /\ Waiting(i, 0) \in Nat /\ Waiting(i, 0)' \in Nat /\ Waiting(i, 1) \in Nat
          /\ Waiting(i, 1)' \in Nat /\ Holding(w, i) \in Nat /\ Holding(w, i)' \in Nat
      BY <1>1
    <3>5. replies[i] \in Nat /\ Grants(i) \in Nat
      BY <1>0
    <3> QED BY <1>2, <3>1, <3>2, <3>3, <3>4, <3>5
  <2> QED BY <1>2, <2>1 DEF RepliesInv
<1>3. ASSUME NEW m \in jobsQueue, J!Receive(w, m) PROVE RepliesInv'
  <2>1. /\ UNCHANGED <<job, replies, redelivered, again>> /\ jobsQueue' = jobsQueue \ {m}
        /\ jobsTask[w] = J!Idle
        /\ jobsTask' = jobsTask
           \/ jobsTask' = [jobsTask EXCEPT ![w] = [pc |-> "mark", j |-> m[1], retries |-> m[2]]]
    BY <1>3 DEF J!Receive, J!History
  <2>2. /\ m = <<m[1], m[2]>> /\ m[1] \in Works /\ m[2] \in {0, 1}
    BY <1>0
  <2>3. /\ \A x \in Workers \ {w} : jobsTask'[x] = jobsTask[x]
        /\ jobsTask'[w] = jobsTask[w] \/ jobsTask'[w].j = m[1]
    BY <1>0, <2>1
  <2>4. \A i \in Works : Holding(w, i) = 0
    BY <2>1 DEF Holding, Answerers, J!Idle, Answering
  <2>5. ASSUME NEW i \in Works \ {m[1]}
        PROVE  Holding(w, i)' = 0 /\ Waiting(i, 0)' = Waiting(i, 0) /\ Waiting(i, 1)' = Waiting(i, 1)
    <3>1. Holding(w, i)' = 0
      BY <2>1, <2>3 DEF Holding, Answerers, J!Idle, Answering
    <3> QED BY <2>1, <2>2, <2>5, <3>1 DEF Waiting
  <2>6. Waiting(m[1], 0)' + Waiting(m[1], 1)' + 1 = Waiting(m[1], 0) + Waiting(m[1], 1)
    <3>1. CASE m[2] = 0
      BY <2>1, <2>2, <3>1 DEF Waiting
    <3>2. CASE m[2] = 1
      BY <2>1, <2>2, <3>2 DEF Waiting
    <3> QED BY <2>2, <3>1, <3>2
  <2>7. ASSUME NEW i \in Works
        PROVE  replies'[i] + Waiting(i, 0)' + Waiting(i, 1)' + Holding(w, i)' + Grants(i)
                 =< replies[i] + Waiting(i, 0) + Waiting(i, 1) + Holding(w, i) + Grants(i)'
    <3>1. replies[i] \in Nat /\ Grants(i) \in Nat /\ UNCHANGED <<replies, Grants(i)>>
      BY <1>0, <2>1 DEF Grants
    <3>2. CASE i = m[1]
      BY <1>1, <2>2, <2>4, <2>6, <3>1, <3>2
    <3>3. CASE i # m[1]
      BY <1>1, <2>4, <2>5, <3>1, <3>3
    <3> QED BY <3>2, <3>3
  <2>8. \A i \in Works : replies'[i] \in Nat /\ Grants(i)' \in Nat
    BY <1>0, <2>1 DEF Grants
  <2> QED BY <1>2, <2>1, <2>3, <2>7, <2>8
\* The other works are left alone.
<1>4. ASSUME NEW j \in Works, j = jobsTask[w].j, jobsTask[w] # J!Idle,
             jobsTask' = jobsTask \/ jobsTask' = [jobsTask EXCEPT ![w] = J!Idle]
               \/ (\E pc \in Answering \cup Marking : J!Goto(w, pc)),
             jobsQueue' = jobsQueue \/ (\E r \in {0, 1} : jobsQueue' = jobsQueue \cup {<<j, r>>})
      PROVE  /\ \A x \in Workers \ {w} : jobsTask'[x] = jobsTask[x]
             /\ \A i \in Works \ {j} : /\ Holding(w, i)' = Holding(w, i)
                                       /\ Waiting(i, 0)' = Waiting(i, 0)
                                       /\ Waiting(i, 1)' = Waiting(i, 1)
             /\ jobsQueue' = jobsQueue =>
                  Waiting(j, 0)' = Waiting(j, 0) /\ Waiting(j, 1)' = Waiting(j, 1)
             /\ Waiting(j, 0)' + Waiting(j, 1)' =< Waiting(j, 0) + Waiting(j, 1) + 1
  <2>2. \/ jobsTask' = jobsTask
        \/ /\ jobsTask'[w] = J!Idle \/ jobsTask'[w].j = j
           /\ \A x \in Workers \ {w} : jobsTask'[x] = jobsTask[x]
    BY <1>0, <1>4, TaskGoesOn
  <2>3. \A i \in Works \ {j} : Holding(w, i)' = Holding(w, i)
    BY <1>4, <2>2 DEF Holding, Answerers, J!Idle, Answering
  <2>4. \A i \in Works \ {j} : Waiting(i, 0)' = Waiting(i, 0) /\ Waiting(i, 1)' = Waiting(i, 1)
    BY <1>4 DEF Waiting
  <2>5. jobsQueue' = jobsQueue => Waiting(j, 0)' = Waiting(j, 0) /\ Waiting(j, 1)' = Waiting(j, 1)
    BY DEF Waiting
  <2>6. Waiting(j, 0)' + Waiting(j, 1)' =< Waiting(j, 0) + Waiting(j, 1) + 1
    BY <1>4 DEF Waiting
  <2> QED BY <2>2, <2>3, <2>4, <2>5, <2>6
\* So it is enough to look at the work of the message.
<1>5. ASSUME NEW j \in Works, j = jobsTask[w].j, jobsTask[w] # J!Idle,
             jobsTask' = jobsTask \/ jobsTask' = [jobsTask EXCEPT ![w] = J!Idle]
               \/ (\E pc \in Answering \cup Marking : J!Goto(w, pc)),
             jobsQueue' = jobsQueue \/ (\E r \in {0, 1} : jobsQueue' = jobsQueue \cup {<<j, r>>}),
             job' = job \/ (\E s \in {"running", "done", "failed"} : job' = [job EXCEPT ![j] = s]),
             \A i \in Works \ {j} : replies'[i] = replies[i] /\ Grants(i)' = Grants(i),
             NEW n \in 0..1, replies'[j] = replies[j] + n,
             NEW q \in 0..1, q = 0 => jobsQueue' = jobsQueue,
             NEW r \in 0..1, Grants(j)' = Grants(j) + r,
             n + q + Holding(w, j)' =< Holding(w, j) + r
      PROVE  RepliesInv'
  <2>1. job[j] # "none"
    BY <1>5 DEF Owned
  <2>2. /\ \A x \in Workers \ {w} : jobsTask'[x] = jobsTask[x]
        /\ \A i \in Works \ {j} : /\ Holding(w, i)' = Holding(w, i)
                                  /\ Waiting(i, 0)' = Waiting(i, 0)
                                  /\ Waiting(i, 1)' = Waiting(i, 1)
        /\ Waiting(j, 0)' + Waiting(j, 1)' =< Waiting(j, 0) + Waiting(j, 1) + q
    <3>1. q = 0 \/ q = 1
      OBVIOUS
    <3> QED BY <1>1, <1>4, <1>5, <3>1
  <2>3. ASSUME NEW i \in Works
        PROVE  /\ replies'[i] + Waiting(i, 0)' + Waiting(i, 1)' + Holding(w, i)' + Grants(i)
                    =< replies[i] + Waiting(i, 0) + Waiting(i, 1) + Holding(w, i) + Grants(i)'
               /\ replies'[i] \in Nat /\ Grants(i)' \in Nat
               /\ job'[i] = "none" => job[i] = "none" /\ replies'[i] = replies[i]
    <3>1. replies[i] \in Nat /\ Grants(i) \in Nat
      BY <1>0
    <3>2. CASE i = j
      <4>1. job'[i] # "none"
        BY <1>0, <1>5, <2>1, <3>2
      <4> QED BY <1>1, <1>5, <2>2, <3>1, <3>2, <4>1
    <3>3. CASE i # j
      <4>1. job'[i] = job[i]
        BY <1>0, <1>5, <3>3
      <4> QED BY <1>1, <1>5, <2>2, <3>1, <3>3, <4>1
    <3> QED BY <3>2, <3>3
  <2> QED BY <1>2, <2>2, <2>3
\* What the worker holds of the work, before and after.
<1>6. ASSUME NEW j \in Works, j = jobsTask[w].j, jobsTask[w] # J!Idle
      PROVE  /\ Holding(w, j) = IF jobsTask[w].pc \in Answering THEN 1 ELSE 0
             /\ jobsTask' = [jobsTask EXCEPT ![w] = J!Idle] => Holding(w, j)' = 0
             /\ jobsTask' = jobsTask => Holding(w, j)' = Holding(w, j)
             /\ \A pc \in Answering : J!Goto(w, pc) => Holding(w, j)' = 1
             /\ \A pc \in Marking : J!Goto(w, pc) => Holding(w, j)' = 0
  <2>1. Holding(w, j) = IF jobsTask[w].pc \in Answering THEN 1 ELSE 0
    BY <1>6 DEF Holding, Answerers
  <2>2. ASSUME jobsTask' = [jobsTask EXCEPT ![w] = J!Idle] PROVE Holding(w, j)' = 0
    <3>1. jobsTask'[w].pc = "idle"
      BY <1>0, <2>2 DEF J!Idle
    <3> QED BY <3>1 DEF Holding, Answerers, Answering
  <2>3. ASSUME jobsTask' = jobsTask PROVE Holding(w, j)' = Holding(w, j)
    BY <2>3 DEF Holding, Answerers
  <2>4. ASSUME NEW pc \in Answering, J!Goto(w, pc) PROVE Holding(w, j)' = 1
    <3>1. jobsTask'[w].pc = pc /\ jobsTask'[w].j = j
      BY <1>0, <1>6, <2>4, TaskGoesOn
    <3> QED BY <3>1 DEF Holding, Answerers
  <2>5. ASSUME NEW pc \in Marking, J!Goto(w, pc) PROVE Holding(w, j)' = 0
    <3>1. jobsTask'[w].pc = pc
      BY <1>0, <1>6, <2>5, TaskGoesOn
    <3>2. pc \notin Answering
      BY DEF Marking, Answering
    <3> QED BY <3>1, <3>2 DEF Holding, Answerers
  <2> QED BY <2>1, <2>2, <2>3, <2>4, <2>5
<1>7. ASSUME \/ J!MarkJobRunning(w) \/ J!Call(w) \/ J!Answer(w) \/ J!RecordUsage(w)
             \/ J!SaveResult(w) \/ J!TouchConversation(w)
             \/ J!MarkJobDone(w) \/ J!MarkJobFailed(w)
      PROVE  RepliesInv'
  <2>1. jobsTask[w] # J!Idle
    BY <1>7 DEF J!MarkJobRunning, J!Call, J!Answer, J!TouchConversation, J!RecordUsage,
       J!SaveResult, J!MarkJobDone, J!MarkJobFailed, J!Idle
  <2>2. PICK j \in Works : j = jobsTask[w].j
    BY <1>0, <2>1, HeldMessage
  <2>3. UNCHANGED <<jobsQueue, redelivered, again>>
    BY <1>7 DEF J!MarkJobRunning, J!Call, J!Answer, J!TouchConversation, J!RecordUsage,
       J!SaveResult, J!MarkJobDone, J!MarkJobFailed, J!History
  <2>4. job' = job \/ (\E s \in {"running", "done", "failed"} : job' = [job EXCEPT ![j] = s])
    BY <1>7, <2>2 DEF J!MarkJobRunning, J!Call, J!Answer, J!TouchConversation, J!RecordUsage,
       J!SaveResult, J!MarkJobDone, J!MarkJobFailed
  <2>5. Grants(j)' = Grants(j) + 0 /\ \A i \in Works : Grants(i)' = Grants(i)
    BY <1>0, <2>3 DEF Grants
  <2>6. CASE J!SaveResult(w)
    <3>1. (\E pc \in Marking : J!Goto(w, pc)) /\ jobsTask[w].pc \in Answering
      BY <2>6, SavedThen DEF J!SaveResult, Answering
    <3>2. Holding(w, j) = 1 /\ Holding(w, j)' = 0
      BY <1>6, <2>1, <2>2, <3>1
    <3>3. replies' = replies \/ replies' = [replies EXCEPT ![j] = replies[j] + 1]
      BY <2>2, <2>6 DEF J!SaveResult
    <3>4. PICK n \in 0..1 : replies'[j] = replies[j] + n
      <4>1. replies'[j] = replies[j] + 0 \/ replies'[j] = replies[j] + 1
        BY <1>0, <3>3
      <4> QED BY <4>1
    <3>5. \A i \in Works \ {j} : replies'[i] = replies[i] /\ Grants(i)' = Grants(i)
      BY <1>0, <2>5, <3>3
    <3>6. n + 0 + Holding(w, j)' =< Holding(w, j) + 0
      BY <3>2, <3>4
    <3>7. 0 \in 0..1 /\ jobsQueue' = jobsQueue
      BY <2>3
    <3> QED BY <1>5, <2>1, <2>2, <2>4, <2>5, <3>1, <3>4, <3>5, <3>6, <3>7
  <2>7. CASE ~ J!SaveResult(w)
    <3>1. replies' = replies
      BY <1>7, <2>7 DEF J!MarkJobRunning, J!Call, J!Answer, J!TouchConversation, J!RecordUsage,
         J!MarkJobDone, J!MarkJobFailed
    <3>2. /\ jobsTask' = [jobsTask EXCEPT ![w] = J!Idle]
             \/ (\E pc \in Answering \cup Marking : J!Goto(w, pc))
          /\ Holding(w, j)' =< Holding(w, j)
      <4>1. CASE J!MarkJobDone(w) \/ J!MarkJobFailed(w)
        <5>1. jobsTask' = [jobsTask EXCEPT ![w] = J!Idle]
          BY <4>1 DEF J!MarkJobDone, J!MarkJobFailed
        <5> QED BY <1>1, <1>6, <2>1, <2>2, <5>1
      <4>2. CASE J!MarkJobRunning(w) \/ J!Call(w) \/ J!Answer(w) \/ J!RecordUsage(w)
        <5>1. jobsTask[w].pc \in Answering /\ \E pc \in Answering : J!Goto(w, pc)
          BY <4>2 DEF J!MarkJobRunning, J!Call, J!Answer, J!RecordUsage, Answering
        <5>2. Holding(w, j)' = 1 /\ Holding(w, j) = 1
          BY <1>6, <2>1, <2>2, <5>1
        <5> QED BY <5>1, <5>2
      <4>3. CASE J!TouchConversation(w)
        <5>1. J!Goto(w, "done") /\ "done" \in Marking
          BY <4>3 DEF J!TouchConversation, Marking
        <5> QED BY <1>1, <1>6, <2>1, <2>2, <5>1
      <4> QED BY <1>7, <2>7, <4>1, <4>2, <4>3
    <3>3. replies'[j] = replies[j] + 0
      BY <1>0, <3>1
    <3>4. \A i \in Works \ {j} : replies'[i] = replies[i] /\ Grants(i)' = Grants(i)
      BY <2>5, <3>1
    <3>5. 0 + 0 + Holding(w, j)' =< Holding(w, j) + 0
      BY <1>1, <3>2
    <3>6. 0 \in 0..1 /\ jobsQueue' = jobsQueue
      BY <2>3
    <3> QED BY <1>5, <2>1, <2>2, <2>4, <2>5, <3>2, <3>3, <3>4, <3>5, <3>6
  <2> QED BY <2>6, <2>7
\* A failure with the reply written has its own place among the grants.
<1>8. ASSUME J!Fail(w) PROVE RepliesInv'
  <2>1. jobsTask[w] # J!Idle
    BY <1>8 DEF J!Fail, J!MayFail, J!Idle
  <2>2. PICK j \in Works : j = jobsTask[w].j
    BY <1>0, <2>1, HeldMessage
  <2>3. UNCHANGED <<job, replies, redelivered>>
    BY <1>8 DEF J!Fail
  <2>4. /\ jobsTask' = [jobsTask EXCEPT ![w] = J!Idle]
           \/ (\E pc \in Answering \cup Marking : J!Goto(w, pc))
        /\ Holding(w, j)' = 0
    <3>1. jobsTask' = [jobsTask EXCEPT ![w] = J!Idle] \/ (J!Goto(w, "failed") /\ "failed" \in Marking)
      BY <1>8 DEF J!Fail, Marking
    <3> QED BY <1>6, <2>1, <2>2, <3>1
  <2>5. jobsQueue' = jobsQueue \/ (\E r \in {0, 1} : jobsQueue' = jobsQueue \cup {<<j, r>>})
    <3>1. jobsTask[w].retries \in 0..1
      BY <1>0, <2>1, HeldMessage
    <3> QED BY <1>8, <2>2, <3>1 DEF J!Fail, J!MayRetry
  <2>6. replies'[j] = replies[j] + 0
    BY <1>0, <2>3
  <2>7. CASE jobsTask[w].pc # "touch" \/ ~ J!MayRetry(w)
    <3>1. again' = again
      BY <1>8, <2>7 DEF J!Fail
    <3>2. Grants(j)' = Grants(j) + 0 /\ \A i \in Works : Grants(i)' = Grants(i)
      BY <1>0, <2>3, <3>1 DEF Grants
    <3>3. \E q \in 0..1 : (q = 0 => jobsQueue' = jobsQueue) /\ q =< Holding(w, j)
      <4>1. CASE jobsTask[w].pc # "touch"
        <5>1. jobsTask[w].pc \in Answering
          BY <1>8, <4>1 DEF J!Fail, J!MayFail, Answering
        <5>2. Holding(w, j) = 1
          BY <1>6, <2>1, <2>2, <5>1
        <5> QED BY <5>2
      <4>2. CASE ~ J!MayRetry(w)
        <5>1. jobsQueue' = jobsQueue
          BY <1>8, <4>2 DEF J!Fail
        <5> QED BY <1>1, <5>1
      <4> QED BY <2>7, <4>1, <4>2
    <3>4. PICK q \in 0..1 : (q = 0 => jobsQueue' = jobsQueue) /\ q =< Holding(w, j)
      BY <3>3
    <3>5. 0 + q + Holding(w, j)' =< Holding(w, j) + 0 /\ 0 \in 0..1
      BY <1>1, <2>4, <3>4
    <3> QED BY <1>5, <2>1, <2>2, <2>3, <2>4, <2>5, <2>6, <3>2, <3>4, <3>5
  <2>8. CASE jobsTask[w].pc = "touch" /\ J!MayRetry(w)
    <3>1. again' = [again EXCEPT ![j] = again[j] + 1]
      BY <1>8, <2>2, <2>8 DEF J!Fail
    <3>2. Grants(j)' = Grants(j) + 1 /\ \A i \in Works \ {j} : Grants(i)' = Grants(i)
      BY <1>0, <2>3, <3>1 DEF Grants
    <3>3. 0 + 1 + Holding(w, j)' =< Holding(w, j) + 1 /\ 0 \in 0..1 /\ 1 \in 0..1 /\ 1 # 0
      BY <1>1, <2>4
    <3> QED BY <1>5, <2>1, <2>2, <2>3, <2>4, <2>5, <2>6, <3>2, <3>3
  <2> QED BY <2>7, <2>8 DEF J!MayRetry
<1>9. ASSUME J!Redeliver(w) PROVE RepliesInv'
  <2>1. jobsTask[w] # J!Idle
    BY <1>9 DEF J!Redeliver
  <2>2. PICK j \in Works : j = jobsTask[w].j
    BY <1>0, <2>1, HeldMessage
  <2>3. /\ UNCHANGED <<job, replies, again>> /\ redelivered[j] < 1
        /\ redelivered' = [redelivered EXCEPT ![j] = redelivered[j] + 1]
        /\ jobsTask' = [jobsTask EXCEPT ![w] = J!Idle] \/ jobsTask' = jobsTask
        /\ jobsQueue' = jobsQueue \cup {<<j, jobsTask[w].retries>>}
    BY <1>9, <2>2 DEF J!Redeliver
  <2>4. Holding(w, j)' =< Holding(w, j)
    BY <1>1, <1>6, <2>1, <2>2, <2>3
  <2>5. \E r \in {0, 1} : jobsQueue' = jobsQueue \cup {<<j, r>>}
    <3>1. jobsTask[w].retries \in {0, 1}
      BY <1>0, <2>1, HeldMessage
    <3> QED BY <2>3, <3>1
  <2>6. replies'[j] = replies[j] + 0 /\ Grants(j)' = Grants(j) + 1
    BY <1>0, <2>3 DEF Grants
  <2>7. \A i \in Works \ {j} : replies'[i] = replies[i] /\ Grants(i)' = Grants(i)
    BY <1>0, <2>3 DEF Grants
  <2>8. 0 + 1 + Holding(w, j)' =< Holding(w, j) + 1 /\ 0 \in 0..1 /\ 1 \in 0..1 /\ 1 # 0
    BY <1>1, <2>4
  <2> QED BY <1>5, <2>1, <2>2, <2>3, <2>5, <2>6, <2>7, <2>8
<1> QED BY <1>3, <1>7, <1>8, <1>9 DEF J!Work

JobsInv == JobTypes /\ Owned /\ CallsInv /\ J!VersionsDiffer /\ SignedInv /\ RepliesInv

\* Nothing is called, validated or answered at first.
LEMMA JobsInit == J!Init => JobsInv
<1> SUFFICES ASSUME J!Init PROVE JobsInv
  OBVIOUS
<1>1. JobTypes /\ Owned
  BY JobTypesInit, OwnedInit
<1>2. /\ used = 0 /\ calls = 0 /\ lost = 0 /\ jobsQueue = {}
      /\ \A j \in Works : /\ doc[j].status = "none" /\ signed[j] = "none"
                          /\ replies[j] = 0 /\ redelivered[j] = 0 /\ again[j] = 0
      /\ \A w \in Workers : jobsTask[w].pc = "idle"
  BY DEF J!Init, J!NoDoc, J!Idle, Works
<1>3. Recording = {} /\ \A j \in Works : Answerers(j) = {}
  BY <1>2 DEF Recording, Answerers, Answering
<1>4. CallsInv
  BY <1>2, <1>3, FS_EmptySet DEF CallsInv
<1>5. J!VersionsDiffer
  BY <1>2 DEF J!VersionsDiffer, J!Documents, Works
<1>6. SignedInv
  BY <1>2 DEF SignedInv
<1>7. RepliesInv
  <2>1. \A j \in Works : Waiting(j, 0) = 0 /\ Waiting(j, 1) = 0
    BY <1>2 DEF Waiting
  <2>2. \A j \in Works : Cardinality(Answerers(j)) = 0
    BY <1>3, FS_EmptySet
  <2> QED BY <1>2, <2>1, <2>2 DEF RepliesInv, Load, Grants
<1> QED BY <1>1, <1>4, <1>5, <1>6, <1>7 DEF JobsInv

\* The invariant of the jobs holds whatever moves.
LEMMA JobsStep == JobsInv /\ (J!Next \/ UNCHANGED jobsVars) => JobsInv'
<1>1. ASSUME JobsInv, UNCHANGED jobsVars PROVE JobsInv'
  <2> USE <1>1 DEF jobsVars, JobsInv
  <2>1. JobTypes' /\ Owned'
    BY DEF JobTypes, Owned, J!Asked, J!HasDocument
  <2>2. CallsInv' /\ J!VersionsDiffer' /\ SignedInv'
    BY DEF CallsInv, Recording, J!VersionsDiffer, J!Documents, SignedInv, LeftAlone
  <2>3. \A j \in Works : Load(j)' = Load(j) /\ Grants(j)' = Grants(j)
    BY DEF Load, Waiting, Answerers, Grants
  <2>4. RepliesInv'
    BY <2>3 DEF RepliesInv
  <2> QED BY <2>1, <2>2, <2>4
<1>2. ASSUME JobsInv, J!Next PROVE JobsInv'
  <2> USE <1>2 DEF JobsInv
  <2>1. J!VersionsDiffer' /\ SignedInv'
    BY VersionsKept, SignedKept
  <2>2. ASSUME NEW w \in Workers, J!Work(w) \/ J!Redeliver(w)
        PROVE  JobTypes' /\ Owned' /\ CallsInv' /\ RepliesInv'
    BY <2>2, WorkerTypes, WorkerOwns, CallsKept, WorkerAnswersOnce
  <2>3. ASSUME \/ \E h \in Handlers : J!Serve(h) \/ J!RequestDies(h)
                   \/ \E j \in Works : J!BeginDocument(h, j) \/ J!BeginEdit(h, j)
               \/ \E j \in Works : J!AskReply(j) \/ J!ValidateDocument(j)
        PROVE  JobTypes' /\ Owned' /\ CallsInv' /\ RepliesInv'
    <3>1. JobTypes'
      BY <2>3, LatestVersion, RequestTypes
    <3>2. Owned' /\ RepliesInv'
      BY <2>3, RequestOwns, RequestAsksOnce
    <3>3. CallsInv'
      BY <2>3, RequestLeaves DEF CallsInv, Recording
    <3> QED BY <3>1, <3>2, <3>3
  <2> QED BY <2>1, <2>2, <2>3 DEF J!Next, Works
<1> QED BY <1>1, <1>2

\* What the invariant says of the jobs is what the property says.
LEMMA JobsServe ==
    JobsInv => /\ J!TypeOK /\ J!CallsAccounted /\ J!VersionsDiffer
               /\ J!ValidatedKeepsItsText /\ J!OneReply
<1> SUFFICES ASSUME JobsInv
             PROVE  /\ J!TypeOK /\ J!CallsAccounted /\ J!VersionsDiffer
                    /\ J!ValidatedKeepsItsText /\ J!OneReply
  OBVIOUS
<1> USE DEF JobsInv
<1>1. J!TypeOK
  <2> USE DEF JobTypes
  <2>1. ASSUME NEW m \in jobsQueue PROVE m[1] \in {i \in Works : J!Asked(i)} /\ m = <<m[1], m[2]>> /\ m[2] \in 0..1
    BY DEF Owned, J!Asked
  <2>2. jobsQueue \subseteq {<<j, r>> : j \in {i \in Works : J!Asked(i)}, r \in 0..1}
    BY <2>1
  <2>3. ASSUME NEW w \in Workers
        PROVE  \/ jobsTask[w] = J!Idle
               \/ jobsTask[w] \in [pc : {"mark", "call", "asked", "record", "save", "touch", "done", "failed"},
                                   j : {i \in Works : job[i] # "none"}, retries : 0..1]
    <3>1. Answering \cup Marking = {"mark", "call", "asked", "record", "save", "touch", "done", "failed"}
      BY DEF Answering, Marking
    <3>2. jobsTask[w] \in TaskStates /\ (jobsTask[w] # J!Idle => job[jobsTask[w].j] # "none")
      BY DEF Owned
    <3> QED BY <3>1, <3>2 DEF TaskStates
  <2>4. ASSUME NEW h \in Handlers
        PROVE  \/ req[h] = J!Free
               \/ req[h] \in [op : {"create"}, j : Works, version : Nat]
               \/ req[h] \in [op : {"publish", "compose", "edit"}, j : J!Documents]
    <3>1. req[h] \in [op : {"publish", "compose", "edit"}, j : Works] =>
            req[h].j \in J!Documents
      BY DEF Owned, J!Documents, Works
    <3> QED BY <3>1 DEF Requests
  <2>5. {used, calls, lost} \subseteq Nat /\ orphan \cup jobsRaced \cup early \subseteq Works
    OBVIOUS
  <2>6. job \in [Works -> {"none", "pending", "running"} \cup J!Finished]
    BY DEF J!Finished
  <2> QED BY <2>2, <2>3, <2>4, <2>5, <2>6 DEF J!TypeOK, Works, DocRows
<1>2. J!CallsAccounted
  <2>1. J!Cardinality(Recording) = Cardinality(Recording)
    BY DEF Cardinality, J!Cardinality
  <2> QED BY <2>1 DEF J!CallsAccounted, CallsInv, J!Recording, Recording
<1>3. J!ValidatedKeepsItsText
  BY DEF J!ValidatedKeepsItsText, SignedInv, J!Documents, Works
<1>4. J!OneReply
  <2>1. ASSUME NEW j \in Works PROVE replies[j] =< 1 + redelivered[j] + again[j]
    <3>1. Answerers(j) \subseteq Workers
      BY DEF Answerers
    <3>2. Cardinality(Answerers(j)) \in Nat
      BY <3>1, FS_Subset, FS_CardinalityType, ProcessesAssumption
    <3>3. Waiting(j, 0) \in 0..1 /\ Waiting(j, 1) \in 0..1
      BY DEF Waiting
    <3>4. replies[j] \in Nat /\ redelivered[j] \in Nat /\ again[j] \in Nat
      BY DEF JobTypes
    <3>5. Load(j) =< 1 + redelivered[j] + again[j]
      BY <3>4 DEF RepliesInv, Grants
    <3> QED BY <3>2, <3>3, <3>4, <3>5 DEF Load
  <2> QED BY <2>1 DEF J!OneReply, Works
<1> QED BY <1>1, <1>2, <1>3, <1>4

-----------------------------------------------------------------------------
(* The queries of a scan.                                                  *)

Figures == [value : Nat, asked : Nat, until : Nat]

\* What a scan has collected on its way, and when it has everything.
Everything == {<<1, 1>>, <<1, 2>>, <<2, 1>>}

ScanRecords ==
    [pc : {"none", "asked", "scan", "done", "over", "failed"}, e : Nat, page : Nat,
     attempt : Nat, consumed : Nat]

OnItsWay(r, items) ==
    \/ r.e = 1 /\ r.page = 1 /\ items = {} /\ r.consumed = 0
    \/ r.e = 1 /\ r.page = 2 /\ items = {<<1, 1>>} /\ r.consumed = 1
    \/ r.e = 2 /\ r.page = 1 /\ items = {<<1, 1>>, <<1, 2>>} /\ r.consumed = 2

ScanTypes ==
    /\ queriesPages = <<3, 1>>
    /\ queriesMode \in {"live", "replay"}
    /\ queriesRemaining \in 0..3 /\ queriesTime \in Nat
    /\ DOMAIN queriesGot = Works /\ DOMAIN queriesScan = Works

\* What each scan has, at each of its steps.
Collected ==
    \A s \in Works : LET r == queriesScan[s] IN
      /\ r.pc \in {"none", "asked", "scan", "done", "record", "over", "failed"}
      /\ r.pc = "scan" => r \in ScanRecords /\ OnItsWay(r, queriesGot[s])
      /\ r.pc = "done" => r.consumed = 0 \/ (r.consumed = 3 /\ queriesGot[s] = Everything)
      /\ r.pc \in {"record", "over"} => queriesGot[s] = Everything
      /\ r.pc = "failed" => queriesGot[s] = {}

Undisturbed == queriesExcuse \cap {"renewed", "switched"} = {}

\* A figure that is kept: when it was asked for, and what it promises.
Held(figure) ==
    figure = Q!None
    \/ /\ figure \in Figures
       /\ figure.asked =< queriesTime
       /\ Undisturbed => figure.value >= queriesRemaining

KeptFigures ==
    /\ Held(queriesCached)
    /\ queriesCached # Q!None /\ "kept" \notin queriesExcuse =>
         queriesCached.until = queriesCached.asked + 1
    /\ \A s \in Works : queriesScan[s].pc = "record" => Held(queriesScan[s].figure)

QueriesInv == ScanTypes /\ Collected /\ KeptFigures

\* Nothing is asked at first.
LEMMA QueriesInit == Q!Init => QueriesInv
<1> SUFFICES ASSUME Q!Init PROVE QueriesInv
  OBVIOUS
<1>1. /\ queriesScan = [s \in Works |-> Q!Start("none")] /\ queriesGot = [s \in Works |-> {}]
      /\ queriesPages = <<3, 1>> /\ queriesMode = "live" /\ queriesRemaining = 3
      /\ queriesTime = 0 /\ queriesCached = Q!None
  BY DEF Q!Init, Works
<1>2. \A s \in Works : queriesScan[s].pc = "none"
  BY <1>1 DEF Q!Start
<1>4. ScanTypes
  BY <1>1 DEF ScanTypes
<1>5. Collected
  BY <1>2 DEF Collected
<1>6. KeptFigures
  BY <1>1, <1>2 DEF KeptFigures, Held
<1> QED BY <1>4, <1>5, <1>6 DEF QueriesInv

\* What is read of the budget, and what the cache then holds, may be kept.
LEMMA FigureRead ==
    ASSUME QueriesInv, NEW known \in BOOLEAN
    PROVE  /\ Held(Q!Remaining(known)) /\ Held(Q!Cached(known))
           /\ Q!Cached(known) # Q!None /\ "kept" \notin queriesExcuse =>
                Q!Cached(known).until = Q!Cached(known).asked + 1
<1> USE DEF QueriesInv, ScanTypes, KeptFigures
<1> DEFINE fresh == [value |-> Q!Said, asked |-> queriesTime, until |-> queriesTime + 1]
<1>1. queriesMode # "null" => Q!Said \in Nat /\ Q!Said >= queriesRemaining
  <2>1. queriesMode = "live" => Q!Said = queriesRemaining
    BY DEF Q!Said
  <2>2. queriesMode = "replay" => Q!Said = 9
    BY DEF Q!Said
  <2> QED BY <2>1, <2>2
<1>2. queriesMode # "null" => Held(fresh) /\ fresh.until = fresh.asked + 1
  BY <1>1 DEF Held, Figures
<1>3. Q!Figure(Q!Said, queriesTime) = fresh
  BY DEF Q!Figure
<1> HIDE DEF fresh
<1>4. Q!Remaining(known) \in {queriesCached, fresh, Q!None}
  BY <1>3 DEF Q!Remaining
<1>5. queriesMode # "null"
  OBVIOUS
<1>6. Held(Q!None)
  BY DEF Held
<1>7. Held(Q!Remaining(known))
  BY <1>2, <1>4, <1>5, <1>6
<1>8. Q!Cached(known) \in {queriesCached, fresh}
  BY <1>4 DEF Q!Cached
<1> QED BY <1>2, <1>5, <1>7, <1>8

\* What a step does to the scans, when it moves one.
LEMMA OneScanMoves ==
    ASSUME ScanTypes, Collected, NEW s \in Works, NEW r, NEW items,
           queriesScan' = [queriesScan EXCEPT ![s] = r],
           DOMAIN queriesGot' = Works, queriesGot'[s] = items,
           \A x \in Works \ {s} : queriesGot'[x] = queriesGot[x],
           r.pc \in {"none", "asked", "scan", "done", "record", "over", "failed"},
           r.pc = "scan" => r \in ScanRecords /\ OnItsWay(r, items),
           r.pc = "done" => r.consumed = 0 \/ (r.consumed = 3 /\ items = Everything),
           r.pc \in {"record", "over"} => items = Everything,
           r.pc = "failed" => items = {}
    PROVE  Collected' /\ DOMAIN queriesGot' = Works /\ DOMAIN queriesScan' = Works
<1>1. /\ queriesScan'[s] = r /\ queriesGot'[s] = items
      /\ \A x \in Works \ {s} : queriesScan'[x] = queriesScan[x] /\ queriesGot'[x] = queriesGot[x]
      /\ DOMAIN queriesGot' = Works /\ DOMAIN queriesScan' = Works
  BY DEF ScanTypes
<1>2. \A x \in Works : queriesScan'[x] = IF x = s THEN r ELSE queriesScan[x]
  BY <1>1
<1> QED BY <1>1, <1>2 DEF Collected

\* The figures that are kept after a step that moves one scan.
LEMMA FiguresStay ==
    ASSUME ScanTypes, KeptFigures, NEW s \in Works, NEW r,
           queriesScan' = [queriesScan EXCEPT ![s] = r], r.pc # "record",
           queriesRemaining' =< queriesRemaining, queriesRemaining' \in 0..3,
           UNCHANGED <<queriesCached, queriesTime, queriesExcuse>>
    PROVE  KeptFigures'
<1>1. \A x \in Works : queriesScan'[x] = IF x = s THEN r ELSE queriesScan[x]
  BY DEF ScanTypes
<1>2. ASSUME NEW figure, Held(figure) PROVE Held(figure)'
  BY <1>2 DEF Held, Undisturbed, Figures, ScanTypes
<1>3. Held(queriesCached)'
  BY <1>2 DEF KeptFigures
<1>4. ASSUME NEW x \in Works, queriesScan'[x].pc = "record" PROVE Held(queriesScan[x].figure)' /\ queriesScan'[x] = queriesScan[x]
  BY <1>1, <1>2, <1>4 DEF KeptFigures
<1> QED BY <1>1, <1>3, <1>4 DEF KeptFigures, Held

\* An answer that is counted.
LEMMA AnswerCounted ==
    ASSUME NEW r \in ScanRecords
    PROVE  LET r1 == [r EXCEPT !.attempt = 0, !.consumed = r.consumed + 1] IN
             /\ r1 \in ScanRecords /\ r1.pc = r.pc /\ r1.e = r.e /\ r1.page = r.page
             /\ r1.consumed = r.consumed + 1
<1>1. r.consumed + 1 \in Nat
  BY DEF ScanRecords
<1>2. PICK n \in Nat : n = r.consumed + 1
  BY <1>1
<1>3. LET r1 == [r EXCEPT !.attempt = 0, !.consumed = n] IN
        r1 \in ScanRecords /\ r1.pc = r.pc /\ r1.e = r.e /\ r1.page = r.page /\ r1.consumed = n
  BY DEF ScanRecords
<1> QED BY <1>2, <1>3

\* The scan that a page has been answered to goes on with the next one.
LEMMA NextPage ==
    ASSUME QueriesInv, NEW s \in Works, Q!Answered(s)
    PROVE  \E r, items :
             /\ queriesScan' = [queriesScan EXCEPT ![s] = r]
             /\ queriesGot' = [queriesGot EXCEPT ![s] = items]
             /\ \/ r.pc = "scan" /\ r \in ScanRecords /\ OnItsWay(r, items)
                \/ r.pc = "done" /\ r.consumed = 3 /\ items = Everything
<1> USE DEF QueriesInv, ScanTypes, Collected
<1> DEFINE r0 == queriesScan[s]
           last == r0.page >= queriesPages[r0.e] \/ r0.page >= 2
           r1 == [r0 EXCEPT !.attempt = 0, !.consumed = r0.consumed + 1]
           items == queriesGot[s] \cup {<<r0.e, r0.page>>}
<1>1. r0.pc = "scan"
  BY DEF Q!Answered, Q!At
<1>2. r0 \in ScanRecords /\ OnItsWay(r0, queriesGot[s])
  BY <1>1
<1>3. /\ queriesScan' = [queriesScan EXCEPT ![s] = Q!After(r1, last)]
      /\ queriesGot' = [queriesGot EXCEPT ![s] = items]
  BY DEF Q!Answered
<1>4. /\ r1 \in ScanRecords /\ r1.pc = "scan" /\ r1.e = r0.e /\ r1.page = r0.page
      /\ r1.consumed = r0.consumed + 1
  BY <1>1, <1>2, AnswerCounted
<1>5. Q!Cardinality(Q!Endpoints) = 2
  <2>1. Q!Endpoints = 1..2
    BY DEF Q!Endpoints
  <2>2. Cardinality(1..2) = 2
    <3>1. 1..2 = {1} \cup {2} /\ 2 \notin {1}
      OBVIOUS
    <3>2. IsFiniteSet({1}) /\ Cardinality({1}) = 1
      BY FS_Singleton
    <3> QED BY <3>1, <3>2, FS_AddElement
  <2> QED BY <2>1, <2>2 DEF Cardinality, Q!Cardinality
<1> HIDE DEF r1
<1>6. /\ ~ last => Q!After(r1, last) = [r1 EXCEPT !.page = r1.page + 1]
      /\ last /\ r1.e < 2 => Q!After(r1, last) = [r1 EXCEPT !.e = r1.e + 1, !.page = 1]
      /\ last /\ ~ (r1.e < 2) => Q!After(r1, last) = [r1 EXCEPT !.pc = "done"]
  BY <1>5 DEF Q!After
<1>7. CASE r0.e = 1 /\ r0.page = 1
  <2>1. ~ last
    BY <1>7
  <2>2. queriesGot[s] = {} /\ r0.consumed = 0
    BY <1>2, <1>7 DEF OnItsWay
  <2> DEFINE r2 == [r1 EXCEPT !.page = r1.page + 1]
  <2>3. r2 \in ScanRecords /\ r2.pc = "scan" /\ r2.e = 1 /\ r2.page = 2 /\ r2.consumed = 1
    BY <1>4, <1>7, <2>2 DEF ScanRecords
  <2>4. items = {<<1, 1>>}
    BY <1>7, <2>2
  <2> QED BY <1>3, <1>6, <2>1, <2>3, <2>4 DEF OnItsWay
<1>8. CASE r0.e = 1 /\ r0.page = 2
  <2>1. last /\ r1.e < 2
    BY <1>4, <1>8
  <2>2. queriesGot[s] = {<<1, 1>>} /\ r0.consumed = 1
    BY <1>2, <1>8 DEF OnItsWay
  <2> DEFINE r2 == [r1 EXCEPT !.e = r1.e + 1, !.page = 1]
  <2>3. r2 \in ScanRecords /\ r2.pc = "scan" /\ r2.e = 2 /\ r2.page = 1 /\ r2.consumed = 2
    <3>1. r1.e + 1 = 2 /\ r1.consumed = 2
      BY <1>4, <1>8, <2>2
    <3>2. LET r3 == [r1 EXCEPT !.e = 2, !.page = 1] IN
            r3 \in ScanRecords /\ r3.pc = r1.pc /\ r3.e = 2 /\ r3.page = 1
            /\ r3.consumed = r1.consumed
      BY <1>4 DEF ScanRecords
    <3> QED BY <1>4, <3>1, <3>2
  <2>4. items = {<<1, 1>>, <<1, 2>>}
    BY <1>8, <2>2
  <2> QED BY <1>3, <1>6, <2>1, <2>3, <2>4 DEF OnItsWay
<1>9. CASE r0.e = 2 /\ r0.page = 1
  <2>1. last /\ ~ (r1.e < 2)
    BY <1>4, <1>9
  <2>2. queriesGot[s] = {<<1, 1>>, <<1, 2>>} /\ r0.consumed = 2
    BY <1>2, <1>9 DEF OnItsWay
  <2> DEFINE r2 == [r1 EXCEPT !.pc = "done"]
  <2>3. r2.pc = "done" /\ r2.consumed = 3
    BY <1>4, <2>2 DEF ScanRecords
  <2>4. items = Everything
    BY <1>9, <2>2 DEF Everything
  <2> HIDE DEF r2, items
  <2>5. queriesScan' = [queriesScan EXCEPT ![s] = r2]
    BY <1>3, <1>6, <2>1 DEF r2
  <2> QED BY <1>3, <2>3, <2>4, <2>5
<1> QED BY <1>2, <1>7, <1>8, <1>9 DEF OnItsWay

\* Each step of a scan keeps what is known of it.
LEMMA ScanGoesOn ==
    ASSUME QueriesInv, NEW s \in Works,
           \/ Q!Begin(s) \/ Q!Answered(s) \/ Q!Refused(s)
           \/ \E counted \in BOOLEAN : Q!Fails(s, counted)
    PROVE  QueriesInv'
<1> USE DEF QueriesInv
<1>1. ASSUME NEW r, NEW items,
             queriesScan' = [queriesScan EXCEPT ![s] = r],
             queriesGot' = [queriesGot EXCEPT ![s] = items] \/ (queriesGot' = queriesGot /\ items = queriesGot[s]),
             \/ r.pc = "scan" /\ r \in ScanRecords /\ OnItsWay(r, items)
             \/ r.pc = "done" /\ (r.consumed = 0 \/ (r.consumed = 3 /\ items = Everything))
             \/ r.pc = "failed" /\ items = {},
             queriesRemaining' =< queriesRemaining, queriesRemaining' \in 0..3,
             UNCHANGED <<queriesMode, queriesPages, queriesCached, queriesTime, queriesExcuse>>
      PROVE  QueriesInv'
  <2>1. /\ DOMAIN queriesGot' = Works /\ queriesGot'[s] = items
        /\ \A x \in Works \ {s} : queriesGot'[x] = queriesGot[x]
    BY <1>1 DEF ScanTypes
  <2>2. Collected' /\ DOMAIN queriesGot' = Works /\ DOMAIN queriesScan' = Works
    BY <1>1, <2>1, OneScanMoves
  <2>3. KeptFigures'
    BY <1>1, FiguresStay
  <2>4. ScanTypes'
    BY <1>1, <2>2 DEF ScanTypes
  <2> QED BY <2>2, <2>3, <2>4
<1>2. ASSUME Q!Begin(s) PROVE QueriesInv'
  <2> DEFINE r == Q!Start(IF queriesMode = "live" THEN "scan" ELSE "done")
             items == IF queriesMode = "replay" THEN {<<i, 1>> : i \in {1}} ELSE {}
  <2>1. /\ queriesScan' = [queriesScan EXCEPT ![s] = r]
        /\ queriesGot' = [queriesGot EXCEPT ![s] = items]
        /\ UNCHANGED <<queriesMode, queriesPages, queriesRemaining, queriesCached, queriesTime, queriesExcuse>>
    BY <1>2 DEF Q!Begin
  <2>2. \/ r.pc = "scan" /\ r \in ScanRecords /\ OnItsWay(r, items)
        \/ r.pc = "done" /\ r.consumed = 0
    BY DEF Q!Start, ScanRecords, OnItsWay
  <2>3. queriesRemaining' =< queriesRemaining /\ queriesRemaining' \in 0..3
    BY <2>1 DEF ScanTypes
  <2> HIDE DEF r, items
  <2> QED BY <1>1, <2>1, <2>2, <2>3
<1>3. ASSUME Q!Answered(s) PROVE QueriesInv'
  <2>1. PICK r, items :
             /\ queriesScan' = [queriesScan EXCEPT ![s] = r]
             /\ queriesGot' = [queriesGot EXCEPT ![s] = items]
             /\ \/ r.pc = "scan" /\ r \in ScanRecords /\ OnItsWay(r, items)
                \/ r.pc = "done" /\ r.consumed = 3 /\ items = Everything
    BY <1>3, NextPage
  <2>2. /\ queriesRemaining' = queriesRemaining - 1 /\ queriesRemaining > 0
        /\ UNCHANGED <<queriesMode, queriesPages, queriesCached, queriesTime, queriesExcuse>>
    BY <1>3 DEF Q!Answered
  <2>3. queriesRemaining' =< queriesRemaining /\ queriesRemaining' \in 0..3
    BY <2>2 DEF ScanTypes
  <2> QED BY <1>1, <2>1, <2>2, <2>3
<1>4. ASSUME NEW counted \in BOOLEAN, Q!Fails(s, counted) PROVE QueriesInv'
  <2>1. queriesScan[s].pc = "scan"
    BY <1>4 DEF Q!Fails, Q!At
  <2>2. queriesScan[s] \in ScanRecords /\ OnItsWay(queriesScan[s], queriesGot[s])
    BY <2>1 DEF Collected
  <2>3. /\ queriesRemaining' = IF counted THEN queriesRemaining - 1 ELSE queriesRemaining
        /\ counted => queriesRemaining > 0
        /\ UNCHANGED <<queriesMode, queriesPages, queriesCached, queriesTime, queriesExcuse>>
    BY <1>4 DEF Q!Fails
  <2>4. queriesRemaining' =< queriesRemaining /\ queriesRemaining' \in 0..3
    BY <2>3 DEF ScanTypes
  <2>5. CASE queriesScan[s].attempt < 1
    <3> DEFINE r == [queriesScan[s] EXCEPT !.attempt = queriesScan[s].attempt + 1]
    <3>1. queriesScan' = [queriesScan EXCEPT ![s] = r] /\ queriesGot' = queriesGot
      BY <1>4, <2>5 DEF Q!Fails
    <3>2. r.pc = "scan" /\ r \in ScanRecords /\ OnItsWay(r, queriesGot[s])
      BY <2>1, <2>2 DEF ScanRecords, OnItsWay
    <3> HIDE DEF r
    <3> QED BY <1>1, <2>3, <2>4, <3>1, <3>2
  <2>6. CASE ~ (queriesScan[s].attempt < 1)
    <3>1. /\ queriesScan' = [queriesScan EXCEPT ![s] = Q!Start("failed")]
          /\ queriesGot' = [queriesGot EXCEPT ![s] = {}]
      BY <1>4, <2>6 DEF Q!Fails
    <3>2. Q!Start("failed").pc = "failed"
      BY DEF Q!Start
    <3> QED BY <1>1, <2>3, <2>4, <3>1, <3>2
  <2> QED BY <2>5, <2>6
<1>5. ASSUME Q!Refused(s) PROVE QueriesInv'
  <2>1. /\ queriesScan' = [queriesScan EXCEPT ![s] = Q!Start("failed")]
        /\ queriesGot' = [queriesGot EXCEPT ![s] = {}]
        /\ UNCHANGED <<queriesMode, queriesPages, queriesRemaining, queriesCached, queriesTime, queriesExcuse>>
    BY <1>5 DEF Q!Refused
  <2>2. Q!Start("failed").pc = "failed"
    BY DEF Q!Start
  <2>3. queriesRemaining' =< queriesRemaining /\ queriesRemaining' \in 0..3
    BY <2>1 DEF ScanTypes
  <2> QED BY <1>1, <2>1, <2>2, <2>3
<1> QED BY <1>2, <1>3, <1>4, <1>5

\* Each step about the budget keeps what is known of its figure.
LEMMA BudgetGoesOn ==
    ASSUME QueriesInv, NEW s \in Works, NEW known \in BOOLEAN,
           Q!RecordUsage(s) \/ Q!ReadRemaining(s, known) \/ Q!EnsureQueryBudget(s, known)
    PROVE  QueriesInv'
<1> USE DEF QueriesInv
\* What the cache holds, and what the scan holds, are figures that may be kept.
<1>1. ASSUME NEW r, NEW kept, queriesScan' = [queriesScan EXCEPT ![s] = r], queriesCached' = kept,
             Held(kept), kept # Q!None /\ "kept" \notin queriesExcuse' => kept.until = kept.asked + 1,
             queriesExcuse' \in {queriesExcuse, queriesExcuse \cup {"kept"}},
             r.pc \in {"asked", "record", "over"},
             r.pc \in {"record", "over"} => queriesGot[s] = Everything,
             r.pc = "record" => Held(r.figure),
             UNCHANGED <<queriesMode, queriesPages, queriesGot, queriesRemaining, queriesTime>>
      PROVE  QueriesInv'
  <2>1. /\ DOMAIN queriesGot' = Works /\ queriesGot'[s] = queriesGot[s]
        /\ \A x \in Works \ {s} : queriesGot'[x] = queriesGot[x]
    BY <1>1 DEF ScanTypes
  <2>2. Collected' /\ DOMAIN queriesScan' = Works
    BY <1>1, <2>1, OneScanMoves
  <2>3. ScanTypes'
    BY <1>1, <2>1, <2>2 DEF ScanTypes
  <2>4. ASSUME NEW figure, Held(figure) PROVE Held(figure)'
    BY <1>1, <2>4 DEF Held, Undisturbed, Figures
  <2>5. Held(queriesCached)'
    BY <1>1, <2>4 DEF Held
  <2>6. \A x \in Works : queriesScan'[x] = IF x = s THEN r ELSE queriesScan[x]
    BY <1>1 DEF ScanTypes
  <2>7. ASSUME NEW x \in Works, queriesScan'[x].pc = "record" PROVE Held(queriesScan'[x].figure)
    BY <1>1, <2>6, <2>7 DEF KeptFigures
  <2>8. KeptFigures'
    <3>1. queriesCached' # Q!None /\ "kept" \notin queriesExcuse' =>
            queriesCached'.until = queriesCached'.asked + 1
      BY <1>1
    <3>2. ASSUME NEW x \in Works, queriesScan'[x].pc = "record" PROVE Held(queriesScan[x].figure)'
      <4>1. Held(queriesScan'[x].figure)
        BY <2>7, <3>2
      <4> QED BY <1>1, <4>1 DEF Held, Undisturbed, Figures
    <3> QED BY <2>5, <3>1, <3>2 DEF KeptFigures
  <2> QED BY <2>2, <2>3, <2>8
<1>2. ASSUME Q!EnsureQueryBudget(s, known) PROVE QueriesInv'
  <2>1. /\ queriesScan' = [queriesScan EXCEPT ![s] = Q!Start("asked")]
        /\ queriesCached' = Q!Cached(known)
        /\ UNCHANGED <<queriesMode, queriesPages, queriesGot, queriesRemaining, queriesTime, queriesExcuse>>
    BY <1>2 DEF Q!EnsureQueryBudget
  <2>2. Q!Start("asked").pc = "asked"
    BY DEF Q!Start
  <2>3. /\ Held(Q!Cached(known))
        /\ Q!Cached(known) # Q!None /\ "kept" \notin queriesExcuse' =>
             Q!Cached(known).until = Q!Cached(known).asked + 1
    BY <2>1, FigureRead
  <2> QED BY <1>1, <2>1, <2>2, <2>3
<1>3. ASSUME Q!ReadRemaining(s, known) PROVE QueriesInv'
  <2> DEFINE r == [pc |-> "record", figure |-> Q!Remaining(known)]
  <2>1. /\ queriesScan' = [queriesScan EXCEPT ![s] = r]
        /\ queriesCached' = Q!Cached(known)
        /\ queriesScan[s].pc = "done" /\ queriesScan[s].consumed > 0
        /\ UNCHANGED <<queriesMode, queriesPages, queriesGot, queriesRemaining, queriesTime, queriesExcuse>>
    BY <1>3 DEF Q!ReadRemaining, Q!At
  <2>2. queriesGot[s] = Everything
    BY <2>1 DEF Collected
  <2>3. /\ Held(Q!Cached(known)) /\ Held(Q!Remaining(known))
        /\ Q!Cached(known) # Q!None /\ "kept" \notin queriesExcuse' =>
             Q!Cached(known).until = Q!Cached(known).asked + 1
    BY <2>1, FigureRead
  <2>4. r.pc = "record" /\ r.figure = Q!Remaining(known)
    OBVIOUS
  <2> HIDE DEF r
  <2> QED BY <1>1, <2>1, <2>2, <2>3, <2>4
<1>4. ASSUME Q!RecordUsage(s) PROVE QueriesInv'
  <2> DEFINE figure == queriesScan[s].figure
             kept == IF figure = Q!None THEN queriesCached ELSE Q!Figure(figure.value, figure.asked)
  <2>1. /\ queriesScan' = [queriesScan EXCEPT ![s] = Q!Start("over")]
        /\ queriesCached' = kept
        /\ queriesExcuse' = IF figure # Q!None /\ figure.asked < queriesTime
                            THEN queriesExcuse \cup {"kept"} ELSE queriesExcuse
        /\ queriesScan[s].pc = "record"
        /\ UNCHANGED <<queriesMode, queriesPages, queriesGot, queriesRemaining, queriesTime>>
    BY <1>4 DEF Q!RecordUsage, Q!At
  <2>2. queriesGot[s] = Everything /\ Held(figure)
    BY <2>1 DEF Collected, KeptFigures
  <2>3. Q!Start("over").pc = "over"
    BY DEF Q!Start
  <2>4. Held(kept) /\ (kept # Q!None /\ "kept" \notin queriesExcuse' => kept.until = kept.asked + 1)
    <3>1. CASE figure = Q!None
      <4>1. kept = queriesCached /\ queriesExcuse' = queriesExcuse
        BY <2>1, <3>1
      <4> HIDE DEF figure, kept
      <4> QED BY <4>1 DEF KeptFigures
    <3>2. CASE figure # Q!None
      <4>1. /\ figure \in Figures /\ figure.asked =< queriesTime
            /\ Undisturbed => figure.value >= queriesRemaining
        BY <2>2, <3>2 DEF Held
      <4>2. kept = [value |-> figure.value, asked |-> figure.asked, until |-> queriesTime + 1]
        BY <3>2 DEF Q!Figure
      <4>3. figure.value \in Nat /\ figure.asked \in Nat /\ queriesTime \in Nat
        BY <4>1 DEF Figures, ScanTypes
      <4>4. /\ kept \in Figures /\ kept.value = figure.value /\ kept.asked = figure.asked
            /\ kept.until = queriesTime + 1
        BY <4>2, <4>3 DEF Figures
      <4>5. "kept" \notin queriesExcuse' => figure.asked = queriesTime
        BY <2>1, <3>2, <4>1, <4>3
      <4> HIDE DEF figure, kept
      <4> QED BY <4>1, <4>4, <4>5 DEF Held
    <3> QED BY <3>1, <3>2
  <2> HIDE DEF figure, kept
  <2>5. queriesExcuse' \in {queriesExcuse, queriesExcuse \cup {"kept"}}
    BY <2>1
  <2> QED BY <1>1, <2>1, <2>2, <2>3, <2>4, <2>5
<1> QED BY <1>2, <1>3, <1>4

\* Each step of the scans, of the budget and of time keeps the invariant.
LEMMA QueriesKept ==
    ASSUME QueriesInv, Q!Next
    PROVE  QueriesInv'
<1> USE DEF QueriesInv
<1>1. ASSUME UNCHANGED <<queriesPages, queriesScan, queriesGot, queriesCached>>,
             queriesMode' \in {"live", "replay"}, queriesRemaining' \in 0..3,
             queriesTime' \in Nat, queriesTime' >= queriesTime,
             queriesExcuse \subseteq queriesExcuse',
             queriesRemaining' =< queriesRemaining \/ ~ Undisturbed'
      PROVE  QueriesInv'
  <2>1. ScanTypes' /\ Collected'
    BY <1>1 DEF ScanTypes, Collected
  <2>2. ASSUME NEW figure, Held(figure) PROVE Held(figure)'
    BY <1>1, <2>2 DEF Held, Undisturbed, Figures, ScanTypes
  <2>3. Held(queriesCached)'
    BY <1>1, <2>2 DEF KeptFigures, Held
  <2>4. ASSUME NEW x \in Works, queriesScan'[x].pc = "record" PROVE Held(queriesScan[x].figure)'
    <3>1. Held(queriesScan[x].figure)
      BY <1>1, <2>4 DEF KeptFigures
    <3> QED BY <1>1, <3>1 DEF Held, Undisturbed, Figures, ScanTypes
  <2>5. KeptFigures'
    BY <1>1, <2>3, <2>4 DEF KeptFigures
  <2> QED BY <2>1, <2>5
<1>2. ASSUME NEW configured \in {"live", "auto"}, Q!Configure(configured) PROVE QueriesInv'
  <2>1. queriesMode' \in {"live", "replay"}
    BY <1>2 DEF Q!Configure, Q!resolve_mode
  <2>2. /\ queriesExcuse \subseteq queriesExcuse'
        /\ UNCHANGED <<queriesPages, queriesScan, queriesGot, queriesRemaining, queriesCached, queriesTime>>
    BY <1>2 DEF Q!Configure
  <2> QED BY <1>1, <2>1, <2>2 DEF ScanTypes
<1>3. ASSUME Q!Tick PROVE QueriesInv'
  <2>1. /\ queriesTime' = queriesTime + 1
        /\ UNCHANGED <<queriesMode, queriesPages, queriesScan, queriesGot, queriesRemaining,
                       queriesCached, queriesExcuse>>
    BY <1>3 DEF Q!Tick
  <2> QED BY <1>1, <2>1 DEF ScanTypes
<1>4. ASSUME Q!NewMonth PROVE QueriesInv'
  <2>1. /\ queriesRemaining' = 3 /\ queriesExcuse' = queriesExcuse \cup {"renewed"}
        /\ UNCHANGED <<queriesMode, queriesPages, queriesScan, queriesGot, queriesCached, queriesTime>>
    BY <1>4 DEF Q!NewMonth
  <2>2. ~ Undisturbed'
    BY <2>1 DEF Undisturbed
  <2> QED BY <1>1, <2>1, <2>2 DEF ScanTypes
<1>5. ASSUME NEW s \in Works,
             Q!Run(s) \/ \E known \in BOOLEAN : Q!EnsureQueryBudget(s, known)
      PROVE  QueriesInv'
  <2>1. TRUE \in BOOLEAN
    OBVIOUS
  <2> QED BY <1>5, <2>1, ScanGoesOn, BudgetGoesOn DEF Q!Run
<1> QED BY <1>2, <1>3, <1>4, <1>5 DEF Q!Next, Works

\* The invariant of the scans holds whatever moves.
LEMMA QueriesStep == QueriesInv /\ (Q!Next \/ UNCHANGED queriesVars) => QueriesInv'
<1>1. QueriesInv /\ UNCHANGED queriesVars => QueriesInv'
  BY DEF queriesVars, QueriesInv, ScanTypes, Collected, KeptFigures, Held, Undisturbed
<1> QED BY <1>1, QueriesKept

\* Three items are three.
LEMMA ThreeItems ==
    ASSUME NEW x, NEW y, NEW z, x # y, x # z, y # z
    PROVE  Cardinality({x, y, z}) = 3
<1>1. IsFiniteSet({x}) /\ Cardinality({x}) = 1
  BY FS_Singleton
<1>2. IsFiniteSet({x} \cup {y}) /\ Cardinality({x} \cup {y}) = 2
  BY <1>1, FS_AddElement
<1>3. Cardinality(({x} \cup {y}) \cup {z}) = 3
  BY <1>2, FS_AddElement
<1>4. ({x} \cup {y}) \cup {z} = {x, y, z}
  OBVIOUS
<1> QED BY <1>3, <1>4

\* What the invariant says of the scans is what the property says.
LEMMA QueriesServe ==
    QueriesInv => Q!TypeOK /\ Q!DoneIsComplete /\ Q!FigureNotBelow /\ Q!FigureIsRecent
<1> SUFFICES ASSUME QueriesInv
             PROVE  Q!TypeOK /\ Q!DoneIsComplete /\ Q!FigureNotBelow /\ Q!FigureIsRecent
  OBVIOUS
<1> USE DEF QueriesInv
<1>1. Q!TypeOK
  <2>1. ASSUME NEW configured \in Q!Modes \cup {"auto"}, NEW licensed \in BOOLEAN,
               NEW recorded \in BOOLEAN, Q!resolve_mode(configured, licensed, recorded) = "live"
        PROVE  configured = "live" /\ licensed
    BY <2>1 DEF Q!resolve_mode
  <2>2. queriesMode \in Q!Modes
    BY DEF ScanTypes, Q!Modes
  <2>3. queriesRemaining \in 0..3
    BY DEF ScanTypes
  <2>4. \A s \in Works : queriesScan[s].pc \in
          {"none", "asked", "scan", "done", "record", "over", "failed"}
    BY DEF Collected
  <2> QED BY <2>1, <2>2, <2>3, <2>4 DEF Q!TypeOK, Works
<1>2. Q!DoneIsComplete
  <2>1. UNION {{i} \X Q!Reach(i) : i \in Q!Endpoints} = Everything
    <3>1. Q!Endpoints = {1, 2}
      BY DEF ScanTypes, Q!Endpoints
    <3>2. Q!Reach(1) = {1, 2} /\ Q!Reach(2) = {1}
      BY DEF ScanTypes, Q!Reach
    <3>3. {1} \X {1, 2} = {<<1, 1>>, <<1, 2>>} /\ {2} \X {1} = {<<2, 1>>}
      OBVIOUS
    <3> QED BY <3>1, <3>2, <3>3 DEF Everything
  <2>2. Q!Cardinality(Everything) = 3
    <3>1. <<1, 1>> # <<1, 2>> /\ <<1, 1>> # <<2, 1>> /\ <<1, 2>> # <<2, 1>>
      OBVIOUS
    <3>2. Cardinality(Everything) = 3
      BY <3>1, ThreeItems DEF Everything
    <3> QED BY <3>2 DEF Cardinality, Q!Cardinality
  <2>3. ASSUME NEW s \in Works
        PROVE  /\ queriesScan[s].pc \in {"record", "over"} => queriesGot[s] = Everything
               /\ queriesScan[s].pc = "done" /\ queriesScan[s].consumed > 0 =>
                    queriesScan[s].consumed = 3 /\ queriesGot[s] = Everything
               /\ queriesScan[s].pc = "failed" => queriesGot[s] = {}
    <3>1. ~ (0 > 0)
      OBVIOUS
    <3> QED BY <3>1 DEF Collected
  <2> QED BY <2>1, <2>2, <2>3 DEF Q!DoneIsComplete, Q!At, Works
<1>3. Q!FigureNotBelow
  BY DEF Q!FigureNotBelow, Q!Live, KeptFigures, Held, Undisturbed
<1>4. Q!FigureIsRecent
  BY DEF Q!FigureIsRecent, Q!Live, KeptFigures
<1> QED BY <1>1, <1>2, <1>3, <1>4

-----------------------------------------------------------------------------
(* The ceilings.                                                           *)

\* Whoever moves, the ceilings hold: the lockout, the value served, the calls of the
\* assistant, its answers and the versions and texts of its documents, and what a scan has.
THEOREM CeilingsHold == Spec => []LimitsHold
<1> DEFINE Inv == LockoutInv /\ SettingsInv /\ JobsInv /\ QueriesInv
<1>1. Init => Inv
  BY LockoutInit, SettingsInit, JobsInit, QueriesInit DEF Init
<1>2. Inv /\ [Next]_vars => Inv'
  <2> SUFFICES ASSUME Inv, [Next]_vars PROVE Inv'
    OBVIOUS
  <2>1. L!Next \/ UNCHANGED lockoutVars
    BY DEF Next, vars
  <2>2. S!Next \/ UNCHANGED settingsVars
    BY DEF Next, vars
  <2>3. J!Next \/ UNCHANGED jobsVars
    BY DEF Next, vars
  <2>4. Q!Next \/ UNCHANGED queriesVars
    BY DEF Next, vars
  <2> QED BY <2>1, <2>2, <2>3, <2>4, LockoutStep, SettingsStep, JobsStep, QueriesStep
<1>3. Inv => LimitsHold
  BY LockoutServes, SettingsServe, JobsServe, QueriesServe DEF LimitsHold
<1> QED BY <1>1, <1>2, <1>3, PTL DEF Spec

-----------------------------------------------------------------------------
(* The checks of a site and the alert they open.                           *)

CheckStates ==
    [op : {"idle", "evaluate", "publish"}] \cup [op : {"record"}, status : {"up", "down"}]
      \cup [op : {"resolve", "open", "create"}, apart : BOOLEAN]

CheckTypes ==
    /\ site \in {"up", "down"} /\ active \in BOOLEAN /\ seen \in BOOLEAN /\ open \in BOOLEAN
    /\ mailed \in BOOLEAN /\ silent \in BOOLEAN /\ crowded \in BOOLEAN
    /\ age \in 0..2 /\ deaths \in 0..1 /\ checksQueue \in Nat
    /\ recent \in Seq(C!Results) /\ Len(recent) =< 3
    /\ checksWork \in [Workers -> CheckStates]

Checking == {w \in Workers : checksWork[w] # C!Idle}
ChecksAlive == checksQueue + Cardinality(Checking)

\* A message more than the workers is the most there may be.
ChecksBounded == ChecksAlive =< 1 + Cardinality(Workers)

\* As long as there was one message at a time, a window has one result.
OneResultAWindow ==
    ~ crowded =>
      /\ ChecksAlive =< 1
      /\ seen => checksQueue = 0 /\ \A w \in Workers : checksWork[w].op # "record"
      /\ \A i \in 1..Len(recent) : ~ recent[i].again
      /\ \A w \in Workers : checksWork[w].op \in {"open", "create"} => checksWork[w].apart

ChecksInv == CheckTypes /\ ChecksBounded /\ OneResultAWindow /\ C!AlertsAreMailed

\* A worker holds one message at most.
LEMMA CheckingMoves ==
    ASSUME NEW w \in Workers, \A x \in Workers \ {w} : checksWork'[x] = checksWork[x]
    PROVE  /\ Cardinality(Checking) \in Nat /\ Cardinality(Checking') \in Nat
           /\ Cardinality(Checking') = Cardinality(Checking)
                + (IF checksWork'[w] # C!Idle THEN 1 ELSE 0)
                - (IF checksWork[w] # C!Idle THEN 1 ELSE 0)
           /\ checksWork[w] # C!Idle => Cardinality(Checking) > 0
<1>1. Checking \subseteq Workers /\ Checking' \subseteq Workers
  BY DEF Checking
<1>2. \A x \in Workers \ {w} : x \in Checking <=> x \in Checking'
  BY DEF Checking
<1>3. w \in Checking <=> checksWork[w] # C!Idle
  BY DEF Checking
<1>4. w \in Checking' <=> checksWork'[w] # C!Idle
  BY DEF Checking
<1>5. IsFiniteSet(Workers) /\ IsFiniteSet(Checking)
  BY <1>1, ProcessesAssumption, FS_Subset
<1>6. /\ Cardinality(Checking) \in Nat /\ Cardinality(Checking') \in Nat
      /\ Cardinality(Checking') = Cardinality(Checking) + (IF w \in Checking' THEN 1 ELSE 0)
                                    - (IF w \in Checking THEN 1 ELSE 0)
  BY <1>1, <1>2, <1>5, CountMoves
<1>7. w \in Checking => Cardinality(Checking) # 0
  BY <1>5, FS_EmptySet
<1> QED BY <1>3, <1>4, <1>6, <1>7

\* One check at a time: the one that goes on is alone.
LEMMA AloneInItsCheck ==
    ASSUME ChecksAlive =< 1, checksQueue \in Nat, NEW w \in Workers, checksWork[w] # C!Idle
    PROVE  checksQueue = 0 /\ \A x \in Workers \ {w} : checksWork[x] = C!Idle
<1>1. Checking \subseteq Workers /\ IsFiniteSet(Workers)
  BY ProcessesAssumption DEF Checking
<1>2. IsFiniteSet(Checking) /\ Cardinality(Checking) \in Nat /\ w \in Checking
  BY <1>1, FS_Subset, FS_CardinalityType DEF Checking
<1>3. Cardinality(Checking) # 0
  BY <1>2, FS_EmptySet
<1>4. checksQueue = 0 /\ Cardinality(Checking) = 1
  BY <1>2, <1>3 DEF ChecksAlive
<1>5. PICK x : Checking = {x}
  BY <1>2, <1>4, FS_Singleton
<1>6. Checking = {w}
  BY <1>2, <1>5
<1> QED BY <1>4, <1>6 DEF Checking

\* No result and no alert at first.
LEMMA ChecksInit == C!Init => ChecksInv
<1> SUFFICES ASSUME C!Init PROVE ChecksInv
  OBVIOUS
<1>1. C!Idle \in CheckStates
  BY DEF C!Idle, CheckStates
<1>2. /\ recent = <<>> /\ checksQueue = 0 /\ checksWork = [w \in Workers |-> C!Idle]
      /\ active = TRUE /\ seen = FALSE /\ open = FALSE /\ mailed = FALSE /\ silent = FALSE
      /\ crowded = FALSE /\ age = 2 /\ deaths = 0 /\ site \in {"up", "down"}
  BY DEF C!Init
<1>3. recent \in Seq(C!Results) /\ Len(recent) = 0
  BY <1>2
<1>4. CheckTypes
  <2>1. /\ active \in BOOLEAN /\ seen \in BOOLEAN /\ open \in BOOLEAN /\ mailed \in BOOLEAN
        /\ silent \in BOOLEAN /\ crowded \in BOOLEAN
    BY <1>2
  <2> QED BY <1>1, <1>2, <1>3, <2>1 DEF CheckTypes
<1>5. Checking = {}
  BY <1>2 DEF Checking
<1>6. Cardinality(Checking) = 0 /\ Cardinality(Workers) \in Nat
  BY <1>5, FS_EmptySet, FS_CardinalityType, ProcessesAssumption
<1>7. ChecksBounded
  BY <1>2, <1>6 DEF ChecksBounded, ChecksAlive
<1>8. OneResultAWindow
  <2>1. \A w \in Workers : checksWork[w].op = "idle"
    BY <1>2 DEF C!Idle
  <2> QED BY <1>2, <1>3, <1>6, <2>1 DEF OneResultAWindow, ChecksAlive
<1>9. C!AlertsAreMailed
  BY <1>2 DEF C!AlertsAreMailed
<1> QED BY <1>4, <1>7, <1>8, <1>9 DEF ChecksInv

\* The newest result comes first, and three are kept.
LEMMA NewestFirst ==
    ASSUME recent \in Seq(C!Results), Len(recent) =< 3, NEW r \in C!Results,
           recent' = SubSeq(<<r>> \o recent, 1, IF Len(recent) < 3 THEN Len(recent) + 1 ELSE 3)
    PROVE  /\ recent' \in Seq(C!Results) /\ Len(recent') =< 3
           /\ \A i \in 1..Len(recent') :
                recent'[i] = r \/ \E k \in 1..Len(recent) : recent'[i] = recent[k]
<1> DEFINE longer == <<r>> \o recent
           n == IF Len(recent) < 3 THEN Len(recent) + 1 ELSE 3
<1>1. /\ longer \in Seq(C!Results) /\ Len(longer) = 1 + Len(recent)
      /\ \A i \in 1..Len(longer) : longer[i] = IF i =< 1 THEN r ELSE recent[i - 1]
  <2>1. <<r>> \in Seq(C!Results) /\ Len(<<r>>) = 1 /\ <<r>>[1] = r
    OBVIOUS
  <2>2. /\ longer \in Seq(C!Results) /\ Len(longer) = 1 + Len(recent)
        /\ \A i \in 1 .. 1 + Len(recent) : longer[i] = IF i =< 1 THEN <<r>>[i] ELSE recent[i - 1]
    BY <2>1, ConcatProperties
  <2> QED BY <2>1, <2>2
<1>2. Len(recent) \in Nat /\ n \in Nat /\ 1 =< n /\ n =< 3 /\ n =< Len(longer)
  BY <1>1
<1> HIDE DEF longer, n
<1>3. \A i \in 1..n : longer[i] \in C!Results
  BY <1>1, <1>2
<1>4. /\ SubSeq(longer, 1, n) \in Seq(C!Results) /\ Len(SubSeq(longer, 1, n)) = n
      /\ \A i \in 1..n : SubSeq(longer, 1, n)[i] = longer[i]
  <2>1. /\ SubSeq(longer, 1, n) \in Seq(C!Results)
        /\ Len(SubSeq(longer, 1, n)) = IF 1 =< n THEN n - 1 + 1 ELSE 0
        /\ \A i \in 1 .. n - 1 + 1 : SubSeq(longer, 1, n)[i] = longer[1 + i - 1]
    BY <1>2, <1>3, SubSeqProperties
  <2> QED BY <1>2, <2>1
<1>5. recent' = SubSeq(longer, 1, n)
  BY DEF longer, n
<1>6. \A i \in 1..n : longer[i] = r \/ \E k \in 1..Len(recent) : longer[i] = recent[k]
  <2> SUFFICES ASSUME NEW i \in 1..n, i # 1 PROVE \E k \in 1..Len(recent) : longer[i] = recent[k]
    BY <1>1, <1>2
  <2>1. i - 1 \in 1..Len(recent) /\ longer[i] = recent[i - 1]
    BY <1>1, <1>2
  <2> QED BY <2>1
<1> QED BY <1>2, <1>4, <1>5, <1>6

\* A worker that moves makes no message, or gives its own back.
LEMMA CheckMoves ==
    ASSUME CheckTypes, ChecksBounded, NEW w \in Workers, NEW v \in CheckStates,
           checksWork' = [checksWork EXCEPT ![w] = v], checksQueue' \in Nat,
           checksQueue' + (IF v # C!Idle THEN 1 ELSE 0)
             =< checksQueue + (IF checksWork[w] # C!Idle THEN 1 ELSE 0)
    PROVE  /\ checksWork' \in [Workers -> CheckStates] /\ checksWork'[w] = v
           /\ \A x \in Workers \ {w} : checksWork'[x] = checksWork[x]
           /\ ChecksBounded' /\ ChecksAlive' =< ChecksAlive
           /\ ChecksAlive \in Nat /\ ChecksAlive' \in Nat
<1>1. /\ checksWork' \in [Workers -> CheckStates] /\ checksWork'[w] = v
      /\ \A x \in Workers \ {w} : checksWork'[x] = checksWork[x]
  BY DEF CheckTypes
<1>2. /\ Cardinality(Checking) \in Nat /\ Cardinality(Checking') \in Nat
      /\ Cardinality(Checking') = Cardinality(Checking) + (IF v # C!Idle THEN 1 ELSE 0)
                                    - (IF checksWork[w] # C!Idle THEN 1 ELSE 0)
  BY <1>1, CheckingMoves
<1>3. checksQueue \in Nat /\ checksQueue' \in Nat
  BY DEF CheckTypes
<1>4. ChecksAlive' =< ChecksAlive /\ ChecksAlive \in Nat /\ ChecksAlive' \in Nat
  <2>1. PICK n \in 0..1 : n = IF v # C!Idle THEN 1 ELSE 0
    OBVIOUS
  <2>2. PICK m \in 0..1 : m = IF checksWork[w] # C!Idle THEN 1 ELSE 0
    OBVIOUS
  <2>3. checksQueue' + n =< checksQueue + m
    BY <2>1, <2>2
  <2>4. Cardinality(Checking') = Cardinality(Checking) + n - m
    BY <1>2, <2>1, <2>2
  <2>5. PICK p \in Nat : p = Cardinality(Checking)
    BY <1>2
  <2>6. PICK q \in Nat : q = Cardinality(Checking')
    BY <1>2
  <2>7. ChecksAlive = checksQueue + p /\ ChecksAlive' = checksQueue' + q
    BY <2>5, <2>6 DEF ChecksAlive
  <2>8. q = p + n - m
    BY <2>4, <2>5, <2>6
  <2>9. ASSUME NEW x \in Nat, NEW y \in Nat, y + n =< x + m
        PROVE  y + q =< x + p /\ x + p \in Nat /\ y + q \in Nat
    BY <2>8, <2>9
  <2>10. PICK x \in Nat : x = checksQueue
    BY <1>3
  <2>11. PICK y \in Nat : y = checksQueue'
    BY <1>3
  <2> QED BY <2>3, <2>7, <2>9, <2>10, <2>11
<1>5. Cardinality(Workers) \in Nat
  BY FS_CardinalityType, ProcessesAssumption
<1>6. ChecksBounded'
  BY <1>4, <1>5 DEF ChecksBounded
<1> QED BY <1>1, <1>4, <1>6

\* The steps of a check, up to its verdict.
LEMMA CheckGoesOn ==
    ASSUME ChecksInv, NEW w \in Workers, C!Probe(w) \/ C!Record(w) \/ C!Evaluate(w)
    PROVE  ChecksInv'
<1> USE DEF ChecksInv
<1>0. /\ checksWork \in [Workers -> CheckStates] /\ checksQueue \in Nat
      /\ recent \in Seq(C!Results) /\ Len(recent) \in Nat
  BY DEF CheckTypes
<1>1. ASSUME C!Probe(w) PROVE ChecksInv'
  <2>1. /\ checksWork[w] = C!Idle /\ checksQueue > 0 /\ checksQueue' = checksQueue - 1
        /\ UNCHANGED <<site, active, age, seen, recent, open, mailed, deaths, silent, crowded>>
    BY <1>1 DEF C!Probe, C!History
  <2>2. PICK v \in CheckStates : /\ checksWork' = [checksWork EXCEPT ![w] = v]
                                 /\ v.op \in {"idle", "record"}
    <3>1. CASE active
      <4>1. checksWork' = [checksWork EXCEPT ![w] = [op |-> "record", status |-> site]]
        BY <1>1, <3>1 DEF C!Probe
      <4>2. [op |-> "record", status |-> site] \in CheckStates
        BY DEF CheckTypes, CheckStates
      <4> QED BY <4>1, <4>2
    <3>2. CASE ~ active
      <4>1. checksWork' = checksWork
        BY <1>1, <3>2 DEF C!Probe
      <4>2. checksWork' = [checksWork EXCEPT ![w] = checksWork[w]]
        BY <1>0, <4>1
      <4>3. checksWork[w].op = "idle"
        BY <2>1 DEF C!Idle
      <4> QED BY <1>0, <4>2, <4>3
    <3> QED BY <3>1, <3>2
  <2>3. /\ checksWork' \in [Workers -> CheckStates] /\ checksWork'[w] = v
        /\ \A x \in Workers \ {w} : checksWork'[x] = checksWork[x]
        /\ ChecksBounded' /\ ChecksAlive' =< ChecksAlive
        /\ ChecksAlive \in Nat /\ ChecksAlive' \in Nat
    <3>1. checksQueue' \in Nat
          /\ checksQueue' + (IF v # C!Idle THEN 1 ELSE 0)
               =< checksQueue + (IF checksWork[w] # C!Idle THEN 1 ELSE 0)
      BY <1>0, <2>1
    <3> QED BY <2>2, <3>1, CheckMoves
  <2>4. CheckTypes'
    BY <1>0, <2>1, <2>3 DEF CheckTypes
  <2>5. OneResultAWindow'
    <3> SUFFICES ASSUME ~ crowded' PROVE OneResultAWindow'
      BY DEF OneResultAWindow
    <3>1. ~ crowded /\ ~ seen'
      BY <2>1 DEF OneResultAWindow
    <3> QED BY <2>1, <2>2, <2>3, <3>1 DEF OneResultAWindow
  <2>6. C!AlertsAreMailed'
    <3>1. checksWork[w].op # "publish"
      BY <2>1 DEF C!Idle
    <3> QED BY <2>1, <2>3, <3>1 DEF C!AlertsAreMailed
  <2> QED BY <2>3, <2>4, <2>5, <2>6
<1>2. ASSUME C!Record(w) PROVE ChecksInv'
  <2> DEFINE r == [status |-> checksWork[w].status, again |-> seen /\ checksWork[w].status = "down"]
             v == [op |-> "evaluate"]
  <2>1. /\ checksWork[w].op = "record" /\ age' = 0 /\ seen' = TRUE
        /\ recent' = SubSeq(<<r>> \o recent, 1, IF Len(recent) < 3 THEN Len(recent) + 1 ELSE 3)
        /\ checksWork' = [checksWork EXCEPT ![w] = v]
        /\ UNCHANGED <<site, active, checksQueue, open, mailed, deaths, silent, crowded>>
    BY <1>2 DEF C!Record, C!History
  <2>2. checksWork[w] # C!Idle /\ v \in CheckStates /\ v # C!Idle /\ v.op = "evaluate"
    BY <2>1 DEF C!Idle, CheckStates
  <2>3. checksWork[w].status \in {"up", "down"}
    BY <1>0, <2>1 DEF CheckStates
  <2>4. r \in C!Results
    <3>1. (seen /\ checksWork[w].status = "down") \in BOOLEAN
      OBVIOUS
    <3> QED BY <2>3, <3>1 DEF C!Results
  <2>5. r.again => seen
    OBVIOUS
  <2> HIDE DEF r, v
  <2>6. /\ recent' \in Seq(C!Results) /\ Len(recent') =< 3
        /\ \A i \in 1..Len(recent') :
             recent'[i] = r \/ \E k \in 1..Len(recent) : recent'[i] = recent[k]
    BY <2>1, <2>4, NewestFirst DEF CheckTypes
  <2>7. /\ checksWork' \in [Workers -> CheckStates] /\ checksWork'[w] = v
        /\ \A x \in Workers \ {w} : checksWork'[x] = checksWork[x]
        /\ ChecksBounded' /\ ChecksAlive' =< ChecksAlive
        /\ ChecksAlive \in Nat /\ ChecksAlive' \in Nat
    <3>1. checksQueue' \in Nat
          /\ checksQueue' + (IF v # C!Idle THEN 1 ELSE 0)
               =< checksQueue + (IF checksWork[w] # C!Idle THEN 1 ELSE 0)
      BY <1>0, <2>1, <2>2
    <3> QED BY <2>1, <2>2, <3>1, CheckMoves
  <2>8. CheckTypes'
    BY <1>0, <2>1, <2>6, <2>7 DEF CheckTypes
  <2>9. OneResultAWindow'
    <3> SUFFICES ASSUME ~ crowded' PROVE OneResultAWindow'
      BY DEF OneResultAWindow
    <3>1. ~ crowded /\ ChecksAlive =< 1
      BY <2>1 DEF OneResultAWindow
    <3>2. checksQueue = 0 /\ \A x \in Workers \ {w} : checksWork[x] = C!Idle
      BY <1>0, <2>2, <3>1, AloneInItsCheck
    <3>3. ~ seen
      BY <2>1, <3>1 DEF OneResultAWindow
    <3>4. \A i \in 1..Len(recent') : ~ recent'[i].again
      BY <2>5, <2>6, <3>1, <3>3 DEF OneResultAWindow
    <3>5. \A x \in Workers : checksWork'[x].op \in {"idle", "evaluate"}
      BY <2>2, <2>7, <3>2 DEF C!Idle
    <3> QED BY <2>1, <2>7, <3>1, <3>2, <3>4, <3>5 DEF OneResultAWindow
  <2>10. C!AlertsAreMailed'
    BY <2>1, <2>7 DEF C!AlertsAreMailed
  <2> QED BY <2>7, <2>8, <2>9, <2>10
<1>3. ASSUME C!Evaluate(w) PROVE ChecksInv'
  <2> DEFINE v == IF C!Verdict(recent) = "nothing" THEN C!Idle
                  ELSE [op |-> C!Verdict(recent), apart |-> C!Apart(recent)]
  <2>1. /\ checksWork[w].op = "evaluate" /\ checksWork' = [checksWork EXCEPT ![w] = v]
        /\ UNCHANGED <<site, active, age, seen, recent, checksQueue, open, mailed, deaths, silent, crowded>>
    BY <1>3 DEF C!Evaluate, C!History
  <2>2. C!Verdict(recent) \in {"resolve", "open", "nothing"}
    BY DEF C!Verdict
  <2>3. v \in CheckStates
    <3>1. C!Apart(recent) \in BOOLEAN
      BY DEF C!Apart
    <3>2. C!Idle \in CheckStates
      BY DEF C!Idle, CheckStates
    <3> QED BY <2>2, <3>1, <3>2 DEF CheckStates
  <2>4. v.op \in {"open", "create"} => C!Verdict(recent) = "open" /\ v.apart = C!Apart(recent)
    BY <2>2 DEF C!Idle
  <2>5. v.op # "record" /\ checksWork[w] # C!Idle
    BY <2>1, <2>2 DEF C!Idle
  <2> HIDE DEF v
  <2>6. checksQueue' \in Nat
        /\ checksQueue' + (IF v # C!Idle THEN 1 ELSE 0)
             =< checksQueue + (IF checksWork[w] # C!Idle THEN 1 ELSE 0)
    BY <1>0, <2>1, <2>5
  <2>7. /\ checksWork' \in [Workers -> CheckStates] /\ checksWork'[w] = v
        /\ \A x \in Workers \ {w} : checksWork'[x] = checksWork[x]
        /\ ChecksBounded' /\ ChecksAlive' =< ChecksAlive
        /\ ChecksAlive \in Nat /\ ChecksAlive' \in Nat
    BY <2>1, <2>3, <2>6, CheckMoves
  <2>8. CheckTypes'
    BY <1>0, <2>1, <2>7 DEF CheckTypes
  <2>9. OneResultAWindow'
    <3> SUFFICES ASSUME ~ crowded' PROVE OneResultAWindow'
      BY DEF OneResultAWindow
    <3>1. ~ crowded /\ ChecksAlive =< 1 /\ \A i \in 1..Len(recent) : ~ recent[i].again
      BY <2>1 DEF OneResultAWindow
    <3>2. C!Verdict(recent) = "open" => C!Apart(recent)
      <4>1. C!Verdict(recent) = "open" => Len(recent) = 3 /\ C!AllDown(recent)
        BY DEF C!Verdict, C!Confirmed
      <4> QED BY <3>1, <4>1 DEF C!Apart
    <3>3. seen' => checksQueue' = 0 /\ \A x \in Workers : checksWork'[x].op # "record"
      BY <2>1, <2>5, <2>7, <3>1 DEF OneResultAWindow
    <3>4. \A x \in Workers : checksWork'[x].op \in {"open", "create"} => checksWork'[x].apart
      BY <2>4, <2>7, <3>1, <3>2 DEF OneResultAWindow
    <3> QED BY <2>1, <2>7, <3>1, <3>3, <3>4 DEF OneResultAWindow
  <2>10. C!AlertsAreMailed'
    BY <2>1, <2>7 DEF C!AlertsAreMailed
  <2> QED BY <2>7, <2>8, <2>9, <2>10
<1> QED BY <1>1, <1>2, <1>3

\* The steps of a check, from its verdict on, and its death.
LEMMA CheckConcludes ==
    ASSUME ChecksInv, NEW w \in Workers,
           \/ C!ResolveAlert(w) \/ C!FindAlert(w) \/ C!CreateAlert(w) \/ C!Publish(w)
           \/ C!Conflict(w) \/ C!Die(w)
    PROVE  ChecksInv'
<1> USE DEF ChecksInv
<1>0. /\ checksWork \in [Workers -> CheckStates] /\ checksQueue \in Nat
      /\ open \in BOOLEAN /\ mailed \in BOOLEAN /\ silent \in BOOLEAN /\ crowded \in BOOLEAN
      /\ deaths \in 0..1
  BY DEF CheckTypes
<1>1. checksWork[w] # C!Idle
  BY DEF C!ResolveAlert, C!FindAlert, C!CreateAlert, C!Publish, C!Conflict, C!Die, C!Idle
<1>2. C!Idle \in CheckStates /\ C!Idle.op = "idle"
  BY DEF C!Idle, CheckStates
<1>3. UNCHANGED <<site, active, age, seen, recent>>
  BY DEF C!ResolveAlert, C!FindAlert, C!CreateAlert, C!Publish, C!Conflict, C!Die, C!Again
\* Whatever becomes of the alert, no result and no message is made.
<1>4. ASSUME NEW v \in CheckStates, checksWork' = [checksWork EXCEPT ![w] = v],
             \/ checksQueue' = checksQueue /\ crowded' = crowded
             \/ checksQueue' = checksQueue + 1 /\ v = C!Idle /\ crowded' = TRUE,
             v.op # "record", deaths' \in 0..1,
             v.op \in {"open", "create"} =>
               checksWork[w].op = "open" /\ v.apart = checksWork[w].apart,
             open' \in BOOLEAN, mailed' \in BOOLEAN, silent' \in BOOLEAN,
             open' => mailed' \/ silent' \/ v.op = "publish"
                      \/ (open /\ checksWork[w].op # "publish" /\ mailed' = mailed /\ silent' = silent)
      PROVE  ChecksInv'
  <2>1. checksQueue' \in Nat
        /\ checksQueue' + (IF v # C!Idle THEN 1 ELSE 0)
             =< checksQueue + (IF checksWork[w] # C!Idle THEN 1 ELSE 0)
    BY <1>0, <1>1, <1>4
  <2>2. /\ checksWork' \in [Workers -> CheckStates] /\ checksWork'[w] = v
        /\ \A x \in Workers \ {w} : checksWork'[x] = checksWork[x]
        /\ ChecksBounded' /\ ChecksAlive' =< ChecksAlive
        /\ ChecksAlive \in Nat /\ ChecksAlive' \in Nat
    BY <1>4, <2>1, CheckMoves
  <2>3. CheckTypes'
    <3>1. crowded' \in BOOLEAN
      BY <1>0, <1>4
    <3> QED BY <1>3, <1>4, <2>1, <2>2, <3>1 DEF CheckTypes
  <2>4. OneResultAWindow'
    <3> SUFFICES ASSUME ~ crowded' PROVE OneResultAWindow'
      BY DEF OneResultAWindow
    <3>1. ~ crowded /\ checksQueue' = checksQueue
      BY <1>4
    <3>2. seen' => checksQueue' = 0 /\ \A x \in Workers : checksWork'[x].op # "record"
      BY <1>3, <1>4, <2>2, <3>1 DEF OneResultAWindow
    <3>3. \A x \in Workers : checksWork'[x].op \in {"open", "create"} => checksWork'[x].apart
      BY <1>4, <2>2, <3>1 DEF OneResultAWindow
    <3> QED BY <1>3, <2>2, <3>1, <3>2, <3>3 DEF OneResultAWindow
  <2>5. C!AlertsAreMailed'
    <3>1. ASSUME open /\ checksWork[w].op # "publish" /\ mailed' = mailed /\ silent' = silent
          PROVE  mailed' \/ silent' \/ \E x \in Workers : checksWork'[x].op = "publish"
      BY <2>2, <3>1 DEF C!AlertsAreMailed
    <3>2. v.op = "publish" => \E x \in Workers : checksWork'[x].op = "publish"
      BY <2>2
    <3> QED BY <1>4, <3>1, <3>2 DEF C!AlertsAreMailed
  <2> QED BY <2>2, <2>3, <2>4, <2>5
<1>5. ASSUME C!ResolveAlert(w) PROVE ChecksInv'
  <2>1. /\ checksWork' = [checksWork EXCEPT ![w] = C!Idle] /\ open' = FALSE /\ mailed' = FALSE
        /\ silent' = FALSE /\ UNCHANGED <<checksQueue, deaths, crowded>>
    BY <1>5 DEF C!ResolveAlert
  <2>2. open' \in BOOLEAN /\ mailed' \in BOOLEAN /\ silent' \in BOOLEAN
    BY <2>1
  <2> QED BY <1>0, <1>2, <1>4, <2>1, <2>2
<1>6. ASSUME C!FindAlert(w) PROVE ChecksInv'
  <2>1. /\ checksWork[w].op = "open"
        /\ UNCHANGED <<checksQueue, open, mailed, deaths, silent, crowded>>
    BY <1>6 DEF C!FindAlert, C!History
  <2>2. PICK v \in CheckStates : /\ checksWork' = [checksWork EXCEPT ![w] = v]
                                 /\ v.op # "record"
                                 /\ v.op \in {"open", "create"} => v.apart = checksWork[w].apart
    <3>1. CASE checksWork' = [checksWork EXCEPT ![w].op = "create"]
      <4>1. checksWork[w] \in [op : {"resolve", "open", "create"}, apart : BOOLEAN]
        BY <1>0, <2>1 DEF CheckStates
      <4>2. PICK v : v = [checksWork[w] EXCEPT !.op = "create"]
        OBVIOUS
      <4>3. v \in CheckStates /\ v.op = "create" /\ v.apart = checksWork[w].apart
        BY <4>1, <4>2 DEF CheckStates
      <4>4. checksWork' = [checksWork EXCEPT ![w] = v]
        BY <3>1, <4>2
      <4> QED BY <4>3, <4>4
    <3>2. CASE checksWork' = [checksWork EXCEPT ![w] = C!Idle]
      BY <1>2, <3>2
    <3>3. CASE checksWork' = [checksWork EXCEPT ![w] = [op |-> "publish"]]
      <4>1. [op |-> "publish"] \in CheckStates
        BY DEF CheckStates
      <4> QED BY <3>3, <4>1
    <3> QED BY <1>6, <3>1, <3>2, <3>3 DEF C!FindAlert
  <2> QED BY <1>0, <1>4, <2>1, <2>2
<1>7. ASSUME C!CreateAlert(w) PROVE ChecksInv'
  <2>1. /\ checksWork' = [checksWork EXCEPT ![w] = [op |-> "publish"]]
        /\ open' = TRUE /\ mailed' = FALSE /\ silent' = FALSE
        /\ UNCHANGED <<checksQueue, deaths, crowded>>
    BY <1>7 DEF C!CreateAlert
  <2>2. [op |-> "publish"] \in CheckStates /\ [op |-> "publish"].op = "publish"
    BY DEF CheckStates
  <2>3. open' \in BOOLEAN /\ mailed' \in BOOLEAN /\ silent' \in BOOLEAN
    BY <2>1
  <2> QED BY <1>0, <1>4, <2>1, <2>2, <2>3
<1>8. ASSUME C!Publish(w) PROVE ChecksInv'
  <2>1. /\ checksWork' = [checksWork EXCEPT ![w] = C!Idle] /\ mailed' = open
        /\ UNCHANGED <<checksQueue, open, deaths, silent, crowded>>
    BY <1>8 DEF C!Publish, C!History
  <2> QED BY <1>0, <1>2, <1>4, <2>1
<1>9. ASSUME C!Conflict(w) \/ C!Die(w) PROVE ChecksInv'
  <2>1. /\ checksWork' = [checksWork EXCEPT ![w] = C!Idle] /\ checksQueue' = checksQueue + 1
        /\ crowded' = TRUE /\ UNCHANGED <<open, mailed>>
    BY <1>9 DEF C!Conflict, C!Die, C!Again
  <2>2. deaths' \in 0..1
    BY <1>0, <1>9 DEF C!Conflict, C!Die
  <2>3. silent' \in BOOLEAN /\ (silent => silent')
        /\ (checksWork[w].op = "publish" => silent')
    <3>1. CASE C!Conflict(w)
      BY <1>0, <3>1 DEF C!Conflict
    <3>2. CASE C!Die(w)
      BY <1>0, <3>2 DEF C!Die
    <3> QED BY <1>9, <3>1, <3>2
  <2>4. silent' = silent \/ silent'
    BY <1>0, <2>3
  <2>5. open' => mailed' \/ silent' \/ C!Idle.op = "publish"
          \/ (open /\ checksWork[w].op # "publish" /\ mailed' = mailed /\ silent' = silent)
    BY <2>1, <2>3, <2>4
  <2>6. open' \in BOOLEAN /\ mailed' \in BOOLEAN
    BY <1>0, <2>1
  <2> QED BY <1>2, <1>4, <2>1, <2>2, <2>3, <2>5, <2>6
<1> QED BY <1>5, <1>6, <1>7, <1>8, <1>9

\* The invariant of the checks holds whatever moves.
LEMMA ChecksStep == ChecksInv /\ (C!Next \/ UNCHANGED checksVars) => ChecksInv'
<1>1. ChecksInv /\ UNCHANGED checksVars => ChecksInv'
  BY DEF checksVars, ChecksInv, CheckTypes, ChecksBounded, ChecksAlive, Checking,
     OneResultAWindow, C!AlertsAreMailed
<1>2. ASSUME ChecksInv, C!Environment PROVE ChecksInv'
  <2> USE <1>2 DEF ChecksInv
  <2>1. /\ site' \in {"up", "down"} /\ active' \in BOOLEAN
        /\ UNCHANGED <<age, seen, recent, checksQueue, checksWork, open, mailed, deaths, silent, crowded>>
    BY DEF C!Environment, C!History, CheckTypes
  <2>2. CheckTypes'
    BY <2>1 DEF CheckTypes
  <2> QED BY <2>1, <2>2 DEF ChecksBounded, ChecksAlive, Checking, OneResultAWindow, C!AlertsAreMailed
<1>3. ASSUME ChecksInv, C!DispatchDueChecks PROVE ChecksInv'
  <2> USE <1>3 DEF ChecksInv
  <2>1. /\ checksQueue < 1 /\ age' = C!Older(age) /\ seen' = FALSE
        /\ UNCHANGED <<site, active, recent, checksWork, open, mailed, deaths, silent>>
        /\ \E due \in C!Due : /\ checksQueue' = IF due THEN checksQueue + 1 ELSE checksQueue
                              /\ crowded' = (crowded \/ (due /\ C!Messages > 0))
    BY DEF C!DispatchDueChecks
  <2>2. C!Due \subseteq BOOLEAN
    BY DEF C!Due
  <2>3. PICK due \in BOOLEAN : /\ checksQueue' = IF due THEN checksQueue + 1 ELSE checksQueue
                               /\ crowded' = (crowded \/ (due /\ C!Messages > 0))
    BY <2>1, <2>2
  <2>4. C!Messages = ChecksAlive
    <3>1. C!Busy = Checking
      BY DEF C!Busy, Checking
    <3>2. C!Cardinality(Checking) = Cardinality(Checking)
      BY DEF Cardinality, C!Cardinality
    <3> QED BY <3>1, <3>2 DEF C!Messages, ChecksAlive
  <2>5. /\ Cardinality(Checking) \in Nat /\ Cardinality(Workers) \in Nat
        /\ Cardinality(Checking) =< Cardinality(Workers) /\ Checking' = Checking
    <3>1. Checking \subseteq Workers /\ Checking' = Checking
      BY <2>1 DEF Checking
    <3> QED BY <3>1, FS_Subset, FS_CardinalityType, ProcessesAssumption
  <2>6. checksQueue = 0
    BY <2>1 DEF CheckTypes
  <2>7. checksQueue' \in 0..1
    BY <2>3, <2>6
  <2>8. ChecksAlive' = checksQueue' + Cardinality(Checking) /\ ChecksAlive = Cardinality(Checking)
    BY <2>5, <2>6 DEF ChecksAlive
  <2>9. CheckTypes'
    <3>1. age' \in 0..2
      BY <2>1 DEF C!Older, CheckTypes
    <3>2. crowded' \in BOOLEAN /\ seen' \in BOOLEAN
      BY <2>1, <2>3
    <3> QED BY <2>1, <2>7, <3>1, <3>2 DEF CheckTypes
  <2>10. ChecksBounded'
    BY <2>1, <2>5, <2>7, <2>8 DEF ChecksBounded
  <2>11. OneResultAWindow'
    <3> SUFFICES ASSUME ~ crowded' PROVE OneResultAWindow'
      BY DEF OneResultAWindow
    <3>1. ~ crowded /\ (due => ~ (ChecksAlive > 0))
      BY <2>3, <2>4
    <3>2. ChecksAlive' =< 1
      <4>1. CASE due
        BY <2>5, <2>7, <2>8, <3>1, <4>1
      <4>2. CASE ~ due
        BY <2>3, <2>5, <2>6, <2>8, <3>1, <4>2 DEF OneResultAWindow
      <4> QED BY <4>1, <4>2
    <3> QED BY <2>1, <3>1, <3>2 DEF OneResultAWindow
  <2>12. C!AlertsAreMailed'
    BY <2>1 DEF C!AlertsAreMailed
  <2> QED BY <2>9, <2>10, <2>11, <2>12
<1>4. ASSUME ChecksInv, NEW w \in Workers, C!Work(w) \/ C!Die(w) PROVE ChecksInv'
  BY <1>4, CheckGoesOn, CheckConcludes DEF C!Work
<1> QED BY <1>1, <1>2, <1>3, <1>4 DEF C!Next

\* What the invariant says of the checks is what the property says.
LEMMA ChecksServe == ChecksInv => C!TypeOK /\ C!AlertsAreMailed
<1> SUFFICES ASSUME ChecksInv PROVE C!TypeOK
  BY DEF ChecksInv
<1> USE DEF ChecksInv, CheckTypes
<1>1. checksQueue \in 0..(1 + C!Cardinality(Workers))
  <2>1. C!Cardinality(Workers) = Cardinality(Workers)
    BY DEF Cardinality, C!Cardinality
  <2>2. Checking \subseteq Workers
    BY DEF Checking
  <2>3. Cardinality(Checking) \in Nat /\ Cardinality(Workers) \in Nat
    BY <2>2, FS_Subset, FS_CardinalityType, ProcessesAssumption
  <2> QED BY <2>1, <2>3 DEF ChecksBounded, ChecksAlive
<1>2. recent \in UNION {[1..n -> C!Results] : n \in 0..3}
  <2>1. recent \in Seq(C!Results) /\ Len(recent) =< 3
    OBVIOUS
  <2>2. Len(recent) \in Nat /\ recent \in [1..Len(recent) -> C!Results]
    BY <2>1, LenProperties
  <2>3. Len(recent) \in 0..3
    BY <2>1, <2>2
  <2> QED BY <2>2, <2>3
<1>3. \A w \in Workers :
         \/ checksWork[w] \in [op : {"idle", "evaluate", "publish"}]
         \/ checksWork[w] \in [op : {"record"}, status : {"up", "down"}]
         \/ checksWork[w] \in [op : {"resolve", "open", "create"}, apart : BOOLEAN]
  BY DEF CheckStates
<1>4. {active, seen, open, mailed, silent, crowded} \subseteq BOOLEAN
  OBVIOUS
<1> QED BY <1>1, <1>2, <1>3, <1>4 DEF C!TypeOK

\* An alert opens on three failures of three windows, or messages were together.
LEMMA DownConfirmed ==
    ASSUME ChecksInv, C!Next, ~ open, open'
    PROVE  \E w \in Workers :
             checksWork[w].op = "create" /\ checksWork'[w] # checksWork[w]
             /\ (crowded \/ checksWork[w].apart)
<1>1. PICK w \in Workers : C!CreateAlert(w)
  <2>1. ASSUME NEW w \in Workers,
               \/ C!Probe(w) \/ C!Record(w) \/ C!Evaluate(w) \/ C!FindAlert(w)
               \/ C!Publish(w) \/ C!Conflict(w) \/ C!Die(w)
        PROVE  open' = open
    BY <2>1 DEF C!Probe, C!Record, C!Evaluate, C!FindAlert, C!Publish, C!Conflict, C!Die, C!Again
  <2>2. C!Environment \/ C!DispatchDueChecks => open' = open
    BY DEF C!Environment, C!DispatchDueChecks
  <2>3. \A w \in Workers : C!ResolveAlert(w) => open' = FALSE
    BY DEF C!ResolveAlert
  <2>4. open \in BOOLEAN
    BY DEF ChecksInv, CheckTypes
  <2>5. open' # open
    BY <2>4
  <2> QED BY <2>1, <2>2, <2>3, <2>5 DEF C!Next, C!Work
<1>2. checksWork[w].op = "create" /\ checksWork' = [checksWork EXCEPT ![w] = [op |-> "publish"]]
  BY <1>1 DEF C!CreateAlert
<1>3. checksWork'[w].op = "publish"
  BY <1>2 DEF ChecksInv, CheckTypes
<1>4. crowded \/ checksWork[w].apart
  BY <1>2 DEF ChecksInv, OneResultAWindow
<1> QED BY <1>2, <1>3, <1>4

-----------------------------------------------------------------------------
(* The rules of the alerts of a certificate, of the headers and of the      *)
(* e-mail configuration.                                                    *)

\* What the certificate alert tells is what the lowest day seen has crossed.
RulesInv == A!TypeOK /\ A!ThresholdsToldOnce

\* The highest and the lowest of the thresholds.
LEMMA HighestAndLowest ==
    /\ A!Max({1, 2, 3}) = 3
    /\ A!Min({1, 2, 3}) = 1
<1>1. A!Max({1, 2, 3}) = 3
  <2>1. \A x \in {1, 2, 3} : (\A y \in {1, 2, 3} : x >= y) <=> x = 3
    OBVIOUS
  <2> QED BY <2>1 DEF A!Max
<1>2. A!Min({1, 2, 3}) = 1
  <2>1. \A x \in {1, 2, 3} : (\A y \in {1, 2, 3} : x =< y) <=> x = 1
    OBVIOUS
  <2> QED BY <2>1 DEF A!Min
<1> QED BY <1>1, <1>2

\* The lower of two numbers of days.
LEMMA LowerOfTwo ==
    ASSUME NEW m \in 0..4, NEW n \in 0..4
    PROVE  A!Min({m, n}) = IF m =< n THEN m ELSE n
<1> DEFINE low == IF m =< n THEN m ELSE n
<1>1. \A x \in {m, n} : (\A y \in {m, n} : x =< y) <=> x = low
  OBVIOUS
<1>2. low \in {m, n}
  OBVIOUS
<1> QED BY <1>1, <1>2 DEF A!Min

\* A site starts with no alert.
LEMMA RulesInit == A!Init => RulesInv
BY DEF A!Init, RulesInv, A!TypeOK, A!ThresholdsToldOnce, A!Closed, A!IssueSets, A!Issues

\* A check of the certificate writes about the thresholds that are new, and no other.
LEMMA CertificateTold ==
    ASSUME RulesInv, A!CheckSsl
    PROVE  RulesInv'
<1> USE DEF RulesInv
<1>1. /\ days \in 0..4 /\ days' = days /\ missing' = missing /\ issues' = issues
      /\ hdr' = hdr /\ eml' = eml /\ blind' = blind /\ A!EvaluateSsl(days) /\ telling = {}
  BY DEF A!CheckSsl, A!TypeOK
<1> DEFINE kept == IF ssl.open THEN ssl.notified ELSE {}
           fresh == A!Crossed(days) \ kept
<1>2. A!Crossed(days) = {t \in {1, 2, 3} : days =< t}
  BY DEF A!Crossed
<1>3. ssl = A!Closed \/ ssl.open
  BY DEF A!TypeOK
<1>4. kept \subseteq {1, 2, 3} /\ worst \in 0..4
  <2>1. worst \in 0..4 /\ telling \cup told \cup untold \subseteq {1, 2, 3}
    BY DEF A!TypeOK
  <2>2. ssl.open => telling \cup told \cup untold = ssl.notified
    BY DEF A!ThresholdsToldOnce
  <2> QED BY <2>1, <2>2
<1>9. /\ told \cup untold = kept /\ told \cap untold = {}
      /\ told \cup untold \subseteq {1, 2, 3}
  BY <1>1, <1>4 DEF A!ThresholdsToldOnce
<1>5. (/\ ssl' = ssl \/ ssl' = A!Closed \/ ssl' \in [open : {TRUE}, severity : {"warning", "critical"},
                                notified : (SUBSET {1, 2, 3}) \ {{}}]
       /\ telling' \cup told' \cup untold' \subseteq {1, 2, 3} /\ worst' \in 0..4) => A!TypeOK'
  BY <1>1 DEF A!TypeOK, A!Closed
<1>6. CASE days > 3
  <2>1. ssl' = A!Closed /\ told' = {} /\ untold' = {} /\ telling' = {} /\ worst' = 4
    BY <1>1, <1>6, HighestAndLowest DEF A!EvaluateSsl
  <2>2. A!ThresholdsToldOnce'
    BY <2>1 DEF A!ThresholdsToldOnce, A!Closed
  <2> QED BY <1>5, <2>1, <2>2
<1>7. CASE days =< 3 /\ fresh = {}
  <2>1. ssl' = ssl /\ told' = told /\ untold' = untold /\ telling' = telling /\ worst' = worst
    BY <1>1, <1>7, HighestAndLowest DEF A!EvaluateSsl, A!Certificate
  <2>2. A!ThresholdsToldOnce'
    BY <2>1 DEF A!ThresholdsToldOnce, A!Crossed
  <2> QED BY <1>1, <1>4, <1>5, <1>9, <2>1, <2>2
<1>8. CASE days =< 3 /\ fresh # {}
  <2> DEFINE low == IF ssl.open THEN worst ELSE days
  <2>1. /\ ssl' = [open |-> TRUE, severity |-> IF days =< 1 THEN "critical" ELSE "warning",
                   notified |-> A!Notified(fresh)]
        /\ telling' = fresh /\ told' = told /\ untold' = untold
        /\ worst' = A!Min({days, low})
    BY <1>1, <1>8, HighestAndLowest DEF A!EvaluateSsl
  <2>2. worst' = days
    <3>1. low \in 0..4 /\ (days =< low)
      <4>1. CASE ~ ssl.open
        BY <1>1, <4>1
      <4>2. CASE ssl.open
        <5>1. kept = {t \in {1, 2, 3} : worst =< t} /\ low = worst
          BY <4>2 DEF A!ThresholdsToldOnce, A!Crossed
        <5>2. PICK t \in {1, 2, 3} : days =< t /\ ~ (worst =< t)
          BY <1>2, <1>8, <5>1
        <5>3. t \in Int /\ days \in Int /\ worst \in Int
          BY <1>1, <1>4
        <5> QED BY <1>4, <5>1, <5>2, <5>3
      <4> QED BY <4>1, <4>2
    <3>2. A!Min({days, low}) = days
      BY <1>1, <3>1, LowerOfTwo
    <3> QED BY <2>1, <3>2
  <2>3. kept \cup fresh = A!Crossed(days)
    <3>1. kept \subseteq A!Crossed(days)
      <4>1. CASE ~ ssl.open
        BY <4>1
      <4>2. CASE ssl.open
        <5>1. kept = {t \in {1, 2, 3} : worst =< t}
          BY <4>2 DEF A!ThresholdsToldOnce, A!Crossed
        <5>2. days =< worst
          <6>1. PICK t \in {1, 2, 3} : days =< t /\ ~ (worst =< t)
            BY <1>2, <1>8, <5>1
          <6>2. t \in Int /\ days \in Int /\ worst \in Int
            BY <1>1, <1>4
          <6> QED BY <6>1, <6>2
        <5>3. \A t \in {1, 2, 3} : worst =< t => days =< t
          BY <1>1, <1>4, <5>2
        <5> QED BY <1>2, <5>1, <5>3
      <4> QED BY <4>1, <4>2
    <3> QED BY <3>1
  <2>4. A!Notified(fresh) = A!Crossed(days)
    BY <2>3 DEF A!Notified
  <2>5. /\ telling' \cup told' \cup untold' = A!Crossed(days)
        /\ telling' \cap (told' \cup untold') = {} /\ told' \cap untold' = {}
    BY <1>9, <2>1, <2>3
  <2>6. A!Crossed(days) \in (SUBSET {1, 2, 3}) \ {{}}
    BY <1>2, <1>8
  <2>7. A!Crossed(worst)' = A!Crossed(days)
    BY <2>2 DEF A!Crossed
  <2>8. A!ThresholdsToldOnce'
    BY <2>1, <2>2, <2>4, <2>5, <2>7, HighestAndLowest DEF A!ThresholdsToldOnce
  <2>9. ssl' \in [open : {TRUE}, severity : {"warning", "critical"},
                  notified : (SUBSET {1, 2, 3}) \ {{}}]
    BY <2>1, <2>4, <2>6
  <2>10. telling' \cup told' \cup untold' \subseteq {1, 2, 3} /\ worst' \in 0..4
    BY <1>1, <2>2, <2>5, <2>6
  <2> QED BY <1>5, <2>8, <2>9, <2>10
<1> QED BY <1>1, <1>6, <1>7, <1>8

\* The e-mail of what was marked is asked for, or never will be.
LEMMA MailAsked ==
    ASSUME RulesInv, A!AskMail \/ A!MailNotAsked
    PROVE  RulesInv'
<1> USE DEF RulesInv
<1>1. /\ days' = days /\ missing' = missing /\ issues' = issues /\ ssl' = ssl
      /\ hdr' = hdr /\ eml' = eml /\ worst' = worst /\ blind' = blind /\ telling' = {}
  BY DEF A!AskMail, A!MailNotAsked
<1>2. \/ told' = told \cup telling /\ untold' = untold
      \/ untold' = untold \cup telling /\ told' = told
  BY DEF A!AskMail, A!MailNotAsked
<1>3. /\ telling' \cup told' \cup untold' = telling \cup told \cup untold
      /\ telling' \cap (told' \cup untold') = {} /\ told' \cap untold' = {}
  BY <1>1, <1>2 DEF A!ThresholdsToldOnce
<1>4. A!ThresholdsToldOnce'
  BY <1>1, <1>3 DEF A!ThresholdsToldOnce, A!Crossed
<1>5. A!TypeOK'
  BY <1>1, <1>3 DEF A!TypeOK
<1> QED BY <1>4, <1>5

\* The other steps leave the certificate alert.
LEMMA RulesStep ==
    ASSUME RulesInv, A!Next \/ UNCHANGED rulesVars
    PROVE  RulesInv'
<1> USE DEF RulesInv
<1>0. UNCHANGED A!Certificate => A!ThresholdsToldOnce'
  BY DEF A!ThresholdsToldOnce, A!Crossed, A!Certificate
<1>1. CASE UNCHANGED rulesVars
  BY <1>0, <1>1 DEF rulesVars, A!TypeOK, A!Certificate
<1>2. CASE A!Environment
  BY <1>0, <1>2 DEF A!Environment, A!TypeOK, A!Certificate
<1>3. CASE A!CheckSsl
  BY <1>3, CertificateTold
<1>4. CASE A!CheckHeaders
  BY <1>0, <1>4 DEF A!CheckHeaders, A!EvaluateHeaders, A!TypeOK, A!Closed, A!Certificate
<1>5. CASE A!CheckEmail
  BY <1>0, <1>5 DEF A!CheckEmail, A!EvaluateEmail, A!Status, A!TypeOK, A!Closed, A!Certificate
<1>6. ASSUME NEW kd \in {"headers", "email"}, A!CheckBlind(kd) PROVE RulesInv'
  BY <1>0, <1>6 DEF A!CheckBlind, A!EvaluateHeaders, A!EvaluateEmail, A!TypeOK, A!Closed, A!Certificate
<1>7. CASE A!AskMail \/ A!MailNotAsked
  BY <1>7, MailAsked
<1> QED BY <1>1, <1>2, <1>3, <1>4, <1>5, <1>6, <1>7 DEF A!Next

\* An alert of the headers or of the e-mail closes on a check that saw nothing, or was blind.
LEMMA ClosesBySight ==
    ASSUME RulesInv, A!Next
    PROVE  /\ hdr.open /\ ~ hdr'.open => missing = {} \/ "headers" \in blind'
           /\ eml.open /\ ~ eml'.open => issues = {} \/ "email" \in blind'
<1>1. CASE A!Environment \/ A!CheckSsl \/ A!AskMail \/ A!MailNotAsked
  BY <1>1 DEF A!Environment, A!CheckSsl, A!AskMail, A!MailNotAsked
<1>2. CASE A!CheckHeaders
  BY <1>2 DEF A!CheckHeaders, A!EvaluateHeaders
<1>3. CASE A!CheckEmail
  BY <1>3 DEF A!CheckEmail, A!EvaluateEmail
<1>4. ASSUME NEW kd \in {"headers", "email"}, A!CheckBlind(kd)
      PROVE  /\ hdr.open /\ ~ hdr'.open => missing = {} \/ "headers" \in blind'
             /\ eml.open /\ ~ eml'.open => issues = {} \/ "email" \in blind'
  BY <1>4 DEF A!CheckBlind
<1> QED BY <1>1, <1>2, <1>3, <1>4 DEF A!Next

-----------------------------------------------------------------------------
(* The bulletin of the day.                                                 *)

\* A task of the bulletin at work.
Composing == [op : {"send", "log"}, retries : 0..1]

Resting(w) == bulletinWork[w] = B!Idle

\* What TypeOK says, and that the workers have a piece of work each.
BulletinTypes ==
    /\ hour \in {"before", "due"}
    /\ bulletinEnabled \in BOOLEAN /\ bulletinLog \in BOOLEAN /\ bulletinExcuse \in BOOLEAN
    /\ recipients \in BOOLEAN
    /\ bulletinQueue \subseteq 0..1
    /\ bulletinWork \in [Workers -> {B!Idle} \cup Composing]
    /\ bulletinSent \in Nat /\ bulletinMishaps \in 0..1

\* Nothing of today's bulletin has begun.
Quiet ==
    /\ bulletinQueue = {} /\ \A w \in Workers : Resting(w)
    /\ bulletinSent = 0 /\ ~ bulletinLog

\* The bulletin of the day is one message: it waits, or a worker has it and has not sent it, or
\* a worker has sent it and has not written it down, or it is written down.
Enqueued ==
    /\ \E r \in 0..1 : bulletinQueue = {r}
    /\ \A w \in Workers : Resting(w)
    /\ bulletinSent = 0 /\ ~ bulletinLog
Carried(w, o, n) ==
    /\ bulletinQueue = {}
    /\ bulletinWork[w].op = o /\ \A v \in Workers \ {w} : Resting(v)
    /\ bulletinSent = n /\ ~ bulletinLog
WrittenDown ==
    /\ bulletinQueue = {} /\ \A w \in Workers : Resting(w)
    /\ bulletinSent = 1 /\ bulletinLog

\* A day that nothing disturbed is one of these.
OneMessage ==
    \/ bulletinExcuse
    \/ hour = "before" /\ Quiet
    \/ hour = "due" /\ Enqueued
    \/ hour = "due" /\ (\E w \in Workers : Carried(w, "send", 0))
    \/ hour = "due" /\ (\E w \in Workers : Carried(w, "log", 1))
    \/ hour = "due" /\ WrittenDown

BulletinInv == BulletinTypes /\ OneMessage

\* The day begins with nothing under way.
LEMMA BulletinInit == B!Init => BulletinInv
<1> SUFFICES ASSUME B!Init PROVE BulletinInv
  OBVIOUS
<1>1. bulletinWork \in [Workers -> {B!Idle} \cup Composing] /\ \A w \in Workers : Resting(w)
  BY DEF B!Init, Resting
<1>2. BulletinTypes
  <2>1. bulletinQueue \subseteq 0..1 /\ bulletinSent \in Nat /\ bulletinMishaps \in 0..1
    BY DEF B!Init
  <2> QED BY <1>1, <2>1 DEF B!Init, BulletinTypes
<1>3. OneMessage
  BY <1>1 DEF B!Init, OneMessage, Quiet
<1> QED BY <1>2, <1>3 DEF BulletinInv

\* The day turns: the client changes, the quarter comes or is missed, midnight strikes.
LEMMA DayTurns ==
    ASSUME BulletinInv,
           B!MembersChange \/ B!UpdatePreferences \/ B!Wake \/ B!Oversleep \/ B!Midnight
           \/ UNCHANGED bulletinVars
    PROVE  BulletinInv'
<1> USE DEF BulletinInv
<1>1. bulletinWork' = bulletinWork
  BY DEF B!MembersChange, B!UpdatePreferences, B!Wake, B!Oversleep, B!Midnight, B!Client, bulletinVars
<1>2. \A w \in Workers : Resting(w)' <=> Resting(w)
  BY <1>1 DEF Resting
<1>3. B!Busy = {} => \A w \in Workers : Resting(w)
  BY DEF B!Busy, Resting
<1>4. CASE \/ B!MembersChange \/ B!UpdatePreferences \/ UNCHANGED bulletinVars
  <2>1. /\ hour' = hour /\ bulletinQueue' = bulletinQueue /\ bulletinSent' = bulletinSent
        /\ bulletinLog' = bulletinLog /\ bulletinExcuse' = bulletinExcuse
        /\ bulletinMishaps' = bulletinMishaps
    BY <1>4 DEF B!MembersChange, B!UpdatePreferences, bulletinVars
  <2>2. bulletinEnabled' \in BOOLEAN /\ recipients' \in BOOLEAN
    BY <1>4 DEF B!MembersChange, B!UpdatePreferences, bulletinVars, BulletinTypes
  <2>3. BulletinTypes'
    BY <1>1, <2>1, <2>2 DEF BulletinTypes
  <2>4. OneMessage'
    BY <1>1, <1>2, <2>1 DEF OneMessage, Quiet, Enqueued, Carried, WrittenDown
  <2> QED BY <2>3, <2>4
<1>5. CASE B!Wake
  <2>1. /\ hour = "before" /\ hour' = "due" /\ bulletinSent' = bulletinSent
        /\ bulletinLog' = bulletinLog /\ bulletinMishaps' = bulletinMishaps
        /\ bulletinEnabled' = bulletinEnabled /\ recipients' = recipients
        /\ bulletinQueue' = (IF bulletinEnabled THEN bulletinQueue \cup {0} ELSE bulletinQueue)
    BY <1>5 DEF B!Wake, B!Client
  <2>2. bulletinExcuse' = (bulletinExcuse \/ ~ bulletinEnabled \/ bulletinQueue # {} \/ B!Busy # {})
    BY <1>5 DEF B!Wake
  <2>3. BulletinTypes'
    <3>1. bulletinQueue' \subseteq 0..1
      BY <2>1 DEF BulletinTypes
    <3>2. bulletinExcuse' \in BOOLEAN
      BY <2>2
    <3> QED BY <1>1, <2>1, <3>1, <3>2 DEF BulletinTypes
  <2>4. OneMessage'
    <3> SUFFICES ASSUME ~ bulletinExcuse' PROVE (hour = "due" /\ Enqueued)'
      BY DEF OneMessage
    <3>1. ~ bulletinExcuse /\ bulletinEnabled /\ bulletinQueue = {}
      BY <2>2
    <3>2. Quiet
      BY <2>1, <3>1 DEF OneMessage
    <3> QED BY <1>2, <2>1, <3>1, <3>2 DEF Quiet, Enqueued
  <2> QED BY <2>3, <2>4
<1>6. CASE B!Oversleep
  <2>1. /\ hour' = "due" /\ bulletinSent' = bulletinSent /\ bulletinQueue' = bulletinQueue
        /\ bulletinLog' = bulletinLog /\ bulletinExcuse' = TRUE
        /\ bulletinEnabled' = bulletinEnabled /\ recipients' = recipients /\ bulletinMishaps < 1 /\ bulletinMishaps' = bulletinMishaps + 1
    BY <1>6 DEF B!Oversleep, B!Client
  <2>2. BulletinTypes' /\ OneMessage'
    BY <1>1, <2>1 DEF BulletinTypes, OneMessage
  <2> QED BY <2>2
<1>7. CASE B!Midnight
  <2>1. /\ hour' = "before" /\ bulletinSent' = 0 /\ bulletinQueue' = bulletinQueue
        /\ bulletinLog' = FALSE
        /\ bulletinEnabled' = bulletinEnabled /\ recipients' = recipients /\ bulletinMishaps' = bulletinMishaps
    BY <1>7 DEF B!Midnight, B!Client
  <2>2. bulletinExcuse' = (bulletinQueue # {} \/ B!Busy # {})
    BY <1>7 DEF B!Midnight
  <2>3. BulletinTypes'
    BY <1>1, <2>1, <2>2 DEF BulletinTypes
  <2>4. OneMessage'
    BY <1>2, <1>3, <2>1, <2>2 DEF OneMessage, Quiet
  <2> QED BY <2>3, <2>4
<1> QED BY <1>4, <1>5, <1>6, <1>7

\* A worker takes the message: the preference, the log and the recipients decide.
LEMMA BulletinBegins ==
    ASSUME BulletinInv, NEW w \in Workers, NEW r \in bulletinQueue, B!Begin(w, r)
    PROVE  BulletinInv'
<1> USE DEF BulletinInv
<1>1. /\ Resting(w) /\ r \in 0..1
      /\ bulletinQueue' = bulletinQueue \ {r}
      /\ hour' = hour /\ bulletinSent' = bulletinSent /\ bulletinLog' = bulletinLog
      /\ bulletinEnabled' = bulletinEnabled /\ recipients' = recipients /\ bulletinMishaps' = bulletinMishaps
  BY DEF B!Begin, B!Client, Resting, BulletinTypes
<1>2. bulletinWork' = IF bulletinEnabled /\ ~ bulletinLog /\ recipients
                      THEN [bulletinWork EXCEPT ![w] = [op |-> "send", retries |-> r]]
                      ELSE bulletinWork
  BY DEF B!Begin
<1>3. bulletinExcuse' = (bulletinExcuse \/ ~ bulletinEnabled \/ ~ recipients)
  BY DEF B!Begin
<1>4. BulletinTypes'
  <2>1. [op |-> "send", retries |-> r] \in Composing
    BY <1>1 DEF Composing
  <2>2. bulletinWork' \in [Workers -> {B!Idle} \cup Composing]
    BY <1>2, <2>1 DEF BulletinTypes
  <2>3. bulletinQueue' \subseteq 0..1
    BY <1>1 DEF BulletinTypes
  <2>4. bulletinExcuse' \in BOOLEAN
    BY <1>3
  <2> QED BY <1>1, <2>2, <2>3, <2>4 DEF BulletinTypes
<1>5. OneMessage'
  <2> SUFFICES ASSUME ~ bulletinExcuse' PROVE (hour = "due" /\ Carried(w, "send", 0))'
    BY DEF OneMessage
  <2>1. ~ bulletinExcuse /\ bulletinEnabled /\ recipients
    BY <1>3
  <2>2. hour = "due" /\ Enqueued
    BY <2>1 DEF OneMessage, Quiet, Carried, WrittenDown
  <2>3. bulletinQueue = {r} /\ ~ bulletinLog /\ bulletinSent = 0
    BY <2>2 DEF Enqueued
  <2>4. bulletinWork'[w].op = "send" /\ \A v \in Workers \ {w} : bulletinWork'[v] = bulletinWork[v]
    BY <1>2, <2>1, <2>3 DEF BulletinTypes
  <2>5. \A v \in Workers \ {w} : Resting(v)'
    BY <2>2, <2>4 DEF Enqueued, Resting
  <2> QED BY <1>1, <2>2, <2>3, <2>4, <2>5 DEF Carried
<1> QED BY <1>4, <1>5

\* Who is at work on a day nothing disturbed has the only message.
LEMMA OnlyOneCarries ==
    ASSUME BulletinInv, ~ bulletinExcuse, NEW w \in Workers, ~ Resting(w)
    PROVE  hour = "due" /\ (Carried(w, "send", 0) \/ Carried(w, "log", 1))
<1>1. PICK v \in Workers : hour = "due" /\ (Carried(v, "send", 0) \/ Carried(v, "log", 1))
  BY DEF BulletinInv, OneMessage, Quiet, Enqueued, WrittenDown
<1>2. v = w
  BY <1>1 DEF Carried
<1> QED BY <1>1, <1>2

\* A piece of work that is not idle is one of the two.
LEMMA AtWork ==
    ASSUME BulletinInv, NEW w \in Workers, ~ Resting(w)
    PROVE  bulletinWork[w] \in Composing
BY DEF BulletinInv, BulletinTypes, Resting

\* The message leaves.
LEMMA BulletinLeaves ==
    ASSUME BulletinInv, NEW w \in Workers, B!Send(w)
    PROVE  BulletinInv'
<1> USE DEF BulletinInv
<1>1. /\ bulletinWork[w].op = "send" /\ bulletinSent' = bulletinSent + 1
      /\ bulletinWork' = [bulletinWork EXCEPT ![w].op = "log"]
      /\ bulletinQueue' = bulletinQueue /\ bulletinExcuse' = bulletinExcuse
      /\ hour' = hour /\ bulletinLog' = bulletinLog
      /\ bulletinEnabled' = bulletinEnabled /\ recipients' = recipients /\ bulletinMishaps' = bulletinMishaps
  BY DEF B!Send, B!Client
<1>2. ~ Resting(w)
  BY <1>1 DEF Resting, B!Idle
<1>3. bulletinWork[w] \in Composing
  BY <1>2, AtWork
<1>4. /\ bulletinWork'[w] \in Composing /\ bulletinWork'[w].op = "log"
      /\ \A v \in Workers \ {w} : bulletinWork'[v] = bulletinWork[v]
      /\ bulletinWork' \in [Workers -> {B!Idle} \cup Composing]
  BY <1>1, <1>3 DEF BulletinTypes, Composing
<1>5. BulletinTypes'
  <2>1. bulletinSent' \in Nat
    BY <1>1 DEF BulletinTypes
  <2> QED BY <1>1, <1>4, <2>1 DEF BulletinTypes
<1>6. OneMessage'
  <2> SUFFICES ASSUME ~ bulletinExcuse PROVE (hour = "due" /\ Carried(w, "log", 1))'
    BY <1>1 DEF OneMessage
  <2>1. hour = "due" /\ Carried(w, "send", 0)
    BY <1>1, <1>2, OnlyOneCarries DEF Carried
  <2>2. \A v \in Workers \ {w} : Resting(v)'
    BY <1>4, <2>1 DEF Carried, Resting
  <2>3. bulletinSent' = 1
    BY <1>1, <2>1 DEF Carried
  <2> QED BY <1>1, <1>4, <2>1, <2>2, <2>3 DEF Carried
<1> QED BY <1>5, <1>6

\* The log is written.
LEMMA BulletinWritten ==
    ASSUME BulletinInv, NEW w \in Workers, B!WriteLog(w)
    PROVE  BulletinInv'
<1> USE DEF BulletinInv
<1>1. /\ bulletinWork[w].op = "log" /\ bulletinLog' = TRUE
      /\ bulletinWork' = [bulletinWork EXCEPT ![w] = B!Idle]
      /\ bulletinQueue' = bulletinQueue /\ bulletinExcuse' = bulletinExcuse
      /\ hour' = hour /\ bulletinSent' = bulletinSent
      /\ bulletinEnabled' = bulletinEnabled /\ recipients' = recipients /\ bulletinMishaps' = bulletinMishaps
  BY DEF B!WriteLog, B!Client
<1>2. ~ Resting(w)
  BY <1>1 DEF Resting, B!Idle
<1>3. /\ bulletinWork'[w] = B!Idle
      /\ \A v \in Workers \ {w} : bulletinWork'[v] = bulletinWork[v]
      /\ bulletinWork' \in [Workers -> {B!Idle} \cup Composing]
  BY <1>1 DEF BulletinTypes
<1>4. BulletinTypes'
  BY <1>1, <1>3 DEF BulletinTypes
<1>5. OneMessage'
  <2> SUFFICES ASSUME ~ bulletinExcuse PROVE (hour = "due" /\ WrittenDown)'
    BY <1>1 DEF OneMessage
  <2>1. hour = "due" /\ Carried(w, "log", 1)
    BY <1>1, <1>2, OnlyOneCarries DEF Carried
  <2>2. \A v \in Workers : Resting(v)'
    BY <1>3, <2>1 DEF Carried, Resting
  <2> QED BY <1>1, <2>1, <2>2 DEF Carried, WrittenDown
<1> QED BY <1>4, <1>5

\* The server refuses, or the message is delivered again.
LEMMA BulletinComesBack ==
    ASSUME BulletinInv, NEW w \in Workers, B!Refuse(w) \/ B!Redeliver(w)
    PROVE  BulletinInv'
<1> USE DEF BulletinInv
<1>1. /\ ~ Resting(w) /\ bulletinMishaps' \in 0..1
      /\ hour' = hour /\ bulletinSent' = bulletinSent
      /\ bulletinLog' = bulletinLog
      /\ bulletinEnabled' = bulletinEnabled /\ recipients' = recipients
  BY DEF B!Refuse, B!Redeliver, B!Client, BulletinTypes, Resting, B!Idle
<1>2. bulletinWork[w] \in Composing
  BY <1>1, AtWork
<1>3. /\ bulletinWork' = bulletinWork \/ bulletinWork' = [bulletinWork EXCEPT ![w] = B!Idle]
      /\ bulletinQueue' \subseteq 0..1 /\ bulletinExcuse' \in BOOLEAN
  <2>1. CASE B!Refuse(w)
    <3>1. bulletinWork' = [bulletinWork EXCEPT ![w] = B!Idle]
      BY <2>1 DEF B!Refuse
    <3>2. bulletinQueue' \subseteq 0..1
      <4>1. bulletinWork[w].retries \in 0..1
        BY <1>2 DEF Composing
      <4>2. bulletinWork[w].retries < 1 => bulletinWork[w].retries + 1 \in 0..1
        BY <4>1
      <4>3. bulletinQueue' = IF bulletinWork[w].retries < 1
                             THEN bulletinQueue \cup {bulletinWork[w].retries + 1} ELSE bulletinQueue
        BY <2>1 DEF B!Refuse
      <4> QED BY <4>2, <4>3 DEF BulletinTypes
    <3>3. bulletinExcuse' = (bulletinExcuse \/ bulletinWork[w].retries = 1)
      BY <2>1 DEF B!Refuse
    <3> QED BY <3>1, <3>2, <3>3
  <2>2. CASE B!Redeliver(w)
    <3>1. bulletinWork' = bulletinWork \/ bulletinWork' = [bulletinWork EXCEPT ![w] = B!Idle]
      BY <2>2 DEF B!Redeliver
    <3>2. bulletinQueue' \subseteq 0..1
      BY <1>2, <2>2 DEF B!Redeliver, Composing, BulletinTypes
    <3>3. bulletinExcuse' = (bulletinExcuse \/ bulletinWork[w].op = "log" \/ bulletinWork' = bulletinWork)
      BY <2>2 DEF B!Redeliver
    <3> QED BY <3>1, <3>2, <3>3
  <2> QED BY <2>1, <2>2
<1>4. BulletinTypes'
  BY <1>1, <1>3 DEF BulletinTypes
<1>5. OneMessage'
  <2> SUFFICES ASSUME ~ bulletinExcuse' PROVE (hour = "due" /\ Enqueued)'
    BY DEF OneMessage
  <2>1. /\ ~ bulletinExcuse /\ bulletinWork[w].op = "send"
        /\ bulletinWork' = [bulletinWork EXCEPT ![w] = B!Idle]
        /\ \E r \in 0..1 : bulletinQueue' = bulletinQueue \cup {r}
    <3>1. CASE B!Refuse(w)
      <4>1. bulletinExcuse' = (bulletinExcuse \/ bulletinWork[w].retries = 1)
        BY <3>1 DEF B!Refuse
      <4>2. ~ bulletinExcuse /\ bulletinWork[w].retries # 1
        BY <4>1
      <4>3. bulletinWork[w].retries = 0
        BY <1>2, <4>2 DEF Composing
      <4>4. bulletinQueue' = bulletinQueue \cup {1}
        BY <3>1, <4>3 DEF B!Refuse
      <4> QED BY <3>1, <4>2, <4>4 DEF B!Refuse
    <3>2. CASE B!Redeliver(w)
      <4>1. bulletinExcuse' = (bulletinExcuse \/ bulletinWork[w].op = "log" \/ bulletinWork' = bulletinWork)
        BY <3>2 DEF B!Redeliver
      <4>2. ~ bulletinExcuse /\ bulletinWork[w].op # "log" /\ bulletinWork' # bulletinWork
        BY <4>1
      <4>3. bulletinWork[w].op = "send" /\ bulletinWork[w].retries \in 0..1
        BY <1>2, <4>2 DEF Composing
      <4>4. bulletinQueue' = bulletinQueue \cup {bulletinWork[w].retries}
        BY <3>2 DEF B!Redeliver
      <4>5. bulletinWork' = [bulletinWork EXCEPT ![w] = B!Idle]
        BY <3>2, <4>2 DEF B!Redeliver
      <4> QED BY <4>2, <4>3, <4>4, <4>5
    <3> QED BY <3>1, <3>2
  <2>2. hour = "due" /\ Carried(w, "send", 0)
    BY <1>1, <2>1, OnlyOneCarries DEF Carried
  <2>3. \A v \in Workers : Resting(v)'
    <3>1. bulletinWork'[w] = B!Idle /\ \A v \in Workers \ {w} : bulletinWork'[v] = bulletinWork[v]
      BY <2>1 DEF BulletinTypes
    <3> QED BY <2>2, <3>1 DEF Carried, Resting
  <2> QED BY <1>1, <2>1, <2>2, <2>3 DEF Carried, Enqueued
<1> QED BY <1>4, <1>5

\* Every step of the bulletin keeps it.
LEMMA BulletinStep ==
    ASSUME BulletinInv, B!Next \/ UNCHANGED bulletinVars
    PROVE  BulletinInv'
<1>1. ASSUME NEW w \in Workers, B!Work(w) \/ B!Refuse(w) \/ B!Redeliver(w) PROVE BulletinInv'
  BY <1>1, BulletinBegins, BulletinLeaves, BulletinWritten, BulletinComesBack DEF B!Work
<1> QED BY <1>1, DayTurns DEF B!Next

\* What the invariant says of the bulletin is what the properties say.
LEMMA BulletinServes == BulletinInv => B!TypeOK /\ B!OneBulletinADay
<1> SUFFICES ASSUME BulletinInv PROVE B!TypeOK /\ B!OneBulletinADay
  OBVIOUS
<1> USE DEF BulletinInv
<1>1. \A w \in Workers : bulletinWork[w] = B!Idle \/ bulletinWork[w] \in [op : {"send", "log"}, retries : 0..1]
  BY DEF BulletinTypes, Composing
<1>2. {bulletinEnabled, recipients, bulletinLog, bulletinExcuse} \subseteq BOOLEAN
  BY DEF BulletinTypes
<1>3. bulletinSent =< 1 \/ bulletinExcuse
  BY DEF OneMessage, Quiet, Enqueued, Carried, WrittenDown
<1> QED BY <1>1, <1>2, <1>3 DEF BulletinTypes, B!TypeOK, B!OneBulletinADay

-----------------------------------------------------------------------------
(* The reminders of the campaigns.                                          *)

Pairs == {e1} \X R!Kinds

\* A run of the task of the reminders: its list, and what it has in hand.
Runs ==
    [op : {"next"}, todo : SUBSET Pairs, cur : Pairs \cup {<<>>}, fresh : BOOLEAN]
    \cup [op : {"mail", "log"}, todo : SUBSET Pairs, cur : Pairs, fresh : BOOLEAN]

InRun(w) == remindersTask[w] # R!Idle
Mailing(w) == remindersTask[w].op = "mail"
Mailed(w, e, k) == remindersTask[w].op = "log" /\ remindersTask[w].cur = <<e, k>>

\* A run that has a reminder to send or to write down.
Reminds(w, e, k) ==
    /\ InRun(w)
    /\ \/ <<e, k>> \in remindersTask[w].todo
       \/ remindersTask[w].op # "next" /\ remindersTask[w].cur = <<e, k>>

\* What TypeOK says, and what the tasks are.
RemindersTypes ==
    /\ day \in 0..5 /\ remindersEnabled \in BOOLEAN
    /\ over \subseteq {e1} /\ revoked \subseteq {e1} /\ holds \subseteq {e1}
    /\ remindersLog \in [{e1} -> SUBSET R!Kinds] /\ excused \in [{e1} -> SUBSET R!Kinds]
    /\ pending \in Nat /\ runs \in Nat /\ remindersMishaps \in 0..1
    /\ remindersTask \in [Workers -> {R!Idle} \cup Runs]
    /\ remindersSent \in [{e1} -> [R!Kinds -> 0..2]] /\ today \in [{e1} -> 0..2]

\* What a run has in hand is no longer on its list.
TakenOff ==
    \A w \in Workers : InRun(w) /\ remindersTask[w].op # "next" =>
        remindersTask[w].cur \notin remindersTask[w].todo

\* A reminder that is not excused is in the hands of one run at most; it is sent and not written
\* down only while that run is between the two; once written down nobody has it.
KindOnce(e, k) ==
    \/ k \in excused[e]
    \/ /\ \A v, w \in Workers : Reminds(v, e, k) /\ Reminds(w, e, k) => v = w
       /\ IF k \in remindersLog[e]
          THEN remindersSent[e][k] =< 1 /\ \A w \in Workers : ~ Reminds(w, e, k)
          ELSE IF \E w \in Workers : Mailed(w, e, k)
          THEN remindersSent[e][k] = 1
          ELSE remindersSent[e][k] = 0

\* What a run has not sent yet.
ToSend(w) ==
    {x \in Pairs : \/ x \in remindersTask[w].todo
                   \/ Mailing(w) /\ remindersTask[w].cur = x}

\* As long as one run at most has started today, it is alone, and it has one reminder at most
\* for an employee who has received none today.
Daily ==
    /\ runs = 0 => (\A w \in Workers : ~ InRun(w)) /\ (\A e \in {e1} : today[e] = 0)
    /\ runs = 1 =>
         /\ \A v, w \in Workers : InRun(v) /\ InRun(w) => v = w
         /\ \A e \in {e1} : today[e] =< 1
         /\ \A w \in Workers : InRun(w) =>
              \A x, y \in ToSend(w) : today[x[1]] = 0 /\ (x[1] = y[1] => x = y)

RemindersInv ==
    /\ RemindersTypes
    /\ TakenOff
    /\ \A e \in {e1} : \A k \in R!Kinds : KindOnce(e, k)
    /\ Daily

\* The shape of a run.
LEMMA RunShape ==
    ASSUME RemindersInv, NEW w \in Workers, InRun(w)
    PROVE  /\ remindersTask[w] \in Runs
           /\ remindersTask[w].op \in {"next", "mail", "log"}
           /\ remindersTask[w].todo \subseteq Pairs
           /\ remindersTask[w].op # "next" => remindersTask[w].cur \in Pairs
<1>1. remindersTask[w] \in Runs
  BY DEF RemindersInv, RemindersTypes, InRun
<1> QED BY <1>1 DEF Runs

\* A pair is an enrolment and a kind.
LEMMA PairParts ==
    ASSUME NEW x \in Pairs
    PROVE  x[1] \in {e1} /\ x[2] \in R!Kinds /\ x = <<x[1], x[2]>>
BY DEF Pairs

\* A campaign starts with no reminder sent, listed or written down.
LEMMA RemindersInit == R!Init => RemindersInv
<1> SUFFICES ASSUME R!Init PROVE RemindersInv
  OBVIOUS
<1>1. /\ day = 0 /\ remindersEnabled = TRUE /\ over = {} /\ revoked = {} /\ holds = {e1}
      /\ remindersLog = [e \in {e1} |-> {}] /\ excused = [e \in {e1} |-> {}]
      /\ pending = 0 /\ runs = 0 /\ remindersMishaps = 0
      /\ remindersTask = [w \in Workers |-> R!Idle]
      /\ remindersSent = [e \in {e1} |-> [k \in R!Kinds |-> 0]] /\ today = [e \in {e1} |-> 0]
  BY DEF R!Init
<1>2. \A w \in Workers : ~ InRun(w) /\ remindersTask[w].op # "log"
  BY <1>1 DEF InRun, R!Idle
<1>3. RemindersTypes
  BY <1>1 DEF RemindersTypes
<1>4. \A e \in {e1} : \A k \in R!Kinds : KindOnce(e, k)
  BY <1>1, <1>2 DEF KindOnce, Reminds, Mailed
<1> QED BY <1>1, <1>2, <1>3, <1>4 DEF RemindersInv, TakenOff, Daily

\* A step that sends and writes down nothing and lists nothing keeps what is said of a reminder.
LEMMA KindStays ==
    ASSUME RemindersInv, NEW e \in {e1}, NEW k \in R!Kinds,
           k \in excused[e] => k \in excused'[e],
           remindersLog'[e] = remindersLog[e], remindersSent'[e][k] = remindersSent[e][k],
           \A w \in Workers : Reminds(w, e, k)' => Reminds(w, e, k),
           \A w \in Workers : Mailed(w, e, k)' <=> Mailed(w, e, k)
    PROVE  KindOnce(e, k)'
<1>1. KindOnce(e, k)
  BY DEF RemindersInv
<1> QED BY <1>1 DEF KindOnce

\* A step after which a run has, at most, less to send keeps what is said of the day.
LEMMA DayStays ==
    ASSUME RemindersInv, runs' = runs, today' = today,
           \A w \in Workers : InRun(w)' => InRun(w) /\ ToSend(w)' \subseteq ToSend(w)
    PROVE  Daily'
<1>1. Daily
  BY DEF RemindersInv
<1> QED BY <1>1 DEF Daily

\* The other links of the employee are no longer the last: nothing else changes.
LEMMA StaleLinks ==
    ASSUME RemindersInv, NEW e \in {e1}, NEW w \in Workers
    PROVE  /\ R!Stale(e) \in [Workers -> {R!Idle} \cup Runs]
           /\ R!Stale(e)[w] # R!Idle <=> InRun(w)
           /\ R!Stale(e)[w].op = remindersTask[w].op
           /\ InRun(w) => R!Stale(e)[w].todo = remindersTask[w].todo
                          /\ R!Stale(e)[w].cur = remindersTask[w].cur
<1>1. ASSUME NEW v \in Workers, remindersTask[v].op = "mail"
      PROVE  /\ [remindersTask[v] EXCEPT !.fresh = FALSE] \in Runs
             /\ [remindersTask[v] EXCEPT !.fresh = FALSE].op = "mail"
             /\ [remindersTask[v] EXCEPT !.fresh = FALSE].todo = remindersTask[v].todo
             /\ [remindersTask[v] EXCEPT !.fresh = FALSE].cur = remindersTask[v].cur
             /\ InRun(v)
  <2>1. InRun(v)
    BY <1>1 DEF InRun, R!Idle
  <2>2. remindersTask[v] \in [op : {"mail", "log"}, todo : SUBSET Pairs, cur : Pairs, fresh : BOOLEAN]
    BY <1>1, <2>1, RunShape DEF Runs
  <2> QED BY <1>1, <2>1, <2>2 DEF Runs
<1>2. \A r \in Runs : r # R!Idle
  BY DEF Runs, R!Idle
<1>3. R!Stale(e) = [v \in Workers |-> IF remindersTask[v].op = "mail" /\ remindersTask[v].cur[1] = e
                               THEN [remindersTask[v] EXCEPT !.fresh = FALSE] ELSE remindersTask[v]]
  BY DEF R!Stale
<1>4. R!Stale(e) \in [Workers -> {R!Idle} \cup Runs]
  BY <1>1, <1>3 DEF RemindersInv, RemindersTypes
<1>5. CASE remindersTask[w].op = "mail" /\ remindersTask[w].cur[1] = e
  <2>1. R!Stale(e)[w] = [remindersTask[w] EXCEPT !.fresh = FALSE]
    BY <1>3, <1>5
  <2> QED BY <1>1, <1>2, <1>4, <1>5, <2>1
<1>6. CASE ~ (remindersTask[w].op = "mail" /\ remindersTask[w].cur[1] = e)
  <2>1. R!Stale(e)[w] = remindersTask[w]
    BY <1>3, <1>6
  <2> QED BY <1>4, <2>1 DEF InRun
<1> QED BY <1>5, <1>6

\* The campaign goes on, and a day begins.
LEMMA CampaignGoesOn ==
    ASSUME RemindersInv,
           \/ UNCHANGED remindersVars \/ R!SetPolicy \/ R!NewDay \/ R!RunAgain
           \/ \E e \in {e1} : R!Finish(e) \/ R!Revoke(e)
    PROVE  RemindersInv'
<1> USE DEF RemindersInv
<1>1. /\ remindersTask' = remindersTask /\ remindersLog' = remindersLog
      /\ remindersSent' = remindersSent /\ excused' = excused /\ holds' = holds
  BY DEF remindersVars, R!SetPolicy, R!NewDay, R!RunAgain, R!Finish, R!Revoke, R!State, R!History
<1>2. RemindersTypes'
  <2>1. CASE UNCHANGED remindersVars \/ R!SetPolicy
    BY <1>1, <2>1 DEF remindersVars, R!SetPolicy, R!State, R!History, RemindersTypes
  <2>2. CASE R!NewDay
    <3>1. today' \in [{e1} -> 0..2]
      BY <2>2 DEF R!NewDay
    <3>2. day' \in 0..5 /\ pending' \in Nat /\ runs' \in Nat
      BY <2>2 DEF R!NewDay, RemindersTypes
    <3> QED BY <1>1, <2>2, <3>1, <3>2 DEF R!NewDay, R!State, RemindersTypes
  <2>3. CASE R!RunAgain
    BY <1>1, <2>3 DEF R!RunAgain, R!State, R!History, RemindersTypes
  <2>4. ASSUME NEW e \in {e1}, R!Finish(e) \/ R!Revoke(e) PROVE RemindersTypes'
    BY <1>1, <2>4 DEF R!Finish, R!Revoke, R!State, R!History, RemindersTypes
  <2> QED BY <2>1, <2>2, <2>3, <2>4
<1>3. TakenOff'
  BY <1>1 DEF TakenOff, InRun
<1>4. \A e \in {e1} : \A k \in R!Kinds : KindOnce(e, k)'
  BY <1>1, KindStays DEF Reminds, Mailed, InRun
<1>5. Daily'
  <2>1. CASE R!NewDay
    BY <1>1, <2>1 DEF R!NewDay, Daily, InRun
  <2>2. CASE ~ R!NewDay
    <3>1. runs' = runs /\ today' = today
      BY <2>2 DEF remindersVars, R!SetPolicy, R!RunAgain, R!Finish, R!Revoke, R!State, R!History
    <3> QED BY <1>1, <3>1, DayStays DEF InRun, ToSend, Mailing
  <2> QED BY <2>1, <2>2
<1> QED BY <1>2, <1>3, <1>4, <1>5

\* The administrator renews a link.
LEMMA LinkRenewed ==
    ASSUME RemindersInv, NEW e \in {e1}, R!RenewLink(e)
    PROVE  RemindersInv'
<1> USE DEF RemindersInv
<1>1. /\ holds' = holds \cup {e} /\ remindersTask' = R!Stale(e)
      /\ day' = day /\ remindersEnabled' = remindersEnabled /\ over' = over /\ revoked' = revoked
      /\ remindersLog' = remindersLog /\ pending' = pending /\ runs' = runs
      /\ remindersMishaps' = remindersMishaps
      /\ remindersSent' = remindersSent /\ today' = today /\ excused' = excused
  BY DEF R!RenewLink, R!State, R!History
<1>2. \A w \in Workers :
         /\ InRun(w)' <=> InRun(w)
         /\ remindersTask'[w].op = remindersTask[w].op
         /\ InRun(w) => remindersTask'[w].todo = remindersTask[w].todo
                        /\ remindersTask'[w].cur = remindersTask[w].cur
  BY <1>1, StaleLinks DEF InRun
<1>3. RemindersTypes'
  <2>1. remindersTask' \in [Workers -> {R!Idle} \cup Runs]
    BY <1>1, StaleLinks DEF R!Stale, RemindersTypes
  <2> QED BY <1>1, <2>1 DEF RemindersTypes
<1>4. TakenOff'
  BY <1>2 DEF TakenOff
<1>5. \A v \in Workers : \A k \in R!Kinds : Mailed(v, e, k)' <=> Mailed(v, e, k)
  <2>1. \A v \in Workers : remindersTask[v].op = "log" => InRun(v)
    BY DEF InRun, R!Idle
  <2> QED BY <1>2, <2>1 DEF Mailed
<1>6. \A v \in Workers : \A k \in R!Kinds : Reminds(v, e, k)' => Reminds(v, e, k)
  BY <1>2 DEF Reminds
<1>7. \A f \in {e1} : \A k \in R!Kinds : KindOnce(f, k)'
  BY <1>1, <1>5, <1>6, KindStays
<1>8. Daily'
  BY <1>1, <1>2, DayStays DEF ToSend, Mailing
<1> QED BY <1>3, <1>4, <1>7, <1>8

\* A run takes the next reminder of its list, and a new link is saved.
LEMMA LinkSaved ==
    ASSUME RemindersInv, NEW w \in Workers, R!Renew(w)
    PROVE  RemindersInv'
<1> USE DEF RemindersInv
<1>1. PICK x \in remindersTask[w].todo :
         /\ remindersTask[w].op = "next"
         /\ remindersTask' = [R!Stale(x[1]) EXCEPT ![w] =
                [op |-> "mail", todo |-> remindersTask[w].todo \ {x}, cur |-> x, fresh |-> TRUE]]
         /\ holds' = holds \ {x[1]}
  BY DEF R!Renew
<1>2. /\ day' = day /\ remindersEnabled' = remindersEnabled /\ over' = over /\ revoked' = revoked
      /\ remindersLog' = remindersLog /\ pending' = pending /\ runs' = runs
      /\ remindersMishaps' = remindersMishaps
      /\ remindersSent' = remindersSent /\ today' = today /\ excused' = excused
  BY DEF R!Renew, R!State, R!History
<1>3. InRun(w)
  BY <1>1 DEF InRun, R!Idle
<1>4. remindersTask[w].todo \subseteq Pairs /\ x \in Pairs /\ x[1] \in {e1}
  BY <1>1, <1>3, RunShape, PairParts
<1>5. [op |-> "mail", todo |-> remindersTask[w].todo \ {x}, cur |-> x, fresh |-> TRUE] \in Runs
  BY <1>4 DEF Runs
<1>6. R!Stale(x[1]) \in [Workers -> {R!Idle} \cup Runs]
  BY <1>4, StaleLinks DEF R!Stale, RemindersTypes
<1>7. /\ remindersTask' \in [Workers -> {R!Idle} \cup Runs]
      /\ remindersTask'[w] = [op |-> "mail", todo |-> remindersTask[w].todo \ {x}, cur |-> x, fresh |-> TRUE]
      /\ \A v \in Workers \ {w} : remindersTask'[v] = R!Stale(x[1])[v]
  BY <1>1, <1>5, <1>6
<1>8. \A v \in Workers \ {w} :
         /\ InRun(v)' <=> InRun(v)
         /\ remindersTask'[v].op = remindersTask[v].op
         /\ InRun(v) => remindersTask'[v].todo = remindersTask[v].todo
                        /\ remindersTask'[v].cur = remindersTask[v].cur
  BY <1>4, <1>7, StaleLinks DEF InRun
<1>9. RemindersTypes'
  BY <1>1, <1>2, <1>7 DEF RemindersTypes
<1>10. TakenOff'
  BY <1>7, <1>8 DEF TakenOff
<1>11. \A v \in Workers : \A k \in R!Kinds : Mailed(v, e1, k)' <=> Mailed(v, e1, k)
  <2>1. \A v \in Workers : remindersTask[v].op = "log" => InRun(v)
    BY DEF InRun, R!Idle
  <2> QED BY <1>1, <1>7, <1>8, <2>1 DEF Mailed
<1>12. \A v \in Workers : \A k \in R!Kinds : Reminds(v, e1, k)' => Reminds(v, e1, k)
  BY <1>1, <1>3, <1>7, <1>8 DEF Reminds
<1>13. \A f \in {e1} : \A k \in R!Kinds : KindOnce(f, k)'
  BY <1>2, <1>11, <1>12, KindStays
<1>14. Daily'
  <2>1. \A v \in Workers \ {w} : InRun(v)' => InRun(v) /\ ToSend(v)' \subseteq ToSend(v)
    BY <1>8 DEF ToSend, Mailing
  <2>2. ToSend(w)' \subseteq ToSend(w)
    BY <1>7 DEF ToSend, Mailing
  <2> QED BY <1>2, <1>3, <2>1, <2>2, DayStays
<1> QED BY <1>9, <1>10, <1>13, <1>14

\* A run ends with an empty list.
LEMMA RunEnds ==
    ASSUME RemindersInv, NEW w \in Workers, R!EndRun(w)
    PROVE  RemindersInv'
<1> USE DEF RemindersInv
<1>1. /\ remindersTask[w].op = "next" /\ remindersTask[w].todo = {}
      /\ remindersTask' = [remindersTask EXCEPT ![w] = R!Idle]
      /\ day' = day /\ remindersEnabled' = remindersEnabled /\ over' = over /\ revoked' = revoked
      /\ remindersLog' = remindersLog /\ pending' = pending /\ runs' = runs /\ holds' = holds
      /\ remindersMishaps' = remindersMishaps
      /\ remindersSent' = remindersSent /\ today' = today /\ excused' = excused
  BY DEF R!EndRun, R!State, R!History
<1>2. /\ remindersTask' \in [Workers -> {R!Idle} \cup Runs]
      /\ remindersTask'[w] = R!Idle
      /\ \A v \in Workers \ {w} : remindersTask'[v] = remindersTask[v]
  BY <1>1 DEF RemindersTypes
<1>3. ~ InRun(w)' /\ remindersTask'[w].op = "idle"
  BY <1>2 DEF InRun, R!Idle
<1>4. RemindersTypes'
  BY <1>1, <1>2 DEF RemindersTypes
<1>5. TakenOff'
  BY <1>2, <1>3 DEF TakenOff, InRun
<1>6. \A v \in Workers : \A k \in R!Kinds : Mailed(v, e1, k)' <=> Mailed(v, e1, k)
  BY <1>1, <1>2, <1>3 DEF Mailed
<1>7. \A v \in Workers : \A k \in R!Kinds : Reminds(v, e1, k)' => Reminds(v, e1, k)
  BY <1>2, <1>3 DEF Reminds, InRun
<1>8. \A f \in {e1} : \A k \in R!Kinds : KindOnce(f, k)'
  BY <1>1, <1>6, <1>7, KindStays
<1>9. \A v \in Workers : InRun(v)' => InRun(v) /\ ToSend(v)' \subseteq ToSend(v)
  BY <1>2, <1>3 DEF InRun, ToSend, Mailing
<1>10. Daily'
  BY <1>1, <1>9, DayStays
<1> QED BY <1>4, <1>5, <1>8, <1>10

\* The e-mail is refused or the worker dies: what was sent and not written down is excused.
LEMMA RunFails ==
    ASSUME RemindersInv, NEW w \in Workers, R!Fail(w)
    PROVE  RemindersInv'
<1> USE DEF RemindersInv
<1>1. /\ InRun(w)
      /\ remindersTask' = [remindersTask EXCEPT ![w] = R!Idle]
      /\ day' = day /\ remindersEnabled' = remindersEnabled /\ over' = over /\ revoked' = revoked
      /\ remindersLog' = remindersLog /\ pending' = pending + 1 /\ runs' = runs /\ holds' = holds
      /\ remindersMishaps < 1 /\ remindersMishaps' = remindersMishaps + 1
      /\ remindersSent' = remindersSent /\ today' = today
      /\ excused' = IF remindersTask[w].op = "log"
                    THEN [excused EXCEPT ![remindersTask[w].cur[1]] =
                            excused[remindersTask[w].cur[1]] \cup {remindersTask[w].cur[2]}]
                    ELSE excused
  BY DEF R!Fail, R!State, InRun
<1>2. /\ remindersTask' \in [Workers -> {R!Idle} \cup Runs]
      /\ remindersTask'[w] = R!Idle
      /\ \A v \in Workers \ {w} : remindersTask'[v] = remindersTask[v]
  BY <1>1 DEF RemindersTypes
<1>3. ~ InRun(w)' /\ remindersTask'[w].op = "idle"
  BY <1>2 DEF InRun, R!Idle
<1>4. remindersTask[w].op = "log" =>
         /\ remindersTask[w].cur \in Pairs
         /\ remindersTask[w].cur[1] \in {e1} /\ remindersTask[w].cur[2] \in R!Kinds
         /\ remindersTask[w].cur = <<remindersTask[w].cur[1], remindersTask[w].cur[2]>>
  BY <1>1, RunShape, PairParts
<1>5. /\ excused' \in [{e1} -> SUBSET R!Kinds]
      /\ excused[e1] \subseteq excused'[e1]
      /\ remindersTask[w].op = "log" => remindersTask[w].cur[2] \in excused'[e1]
  BY <1>1, <1>4 DEF RemindersTypes
<1>6. RemindersTypes'
  BY <1>1, <1>2, <1>5 DEF RemindersTypes
<1>7. TakenOff'
  BY <1>2, <1>3 DEF TakenOff, InRun
<1>8. \A v \in Workers : \A k \in R!Kinds : Reminds(v, e1, k)' => Reminds(v, e1, k)
  BY <1>2, <1>3 DEF Reminds, InRun
<1>9. ASSUME NEW k \in R!Kinds PROVE KindOnce(e1, k)'
  <2>1. CASE Mailed(w, e1, k)
    <3>1. remindersTask[w].cur[2] = k
      BY <2>1 DEF Mailed
    <3>2. k \in excused'[e1]
      BY <1>5, <2>1, <3>1 DEF Mailed
    <3> QED BY <3>2 DEF KindOnce
  <2>2. CASE ~ Mailed(w, e1, k)
    <3>1. \A v \in Workers : Mailed(v, e1, k)' <=> Mailed(v, e1, k)
      BY <1>2, <1>3, <2>2 DEF Mailed
    <3> QED BY <1>1, <1>5, <1>8, <3>1, KindStays
  <2> QED BY <2>1, <2>2
<1>10. \A v \in Workers : InRun(v)' => InRun(v) /\ ToSend(v)' \subseteq ToSend(v)
  BY <1>2, <1>3 DEF InRun, ToSend, Mailing
<1>11. Daily'
  BY <1>1, <1>10, DayStays
<1> QED BY <1>6, <1>7, <1>9, <1>11

\* The e-mail of a reminder leaves.
LEMMA ReminderLeaves ==
    ASSUME RemindersInv, NEW w \in Workers, R!Mail(w)
    PROVE  RemindersInv'
<1> USE DEF RemindersInv
<1>1. remindersTask[w].op = "mail" /\ InRun(w)
  BY DEF R!Mail, InRun, R!Idle
<1>2. remindersTask[w].cur \in Pairs
  BY <1>1, RunShape
<1>3. PICK e \in {e1}, k \in R!Kinds : remindersTask[w].cur = <<e, k>>
  BY <1>2, PairParts
<1>4. /\ remindersTask' = [remindersTask EXCEPT ![w].op = "log"]
      /\ day' = day /\ remindersEnabled' = remindersEnabled /\ over' = over /\ revoked' = revoked
      /\ remindersLog' = remindersLog /\ pending' = pending /\ runs' = runs
      /\ remindersMishaps' = remindersMishaps /\ excused' = excused
      /\ holds' \in {holds \cup {e}, holds}
  BY <1>3 DEF R!Mail, R!State
<1>5. /\ remindersSent' = [remindersSent EXCEPT ![e][k] = IF remindersSent[e][k] = 0 THEN 1 ELSE 2]
      /\ today' = [today EXCEPT ![e] = IF today[e] = 0 THEN 1 ELSE 2]
  BY <1>3 DEF R!Mail
<1>6. /\ remindersTask' \in [Workers -> {R!Idle} \cup Runs]
      /\ remindersTask'[w].op = "log"
      /\ remindersTask'[w].todo = remindersTask[w].todo /\ remindersTask'[w].cur = <<e, k>>
      /\ \A v \in Workers \ {w} : remindersTask'[v] = remindersTask[v]
  <2>1. remindersTask[w] \in [op : {"mail", "log"}, todo : SUBSET Pairs, cur : Pairs, fresh : BOOLEAN]
    BY <1>1, RunShape DEF Runs
  <2>2. [remindersTask[w] EXCEPT !.op = "log"] \in Runs
    BY <2>1 DEF Runs
  <2>3. remindersTask'[w] = [remindersTask[w] EXCEPT !.op = "log"]
    BY <1>4 DEF RemindersTypes
  <2>4. remindersTask' \in [Workers -> {R!Idle} \cup Runs]
    BY <1>4, <2>2 DEF RemindersTypes
  <2>5. \A v \in Workers \ {w} : remindersTask'[v] = remindersTask[v]
    BY <1>4 DEF RemindersTypes
  <2> QED BY <1>3, <2>1, <2>3, <2>4, <2>5
<1>7. InRun(w)'
  BY <1>6 DEF InRun, R!Idle
<1>8. /\ remindersSent' \in [{e1} -> [R!Kinds -> 0..2]] /\ today' \in [{e1} -> 0..2]
      /\ remindersSent[e][k] = 0 => remindersSent'[e][k] = 1
      /\ \A f \in {e1} : \A l \in R!Kinds : <<f, l>> # <<e, k>> => remindersSent'[f][l] = remindersSent[f][l]
  BY <1>5 DEF RemindersTypes
<1>9. RemindersTypes'
  BY <1>4, <1>6, <1>8 DEF RemindersTypes
<1>10. TakenOff'
  BY <1>1, <1>3, <1>6 DEF TakenOff, InRun
<1>11. \A v \in Workers, l \in R!Kinds : Reminds(v, e1, l)' => Reminds(v, e1, l)
  BY <1>1, <1>3, <1>6 DEF Reminds, InRun
<1>12. Reminds(w, e, k)
  BY <1>1, <1>3 DEF Reminds
<1>13. ASSUME NEW l \in R!Kinds PROVE KindOnce(e1, l)'
  <2>1. CASE l # k
    <3>1. \A v \in Workers : Mailed(v, e1, l)' <=> Mailed(v, e1, l)
      BY <1>1, <1>6, <2>1 DEF Mailed
    <3>2. remindersSent'[e1][l] = remindersSent[e1][l]
      BY <1>8, <2>1
    <3> QED BY <1>4, <1>11, <3>1, <3>2, KindStays
  <2>2. CASE l = k
    <3> SUFFICES ASSUME k \notin excused[e1] PROVE KindOnce(e1, k)'
      BY <1>4, <2>2 DEF KindOnce
    <3>1. KindOnce(e1, k) /\ e = e1
      OBVIOUS
    <3>2. \A v \in Workers : Reminds(v, e1, k) => v = w
      BY <1>12, <3>1 DEF KindOnce
    <3>3. k \notin remindersLog[e1]
      BY <1>12, <3>1 DEF KindOnce
    <3>4. ~ \E v \in Workers : Mailed(v, e1, k)
      <4>1. ASSUME NEW v \in Workers, Mailed(v, e1, k) PROVE FALSE
        <5>1. Reminds(v, e1, k)
          BY <4>1 DEF Mailed, Reminds, InRun, R!Idle
        <5>2. v = w
          BY <3>2, <5>1
        <5> QED BY <1>1, <4>1, <5>2 DEF Mailed
      <4> QED BY <4>1
    <3>5. remindersSent[e1][k] = 0
      BY <3>1, <3>3, <3>4 DEF KindOnce
    <3>6. remindersSent'[e1][k] = 1 /\ Mailed(w, e1, k)'
      BY <1>6, <1>8, <3>1, <3>5 DEF Mailed
    <3>7. \A u, v \in Workers : Reminds(u, e1, k)' /\ Reminds(v, e1, k)' => u = v
      BY <1>11, <3>2
    <3>8. k \notin remindersLog'[e1]
      BY <1>4, <3>3
    <3> QED BY <3>6, <3>7, <3>8 DEF KindOnce
  <2> QED BY <2>1, <2>2
<1>14. Daily'
  <2>1. runs # 0
    BY <1>1 DEF Daily
  <2>2. ASSUME runs = 1 PROVE Daily'
    <3>1. <<e, k>> \in ToSend(w)
      BY <1>1, <1>2, <1>3 DEF ToSend, Mailing
    <3>2. today[e] = 0 /\ \A x \in ToSend(w) : x[1] = e => x = <<e, k>>
      BY <1>1, <2>2, <3>1 DEF Daily
    <3>3. today'[e] = 1 /\ \A f \in {e1} \ {e} : today'[f] = today[f]
      BY <1>5, <3>2 DEF RemindersTypes
    <3>4. \A f \in {e1} : today'[f] =< 1
      BY <3>3
    <3>5. \A v, u \in Workers : InRun(v)' /\ InRun(u)' => v = u
      BY <1>1, <1>6, <2>2 DEF Daily, InRun
    <3>6. ToSend(w)' \subseteq ToSend(w) \ {<<e, k>>}
      BY <1>1, <1>3, <1>6 DEF ToSend, Mailing, TakenOff
    <3>7. \A x \in ToSend(w) \ {<<e, k>>} : x[1] # e /\ x[1] \in {e1}
      BY <3>2, PairParts DEF ToSend
    <3>8. ToSend(w)' = {}
      BY <3>6, <3>7
    <3> QED BY <1>4, <1>7, <2>2, <3>4, <3>5, <3>8 DEF Daily
  <2> QED BY <1>4, <2>1, <2>2 DEF Daily
<1> QED BY <1>9, <1>10, <1>13, <1>14

\* The reminder is written down, or the row exists and the run ends.
LEMMA ReminderWritten ==
    ASSUME RemindersInv, NEW w \in Workers, R!WriteLog(w)
    PROVE  RemindersInv'
<1> USE DEF RemindersInv
<1>1. remindersTask[w].op = "log" /\ InRun(w)
  BY DEF R!WriteLog, InRun, R!Idle
<1>2. remindersTask[w].cur \in Pairs
  BY <1>1, RunShape
<1>3. PICK e \in {e1}, k \in R!Kinds : remindersTask[w].cur = <<e, k>>
  BY <1>2, PairParts
<1>4. /\ day' = day /\ remindersEnabled' = remindersEnabled /\ over' = over /\ revoked' = revoked
      /\ runs' = runs /\ holds' = holds
      /\ remindersMishaps' = remindersMishaps /\ excused' = excused
      /\ remindersSent' = remindersSent /\ today' = today
  BY DEF R!WriteLog, R!State, R!History
<1>5. \/ /\ k \in remindersLog[e] /\ pending' = pending + 1 /\ remindersLog' = remindersLog
         /\ remindersTask' = [remindersTask EXCEPT ![w] = R!Idle]
      \/ /\ k \notin remindersLog[e] /\ pending' = pending
         /\ remindersLog' = [remindersLog EXCEPT ![e] = remindersLog[e] \cup {k}]
         /\ remindersTask' = [remindersTask EXCEPT ![w].op = "next"]
  BY <1>3 DEF R!WriteLog
<1>6. /\ remindersTask' \in [Workers -> {R!Idle} \cup Runs]
      /\ \/ k \in remindersLog[e] /\ remindersTask'[w] = R!Idle
         \/ /\ k \notin remindersLog[e] /\ remindersTask'[w].op = "next"
            /\ remindersTask'[w].todo = remindersTask[w].todo
      /\ \A v \in Workers \ {w} : remindersTask'[v] = remindersTask[v]
  <2>1. remindersTask[w] \in [op : {"mail", "log"}, todo : SUBSET Pairs, cur : Pairs, fresh : BOOLEAN]
    BY <1>1, RunShape DEF Runs
  <2>2. [remindersTask[w] EXCEPT !.op = "next"] \in Runs
    BY <2>1 DEF Runs
  <2>3. CASE remindersTask' = [remindersTask EXCEPT ![w] = R!Idle] /\ k \in remindersLog[e]
    BY <2>3 DEF RemindersTypes
  <2>4. CASE remindersTask' = [remindersTask EXCEPT ![w].op = "next"] /\ k \notin remindersLog[e]
    <3>1. remindersTask'[w] = [remindersTask[w] EXCEPT !.op = "next"]
      BY <2>4 DEF RemindersTypes
    <3>2. remindersTask' \in [Workers -> {R!Idle} \cup Runs]
      BY <2>2, <2>4 DEF RemindersTypes
    <3>3. \A v \in Workers \ {w} : remindersTask'[v] = remindersTask[v]
      BY <2>4 DEF RemindersTypes
    <3> QED BY <2>1, <2>4, <3>1, <3>2, <3>3
  <2> QED BY <1>5, <2>3, <2>4
<1>7. remindersTask'[w].op \in {"idle", "next"}
  BY <1>6 DEF R!Idle
<1>8. RemindersTypes'
  <2>1. remindersLog' \in [{e1} -> SUBSET R!Kinds] /\ pending' \in Nat
    BY <1>5 DEF RemindersTypes
  <2> QED BY <1>4, <1>6, <2>1 DEF RemindersTypes
<1>9. TakenOff'
  <2>1. InRun(w)' => remindersTask'[w].op = "next"
    BY <1>6 DEF InRun
  <2>2. \A v \in Workers \ {w} : InRun(v)' <=> InRun(v)
    BY <1>6 DEF InRun
  <2> QED BY <1>6, <2>1, <2>2 DEF TakenOff
<1>10. \A v \in Workers, l \in R!Kinds : Reminds(v, e1, l)' => Reminds(v, e1, l)
  <2>1. \A l \in R!Kinds : Reminds(w, e1, l)' => <<e1, l>> \in remindersTask[w].todo
    BY <1>6 DEF Reminds, InRun
  <2>2. \A v \in Workers \ {w}, l \in R!Kinds : Reminds(v, e1, l)' => Reminds(v, e1, l)
    BY <1>6 DEF Reminds, InRun
  <2> QED BY <1>1, <2>1, <2>2 DEF Reminds
<1>11. Reminds(w, e, k) /\ Mailed(w, e, k)
  BY <1>1, <1>3 DEF Reminds, Mailed
<1>12. ~ Reminds(w, e, k)'
  <2>1. <<e, k>> \notin remindersTask[w].todo
    BY <1>1, <1>3 DEF TakenOff
  <2> QED BY <1>6, <2>1 DEF Reminds, InRun
<1>13. ASSUME NEW l \in R!Kinds PROVE KindOnce(e1, l)'
  <2>1. CASE l # k
    <3>1. \A v \in Workers : Mailed(v, e1, l)' <=> Mailed(v, e1, l)
      BY <1>3, <1>6, <1>7, <2>1 DEF Mailed
    <3>2. l \in remindersLog'[e1] <=> l \in remindersLog[e1]
      BY <1>5, <2>1 DEF RemindersTypes
    <3>3. KindOnce(e1, l)
      OBVIOUS
    <3> QED BY <1>4, <1>10, <3>1, <3>2, <3>3 DEF KindOnce
  <2>2. CASE l = k
    <3> SUFFICES ASSUME k \notin excused[e1] PROVE KindOnce(e1, k)'
      BY <1>4, <2>2 DEF KindOnce
    <3>1. KindOnce(e1, k) /\ e = e1
      OBVIOUS
    <3>2. k \notin remindersLog[e1] /\ \A v \in Workers : Reminds(v, e1, k) => v = w
      BY <1>11, <3>1 DEF KindOnce
    <3>3. remindersSent[e1][k] = 1
      BY <1>11, <3>1, <3>2 DEF KindOnce
    <3>4. \A v \in Workers : ~ Reminds(v, e1, k)'
      BY <1>10, <1>12, <3>1, <3>2
    <3>5. k \in remindersLog'[e1]
      BY <1>5, <3>1, <3>2 DEF RemindersTypes
    <3>6. remindersSent'[e1][k] =< 1
      BY <1>4, <3>3
    <3> QED BY <3>4, <3>5, <3>6 DEF KindOnce
  <2> QED BY <2>1, <2>2
<1>14. Daily'
  <2>1. InRun(w)' => ToSend(w)' \subseteq ToSend(w)
    BY <1>6 DEF InRun, ToSend, Mailing
  <2>2. \A v \in Workers \ {w} : InRun(v)' => InRun(v) /\ ToSend(v)' \subseteq ToSend(v)
    BY <1>6 DEF InRun, ToSend, Mailing
  <2> QED BY <1>1, <1>4, <2>1, <2>2, DayStays
<1> QED BY <1>8, <1>9, <1>13, <1>14

\* The list has one reminder at most for an employee, and none that is written down.
LEMMA ListedOnce ==
    ASSUME RemindersInv
    PROVE  /\ R!List \subseteq Pairs
           /\ \A x \in R!List : x[2] \notin remindersLog[x[1]]
           /\ \A x, y \in R!List : x[1] = y[1] => x = y
<1>1. \A ks \in SUBSET R!Kinds : ks # {} => R!First(ks) \in ks
  BY DEF R!First, R!Kinds
<1>2. ASSUME NEW x \in R!List
      PROVE  \E e \in {e1} : R!Due(e) # {} /\ x = <<e, R!First(R!Due(e))>>
  BY <1>2 DEF R!List
<1>3. \A e \in {e1} : R!Due(e) \in SUBSET R!Kinds /\ R!Due(e) \cap remindersLog[e] = {}
  BY DEF R!Due
<1>4. ASSUME NEW x \in R!List
      PROVE  /\ x \in Pairs
             /\ x[2] \notin remindersLog[x[1]]
             /\ x = <<x[1], R!First(R!Due(x[1]))>>
  <2>1. PICK e \in {e1} : R!Due(e) # {} /\ x = <<e, R!First(R!Due(e))>>
    BY <1>2
  <2>2. R!First(R!Due(e)) \in R!Due(e) /\ R!First(R!Due(e)) \in R!Kinds
    BY <1>1, <1>3, <2>1
  <2>3. R!First(R!Due(e)) \notin remindersLog[e]
    BY <1>3, <2>2
  <2>4. x[1] = e /\ x[2] = R!First(R!Due(e))
    BY <2>1
  <2> QED BY <2>1, <2>2, <2>3, <2>4 DEF Pairs
<1> QED BY <1>4

\* A run starts: what another has in hand and it lists too is excused.
LEMMA RunStarts ==
    ASSUME RemindersInv, NEW w \in Workers, R!StartRun(w)
    PROVE  RemindersInv'
<1> USE DEF RemindersInv
<1>1. /\ ~ InRun(w) /\ pending > 0 /\ pending' = pending - 1 /\ runs' = runs + 1
      /\ remindersTask' = [remindersTask EXCEPT ![w] =
             [op |-> "next", todo |-> R!List, cur |-> <<>>, fresh |-> TRUE]]
      /\ day' = day /\ remindersEnabled' = remindersEnabled /\ over' = over /\ revoked' = revoked
      /\ remindersLog' = remindersLog /\ holds' = holds /\ remindersMishaps' = remindersMishaps
      /\ remindersSent' = remindersSent /\ today' = today
  BY DEF R!StartRun, R!State, InRun
<1>2. excused' = [e \in {e1} |-> excused[e] \cup {k \in R!Kinds : <<e, k>> \in R!List \cap R!InHand}]
  BY DEF R!StartRun
<1>3. R!List \in SUBSET Pairs
  BY ListedOnce
<1>4. [op |-> "next", todo |-> R!List, cur |-> <<>>, fresh |-> TRUE] \in Runs
  BY <1>3 DEF Runs
<1>5. /\ remindersTask' \in [Workers -> {R!Idle} \cup Runs]
      /\ remindersTask'[w] = [op |-> "next", todo |-> R!List, cur |-> <<>>, fresh |-> TRUE]
      /\ \A v \in Workers \ {w} : remindersTask'[v] = remindersTask[v]
  BY <1>1, <1>4 DEF RemindersTypes
<1>6. remindersTask'[w].op = "next" /\ remindersTask'[w].todo = R!List /\ InRun(w)'
  BY <1>5 DEF InRun, R!Idle
<1>7. excused' \in [{e1} -> SUBSET R!Kinds] /\ excused[e1] \subseteq excused'[e1]
  BY <1>2 DEF RemindersTypes
<1>8. pending' \in Nat /\ runs' \in Nat
  BY <1>1 DEF RemindersTypes
<1>9. RemindersTypes'
  BY <1>1, <1>5, <1>7, <1>8 DEF RemindersTypes
<1>10. TakenOff'
  BY <1>5, <1>6 DEF TakenOff, InRun
<1>11. remindersTask[w].op = "idle"
  BY <1>1 DEF InRun, R!Idle
<1>12. \A v \in Workers, k \in R!Kinds : Mailed(v, e1, k)' <=> Mailed(v, e1, k)
  BY <1>5, <1>6, <1>11 DEF Mailed
<1>13. \A v \in Workers \ {w}, k \in R!Kinds : Reminds(v, e1, k)' <=> Reminds(v, e1, k)
  BY <1>5 DEF Reminds, InRun
<1>14. \A k \in R!Kinds : Reminds(w, e1, k)' <=> <<e1, k>> \in R!List
  BY <1>6 DEF Reminds
<1>15. \A v \in Workers, k \in R!Kinds : Reminds(v, e1, k) => <<e1, k>> \in R!InHand
  BY DEF Reminds, InRun, R!InHand
<1>16. ASSUME NEW k \in R!Kinds PROVE KindOnce(e1, k)'
  <2>1. CASE <<e1, k>> \notin R!List
    <3>1. \A v \in Workers : Reminds(v, e1, k)' => Reminds(v, e1, k)
      BY <1>13, <1>14, <2>1
    <3> QED BY <1>1, <1>7, <1>12, <3>1, KindStays
  <2>2. CASE <<e1, k>> \in R!List /\ <<e1, k>> \in R!InHand
    <3>1. k \in excused'[e1]
      BY <1>2, <2>2
    <3> QED BY <3>1 DEF KindOnce
  <2>3. CASE <<e1, k>> \in R!List /\ <<e1, k>> \notin R!InHand
    <3> SUFFICES ASSUME k \notin excused[e1] PROVE KindOnce(e1, k)'
      BY <1>7 DEF KindOnce
    <3>1. KindOnce(e1, k)
      OBVIOUS
    <3>2. \A v \in Workers : ~ Reminds(v, e1, k)
      BY <1>15, <2>3
    <3>3. k \notin remindersLog[e1]
      <4>1. <<e1, k>>[2] \notin remindersLog[<<e1, k>>[1]]
        BY <2>3, ListedOnce
      <4> QED BY <4>1
    <3>4. ~ \E v \in Workers : Mailed(v, e1, k)
      BY <3>2 DEF Mailed, Reminds, InRun, R!Idle
    <3>5. remindersSent[e1][k] = 0
      BY <3>1, <3>3, <3>4 DEF KindOnce
    <3>6. \A u, v \in Workers : Reminds(u, e1, k)' /\ Reminds(v, e1, k)' => u = v
      BY <1>13, <3>2
    <3>7. ~ \E v \in Workers : Mailed(v, e1, k)'
      BY <1>12, <3>4
    <3> QED BY <1>1, <3>3, <3>5, <3>6, <3>7 DEF KindOnce
  <2> QED BY <2>1, <2>2, <2>3
<1>17. Daily'
  <2> SUFFICES ASSUME runs' =< 1 PROVE Daily'
    BY <1>8 DEF Daily
  <2>1. runs = 0 /\ runs' = 1
    BY <1>1 DEF RemindersTypes
  <2>2. (\A v \in Workers : ~ InRun(v)) /\ (\A e \in {e1} : today[e] = 0)
    BY <2>1 DEF Daily
  <2>3. \A v \in Workers \ {w} : ~ InRun(v)'
    BY <1>5, <2>2 DEF InRun
  <2>4. ToSend(w)' \subseteq R!List
    BY <1>6 DEF ToSend, Mailing
  <2>5. \A x, y \in R!List : today[x[1]] = 0 /\ (x[1] = y[1] => x = y)
    <3>1. \A x \in R!List : x[1] \in {e1}
      BY <1>3, PairParts
    <3> QED BY <2>2, <3>1, ListedOnce
  <2>6. \A e \in {e1} : today'[e] =< 1
    BY <1>1, <2>2
  <2> QED BY <1>1, <2>1, <2>3, <2>4, <2>5, <2>6 DEF Daily
<1> QED BY <1>9, <1>10, <1>16, <1>17

\* Every step of the campaign keeps it.
LEMMA RemindersStep ==
    ASSUME RemindersInv, R!Next \/ UNCHANGED remindersVars
    PROVE  RemindersInv'
<1>1. ASSUME NEW w \in Workers, R!Run(w) \/ R!Fail(w) PROVE RemindersInv'
  BY <1>1, RunStarts, LinkSaved, ReminderLeaves, ReminderWritten, RunEnds, RunFails DEF R!Run
<1>2. ASSUME NEW e \in {e1}, R!RenewLink(e) PROVE RemindersInv'
  BY <1>2, LinkRenewed
<1> QED BY <1>1, <1>2, CampaignGoesOn DEF R!Next

\* What the invariant says of the reminders is what the properties say.
LEMMA RemindersServe == RemindersInv => R!TypeOK /\ R!EachKindOnce /\ R!OnePerDay
<1> SUFFICES ASSUME RemindersInv PROVE R!TypeOK /\ R!EachKindOnce /\ R!OnePerDay
  OBVIOUS
<1> USE DEF RemindersInv
<1>1. R!TypeOK
  <2>1. \A w \in Workers : remindersTask[w] = R!Idle \/ remindersTask[w].todo \subseteq {e1} \X R!Kinds
    BY RunShape DEF InRun, Pairs
  <2>2. (over \cup revoked) \cup holds \subseteq {e1}
    BY DEF RemindersTypes
  <2>3. day \in 0..(4 + 1)
    BY DEF RemindersTypes
  <2> QED BY <2>1, <2>2, <2>3 DEF RemindersTypes, R!TypeOK
<1>2. R!EachKindOnce
  <2>1. ASSUME NEW e \in {e1}, NEW k \in R!Kinds, k \notin excused[e] PROVE remindersSent[e][k] =< 1
    <3>1. KindOnce(e, k)
      OBVIOUS
    <3> QED BY <2>1, <3>1 DEF KindOnce
  <2> QED BY <2>1 DEF R!EachKindOnce
<1>3. R!OnePerDay
  <2>1. ASSUME runs =< 1, NEW e \in {e1} PROVE today[e] =< 1
    <3>1. runs = 0 \/ runs = 1
      BY <2>1 DEF RemindersTypes
    <3> QED BY <3>1 DEF Daily
  <2> QED BY <2>1 DEF R!OnePerDay
<1> QED BY <1>1, <1>2, <1>3

-----------------------------------------------------------------------------
(* Put together.                                                            *)

\* Every behaviour of the system keeps what is said of alerts, bulletin and reminders.
THEOREM AlertsAndRemindersKept ==
    Spec => [](ChecksInv /\ RulesInv /\ BulletinInv /\ RemindersInv)
<1> DEFINE Inv == ChecksInv /\ RulesInv /\ BulletinInv /\ RemindersInv
<1>1. Init => Inv
  BY ChecksInit, RulesInit, BulletinInit, RemindersInit DEF Init
<1>2. Inv /\ [Next]_vars => Inv'
  <2> SUFFICES ASSUME Inv, [Next]_vars PROVE Inv'
    OBVIOUS
  <2>1. C!Next \/ UNCHANGED checksVars
    BY DEF Next, vars
  <2>2. A!Next \/ UNCHANGED rulesVars
    BY DEF Next, vars
  <2>3. B!Next \/ UNCHANGED bulletinVars
    BY DEF Next, vars
  <2>4. R!Next \/ UNCHANGED remindersVars
    BY DEF Next, vars
  <2> QED BY <2>1, <2>2, <2>3, <2>4, ChecksStep, RulesStep, BulletinStep, RemindersStep
<1> QED BY <1>1, <1>2, PTL DEF Spec

\* Every alert, threshold, bulletin and reminder leaves by e-mail once, but for the task that
\* died in between: _evaluate_down_alert and _evaluate_ssl_alert, send_weather_email,
\* envoyer_les_relances.
THEOREM MailsLeaveOnce == Spec => []MailsOnce
<1>1. ChecksInv /\ RulesInv /\ BulletinInv /\ RemindersInv => MailsOnce
  BY ChecksServe, BulletinServes, RemindersServe DEF MailsOnce, RulesInv
<1> QED BY <1>1, AlertsAndRemindersKept, PTL

\* "confirmer un DOWN par 3 echecs consecutifs avant d'alerter": the alert of a site opens on
\* three failures of three windows, unless two messages for it were alive at a time.
THEOREM DownIsConfirmed == Spec => C!DownIsConfirmed
<1> DEFINE Kept == ChecksInv /\ RulesInv /\ BulletinInv /\ RemindersInv
           Confirms == ~ open /\ open' =>
                         \E w \in Workers :
                            checksWork[w].op = "create" /\ checksWork'[w] # checksWork[w]
                            /\ (crowded \/ checksWork[w].apart)
<1>1. Kept /\ [Next]_vars => [Confirms]_(C!vars)
  <2> SUFFICES ASSUME Kept, [Next]_vars PROVE [Confirms]_(C!vars)
    OBVIOUS
  <2>1. C!Next \/ UNCHANGED checksVars
    BY DEF Next, vars
  <2> QED BY <2>1, DownConfirmed DEF C!vars, checksVars
<1> QED BY <1>1, AlertsAndRemindersKept, PTL DEF Spec, C!DownIsConfirmed

\* An alert of the headers or of the e-mail closes only when a check has seen nothing wrong, or
\* when the target of a check did not answer.
THEOREM ClosedBySight == Spec => A!ClosedBySight
<1> DEFINE Kept == ChecksInv /\ RulesInv /\ BulletinInv /\ RemindersInv
           Seen == /\ hdr.open /\ ~ hdr'.open => missing = {} \/ "headers" \in blind'
                   /\ eml.open /\ ~ eml'.open => issues = {} \/ "email" \in blind'
<1>1. Kept /\ [Next]_vars => [Seen]_(A!vars)
  <2> SUFFICES ASSUME Kept, [Next]_vars PROVE [Seen]_(A!vars)
    OBVIOUS
  <2>1. A!Next \/ UNCHANGED rulesVars
    BY DEF Next, vars
  <2> QED BY <2>1, ClosesBySight DEF A!vars, rulesVars
<1> QED BY <1>1, AlertsAndRemindersKept, PTL DEF Spec, A!ClosedBySight

=============================================================================
