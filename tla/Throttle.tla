------------------------------ MODULE Throttle ------------------------------
(***************************************************************************)
(* The Redis token bucket through which every worker calls the provider    *)
(* (apps.threat_intelligence.throttle): the licence allows a burst of      *)
(* Capacity requests and one more every second.                            *)
(*                                                                         *)
(* The script runs atomically in Redis, but the time it is given is read   *)
(* by the caller before the script is sent: ReadClock and Eval are two     *)
(* steps, and scripts of two workers may run in the other order.           *)
(*                                                                         *)
(* Time is relative.  age is the wall clock minus the stored timestamp,    *)
(* lag[w] the wall clock minus the time w has read.  The refill rate is    *)
(* one token per tick.  level is the provider's side of the same licence:  *)
(* it rises with each request and drains by one each tick.                 *)
(***************************************************************************)
EXTENDS Integers, FiniteSets, TLAPS

CONSTANTS
    Workers,    \* processes that call the provider
    Capacity,   \* CAPACITY, the burst
    Ttl,        \* EXPIRE of the bucket key, in ticks
    Timeout,    \* DEFAULT_ACQUIRE_TIMEOUT_SECONDS, in ticks
    MaxLag      \* bound: ticks between a read of the clock and its script

ASSUME CapacityAssumption == Capacity \in Nat \ {0} /\ Timeout \in Nat \ {0} /\ MaxLag \in Nat
\* A key that has lived for Ttl is a bucket that is full anyway, whether it has
\* expired or not (60 s against 5 tokens and the delay of a script).
ASSUME TtlAssumption == Ttl \in Nat /\ Capacity + MaxLag <= Ttl

VARIABLES
    tokens,   \* HMGET tokens
    age,      \* now - HMGET timestamp, up to Ttl
    pc,       \* pc[w]: "idle", or in acquire(): "read", "eval", "sleep"
    lag,      \* now - ARGV[3] of the script w is sending
    waited,   \* ticks since acquire() of w began, up to Timeout
    level,    \* requests the provider has counted and not yet forgotten
    inverted  \* history: a script ran with a clock older than the stored one

vars == <<tokens, age, pc, lag, waited, level, inverted>>

AtMost(x, bound) == IF x <= bound THEN x ELSE bound
AtLeast(x, bound) == IF x >= bound THEN x ELSE bound

\* Bound: levels above what the licence tolerates are not told apart.
MaxLevel == Capacity + MaxLag + 1

Init ==
    /\ tokens = Capacity
    /\ age = 0
    /\ pc = [w \in Workers |-> "idle"]
    /\ lag = [w \in Workers |-> 0]
    /\ waited = [w \in Workers |-> 0]
    /\ level = 0
    /\ inverted = FALSE

\* The tokens a script whose time lags by d finds: delta is never negative, and
\* a key that has expired is a full bucket.
Refilled(d) ==
    IF age >= Ttl THEN Capacity ELSE AtMost(tokens + AtLeast(age - d, 0), Capacity)

Acquire(w) ==
    /\ pc[w] = "idle"
    /\ pc' = [pc EXCEPT ![w] = "read"]
    /\ waited' = [waited EXCEPT ![w] = 0]
    /\ UNCHANGED <<tokens, age, lag, level, inverted>>

\* time.time(), the argument of the script.
ReadClock(w) ==
    /\ pc[w] = "read"
    /\ pc' = [pc EXCEPT ![w] = "eval"]
    /\ lag' = [lag EXCEPT ![w] = 0]
    /\ UNCHANGED <<tokens, age, waited, level, inverted>>

\* Mutant: a refused caller polls for ever.
EvalWithoutDeadline(w) ==
    /\ pc[w] = "eval"
    /\ LET found == Refilled(lag[w])
       IN IF found >= 1
          THEN /\ tokens' = found - 1
               /\ level' = AtMost(level + 1, MaxLevel)
               /\ pc' = [pc EXCEPT ![w] = "idle"]
          ELSE /\ tokens' = found
               /\ UNCHANGED level
               /\ pc' = [pc EXCEPT ![w] = "sleep"]
    /\ age' = lag[w]
    /\ lag' = [lag EXCEPT ![w] = 0]
    /\ inverted' = (inverted \/ lag[w] > age)
    /\ UNCHANGED waited

\* Mutant: the tokens are decremented without looking at what is left.
EvalUnchecked(w) ==
    /\ pc[w] = "eval"
    /\ tokens' = Refilled(lag[w]) - 1
    /\ level' = AtMost(level + 1, MaxLevel)
    /\ pc' = [pc EXCEPT ![w] = "idle"]
    /\ age' = lag[w]
    /\ lag' = [lag EXCEPT ![w] = 0]
    /\ inverted' = (inverted \/ lag[w] > age)
    /\ UNCHANGED waited

\* Mutant: the time of the refill is not stored with the tokens.
EvalKeepingTimestamp(w) ==
    /\ pc[w] = "eval"
    /\ LET found == Refilled(lag[w])
       IN IF found >= 1
          THEN /\ tokens' = found - 1
               /\ level' = AtMost(level + 1, MaxLevel)
               /\ pc' = [pc EXCEPT ![w] = "idle"]
          ELSE /\ tokens' = found
               /\ UNCHANGED level
               /\ pc' = [pc EXCEPT ![w] = IF waited[w] >= Timeout THEN "idle" ELSE "sleep"]
    /\ lag' = [lag EXCEPT ![w] = 0]
    /\ inverted' = (inverted \/ lag[w] > age)
    /\ UNCHANGED <<age, waited>>

\* Mutant: the last token is never given out.
EvalKeepingOne(w) ==
    /\ pc[w] = "eval"
    /\ LET found == Refilled(lag[w])
       IN IF found > 1
          THEN /\ tokens' = found - 1
               /\ level' = AtMost(level + 1, MaxLevel)
               /\ pc' = [pc EXCEPT ![w] = "idle"]
          ELSE /\ tokens' = found
               /\ UNCHANGED level
               /\ pc' = [pc EXCEPT ![w] = IF waited[w] >= Timeout THEN "idle" ELSE "sleep"]
    /\ age' = lag[w]
    /\ lag' = [lag EXCEPT ![w] = 0]
    /\ inverted' = (inverted \/ lag[w] > age)
    /\ UNCHANGED waited

\* The script, then acquire(): it returns with a token, raises
\* ThrottleTimeoutError after the deadline, or sleeps and tries again.
Eval(w) ==
    /\ pc[w] = "eval"
    /\ LET found == Refilled(lag[w])
       IN IF found >= 1
          THEN /\ tokens' = found - 1
               /\ level' = AtMost(level + 1, MaxLevel)
               /\ pc' = [pc EXCEPT ![w] = "idle"]
          ELSE /\ tokens' = found
               /\ UNCHANGED level
               /\ pc' = [pc EXCEPT ![w] = IF waited[w] >= Timeout THEN "idle" ELSE "sleep"]
    /\ age' = lag[w]
    /\ lag' = [lag EXCEPT ![w] = 0]
    /\ inverted' = (inverted \/ lag[w] > age)
    /\ UNCHANGED waited

\* One second passes, for the bucket, the callers and the provider; the poll
\* interval is shorter, so whoever slept tries again.
Tick ==
    /\ \A w \in Workers : pc[w] = "eval" => lag[w] < MaxLag
    /\ age' = AtMost(age + 1, Ttl)
    /\ level' = AtLeast(level - 1, 0)
    /\ lag' = [w \in Workers |-> IF pc[w] = "eval" THEN lag[w] + 1 ELSE 0]
    /\ waited' = [w \in Workers |-> IF pc[w] = "idle" THEN 0 ELSE AtMost(waited[w] + 1, Timeout)]
    /\ pc' = [w \in Workers |-> IF pc[w] = "sleep" THEN "read" ELSE pc[w]]
    /\ UNCHANGED <<tokens, inverted>>

Next == Tick \/ \E w \in Workers : Acquire(w) \/ ReadClock(w) \/ Eval(w)

Spec == Init /\ [][Next]_vars

\* Time passes, and a caller inside acquire() keeps polling.
FairSpec == Spec /\ WF_vars(Tick) /\ \A w \in Workers : WF_vars(ReadClock(w)) /\ WF_vars(Eval(w))

-----------------------------------------------------------------------------
\* The values the bucket and its callers take.
TypeOK ==
    /\ tokens \in 0..Capacity
    /\ age \in 0..Ttl
    /\ pc \in [Workers -> {"idle", "read", "eval", "sleep"}]
    /\ lag \in [Workers -> 0..MaxLag]
    /\ waited \in [Workers -> 0..Timeout]
    /\ level \in 0..MaxLevel
    /\ inverted \in BOOLEAN

\* RedisTokenBucketThrottle, "safe under concurrency": what the provider has
\* counted exceeds what the bucket has given out by no more than the delay of one
\* script, however many callers are delayed, through idle periods and the expiry
\* of the key, as long as the scripts run in the order their clocks were read.
\* Without delay no request is too many.
LicenceWithinLag == ~inverted => level <= Capacity - Refilled(0) + MaxLag

\* No capacity of the licence is wasted: a caller is refused only when the provider
\* would have refused it when it read its clock.
RefusedOnlyWhenSpent ==
    [][\A w \in Workers :
          pc[w] = "eval" /\ pc'[w] # "eval" /\ level' = level => level >= Capacity - lag[w]]_vars

\* acquire() ends, with a token or with ThrottleTimeoutError.
AcquireEnds == \A w \in Workers : pc[w] # "idle" ~> pc[w] = "idle"

-----------------------------------------------------------------------------
(* Proofs, for any number of workers, any capacity, any time-out and any   *)
(* expiry of the key that is not shorter than a refill.                    *)

\* The values the bucket and its callers take stay in their ranges.
THEOREM TypeCorrect == Spec => []TypeOK
<1> USE CapacityAssumption, TtlAssumption
<1>1. Init => TypeOK
  <2>1. Init => inverted \in BOOLEAN
    BY DEF Init
  <2>2. QED
    BY <2>1 DEF Init, TypeOK, MaxLevel
<1>2. TypeOK /\ [Next]_vars => TypeOK'
  <2> SUFFICES ASSUME TypeOK, [Next]_vars PROVE TypeOK'
    OBVIOUS
  <2>1. CASE Tick
    BY <2>1 DEF TypeOK, Tick, AtMost, AtLeast, MaxLevel
  <2>2. ASSUME NEW w \in Workers, Acquire(w) PROVE TypeOK'
    BY <2>2 DEF TypeOK, Acquire
  <2>3. ASSUME NEW w \in Workers, ReadClock(w) PROVE TypeOK'
    BY <2>3 DEF TypeOK, ReadClock
  <2>4. ASSUME NEW w \in Workers, Eval(w) PROVE TypeOK'
    <3>1. Refilled(lag[w]) \in 0..Capacity
      BY <2>4 DEF TypeOK, Refilled, AtMost, AtLeast
    <3>2. inverted' \in BOOLEAN
      BY <2>4 DEF Eval
    <3>3. QED
      BY <2>4, <3>1, <3>2 DEF TypeOK, Eval, AtMost, MaxLevel
  <2>5. CASE UNCHANGED vars
    BY <2>5 DEF TypeOK, vars
  <2>6. QED
    BY <2>1, <2>2, <2>3, <2>4, <2>5 DEF Next
<1>3. QED
  BY <1>1, <1>2, PTL DEF Spec

-----------------------------------------------------------------------------
\* What Eval(w) does to the bucket and to the provider's count.
LEMMA EvalEffect ==
    ASSUME TypeOK, NEW w \in Workers, Eval(w)
    PROVE  /\ lag[w] \in 0..MaxLag
           /\ Refilled(lag[w]) \in 0..Capacity
           /\ age' = lag[w]
           /\ inverted' = (inverted \/ lag[w] > age)
           /\ \/ /\ Refilled(lag[w]) >= 1
                 /\ tokens' = Refilled(lag[w]) - 1
                 /\ level' = AtMost(level + 1, MaxLevel)
              \/ /\ Refilled(lag[w]) < 1
                 /\ tokens' = Refilled(lag[w])
                 /\ level' = level
<1> USE CapacityAssumption, TtlAssumption
<1>1. lag[w] \in 0..MaxLag /\ Refilled(lag[w]) \in 0..Capacity
  BY DEF TypeOK, Refilled, AtMost, AtLeast
<1> QED BY <1>1 DEF Eval

\* The inductive form of LicenceWithinLag: the count of the provider against the
\* stored tokens and their age.  It falls with every tick as the age rises.
CountedWithinLag == ~inverted => level <= AtLeast(Capacity - tokens + MaxLag - age, 0)

\* The other half: whatever the bucket has not got back is still counted.  This
\* holds even when scripts are out of order, which only makes the bucket fuller.
SpentIsCounted == level >= Capacity - Refilled(0)

\* While the scripts run in the order their clocks were read, the provider never
\* counts more than the stored tokens and the longest delay account for.
LEMMA WithinLagInductive == Spec => []CountedWithinLag
<1> USE CapacityAssumption, TtlAssumption
<1>1. Init => CountedWithinLag
  BY DEF Init, CountedWithinLag, AtLeast
<1>2. TypeOK /\ CountedWithinLag /\ [Next]_vars => CountedWithinLag'
  <2> SUFFICES ASSUME TypeOK, CountedWithinLag, [Next]_vars PROVE CountedWithinLag'
    OBVIOUS
  <2>0. tokens \in 0..Capacity /\ age \in 0..Ttl /\ level \in 0..MaxLevel /\ MaxLevel \in Nat
    BY DEF TypeOK, MaxLevel
  <2>1. CASE Tick
    <3>1. /\ tokens' = tokens /\ age' = AtMost(age + 1, Ttl) /\ level' = AtLeast(level - 1, 0)
          /\ inverted' = inverted
      BY <2>1 DEF Tick
    <3> QED BY <2>0, <3>1 DEF CountedWithinLag, AtMost, AtLeast
  <2>2. ASSUME NEW w \in Workers, Acquire(w) PROVE CountedWithinLag'
    BY <2>2 DEF Acquire, CountedWithinLag
  <2>3. ASSUME NEW w \in Workers, ReadClock(w) PROVE CountedWithinLag'
    BY <2>3 DEF ReadClock, CountedWithinLag
  <2>4. ASSUME NEW w \in Workers, Eval(w) PROVE CountedWithinLag'
    <3> SUFFICES ASSUME ~inverted' PROVE level' <= AtLeast(Capacity - tokens' + MaxLag - age', 0)
      BY DEF CountedWithinLag
    <3> DEFINE d == lag[w]
               found == Refilled(d)
    <3>1. /\ d \in 0..MaxLag /\ found \in 0..Capacity /\ age' = d
          /\ \/ found >= 1 /\ tokens' = found - 1 /\ level' = AtMost(level + 1, MaxLevel)
             \/ found < 1 /\ tokens' = found /\ level' = level
      BY <2>4, EvalEffect
    <3>2. ~inverted /\ d <= age
      <4>1. ~inverted /\ ~(lag[w] > age)
        BY <2>4, EvalEffect, Zenon
      <4> QED BY <2>0, <3>1, <4>1
    <3>3. level <= AtLeast(Capacity - tokens + MaxLag - age, 0)
      BY <3>2 DEF CountedWithinLag
    <3>4. level <= Capacity - found + MaxLag - d
      BY <2>0, <3>1, <3>2, <3>3 DEF Refilled, AtMost, AtLeast
    <3> QED BY <2>0, <3>1, <3>4 DEF AtMost, AtLeast
  <2>5. CASE UNCHANGED vars
    BY <2>5 DEF vars, CountedWithinLag
  <2> QED BY <2>1, <2>2, <2>3, <2>4, <2>5 DEF Next
<1> QED BY <1>1, <1>2, TypeCorrect, PTL DEF Spec

\* RedisTokenBucketThrottle keeps the licence up to the delay of one script, for
\* any number of workers and any capacity, as long as no clock overtakes another.
\* With MaxLag = 0 it lets no request too many through.
THEOREM LicenceKept == Spec => []LicenceWithinLag
<1>1. TypeOK /\ CountedWithinLag => LicenceWithinLag
  <2> SUFFICES ASSUME TypeOK, CountedWithinLag, ~inverted
               PROVE  level <= Capacity - Refilled(0) + MaxLag
    BY DEF LicenceWithinLag
  <2>1. tokens \in 0..Capacity /\ age \in 0..Ttl /\ level \in Nat
    BY DEF TypeOK, MaxLevel
  <2>2. level <= AtLeast(Capacity - tokens + MaxLag - age, 0)
    BY DEF CountedWithinLag
  <2> QED BY <2>1, <2>2, CapacityAssumption, TtlAssumption DEF Refilled, AtMost, AtLeast
<1> QED BY <1>1, TypeCorrect, WithinLagInductive, PTL

\* The provider has counted at least what the bucket still misses.
LEMMA SpentInductive == Spec => []SpentIsCounted
<1> USE CapacityAssumption, TtlAssumption
<1>1. Init => SpentIsCounted
  BY DEF Init, SpentIsCounted, Refilled, AtMost, AtLeast
<1>2. TypeOK /\ SpentIsCounted /\ [Next]_vars => SpentIsCounted'
  <2> SUFFICES ASSUME TypeOK, SpentIsCounted, [Next]_vars PROVE SpentIsCounted'
    OBVIOUS
  <2>0. /\ tokens \in 0..Capacity /\ age \in 0..Ttl /\ level \in 0..MaxLevel
        /\ level >= Capacity - Refilled(0)
    BY DEF TypeOK, SpentIsCounted
  <2>1. CASE Tick
    <3>1. tokens' = tokens /\ age' = AtMost(age + 1, Ttl) /\ level' = AtLeast(level - 1, 0)
      BY <2>1 DEF Tick
    <3> QED BY <2>0, <3>1 DEF SpentIsCounted, Refilled, AtMost, AtLeast, MaxLevel
  <2>2. ASSUME NEW w \in Workers, Acquire(w) PROVE SpentIsCounted'
    BY <2>0, <2>2 DEF Acquire, SpentIsCounted, Refilled
  <2>3. ASSUME NEW w \in Workers, ReadClock(w) PROVE SpentIsCounted'
    BY <2>0, <2>3 DEF ReadClock, SpentIsCounted, Refilled
  <2>4. ASSUME NEW w \in Workers, Eval(w) PROVE SpentIsCounted'
    <3> DEFINE d == lag[w]
               found == Refilled(d)
    <3>1. /\ d \in 0..MaxLag /\ found \in 0..Capacity /\ age' = d
          /\ \/ found >= 1 /\ tokens' = found - 1 /\ level' = AtMost(level + 1, MaxLevel)
             \/ found < 1 /\ tokens' = found /\ level' = level
      BY <2>4, EvalEffect
    <3>2. Refilled(0)' = IF d >= Ttl THEN Capacity ELSE AtMost(tokens' + d, Capacity)
      BY <3>1 DEF Refilled, AtLeast
    <3>3. found + d >= Refilled(0) \/ found = Capacity
      BY <2>0, <3>1 DEF Refilled, AtMost, AtLeast
    <3>4. Refilled(0) \in 0..Capacity
      BY <2>0 DEF Refilled, AtMost, AtLeast
    <3> QED BY <2>0, <3>1, <3>2, <3>3, <3>4 DEF SpentIsCounted, AtMost, MaxLevel
  <2>5. CASE UNCHANGED vars
    BY <2>0, <2>5 DEF vars, SpentIsCounted, Refilled
  <2> QED BY <2>1, <2>2, <2>3, <2>4, <2>5 DEF Next
<1> QED BY <1>1, <1>2, TypeCorrect, PTL DEF Spec

\* A refusal of the throttle is a refusal the provider would have pronounced when
\* the caller read its clock, in whatever order the scripts run.
THEOREM NoNeedlessRefusal == Spec => RefusedOnlyWhenSpent
<1> USE CapacityAssumption, TtlAssumption
<1>1. TypeOK /\ SpentIsCounted /\ [Next]_vars =>
        [\A w \in Workers :
            pc[w] = "eval" /\ pc'[w] # "eval" /\ level' = level => level >= Capacity - lag[w]]_vars
  <2> SUFFICES ASSUME TypeOK, SpentIsCounted, Next, NEW w \in Workers,
                      pc[w] = "eval", pc'[w] # "eval", level' = level
               PROVE  level >= Capacity - lag[w]
    BY DEF vars
  <2>0. /\ tokens \in 0..Capacity /\ age \in 0..Ttl /\ level \in 0..MaxLevel
        /\ lag[w] \in 0..MaxLag /\ level >= Capacity - Refilled(0)
    BY DEF TypeOK, SpentIsCounted
  <2>1. Eval(w)
    BY DEF Next, Tick, Acquire, ReadClock, Eval, TypeOK
  <2>2. CASE Refilled(lag[w]) < 1
    BY <2>0, <2>2 DEF Refilled, AtMost, AtLeast
  <2>3. CASE Refilled(lag[w]) >= 1 /\ level' = AtMost(level + 1, MaxLevel)
    BY <2>0, <2>3 DEF AtMost, MaxLevel
  <2> QED BY <2>1, <2>2, <2>3, EvalEffect
<1> QED BY <1>1, TypeCorrect, SpentInductive, PTL DEF Spec, RefusedOnlyWhenSpent
=============================================================================
