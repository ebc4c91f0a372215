--------------------------- MODULE ScanJobsProofs ---------------------------
(* Theorems about ScanJobs, for every number of analyses, workers, assets,  *)
(* retries and messages delivered again.                                    *)
EXTENDS ScanJobs, FiniteSetTheorems, TLAPS

-----------------------------------------------------------------------------
(* Sums.  A sum of sizes is the size of a set of pairs.                    *)

\* The pairs of an index and an element of its part.
Pairs(I, U, part) == {x \in I \X U : x[2] \in part[x[1]]}

\* The pairs of every index but one.
Besides(I, U, part, i) == {x \in Pairs(I, U, part) : x[1] # i}

\* A part more or less: when one part changes, the sum changes by as much.
LEMMA OnePartChanges ==
    ASSUME NEW I, NEW U, NEW i \in I,
           NEW before \in [I -> SUBSET U], NEW after \in [I -> SUBSET U],
           \A j \in I : j # i => after[j] = before[j],
           IsFiniteSet(Pairs(I, U, before)), IsFiniteSet(before[i]), IsFiniteSet(after[i])
    PROVE  /\ IsFiniteSet(Pairs(I, U, after))
           /\ Cardinality(Pairs(I, U, before)) \in Nat /\ Cardinality(Pairs(I, U, after)) \in Nat
           /\ Cardinality(before[i]) \in Nat /\ Cardinality(after[i]) \in Nat
           /\ Cardinality(before[i]) <= Cardinality(Pairs(I, U, before))
           /\ Cardinality(Pairs(I, U, after)) + Cardinality(before[i])
                = Cardinality(Pairs(I, U, before)) + Cardinality(after[i])
<1>1. IsFiniteSet({i}) /\ Cardinality({i}) = 1
  BY FS_Singleton
<1>2. ASSUME NEW part \in [I -> SUBSET U]
      PROVE  /\ Pairs(I, U, part) = Besides(I, U, part, i) \cup ({i} \X part[i])
             /\ Besides(I, U, part, i) \cap ({i} \X part[i]) = {}
             /\ Besides(I, U, part, i) \subseteq Pairs(I, U, part)
             /\ {i} \X part[i] \subseteq Pairs(I, U, part)
  <2>1. part[i] \subseteq U
    BY <1>2
  <2> QED BY <2>1 DEF Pairs, Besides
<1>3. Besides(I, U, before, i) = Besides(I, U, after, i)
  BY DEF Besides, Pairs
<1>4. /\ IsFiniteSet(Besides(I, U, before, i)) /\ IsFiniteSet({i} \X before[i])
      /\ Cardinality({i} \X before[i]) <= Cardinality(Pairs(I, U, before))
  BY <1>2, FS_Subset
<1>5. ASSUME NEW S, IsFiniteSet(S)
      PROVE  /\ IsFiniteSet({i} \X S) /\ Cardinality({i} \X S) = Cardinality(S)
             /\ Cardinality(S) \in Nat
  <2>1. Cardinality({i} \X S) = Cardinality({i}) * Cardinality(S) /\ IsFiniteSet({i} \X S)
    BY <1>1, <1>5, FS_Product
  <2>2. Cardinality(S) \in Nat
    BY <1>5, FS_CardinalityType
  <2> QED BY <1>1, <2>1, <2>2
<1>6. ASSUME NEW part \in [I -> SUBSET U], IsFiniteSet(part[i]),
             IsFiniteSet(Besides(I, U, part, i))
      PROVE  /\ IsFiniteSet(Pairs(I, U, part))
             /\ Cardinality(Besides(I, U, part, i)) \in Nat
             /\ Cardinality(Pairs(I, U, part))
                  = Cardinality(Besides(I, U, part, i)) + Cardinality(part[i])
  <2> DEFINE B == Besides(I, U, part, i)
             P == {i} \X part[i]
  <2>1. IsFiniteSet(P) /\ Cardinality(P) = Cardinality(part[i]) /\ Cardinality(P) \in Nat
    BY <1>5, <1>6
  <2>2. Cardinality(B) \in Nat
    BY <1>6, FS_CardinalityType
  <2>3. /\ IsFiniteSet(B \cup P)
        /\ Cardinality(B \cup P) = Cardinality(B) + Cardinality(P) - Cardinality(B \cap P)
    BY <1>6, <2>1, FS_Union
  <2>4. B \cap P = {} /\ Pairs(I, U, part) = B \cup P
    BY <1>2
  <2>5. Cardinality(B \cap P) = 0
    BY <2>4, FS_EmptySet
  <2> QED BY <2>1, <2>2, <2>3, <2>4, <2>5
<1>7. /\ IsFiniteSet(Pairs(I, U, before))
      /\ Cardinality(Pairs(I, U, before))
           = Cardinality(Besides(I, U, before, i)) + Cardinality(before[i])
  BY <1>4, <1>6
<1>8. /\ IsFiniteSet(Pairs(I, U, after))
      /\ Cardinality(Besides(I, U, after, i)) \in Nat
      /\ Cardinality(Pairs(I, U, after))
           = Cardinality(Besides(I, U, after, i)) + Cardinality(after[i])
  BY <1>3, <1>4, <1>6
<1>9. Cardinality(before[i]) \in Nat /\ Cardinality(after[i]) \in Nat
  BY <1>5
<1> QED BY <1>3, <1>4, <1>7, <1>8, <1>9

\* The numbers from 1 to n are n.
LEMMA UpTo ==
    ASSUME NEW n \in Nat
    PROVE  IsFiniteSet(1..n) /\ Cardinality(1..n) = n
BY FS_Interval

-----------------------------------------------------------------------------
(* Types.                                                                  *)

Steps == {"mark", "begin", "scan", "cool", "conclude"}
Tasks == [pc : Steps \cup {"idle", "ack"}, scan : Scans, retries : Retries,
          left : 0..MaxAssets, ok : 0..MaxAssets, count : 0..MaxAssets]

\* What a worker holds fits its phase: only a task that has a job marks it, and
\* an asset is counted at most once.
TaskFits(t) ==
    /\ t.pc # "scan" => t.left = 0 /\ t.count = 0
    /\ t.ok + t.left <= MaxAssets /\ t.count + t.left <= MaxAssets
    /\ t.pc \in {"mark", "begin"} => t.ok = 0
    /\ t.pc = "mark" => HasJob(t.scan)

\* TypeOK without the bounds that rest on what is counted.
Types ==
    /\ job \in [Scans -> JobStates]
    /\ \A s \in Scans : ~ HasJob(s) => job[s] \in {"absent", "rowless"}
    /\ queue \in [Scans -> [Retries -> Nat]]
    /\ task \in [Workers -> Tasks]
    /\ \A w \in Workers : TaskFits(task[w])
    /\ usage \in Nat /\ recorded \in Nat /\ lost \in Nat
    /\ spent \in Nat /\ spent <= Budget
    /\ cooldown \in BOOLEAN
    /\ attempts \in [Scans -> Nat]
    /\ redelivered \in [Scans -> 0..MaxRedeliveries]
    /\ doubled \in SUBSET Scans

\* The task of a worker that is at rest.
LEMMA RestType == Rest \in Tasks /\ TaskFits(Rest) /\ Rest.pc = "idle"
<1>1. AnyScan \in Scans
  BY ScanAssumption DEF AnyScan
<1> QED BY <1>1, ScanAssumption DEF Rest, Idle, Tasks, TaskFits, Retries

\* Worker w holds v from now on, the others what they held.
Holds(w, v) == task' = [task EXCEPT ![w] = v] /\ v \in Tasks /\ TaskFits(v)

\* A message given out again is within the bound.
LEMMA RedeliveryBound ==
    ASSUME Types, MayRedeliver, NEW s \in Scans
    PROVE  redelivered[s] + 1 \in 0..MaxRedeliveries
<1> DEFINE Mine == {s} \X (1..redelivered[s])
<1>1. /\ redelivered[s] \in 0..MaxRedeliveries /\ MaxRedeliveries \in Nat
      /\ redelivered[s] \in Nat
  BY ScanAssumption DEF Types
<1>2. IsFiniteSet(1..MaxRedeliveries) /\ IsFiniteSet(Scans)
  BY FS_Interval, ScanAssumption
<1>3. IsFiniteSet(Scans \X (1..MaxRedeliveries))
  BY <1>2, FS_Product
<1>4. Redeliveries \subseteq Scans \X (1..MaxRedeliveries)
  BY DEF Redeliveries
<1>5. IsFiniteSet(Redeliveries)
  BY <1>3, <1>4, FS_Subset
<1>6. Mine \subseteq Redeliveries
  BY <1>1 DEF Redeliveries
<1>7. Cardinality(Mine) <= Cardinality(Redeliveries)
  BY <1>5, <1>6, FS_Subset
<1>8. IsFiniteSet({s}) /\ Cardinality({s}) = 1
  BY FS_Singleton
<1>9. IsFiniteSet(1..redelivered[s]) /\ Cardinality(1..redelivered[s]) = redelivered[s]
  BY <1>1, UpTo
<1>10. Cardinality(Mine) = Cardinality({s}) * Cardinality(1..redelivered[s])
  BY <1>8, <1>9, FS_Product
<1>11. Cardinality(Mine) = redelivered[s]
  BY <1>1, <1>8, <1>9, <1>10
<1>12. Cardinality(Redeliveries) \in Nat
  BY <1>5, FS_CardinalityType
<1> QED BY <1>1, <1>7, <1>11, <1>12 DEF MayRedeliver

\* What each step does to the task of its worker and to what it may change.
LEMMA Effects ==
    ASSUME Types, NEW w \in Workers
    PROVE  /\ \A s \in Scans, r \in Retries : Receive(w, s, r) =>
                 \E v \in Tasks :
                    /\ Holds(w, v) /\ v.scan = s /\ v.retries = r /\ v.count = 0
                    /\ v.pc \in {"mark", "begin", "ack"}
                    /\ HasJob(s) /\ job[s] \in Finished => v.pc = "ack"
           /\ MarkJobRunning(w) =>
                 \E v \in Tasks :
                    /\ Holds(w, v) /\ v.scan = task[w].scan /\ v.retries = task[w].retries
                    /\ v.pc = "begin" /\ v.count = task[w].count
           /\ \A n \in 0..MaxAssets : Begin(w, n) =>
                 \E v \in Tasks :
                    /\ Holds(w, v) /\ v.scan = task[w].scan /\ v.retries = task[w].retries
                    /\ v.pc = (IF n = 0 THEN "ack" ELSE "scan") /\ v.count = task[w].count
           /\ \A outcome \in Costs \cup {"refused"} : ScanAsset(w, outcome) =>
                 \E v \in Tasks :
                    /\ Holds(w, v) /\ v.scan = task[w].scan /\ v.retries = task[w].retries
                    /\ v.pc = "scan"
                    /\ v.count = task[w].count + (IF outcome \in {"ok", "ingest"} THEN 1 ELSE 0)
           /\ RecordUsage(w) =>
                 \E v \in Tasks :
                    /\ Holds(w, v) /\ v.scan = task[w].scan /\ v.retries = task[w].retries
                    /\ v.pc = "cool" /\ v.count = 0
           /\ MarkScanCooldown(w) =>
                 \E v \in Tasks :
                    /\ Holds(w, v) /\ v.scan = task[w].scan /\ v.retries = task[w].retries
                    /\ v.pc = "conclude" /\ v.count = task[w].count
           /\ Conclude(w) =>
                 \E v \in Tasks :
                    /\ Holds(w, v) /\ v.scan = task[w].scan /\ v.retries = task[w].retries
                    /\ v.pc = "ack" /\ v.count = task[w].count
           /\ Ack(w) \/ Crash(w) => Holds(w, Rest)
<1>0. /\ task[w] \in Tasks /\ TaskFits(task[w]) /\ task \in [Workers -> Tasks]
      /\ MaxAssets \in Nat
  BY ScanAssumption DEF Types
<1>1. ASSUME NEW s \in Scans, NEW r \in Retries, Receive(w, s, r)
      PROVE  \E v \in Tasks :
                /\ Holds(w, v) /\ v.scan = s /\ v.retries = r /\ v.count = 0
                /\ v.pc \in {"mark", "begin", "ack"}
                /\ HasJob(s) /\ job[s] \in Finished => v.pc = "ack"
  <2> DEFINE v == [Idle(s) EXCEPT !.pc = IF ~ HasJob(s) THEN "begin"
                                         ELSE IF job[s] \in Finished THEN "ack" ELSE "mark",
                                  !.retries = r]
  <2>0. /\ Idle(s) \in Tasks /\ Idle(s).scan = s /\ Idle(s).left = 0
        /\ Idle(s).ok = 0 /\ Idle(s).count = 0
    BY ScanAssumption DEF Idle, Tasks, Retries
  <2>1. /\ v \in Tasks /\ v.scan = s /\ v.retries = r /\ v.count = 0 /\ v.left = 0 /\ v.ok = 0
        /\ v.pc \in {"mark", "begin", "ack"} /\ (v.pc = "mark" => HasJob(s))
        /\ (HasJob(s) /\ job[s] \in Finished => v.pc = "ack")
    <3>1. CASE ~ HasJob(s)
      <4>1. v = [Idle(s) EXCEPT !.pc = "begin", !.retries = r]
        BY <3>1
      <4> HIDE DEF v
      <4> QED BY <2>0, <3>1, <4>1 DEF Tasks, Steps
    <3>2. CASE HasJob(s) /\ job[s] \in Finished
      <4>1. v = [Idle(s) EXCEPT !.pc = "ack", !.retries = r]
        BY <3>2
      <4> HIDE DEF v
      <4> QED BY <2>0, <3>2, <4>1 DEF Tasks, Steps
    <3>3. CASE HasJob(s) /\ job[s] \notin Finished
      <4>1. v = [Idle(s) EXCEPT !.pc = "mark", !.retries = r]
        BY <3>3
      <4> HIDE DEF v
      <4> QED BY <2>0, <3>3, <4>1 DEF Tasks, Steps
    <3> QED BY <3>1, <3>2, <3>3
  <2> HIDE DEF v
  <2>2. TaskFits(v)
    BY <1>0, <2>1 DEF TaskFits
  <2>3. task' = [task EXCEPT ![w] = v]
    BY <1>1 DEF Receive, v
  <2> QED BY <2>1, <2>2, <2>3 DEF Holds
<1>2. ASSUME MarkJobRunning(w)
      PROVE  \E v \in Tasks :
                /\ Holds(w, v) /\ v.scan = task[w].scan /\ v.retries = task[w].retries
                /\ v.pc = "begin" /\ v.count = task[w].count
  <2> DEFINE v == [task[w] EXCEPT !.pc = "begin"]
  <2>1. /\ v \in Tasks /\ v.pc = "begin" /\ v.scan = task[w].scan
        /\ v.retries = task[w].retries /\ v.left = task[w].left /\ v.ok = task[w].ok
        /\ v.count = task[w].count
    BY <1>0 DEF Tasks, Steps
  <2>2. task' = [task EXCEPT ![w] = v]
    BY <1>0, <1>2 DEF MarkJobRunning, Goto
  <2>3. TaskFits(v)
    BY <1>0, <1>2, <2>1 DEF MarkJobRunning, At, TaskFits
  <2> QED BY <2>1, <2>2, <2>3 DEF Holds
<1>3. ASSUME NEW n \in 0..MaxAssets, Begin(w, n)
      PROVE  \E v \in Tasks :
                /\ Holds(w, v) /\ v.scan = task[w].scan /\ v.retries = task[w].retries
                /\ v.pc = (IF n = 0 THEN "ack" ELSE "scan") /\ v.count = task[w].count
  <2> DEFINE v == [task[w] EXCEPT !.pc = IF n = 0 THEN "ack" ELSE "scan", !.left = n]
  <2>1. /\ v \in Tasks /\ v.pc = (IF n = 0 THEN "ack" ELSE "scan") /\ v.scan = task[w].scan
        /\ v.retries = task[w].retries /\ v.left = n /\ v.ok = task[w].ok
        /\ v.count = task[w].count
    BY <1>0 DEF Tasks, Steps
  <2>2. task' = [task EXCEPT ![w] = v]
    BY <1>0, <1>3 DEF Begin, Goto, At, TaskFits, Tasks
  <2>3. TaskFits(v)
    BY <1>0, <1>3, <2>1 DEF Begin, At, TaskFits, Tasks
  <2> QED BY <2>1, <2>2, <2>3 DEF Holds
<1>4. ASSUME NEW outcome \in Costs \cup {"refused"}, ScanAsset(w, outcome)
      PROVE  \E v \in Tasks :
                /\ Holds(w, v) /\ v.scan = task[w].scan /\ v.retries = task[w].retries
                /\ v.pc = "scan" /\ v.count = task[w].count + (IF outcome \in {"ok", "ingest"} THEN 1 ELSE 0)
  <2> DEFINE v == [task[w] EXCEPT !.left = @ - 1,
                             !.count = IF outcome \in {"ok", "ingest"} THEN @ + 1 ELSE @,
                             !.ok = IF outcome = "ok" THEN @ + 1 ELSE @]
  <2>1. /\ v \in Tasks /\ v.pc = "scan" /\ v.scan = task[w].scan
        /\ v.retries = task[w].retries /\ v.left = task[w].left - 1
        /\ v.ok = task[w].ok + (IF outcome = "ok" THEN 1 ELSE 0)
        /\ v.count = task[w].count + (IF outcome \in {"ok", "ingest"} THEN 1 ELSE 0)
    <3>0. task[w].left - 1 \in 0..MaxAssets /\ task[w].ok + 1 \in 0..MaxAssets
          /\ task[w].count + 1 \in 0..MaxAssets
          /\ task[w].ok \in 0..MaxAssets /\ task[w].count \in 0..MaxAssets
          /\ task[w].ok + 0 = task[w].ok /\ task[w].count + 0 = task[w].count
      BY <1>0, <1>4 DEF ScanAsset, At, TaskFits, Tasks
    <3>1. CASE outcome = "ok"
      <4>1. v = [task[w] EXCEPT !.left = @ - 1, !.count = @ + 1, !.ok = @ + 1]
        BY <3>1
      <4> HIDE DEF v
      <4> QED BY <1>0, <1>4, <3>0, <3>1, <4>1 DEF ScanAsset, At, Tasks, Steps
    <3>2. CASE outcome = "ingest"
      <4>1. v = [task[w] EXCEPT !.left = @ - 1, !.count = @ + 1, !.ok = @]
        BY <3>2
      <4> HIDE DEF v
      <4> QED BY <1>0, <1>4, <3>0, <3>2, <4>1 DEF ScanAsset, At, Tasks, Steps
    <3>3. CASE outcome \notin {"ok", "ingest"}
      <4>1. v = [task[w] EXCEPT !.left = @ - 1, !.count = @, !.ok = @]
        BY <3>3
      <4> HIDE DEF v
      <4> QED BY <1>0, <1>4, <3>0, <3>3, <4>1 DEF ScanAsset, At, Tasks, Steps
    <3> QED BY <3>1, <3>2, <3>3
  <2>2. task' = [task EXCEPT ![w] = v]
    BY <1>0, <1>4 DEF ScanAsset, At, TaskFits, Goto
  <2>3. TaskFits(v)
    BY <1>0, <1>4, <2>1 DEF ScanAsset, At, TaskFits, At, TaskFits, Tasks
  <2> QED BY <2>1, <2>2, <2>3 DEF Holds
<1>5. ASSUME RecordUsage(w)
      PROVE  \E v \in Tasks :
                /\ Holds(w, v) /\ v.scan = task[w].scan /\ v.retries = task[w].retries
                /\ v.pc = "cool" /\ v.count = 0
  <2> DEFINE v == [task[w] EXCEPT !.pc = "cool", !.count = 0]
  <2>1. /\ v \in Tasks /\ v.pc = "cool" /\ v.scan = task[w].scan
        /\ v.retries = task[w].retries /\ v.left = task[w].left
        /\ v.ok = task[w].ok
        /\ v.count = 0
    BY <1>0, <1>5 DEF RecordUsage, Tasks, Steps
  <2>2. task' = [task EXCEPT ![w] = v]
    BY <1>0, <1>5 DEF RecordUsage, Goto
  <2>3. TaskFits(v)
    BY <1>0, <1>5, <2>1 DEF RecordUsage, At, TaskFits, Tasks
  <2> QED BY <2>1, <2>2, <2>3 DEF Holds
<1>6. ASSUME MarkScanCooldown(w)
      PROVE  \E v \in Tasks :
                /\ Holds(w, v) /\ v.scan = task[w].scan /\ v.retries = task[w].retries
                /\ v.pc = "conclude" /\ v.count = task[w].count
  <2> DEFINE v == [task[w] EXCEPT !.pc = "conclude"]
  <2>1. /\ v \in Tasks /\ v.pc = "conclude" /\ v.scan = task[w].scan
        /\ v.retries = task[w].retries /\ v.left = task[w].left
        /\ v.ok = task[w].ok
        /\ v.count = task[w].count
    BY <1>0, <1>6 DEF MarkScanCooldown, Tasks, Steps
  <2>2. task' = [task EXCEPT ![w] = v]
    BY <1>0, <1>6 DEF MarkScanCooldown, Goto
  <2>3. TaskFits(v)
    BY <1>0, <1>6, <2>1 DEF MarkScanCooldown, At, TaskFits, Tasks
  <2> QED BY <2>1, <2>2, <2>3 DEF Holds
<1>7. ASSUME Conclude(w)
      PROVE  \E v \in Tasks :
                /\ Holds(w, v) /\ v.scan = task[w].scan /\ v.retries = task[w].retries
                /\ v.pc = "ack" /\ v.count = task[w].count
  <2> DEFINE v == [task[w] EXCEPT !.pc = "ack"]
  <2>1. /\ v \in Tasks /\ v.pc = "ack" /\ v.scan = task[w].scan
        /\ v.retries = task[w].retries /\ v.left = task[w].left
        /\ v.ok = task[w].ok
        /\ v.count = task[w].count
    BY <1>0, <1>7 DEF Conclude, Tasks, Steps
  <2>2. task' = [task EXCEPT ![w] = v]
    BY <1>0, <1>7 DEF Conclude, Goto
  <2>3. TaskFits(v)
    BY <1>0, <1>7, <2>1 DEF Conclude, At, TaskFits, Tasks
  <2> QED BY <2>1, <2>2, <2>3 DEF Holds
<1>8. Ack(w) \/ Crash(w) => Holds(w, Rest)
  BY RestType DEF Ack, Crash, Holds
<1> QED BY <1>1, <1>2, <1>3, <1>4, <1>5, <1>6, <1>7, <1>8

\* The task of a worker is replaced by one that fits.
LEMMA TaskReplaced ==
    ASSUME Types, NEW w \in Workers, NEW v, Holds(w, v)
    PROVE  task' \in [Workers -> Tasks] /\ \A u \in Workers : TaskFits(task'[u])
BY DEF Types, Holds

\* Every step keeps the types: a queue never gives out more than it holds, a
\* request is counted within the licence, and only a task with a job writes one.
LEMMA TypesKept ==
    ASSUME Types, Next
    PROVE  Types'
<1>0. /\ job \in [Scans -> JobStates] /\ queue \in [Scans -> [Retries -> Nat]]
      /\ task \in [Workers -> Tasks] /\ \A w \in Workers : TaskFits(task[w])
      /\ \A s \in Scans : ~ HasJob(s) => job[s] \in {"absent", "rowless"}
      /\ 0 \in Retries /\ MaxRetries \in Nat /\ MaxAssets \in Nat /\ Budget \in Nat
  BY ScanAssumption DEF Types, Retries
<1>a. ASSUME NEW w \in Workers
      PROVE  /\ task[w].scan \in Scans /\ task[w].retries \in Retries
             /\ task[w].count \in Nat /\ task[w].retries \in Nat
  BY <1>0 DEF Tasks, Retries
<1>b. ASSUME NEW s \in Scans, NEW r \in Retries, Publish(s, r)
      PROVE  queue' \in [Scans -> [Retries -> Nat]]
  <2>1. [queue[s] EXCEPT ![r] = queue[s][r] + 1] \in [Retries -> Nat]
    BY <1>0
  <2> QED BY <1>0, <1>b, <2>1 DEF Publish
<1>c. ASSUME NEW s \in Scans, NEW status \in Finished, SetJob(s, status)
      PROVE  /\ job' \in [Scans -> JobStates]
             /\ \A x \in Scans : ~ HasJob(x) => job'[x] \in {"absent", "rowless"}
  BY <1>0, <1>c DEF SetJob, JobStates
<1>1. ASSUME NEW s \in Scans, Trigger(s) PROVE Types'
  <2>1. queue' \in [Scans -> [Retries -> Nat]]
    BY <1>0, <1>1, <1>b DEF Trigger
  <2>2. /\ job' \in [Scans -> JobStates]
        /\ \A x \in Scans : ~ HasJob(x) => job'[x] \in {"absent", "rowless"}
    BY <1>0, <1>1 DEF Trigger, JobStates
  <2> QED BY <1>1, <2>1, <2>2 DEF Trigger, Types, History
<1>2. ASSUME NEW s \in Scans, TriggerInitial(s) PROVE Types'
  <2>1. queue' \in [Scans -> [Retries -> Nat]]
    BY <1>0, <1>2, <1>b DEF TriggerInitial
  <2>2. /\ job' \in [Scans -> JobStates]
        /\ \A x \in Scans : ~ HasJob(x) => job'[x] \in {"absent", "rowless"}
    BY <1>0, <1>2 DEF TriggerInitial, JobStates
  <2> QED BY <1>2, <2>1, <2>2 DEF TriggerInitial, Types, History
<1>3. ASSUME NEW w \in Workers, NEW s \in Scans, NEW r \in Retries, Receive(w, s, r)
      PROVE  Types'
  <2>1. [queue[s] EXCEPT ![r] = queue[s][r] - 1] \in [Retries -> Nat]
    BY <1>0, <1>3 DEF Receive
  <2>2. queue' \in [Scans -> [Retries -> Nat]]
    BY <1>0, <1>3, <2>1 DEF Receive
  <2>3. task' \in [Workers -> Tasks] /\ \A u \in Workers : TaskFits(task'[u])
    BY <1>3, Effects, TaskReplaced
  <2> QED BY <1>3, <2>2, <2>3 DEF Receive, Types, History
<1>4. ASSUME NEW w \in Workers, MarkJobRunning(w) PROVE Types'
  <2>1. task' \in [Workers -> Tasks] /\ \A u \in Workers : TaskFits(task'[u])
    BY <1>4, Effects, TaskReplaced
  <2>2. HasJob(task[w].scan)
    BY <1>0, <1>4 DEF MarkJobRunning, At, TaskFits
  <2>3. /\ job' \in [Scans -> JobStates]
        /\ \A x \in Scans : ~ HasJob(x) => job'[x] \in {"absent", "rowless"}
    BY <1>0, <1>a, <1>4, <2>2 DEF MarkJobRunning, JobStates
  <2> QED BY <1>4, <2>1, <2>3 DEF MarkJobRunning, Types, History
<1>5. ASSUME NEW w \in Workers, NEW n \in 0..MaxAssets, Begin(w, n) PROVE Types'
  <2>1. task' \in [Workers -> Tasks] /\ \A u \in Workers : TaskFits(task'[u])
    BY <1>5, Effects, TaskReplaced
  <2>2. /\ job' \in [Scans -> JobStates]
        /\ \A x \in Scans : ~ HasJob(x) => job'[x] \in {"absent", "rowless"}
    BY <1>0, <1>a, <1>c, <1>5 DEF Begin, Finished
  <2>3. attempts' \in [Scans -> Nat]
    BY <1>a, <1>5 DEF Begin, Types
  <2> QED BY <1>5, <2>1, <2>2, <2>3 DEF Begin, Types, History
<1>6. ASSUME NEW w \in Workers, NEW outcome \in Costs \cup {"refused"}, ScanAsset(w, outcome)
      PROVE  Types'
  <2>1. task' \in [Workers -> Tasks] /\ \A u \in Workers : TaskFits(task'[u])
    BY <1>6, Effects, TaskReplaced
  <2>2. spent' \in Nat /\ spent' <= Budget /\ lost' \in Nat
    BY <1>0, <1>6 DEF ScanAsset, Types
  <2> QED BY <1>6, <2>1, <2>2 DEF ScanAsset, Types, History
<1>7. ASSUME NEW w \in Workers, RecordUsage(w) PROVE Types'
  <2>1. task' \in [Workers -> Tasks] /\ \A u \in Workers : TaskFits(task'[u])
    BY <1>7, Effects, TaskReplaced
  <2>2. usage' \in Nat /\ recorded' \in Nat
    BY <1>a, <1>7 DEF RecordUsage, Types
  <2> QED BY <1>7, <2>1, <2>2 DEF RecordUsage, Types, History
<1>8. ASSUME NEW w \in Workers, MarkScanCooldown(w) PROVE Types'
  <2>1. task' \in [Workers -> Tasks] /\ \A u \in Workers : TaskFits(task'[u])
    BY <1>8, Effects, TaskReplaced
  <2>2. cooldown' \in BOOLEAN
    BY <1>8 DEF MarkScanCooldown, Types
  <2> QED BY <1>8, <2>1, <2>2 DEF MarkScanCooldown, Types, History
<1>9. ASSUME NEW w \in Workers, Conclude(w) PROVE Types'
  <2>1. task' \in [Workers -> Tasks] /\ \A u \in Workers : TaskFits(task'[u])
    BY <1>9, Effects, TaskReplaced
  <2>2. /\ job' \in [Scans -> JobStates]
        /\ \A x \in Scans : ~ HasJob(x) => job'[x] \in {"absent", "rowless"}
    BY <1>0, <1>a, <1>c, <1>9 DEF Conclude, Finished
  <2>3. task[w].retries < MaxRetries => task[w].retries + 1 \in Retries
    BY <1>0, <1>a DEF Retries
  <2>4. queue' \in [Scans -> [Retries -> Nat]]
    BY <1>0, <1>a, <1>b, <1>9, <2>3 DEF Conclude
  <2> QED BY <1>9, <2>1, <2>2, <2>4 DEF Conclude, Types, History
<1>10. ASSUME NEW w \in Workers, Ack(w) PROVE Types'
  <2>1. task' \in [Workers -> Tasks] /\ \A u \in Workers : TaskFits(task'[u])
    BY <1>10, Effects, TaskReplaced
  <2> QED BY <1>10, <2>1 DEF Ack, Types, History
<1>11. ASSUME NEW w \in Workers, Crash(w) PROVE Types'
  <2>1. task' \in [Workers -> Tasks] /\ \A u \in Workers : TaskFits(task'[u])
    BY <1>11, Effects, TaskReplaced
  <2>2. redelivered' \in [Scans -> 0..MaxRedeliveries]
    BY <1>a, <1>11, RedeliveryBound DEF Crash, Types
  <2>3. queue' \in [Scans -> [Retries -> Nat]] /\ lost' \in Nat /\ doubled' \in SUBSET Scans
    BY <1>a, <1>b, <1>11 DEF Crash, Types
  <2> QED BY <1>11, <2>1, <2>2, <2>3 DEF Crash, Types
<1>12. ASSUME NEW w \in Workers, VisibilityTimeout(w) PROVE Types'
  <2>1. redelivered' \in [Scans -> 0..MaxRedeliveries]
    BY <1>a, <1>12, RedeliveryBound DEF VisibilityTimeout, Types
  <2>2. queue' \in [Scans -> [Retries -> Nat]] /\ doubled' \in SUBSET Scans
    BY <1>a, <1>b, <1>12 DEF VisibilityTimeout, Types
  <2> QED BY <1>12, <2>1, <2>2 DEF VisibilityTimeout, Types
<1>13. ASSUME CooldownEnds PROVE Types'
  BY <1>13 DEF CooldownEnds, Types, History
<1> QED BY <1>1, <1>2, <1>3, <1>4, <1>5, <1>6, <1>7, <1>8, <1>9, <1>10, <1>11, <1>12, <1>13
        DEF Next, Step

-----------------------------------------------------------------------------
(* The requests.                                                           *)

\* When the task of one worker changes, what is not recorded yet changes by the
\* difference of its counts.
LEMMA UnrecordedMoves ==
    ASSUME Types, NEW w \in Workers, NEW v, Holds(w, v)
    PROVE  /\ Cardinality(Unrecorded) \in Nat /\ Cardinality(Unrecorded') \in Nat
           /\ Cardinality(Unrecorded') + task[w].count = Cardinality(Unrecorded) + v.count
<1> DEFINE U == 1..MaxAssets
           before == [u \in Workers |-> 1..task[u].count]
           after == [u \in Workers |-> 1..task'[u].count]
<1>0. /\ MaxAssets \in Nat /\ IsFiniteSet(Workers) /\ task'[w] = v
      /\ \A u \in Workers : task[u].count \in 0..MaxAssets /\ task'[u].count \in 0..MaxAssets
      /\ \A u \in Workers : u # w => task'[u] = task[u]
  BY ScanAssumption, TaskReplaced DEF Types, Tasks, Holds
<1>1. before \in [Workers -> SUBSET U] /\ after \in [Workers -> SUBSET U]
  BY <1>0
<1>2. Unrecorded = Pairs(Workers, U, before) /\ Unrecorded' = Pairs(Workers, U, after)
  BY <1>0 DEF Unrecorded, Pairs
<1>3. IsFiniteSet(Pairs(Workers, U, before))
  <2>1. IsFiniteSet(U)
    BY <1>0, FS_Interval
  <2>2. IsFiniteSet(Workers \X U)
    BY <1>0, <2>1, FS_Product
  <2>3. Pairs(Workers, U, before) \subseteq Workers \X U
    BY DEF Pairs
  <2> QED BY <2>2, <2>3, FS_Subset
<1>4. /\ IsFiniteSet(before[w]) /\ Cardinality(before[w]) = task[w].count
      /\ IsFiniteSet(after[w]) /\ Cardinality(after[w]) = v.count
  <2>1. task[w].count \in Nat /\ v.count \in Nat
    BY <1>0
  <2> QED BY <1>0, <2>1, UpTo
<1>5. \A u \in Workers : u # w => after[u] = before[u]
  BY <1>0
<1> HIDE DEF before, after, U
<1> QED BY <1>1, <1>2, <1>3, <1>4, <1>5, OnePartChanges

\* execute_scan accounts for every request, for any number of assets and of
\* workers: what a step adds on one side it adds on the other.
LEMMA RequestsStep ==
    ASSUME Types, RequestsAccounted, Next
    PROVE  RequestsAccounted'
<1> DEFINE Open == Cardinality(Unrecorded)
<1>0. /\ spent \in Nat /\ recorded \in Nat /\ lost \in Nat
      /\ \A w \in Workers : task[w].count \in Nat
      /\ spent = recorded + lost + Open
  BY DEF Types, Tasks, RequestsAccounted
<1>1. ASSUME UNCHANGED <<spent, recorded, lost, task>> PROVE RequestsAccounted'
  BY <1>1 DEF RequestsAccounted, Unrecorded
<1>2. ASSUME UNCHANGED <<spent, recorded, lost>>, NEW w \in Workers, NEW v, Holds(w, v),
             v.count = task[w].count
      PROVE  RequestsAccounted'
  BY <1>0, <1>2, UnrecordedMoves DEF RequestsAccounted
<1>3. ASSUME NEW s \in Scans, Trigger(s) \/ TriggerInitial(s) PROVE RequestsAccounted'
  BY <1>1, <1>3 DEF Trigger, TriggerInitial, History
<1>4. ASSUME NEW w \in Workers, NEW s \in Scans, NEW r \in Retries, Receive(w, s, r)
      PROVE  RequestsAccounted'
  <2>1. task[w].count = 0
    BY <1>4 DEF Types, TaskFits, Receive, At
  <2> QED BY <1>2, <1>4, <2>1, Effects DEF Receive, History
<1>5. ASSUME NEW w \in Workers, MarkJobRunning(w) PROVE RequestsAccounted'
  BY <1>2, <1>5, Effects DEF MarkJobRunning, History
<1>6. ASSUME NEW w \in Workers, NEW n \in 0..MaxAssets, Begin(w, n) PROVE RequestsAccounted'
  BY <1>2, <1>6, Effects DEF Begin
<1>7. ASSUME NEW w \in Workers, NEW outcome \in Costs \cup {"refused"}, ScanAsset(w, outcome)
      PROVE  RequestsAccounted'
  <2>1. PICK v \in Tasks :
          /\ Holds(w, v)
          /\ v.count = task[w].count + (IF outcome \in {"ok", "ingest"} THEN 1 ELSE 0)
    BY <1>7, Effects
  <2>2. Open \in Nat /\ Open' \in Nat /\ Open' + task[w].count = Open + v.count
    BY <2>1, UnrecordedMoves
  <2>3. /\ spent' = spent + (IF outcome \in Costs THEN 1 ELSE 0)
        /\ lost' = lost + (IF outcome = "midway" THEN 1 ELSE 0)
        /\ recorded' = recorded
    BY <1>0, <1>7 DEF ScanAsset
  <2>4. spent' = recorded' + lost' + Open'
    BY <1>0, <1>7, <2>1, <2>2, <2>3 DEF Costs
  <2> QED BY <2>4 DEF RequestsAccounted
<1>8. ASSUME NEW w \in Workers, RecordUsage(w) PROVE RequestsAccounted'
  <2>1. PICK v \in Tasks : Holds(w, v) /\ v.count = 0
    BY <1>8, Effects
  <2>2. Open \in Nat /\ Open' \in Nat /\ Open' + task[w].count = Open + v.count
    BY <2>1, UnrecordedMoves
  <2>3. spent' = spent /\ lost' = lost /\ recorded' = recorded + task[w].count
    BY <1>0, <1>8 DEF RecordUsage, History
  <2>4. spent' = recorded' + lost' + Open'
    BY <1>0, <2>1, <2>2, <2>3
  <2> QED BY <2>4 DEF RequestsAccounted
<1>9. ASSUME NEW w \in Workers, MarkScanCooldown(w) PROVE RequestsAccounted'
  BY <1>2, <1>9, Effects DEF MarkScanCooldown, History
<1>10. ASSUME NEW w \in Workers, Conclude(w) PROVE RequestsAccounted'
  BY <1>2, <1>10, Effects DEF Conclude, History
<1>11. ASSUME NEW w \in Workers, Ack(w) PROVE RequestsAccounted'
  <2>1. task[w].count = 0 /\ Rest.count = 0
    BY <1>11 DEF Types, TaskFits, Ack, At, Rest, Idle
  <2>2. Holds(w, Rest) /\ Rest.count = task[w].count
    BY <1>11, <2>1, Effects
  <2>3. UNCHANGED <<spent, recorded, lost>>
    BY <1>11 DEF Ack, History
  <2> QED BY <1>2, <2>2, <2>3
<1>12. ASSUME NEW w \in Workers, Crash(w) PROVE RequestsAccounted'
  <2>1. Open \in Nat /\ Open' \in Nat /\ Open' + task[w].count = Open + Rest.count
    BY <1>12, Effects, UnrecordedMoves
  <2>2. Rest.count = 0
    BY DEF Rest, Idle
  <2>3. spent' = spent /\ recorded' = recorded /\ lost' = lost + task[w].count
    BY <1>12 DEF Crash
  <2>4. spent' = recorded' + lost' + Open'
    BY <1>0, <2>1, <2>2, <2>3
  <2> QED BY <2>4 DEF RequestsAccounted
<1>13. ASSUME NEW w \in Workers, VisibilityTimeout(w) PROVE RequestsAccounted'
  BY <1>1, <1>13 DEF VisibilityTimeout
<1>14. ASSUME CooldownEnds PROVE RequestsAccounted'
  BY <1>1, <1>14 DEF CooldownEnds, History
<1> QED BY <1>3, <1>4, <1>5, <1>6, <1>7, <1>8, <1>9, <1>10, <1>11, <1>12, <1>13, <1>14
        DEF Next, Step

-----------------------------------------------------------------------------
(* The messages of an analysis and the attempts they still allow.          *)

\* One pair per message that waits, one per attempt it allows.
Copies(q) == Pairs(Retries, Nat, [r \in Retries |-> 1..q[r]])
Tries(q) == Pairs(Retries, Nat \X Retries, [r \in Retries |-> (1..q[r]) \X (r..MaxRetries)])

\* A task that may still change its job; one that has concluded may not.
Active(t, s) == t.scan = s /\ t.pc \in Steps

\* The attempts a task may still make, itself or through its retries.
TriesLeft(t, s) ==
    IF t.scan # s THEN {}
    ELSE IF t.pc \in {"mark", "begin"} THEN t.retries..MaxRetries
    ELSE IF t.pc \in {"scan", "cool", "conclude"} THEN (t.retries + 1)..MaxRetries
    ELSE {}

ActiveOn(held, s) == Pairs(Workers, {0}, [w \in Workers |-> IF Active(held[w], s) THEN {0} ELSE {}])
TriesOf(held, s) == Pairs(Workers, Retries, [w \in Workers |-> TriesLeft(held[w], s)])

\* How many messages of s may still change its job, and how many attempts they
\* may still make.
Live(s) == Cardinality(Copies(queue[s])) + Cardinality(ActiveOn(task, s))
Potential(s) == attempts[s] + Cardinality(Tries(queue[s])) + Cardinality(TriesOf(task, s))

\* Attempts of one message, its retries included.
PerMessage == MaxRetries + 1

\* How many attempts a message with r retries behind it allows.
LEMMA TriesFrom ==
    ASSUME NEW r \in Nat, r <= MaxRetries + 1
    PROVE  /\ IsFiniteSet(r..MaxRetries) /\ Cardinality(r..MaxRetries) = PerMessage - r
<1>1. MaxRetries \in Nat
  BY ScanAssumption
<1>2. IsFiniteSet(r..MaxRetries)
  BY <1>1, FS_Interval
<1>3. Cardinality(r..MaxRetries) = IF r > MaxRetries THEN 0 ELSE MaxRetries - r + 1
  BY <1>1, FS_Interval
<1> QED BY <1>1, <1>2, <1>3 DEF PerMessage

\* Messages added to or taken from the queue of an analysis.
LEMMA QueueMoves ==
    ASSUME NEW q \in [Retries -> Nat], NEW r \in Retries, NEW n \in Nat,
           IsFiniteSet(Copies(q)), IsFiniteSet(Tries(q))
    PROVE  LET p == [q EXCEPT ![r] = n] IN
           /\ IsFiniteSet(Copies(p)) /\ IsFiniteSet(Tries(p))
           /\ Cardinality(Copies(q)) \in Nat /\ Cardinality(Copies(p)) \in Nat
           /\ Cardinality(Tries(q)) \in Nat /\ Cardinality(Tries(p)) \in Nat
           /\ q[r] <= Cardinality(Copies(q))
           /\ Cardinality(Copies(p)) + q[r] = Cardinality(Copies(q)) + n
           /\ Cardinality(Tries(p)) + q[r] * (PerMessage - r)
                = Cardinality(Tries(q)) + n * (PerMessage - r)
<1> DEFINE p == [q EXCEPT ![r] = n]
           c == [x \in Retries |-> 1..q[x]]
           d == [x \in Retries |-> 1..p[x]]
           e == [x \in Retries |-> (1..q[x]) \X (x..MaxRetries)]
           f == [x \in Retries |-> (1..p[x]) \X (x..MaxRetries)]
<1>0. /\ MaxRetries \in Nat /\ p \in [Retries -> Nat] /\ p[r] = n /\ q[r] \in Nat
      /\ \A x \in Retries : x # r => p[x] = q[x]
      /\ r \in Nat /\ r <= MaxRetries + 1 /\ \A x \in Retries : x..MaxRetries \subseteq Retries
  BY ScanAssumption DEF Retries
<1>1. /\ c \in [Retries -> SUBSET Nat] /\ d \in [Retries -> SUBSET Nat]
      /\ \A x \in Retries : x # r => d[x] = c[x]
  BY <1>0
<1>2. /\ e \in [Retries -> SUBSET (Nat \X Retries)] /\ f \in [Retries -> SUBSET (Nat \X Retries)]
      /\ \A x \in Retries : x # r => f[x] = e[x]
  <2>1. \A x \in Retries : /\ (1..q[x]) \X (x..MaxRetries) \in SUBSET (Nat \X Retries)
                           /\ (1..p[x]) \X (x..MaxRetries) \in SUBSET (Nat \X Retries)
    BY <1>0
  <2> QED BY <1>0, <2>1
<1>3. /\ IsFiniteSet(1..q[r]) /\ Cardinality(1..q[r]) = q[r]
      /\ IsFiniteSet(1..n) /\ Cardinality(1..n) = n
  BY <1>0, UpTo
<1>4. /\ IsFiniteSet(r..MaxRetries) /\ Cardinality(r..MaxRetries) = PerMessage - r
  BY <1>0, TriesFrom
<1>5. /\ IsFiniteSet((1..q[r]) \X (r..MaxRetries)) /\ IsFiniteSet((1..n) \X (r..MaxRetries))
      /\ Cardinality((1..q[r]) \X (r..MaxRetries)) = q[r] * (PerMessage - r)
      /\ Cardinality((1..n) \X (r..MaxRetries)) = n * (PerMessage - r)
  <2>1. /\ IsFiniteSet((1..q[r]) \X (r..MaxRetries))
        /\ Cardinality((1..q[r]) \X (r..MaxRetries))
             = Cardinality(1..q[r]) * Cardinality(r..MaxRetries)
    BY <1>3, <1>4, FS_Product
  <2>2. /\ IsFiniteSet((1..n) \X (r..MaxRetries))
        /\ Cardinality((1..n) \X (r..MaxRetries))
             = Cardinality(1..n) * Cardinality(r..MaxRetries)
    BY <1>3, <1>4, FS_Product
  <2> QED BY <1>3, <1>4, <2>1, <2>2
<1>6. /\ c[r] = 1..q[r] /\ d[r] = 1..n
      /\ e[r] = (1..q[r]) \X (r..MaxRetries) /\ f[r] = (1..n) \X (r..MaxRetries)
  BY <1>0
<1>7. /\ Copies(q) = Pairs(Retries, Nat, c) /\ Copies(p) = Pairs(Retries, Nat, d)
      /\ Tries(q) = Pairs(Retries, Nat \X Retries, e)
      /\ Tries(p) = Pairs(Retries, Nat \X Retries, f)
  BY DEF Copies, Tries
<1> HIDE DEF c, d, e, f
<1>8. /\ IsFiniteSet(Copies(p))
      /\ Cardinality(Copies(q)) \in Nat /\ Cardinality(Copies(p)) \in Nat
      /\ q[r] <= Cardinality(Copies(q))
      /\ Cardinality(Copies(p)) + q[r] = Cardinality(Copies(q)) + n
  BY <1>1, <1>3, <1>6, <1>7, OnePartChanges
<1>9. /\ IsFiniteSet(Tries(p))
      /\ Cardinality(Tries(q)) \in Nat /\ Cardinality(Tries(p)) \in Nat
      /\ Cardinality(Tries(p)) + q[r] * (PerMessage - r)
           = Cardinality(Tries(q)) + n * (PerMessage - r)
  <2> DEFINE old == q[r] * (PerMessage - r)
             new == n * (PerMessage - r)
  <2>1. /\ IsFiniteSet(e[r]) /\ Cardinality(e[r]) = old
        /\ IsFiniteSet(f[r]) /\ Cardinality(f[r]) = new
    BY <1>5, <1>6
  <2> HIDE DEF old, new
  <2>2. /\ IsFiniteSet(Tries(p))
        /\ Cardinality(Tries(q)) \in Nat /\ Cardinality(Tries(p)) \in Nat
        /\ Cardinality(Tries(p)) + old = Cardinality(Tries(q)) + new
    BY <1>2, <1>7, <2>1, OnePartChanges
  <2> QED BY <2>2 DEF old, new
<1> QED BY <1>8, <1>9

\* What one time more or less amounts to.
LEMMA Distributes ==
    ASSUME NEW a \in Int, NEW k \in Int
    PROVE  (a + 1) * k = a * k + k /\ (a - 1) * k = a * k - k /\ a * k \in Int
OBVIOUS

\* One message more.
LEMMA OneMore ==
    ASSUME NEW q \in [Retries -> Nat], NEW r \in Retries,
           IsFiniteSet(Copies(q)), IsFiniteSet(Tries(q))
    PROVE  LET p == [q EXCEPT ![r] = q[r] + 1] IN
           /\ IsFiniteSet(Copies(p)) /\ IsFiniteSet(Tries(p))
           /\ Cardinality(Copies(q)) \in Nat /\ Cardinality(Tries(q)) \in Nat
           /\ Cardinality(Copies(p)) = Cardinality(Copies(q)) + 1
           /\ Cardinality(Tries(p)) = Cardinality(Tries(q)) + (PerMessage - r)
<1> DEFINE n == q[r] + 1
           p == [q EXCEPT ![r] = n]
           k == PerMessage - r
           old == q[r] * k
           new == n * k
<1>1. q[r] \in Nat /\ n \in Nat /\ k \in Int
  BY ScanAssumption DEF PerMessage, Retries
<1> HIDE DEF k
<1>2. new = old + k /\ old \in Int
  BY <1>1, Distributes
<1>3. /\ IsFiniteSet(Copies(p)) /\ IsFiniteSet(Tries(p))
      /\ Cardinality(Copies(q)) \in Nat /\ Cardinality(Copies(p)) \in Nat
      /\ Cardinality(Tries(q)) \in Nat /\ Cardinality(Tries(p)) \in Nat
      /\ Cardinality(Copies(p)) + q[r] = Cardinality(Copies(q)) + n
      /\ Cardinality(Tries(p)) + old = Cardinality(Tries(q)) + new
  <2> HIDE DEF n
  <2> QED BY <1>1, QueueMoves DEF k
<1> HIDE DEF old, new, p
<1>4. /\ Cardinality(Copies(p)) = Cardinality(Copies(q)) + 1
      /\ Cardinality(Tries(p)) = Cardinality(Tries(q)) + k
  BY <1>1, <1>2, <1>3
<1>5. /\ Cardinality(Copies(q)) = Cardinality(Copies(p)) - 1
      /\ Cardinality(Tries(q)) = Cardinality(Tries(p)) - k
  BY <1>1, <1>3, <1>4
<1> QED BY <1>3, <1>4, <1>5 DEF k, p

\* One message less.
LEMMA OneLess ==
    ASSUME NEW q \in [Retries -> Nat], NEW r \in Retries, q[r] > 0,
           IsFiniteSet(Copies(q)), IsFiniteSet(Tries(q))
    PROVE  LET p == [q EXCEPT ![r] = q[r] - 1] IN
           /\ IsFiniteSet(Copies(p)) /\ IsFiniteSet(Tries(p))
           /\ Cardinality(Copies(p)) \in Nat /\ Cardinality(Tries(p)) \in Nat
           /\ Cardinality(Copies(q)) = Cardinality(Copies(p)) + 1
           /\ Cardinality(Tries(q)) = Cardinality(Tries(p)) + (PerMessage - r)
<1> DEFINE n == q[r] - 1
           p == [q EXCEPT ![r] = n]
           k == PerMessage - r
           old == q[r] * k
           new == n * k
<1>1. q[r] \in Nat /\ n \in Nat /\ k \in Int
  BY ScanAssumption DEF PerMessage, Retries
<1> HIDE DEF k
<1>2. new = old - k /\ old \in Int
  BY <1>1, Distributes
<1>3. /\ IsFiniteSet(Copies(p)) /\ IsFiniteSet(Tries(p))
      /\ Cardinality(Copies(q)) \in Nat /\ Cardinality(Copies(p)) \in Nat
      /\ Cardinality(Tries(q)) \in Nat /\ Cardinality(Tries(p)) \in Nat
      /\ Cardinality(Copies(p)) + q[r] = Cardinality(Copies(q)) + n
      /\ Cardinality(Tries(p)) + old = Cardinality(Tries(q)) + new
  <2> HIDE DEF n
  <2> QED BY <1>1, QueueMoves DEF k
<1> HIDE DEF old, new, p
<1>4. /\ Cardinality(Copies(p)) = Cardinality(Copies(q)) - 1
      /\ Cardinality(Tries(p)) = Cardinality(Tries(q)) - k
  BY <1>1, <1>2, <1>3
<1>5. /\ Cardinality(Copies(q)) = Cardinality(Copies(p)) + 1
      /\ Cardinality(Tries(q)) = Cardinality(Tries(p)) + k
  BY <1>1, <1>3, <1>4
<1> QED BY <1>3, <1>4, <1>5 DEF k, p

\* Does a task count as a live message of s?
Weighs(t, s) == IF Active(t, s) THEN 1 ELSE 0

\* The number of attempts in TriesLeft.
Allows(t, s) ==
    IF t.scan # s THEN 0
    ELSE IF t.pc \in {"mark", "begin"} THEN PerMessage - t.retries
    ELSE IF t.pc \in {"scan", "cool", "conclude"} THEN PerMessage - (t.retries + 1)
    ELSE 0

\* What a task weighs and allows.
LEMMA TaskCounts ==
    ASSUME NEW t \in Tasks, NEW s
    PROVE  /\ TriesLeft(t, s) \in SUBSET Retries
           /\ IsFiniteSet(TriesLeft(t, s)) /\ Cardinality(TriesLeft(t, s)) = Allows(t, s)
           /\ Allows(t, s) \in 0..PerMessage
<1>1. /\ t.retries \in Nat /\ t.retries + 1 \in Nat /\ t.retries <= MaxRetries
      /\ MaxRetries \in Nat
  BY ScanAssumption DEF Tasks, Retries
<1>2. IsFiniteSet({}) /\ Cardinality({}) = 0
  BY FS_EmptySet
<1>3. /\ IsFiniteSet(t.retries..MaxRetries)
      /\ Cardinality(t.retries..MaxRetries) = PerMessage - t.retries
      /\ IsFiniteSet((t.retries + 1)..MaxRetries)
      /\ Cardinality((t.retries + 1)..MaxRetries) = PerMessage - (t.retries + 1)
  BY <1>1, TriesFrom
<1> QED BY <1>1, <1>2, <1>3 DEF TriesLeft, Allows, PerMessage, Retries

\* When the task of one worker changes, the live messages and the attempts left
\* change by what the two tasks weigh and allow.
LEMMA HeldMoves ==
    ASSUME NEW held \in [Workers -> Tasks], NEW w \in Workers, NEW v \in Tasks, NEW s
    PROVE  LET next == [held EXCEPT ![w] = v] IN
           /\ Cardinality(ActiveOn(held, s)) \in Nat /\ Cardinality(ActiveOn(next, s)) \in Nat
           /\ Cardinality(TriesOf(held, s)) \in Nat /\ Cardinality(TriesOf(next, s)) \in Nat
           /\ Weighs(held[w], s) <= Cardinality(ActiveOn(held, s))
           /\ Cardinality(ActiveOn(next, s)) + Weighs(held[w], s)
                = Cardinality(ActiveOn(held, s)) + Weighs(v, s)
           /\ Cardinality(TriesOf(next, s)) + Allows(held[w], s)
                = Cardinality(TriesOf(held, s)) + Allows(v, s)
<1> DEFINE next == [held EXCEPT ![w] = v]
           c == [x \in Workers |-> IF Active(held[x], s) THEN {0} ELSE {}]
           d == [x \in Workers |-> IF Active(next[x], s) THEN {0} ELSE {}]
           e == [x \in Workers |-> TriesLeft(held[x], s)]
           f == [x \in Workers |-> TriesLeft(next[x], s)]
<1>0. /\ next \in [Workers -> Tasks] /\ next[w] = v /\ held[w] \in Tasks
      /\ \A x \in Workers : x # w => next[x] = held[x]
  OBVIOUS
<1> HIDE DEF next
<1>1. /\ c \in [Workers -> SUBSET {0}] /\ d \in [Workers -> SUBSET {0}]
      /\ \A x \in Workers : x # w => d[x] = c[x]
  BY <1>0
<1>2. /\ e \in [Workers -> SUBSET Retries] /\ f \in [Workers -> SUBSET Retries]
      /\ \A x \in Workers : x # w => f[x] = e[x]
  BY <1>0, TaskCounts
<1>3. /\ IsFiniteSet({}) /\ Cardinality({}) = 0
      /\ IsFiniteSet({0}) /\ Cardinality({0}) = 1
  BY FS_EmptySet, FS_Singleton
<1>4. /\ IsFiniteSet(c[w]) /\ Cardinality(c[w]) = Weighs(held[w], s)
      /\ IsFiniteSet(d[w]) /\ Cardinality(d[w]) = Weighs(v, s)
  BY <1>0, <1>3 DEF Weighs
<1>5. /\ IsFiniteSet(e[w]) /\ Cardinality(e[w]) = Allows(held[w], s)
      /\ IsFiniteSet(f[w]) /\ Cardinality(f[w]) = Allows(v, s)
  BY <1>0, TaskCounts
<1>6. /\ ActiveOn(held, s) = Pairs(Workers, {0}, c) /\ ActiveOn(next, s) = Pairs(Workers, {0}, d)
      /\ TriesOf(held, s) = Pairs(Workers, Retries, e)
      /\ TriesOf(next, s) = Pairs(Workers, Retries, f)
  BY DEF ActiveOn, TriesOf
<1>7. IsFiniteSet(Workers \X {0}) /\ IsFiniteSet(Workers \X Retries)
  <2>1. IsFiniteSet(Retries) /\ IsFiniteSet(Workers)
    BY FS_Interval, ScanAssumption DEF Retries
  <2> QED BY <1>3, <2>1, FS_Product
<1>8. IsFiniteSet(ActiveOn(held, s)) /\ IsFiniteSet(TriesOf(held, s))
  <2>1. ActiveOn(held, s) \subseteq Workers \X {0} /\ TriesOf(held, s) \subseteq Workers \X Retries
    BY DEF ActiveOn, TriesOf, Pairs
  <2> QED BY <1>7, <2>1, FS_Subset
<1> HIDE DEF c, d, e, f
<1>9. /\ Cardinality(ActiveOn(held, s)) \in Nat /\ Cardinality(ActiveOn(next, s)) \in Nat
      /\ Weighs(held[w], s) <= Cardinality(ActiveOn(held, s))
      /\ Cardinality(ActiveOn(next, s)) + Weighs(held[w], s)
           = Cardinality(ActiveOn(held, s)) + Weighs(v, s)
  BY <1>1, <1>4, <1>6, <1>8, OnePartChanges
<1>10. /\ Cardinality(TriesOf(held, s)) \in Nat /\ Cardinality(TriesOf(next, s)) \in Nat
       /\ Cardinality(TriesOf(next, s)) + Allows(held[w], s)
            = Cardinality(TriesOf(held, s)) + Allows(v, s)
  BY <1>2, <1>5, <1>6, <1>8, OnePartChanges
<1> QED BY <1>9, <1>10 DEF next

\* Where no message waits and no task is active there is nothing to count.
LEMMA NothingLive ==
    ASSUME NEW s
    PROVE  /\ \A q \in [Retries -> Nat] : (\A r \in Retries : ~ (q[r] > 0)) => Cardinality(Copies(q)) = 0
           /\ \A held \in [Workers -> Tasks] :
                 (\A u \in Workers : ~ Active(held[u], s)) => Cardinality(ActiveOn(held, s)) = 0
<1>1. Cardinality({}) = 0
  BY FS_EmptySet
<1>2. ASSUME NEW q \in [Retries -> Nat], \A r \in Retries : ~ (q[r] > 0) PROVE Copies(q) = {}
  BY <1>2 DEF Copies, Pairs
<1>3. ASSUME NEW held \in [Workers -> Tasks], \A u \in Workers : ~ Active(held[u], s)
      PROVE  ActiveOn(held, s) = {}
  BY <1>3 DEF ActiveOn, Pairs
<1> QED BY <1>1, <1>2, <1>3

\* The messages of an analysis.  Nothing is out before it is asked for; there is
\* one live message per delivery, and one in all unless two were out at a time; a
\* job that has ended has no task that could change it; every delivery pays for
\* PerMessage attempts.
Messages(s) ==
    /\ IsFiniteSet(Copies(queue[s])) /\ IsFiniteSet(Tries(queue[s]))
    /\ job[s] = "absent" =>
          /\ Live(s) = 0 /\ Potential(s) = 0
          /\ \A u \in Workers : task[u].pc = "idle" \/ task[u].scan # s
    /\ Live(s) <= 1 + redelivered[s]
    /\ s \notin doubled => Live(s) <= 1
    /\ s \notin doubled /\ job[s] \in Finished => Cardinality(ActiveOn(task, s)) = 0
    /\ Potential(s) <= PerMessage * (1 + redelivered[s])

\* The four sizes that are counted, and what they are made of.
LEMMA Sizes ==
    ASSUME Types, NEW s \in Scans, Messages(s)
    PROVE  /\ Cardinality(Copies(queue[s])) \in Nat /\ Cardinality(Tries(queue[s])) \in Nat
           /\ Cardinality(ActiveOn(task, s)) \in Nat /\ Cardinality(TriesOf(task, s)) \in Nat
           /\ attempts[s] \in Nat /\ redelivered[s] \in Nat /\ PerMessage \in Nat
           /\ PerMessage * (1 + redelivered[s]) \in Nat
<1>1. Cardinality(Copies(queue[s])) \in Nat /\ Cardinality(Tries(queue[s])) \in Nat
  BY FS_CardinalityType DEF Messages
<1>2. IsFiniteSet(Workers \X {0}) /\ IsFiniteSet(Workers \X Retries)
  <2>1. IsFiniteSet({0})
    BY FS_Singleton
  <2>2. IsFiniteSet(Retries) /\ IsFiniteSet(Workers)
    BY FS_Interval, ScanAssumption DEF Retries
  <2> QED BY <2>1, <2>2, FS_Product
<1>3. IsFiniteSet(ActiveOn(task, s)) /\ IsFiniteSet(TriesOf(task, s))
  <2>1. ActiveOn(task, s) \subseteq Workers \X {0} /\ TriesOf(task, s) \subseteq Workers \X Retries
    BY DEF ActiveOn, TriesOf, Pairs
  <2> QED BY <1>2, <2>1, FS_Subset
<1>4. Cardinality(ActiveOn(task, s)) \in Nat /\ Cardinality(TriesOf(task, s)) \in Nat
  BY <1>3, FS_CardinalityType
<1>5. /\ attempts[s] \in Nat /\ redelivered[s] \in Nat /\ PerMessage \in Nat
  BY ScanAssumption DEF Types, PerMessage
<1>6. \A a, b \in Nat : a * (1 + b) \in Nat
  OBVIOUS
<1> QED BY <1>1, <1>4, <1>5, <1>6

\* Nothing of the analysis moves.
LEMMA Untouched ==
    ASSUME NEW s \in Scans, Messages(s),
           queue'[s] = queue[s], task' = task, job'[s] = job[s], attempts'[s] = attempts[s],
           redelivered'[s] = redelivered[s], s \in doubled' <=> s \in doubled
    PROVE  Messages(s)'
BY DEF Messages, Live, Potential

\* A worker moves on and no message is published or taken.
LEMMA QuietTurn ==
    ASSUME Types, NEW s \in Scans, Messages(s), NEW w \in Workers, NEW v \in Tasks, Holds(w, v),
           queue'[s] = queue[s], redelivered'[s] = redelivered[s], s \in doubled' <=> s \in doubled,
           attempts'[s] \in Nat,
           Weighs(v, s) <= Weighs(task[w], s),
           attempts'[s] + Allows(v, s) <= attempts[s] + Allows(task[w], s),
           job'[s] = "absent" => job[s] = "absent" /\ (v.pc = "idle" \/ v.scan # s),
           \/ job'[s] \notin Finished
           \/ job[s] \in Finished
           \/ Weighs(task[w], s) = 1 /\ Weighs(v, s) = 0
    PROVE  Messages(s)'
<1> DEFINE C == Cardinality(Copies(queue[s]))
           T == Cardinality(Tries(queue[s]))
           A == Cardinality(ActiveOn(task, s))
           H == Cardinality(TriesOf(task, s))
           A2 == Cardinality(ActiveOn(task', s))
           H2 == Cardinality(TriesOf(task', s))
<1>1. /\ C \in Nat /\ T \in Nat /\ attempts[s] \in Nat /\ redelivered[s] \in Nat
      /\ PerMessage * (1 + redelivered[s]) \in Nat
  BY Sizes
<1>2. /\ A \in Nat /\ H \in Nat /\ A2 \in Nat /\ H2 \in Nat
      /\ A2 + Weighs(task[w], s) = A + Weighs(v, s)
      /\ H2 + Allows(task[w], s) = H + Allows(v, s)
  BY HeldMoves DEF Types, Holds
<1>3. /\ Weighs(v, s) \in {0, 1} /\ Weighs(task[w], s) \in {0, 1}
      /\ Allows(v, s) \in Int /\ Allows(task[w], s) \in Int
  <2>1. task[w] \in Tasks /\ PerMessage \in Nat
    BY ScanAssumption DEF Types, PerMessage
  <2> QED BY <2>1, TaskCounts DEF Weighs
<1>4. /\ Live(s) = C + A /\ Live(s)' = C + A2
      /\ Potential(s) = attempts[s] + T + H /\ Potential(s)' = attempts'[s] + T + H2
  BY DEF Live, Potential
<1> HIDE DEF C, T, A, H, A2, H2
<1>5. Live(s)' <= Live(s) /\ Potential(s)' <= Potential(s)
  BY <1>1, <1>2, <1>3, <1>4
<1>6. Live(s)' \in Nat /\ Potential(s)' \in Nat /\ Live(s) \in Nat /\ Potential(s) \in Nat
  BY <1>1, <1>2, <1>4
<1>7. job'[s] = "absent" =>
         /\ Live(s)' = 0 /\ Potential(s)' = 0
         /\ \A u \in Workers : task'[u].pc = "idle" \/ task'[u].scan # s
  BY <1>5, <1>6 DEF Messages, Holds, Types
<1>8. s \notin doubled /\ job'[s] \in Finished => A2 = 0
  BY <1>1, <1>2, <1>3, <1>4 DEF Messages, A
<1>9. /\ Live(s)' <= 1 + redelivered'[s]
      /\ s \notin doubled => Live(s)' <= 1
      /\ Potential(s)' <= PerMessage * (1 + redelivered'[s])
  BY <1>1, <1>5, <1>6 DEF Messages
<1> QED BY <1>7, <1>8, <1>9 DEF Messages, A2

\* A message is published for s while the task of w becomes v: as many attempts
\* as it allows are paid for by the attempts w gives up or by a new delivery.
LEMMA PublishTurn ==
    ASSUME Types, NEW s \in Scans, Messages(s), NEW r \in Retries, Publish(s, r),
           task' \in [Workers -> Tasks],
           NEW a \in Nat, Cardinality(ActiveOn(task', s)) = a, a <= Cardinality(ActiveOn(task, s)),
           NEW h \in Nat, Cardinality(TriesOf(task', s)) = h, h <= Cardinality(TriesOf(task, s))
    PROVE  /\ IsFiniteSet(Copies(queue'[s])) /\ IsFiniteSet(Tries(queue'[s]))
           /\ Live(s)' = Cardinality(Copies(queue[s])) + 1 + a
           /\ attempts'[s] = attempts[s] =>
                 Potential(s)' = attempts[s] + Cardinality(Tries(queue[s])) + (PerMessage - r) + h
<1>1. queue[s] \in [Retries -> Nat] /\ queue'[s] = [queue[s] EXCEPT ![r] = queue[s][r] + 1]
  BY DEF Types, Publish
<1>2. /\ IsFiniteSet(Copies(queue'[s])) /\ IsFiniteSet(Tries(queue'[s]))
      /\ Cardinality(Copies(queue'[s])) = Cardinality(Copies(queue[s])) + 1
      /\ Cardinality(Tries(queue'[s])) = Cardinality(Tries(queue[s])) + (PerMessage - r)
  BY <1>1, OneMore DEF Messages
<1>3. /\ Live(s)' = Cardinality(Copies(queue'[s])) + Cardinality(ActiveOn(task', s))
      /\ Potential(s)' = attempts'[s] + Cardinality(Tries(queue'[s])) + Cardinality(TriesOf(task', s))
  BY DEF Live, Potential
<1>4. /\ Cardinality(Tries(queue[s])) \in Nat /\ Cardinality(Copies(queue[s])) \in Nat
      /\ attempts[s] \in Nat /\ PerMessage - r \in Int
  BY Sizes, ScanAssumption DEF PerMessage, Retries
<1> QED BY <1>2, <1>3, <1>4

\* One delivery more pays for PerMessage attempts more.
LEMMA NewDelivery ==
    ASSUME NEW b \in Nat, NEW d \in Nat
    PROVE  b * (1 + (d + 1)) = b * (1 + d) + b /\ b <= b * (1 + d)
OBVIOUS

\* An analysis is asked for: its first message.
LEMMA TriggerKeeps ==
    ASSUME Types, NEW x \in Scans, Trigger(x) \/ TriggerInitial(x), NEW s \in Scans, Messages(s)
    PROVE  Messages(s)'
<1>0. /\ task' = task /\ attempts' = attempts /\ redelivered' = redelivered /\ doubled' = doubled
      /\ job[x] = "absent" /\ (Publish(x, 0) \/ queue' = queue)
      /\ \E status \in {"pending", "rowless"} : job' = [job EXCEPT ![x] = status]
  BY DEF Trigger, TriggerInitial, History
<1>1. CASE s # x
  <2>1. queue'[s] = queue[s] /\ job'[s] = job[s]
    BY <1>0, <1>1 DEF Publish, Types
  <2> QED BY <1>0, <2>1, Untouched
<1>2. CASE s = x
  <2> DEFINE C == Cardinality(Copies(queue[s]))
             T == Cardinality(Tries(queue[s]))
             A == Cardinality(ActiveOn(task, s))
             H == Cardinality(TriesOf(task, s))
  <2>1. /\ C \in Nat /\ T \in Nat /\ A \in Nat /\ H \in Nat
        /\ attempts[s] \in Nat /\ redelivered[s] \in Nat /\ PerMessage \in Nat
        /\ PerMessage <= PerMessage * (1 + redelivered[s])
        /\ PerMessage * (1 + redelivered[s]) \in Nat
    BY Sizes, NewDelivery
  <2>2. Live(s) = C + A /\ Potential(s) = attempts[s] + T + H
    BY DEF Live, Potential
  <2>3. C = 0 /\ A = 0 /\ attempts[s] = 0 /\ T = 0 /\ H = 0
    <3>1. Live(s) = 0 /\ Potential(s) = 0
      BY <1>0, <1>2 DEF Messages
    <3>2. C \in Nat /\ A \in Nat /\ attempts[s] \in Nat /\ T \in Nat /\ H \in Nat
      BY <2>1
    <3>3. C + A = 0 /\ attempts[s] + T + H = 0
      BY <2>2, <3>1
    <3>4. \A a, b \in Nat : a + b = 0 => a = 0 /\ b = 0
      OBVIOUS
    <3>5. \A a, b, c \in Nat : a + b + c = 0 => a = 0 /\ b = 0 /\ c = 0
      OBVIOUS
    <3> HIDE DEF C, A, T, H
    <3>6. C = 0 /\ A = 0
      BY <3>2, <3>3, <3>4
    <3>7. attempts[s] = 0 /\ T = 0 /\ H = 0
      BY <3>2, <3>3, <3>5
    <3> QED BY <3>6, <3>7
  <2>4. job'[s] \in {"pending", "rowless"}
    BY <1>0, <1>2 DEF Types
  <2>5. CASE Publish(x, 0)
    <3>1. /\ IsFiniteSet(Copies(queue'[s])) /\ IsFiniteSet(Tries(queue'[s]))
          /\ Live(s)' = C + 1 + A
          /\ Potential(s)' = attempts[s] + T + (PerMessage - 0) + H
      <4>1. 0 \in Retries
        BY ScanAssumption DEF Retries
      <4>2. task' \in [Workers -> Tasks]
        BY <1>0 DEF Types
      <4> QED BY <1>0, <1>2, <2>1, <2>5, <4>1, <4>2, PublishTurn
    <3>2. /\ Live(s)' = 1 /\ Potential(s)' = PerMessage
      BY <2>1, <2>3, <3>1
    <3>3. job'[s] # "absent" /\ job'[s] \notin Finished
      BY <2>4 DEF Finished
    <3>4. redelivered'[s] = redelivered[s]
      BY <1>0
    <3> QED BY <2>1, <3>1, <3>2, <3>3, <3>4 DEF Messages
  <2>6. CASE queue' = queue
    <3>1. /\ Live(s)' = Live(s) /\ Potential(s)' = Potential(s)
          /\ redelivered'[s] = redelivered[s]
      BY <1>0, <2>6 DEF Live, Potential
    <3>2. job'[s] # "absent" /\ job'[s] \notin Finished
      BY <2>4 DEF Finished
    <3> QED BY <1>0, <2>6, <3>1, <3>2 DEF Messages
  <2> QED BY <1>0, <2>5, <2>6
<1> QED BY <1>1, <1>2

\* A message is taken: it weighs on its worker what it weighed in the queue.
LEMMA ReceiveKeeps ==
    ASSUME Types, NEW w \in Workers, NEW x \in Scans, NEW r \in Retries, Receive(w, x, r),
           NEW s \in Scans, Messages(s)
    PROVE  Messages(s)'
<1>0. /\ job' = job /\ attempts' = attempts /\ redelivered' = redelivered /\ doubled' = doubled
      /\ queue[x][r] > 0 /\ queue' = [queue EXCEPT ![x][r] = queue[x][r] - 1]
      /\ task[w].pc = "idle" /\ attempts'[s] = attempts[s] /\ attempts[s] \in Nat
  BY DEF Receive, History, At, Types
<1>1. PICK v \in Tasks : /\ Holds(w, v) /\ v.scan = x /\ v.retries = r
                         /\ v.pc \in {"mark", "begin", "ack"}
                         /\ HasJob(x) /\ job[x] \in Finished => v.pc = "ack"
  BY Effects
<1>2. Weighs(task[w], s) = 0 /\ Allows(task[w], s) = 0
  BY <1>0 DEF Weighs, Active, Steps, Allows
<1>3. CASE s # x
  <2>1. queue'[s] = queue[s]
    BY <1>0, <1>3 DEF Types
  <2>2. Weighs(v, s) = 0 /\ Allows(v, s) = 0 /\ v.scan # s
    BY <1>1, <1>3 DEF Weighs, Active, Allows
  <2>3. job'[s] \notin Finished \/ job[s] \in Finished
    BY <1>0
  <2> QED BY <1>0, <1>1, <1>2, <2>1, <2>2, <2>3, QuietTurn
<1>4. CASE s = x
  <2> DEFINE C == Cardinality(Copies(queue[s]))
             T == Cardinality(Tries(queue[s]))
             A == Cardinality(ActiveOn(task, s))
             H == Cardinality(TriesOf(task, s))
             C2 == Cardinality(Copies(queue'[s]))
             T2 == Cardinality(Tries(queue'[s]))
             A2 == Cardinality(ActiveOn(task', s))
             H2 == Cardinality(TriesOf(task', s))
  <2>1. /\ C \in Nat /\ T \in Nat /\ A \in Nat /\ H \in Nat
        /\ attempts[s] \in Nat /\ redelivered[s] \in Nat
        /\ PerMessage * (1 + redelivered[s]) \in Nat
    BY Sizes
  <2>2. /\ IsFiniteSet(Copies(queue'[s])) /\ IsFiniteSet(Tries(queue'[s]))
        /\ C2 \in Nat /\ T2 \in Nat
        /\ C = C2 + 1 /\ T = T2 + (PerMessage - r)
    <3>1. queue[s] \in [Retries -> Nat] /\ queue'[s] = [queue[s] EXCEPT ![r] = queue[s][r] - 1]
      BY <1>0, <1>4 DEF Types
    <3> QED BY <1>0, <1>4, <3>1, OneLess DEF Messages
  <2>3. /\ A2 \in Nat /\ H2 \in Nat
        /\ A2 + 0 = A + Weighs(v, s) /\ H2 + 0 = H + Allows(v, s)
    BY <1>1, <1>2, HeldMoves DEF Types, Holds
  <2>4. /\ Weighs(v, s) \in {0, 1} /\ Allows(v, s) \in Nat /\ Allows(v, s) <= PerMessage - r
        /\ PerMessage \in Nat /\ r \in Nat /\ r <= PerMessage
    <3>1. MaxRetries \in Nat /\ r \in Nat /\ r <= MaxRetries /\ PerMessage = MaxRetries + 1
      BY ScanAssumption DEF Retries, PerMessage
    <3> QED BY <1>1, <1>4, <3>1 DEF Weighs, Allows
  <2>5. /\ Live(s) = C + A /\ Live(s)' = C2 + A2
        /\ Potential(s) = attempts[s] + T + H /\ Potential(s)' = attempts[s] + T2 + H2
    BY <1>0 DEF Live, Potential
  <2>6. HasJob(s) /\ job[s] \in Finished => Weighs(v, s) = 0
    BY <1>1, <1>4 DEF Weighs, Active, Steps
  <2>7. job[s] \in Finished => HasJob(s)
    BY DEF Types, Finished
  <2> HIDE DEF C, T, A, H, C2, T2, A2, H2
  <2>8. Live(s)' <= Live(s) /\ Potential(s)' <= Potential(s) /\ Live(s) > 0
    BY <2>1, <2>2, <2>3, <2>4, <2>5
  <2>9. job'[s] # "absent"
    BY <1>0, <2>8 DEF Messages
  <2>10. /\ Live(s)' \in Nat /\ Potential(s)' \in Nat /\ Live(s) \in Nat /\ Potential(s) \in Nat
         /\ redelivered'[s] = redelivered[s]
    BY <1>0, <2>1, <2>2, <2>3, <2>5
  <2>11. s \notin doubled /\ job'[s] \in Finished => A2 = 0
    BY <1>0, <2>1, <2>3, <2>6, <2>7 DEF Messages, A
  <2>12. /\ Live(s)' <= 1 + redelivered'[s]
         /\ s \notin doubled => Live(s)' <= 1
         /\ Potential(s)' <= PerMessage * (1 + redelivered'[s])
    BY <2>1, <2>8, <2>10 DEF Messages
  <2> QED BY <1>0, <2>2, <2>9, <2>11, <2>12 DEF Messages, A2
<1> QED BY <1>3, <1>4

\* What a task weighs and allows in the phases it goes through.
LEMMA Weights ==
    ASSUME NEW t \in Tasks, NEW s
    PROVE  /\ Weighs(t, s) \in {0, 1} /\ Allows(t, s) \in Nat /\ Allows(t, s) <= PerMessage
           /\ t.scan # s => Weighs(t, s) = 0 /\ Allows(t, s) = 0
           /\ t.pc \in {"idle", "ack"} => Weighs(t, s) = 0 /\ Allows(t, s) = 0
           /\ t.scan = s /\ t.pc \in Steps => Weighs(t, s) = 1
           /\ t.scan = s /\ t.pc \in {"mark", "begin"} => Allows(t, s) = PerMessage - t.retries
           /\ t.scan = s /\ t.pc \in {"scan", "cool", "conclude"} =>
                 Allows(t, s) = PerMessage - (t.retries + 1)
           /\ PerMessage - t.retries \in Nat /\ PerMessage - t.retries <= PerMessage
           /\ PerMessage - (t.retries + 1) \in Nat /\ t.retries \in Nat /\ PerMessage \in Nat
<1>1. /\ t.retries \in Nat /\ t.retries <= MaxRetries /\ MaxRetries \in Nat
      /\ PerMessage = MaxRetries + 1
  BY ScanAssumption DEF Tasks, Retries, PerMessage
<1>2. Weighs(t, s) \in {0, 1} /\ Allows(t, s) \in Nat /\ Allows(t, s) <= PerMessage
  BY <1>1, TaskCounts DEF Weighs
<1> QED BY <1>1, <1>2 DEF Weighs, Active, Allows, Steps

\* The steps that neither take nor publish a message: a task that begins uses
\* up one of its attempts.
LEMMA QuietKeeps ==
    ASSUME Types, NEW w \in Workers, NEW s \in Scans, Messages(s),
           \/ MarkJobRunning(w)
           \/ \E n \in 0..MaxAssets : Begin(w, n)
           \/ \E outcome \in Costs \cup {"refused"} : ScanAsset(w, outcome)
           \/ RecordUsage(w)
           \/ MarkScanCooldown(w)
           \/ Ack(w)
    PROVE  Messages(s)'
<1> DEFINE t == task[w]
<1>0. /\ t \in Tasks /\ t.scan \in Scans /\ job \in [Scans -> JobStates] /\ attempts[s] \in Nat
      /\ t.pc # "idle" /\ t.scan = s => job[s] # "absent"
  <2>1. t \in Tasks /\ job \in [Scans -> JobStates] /\ attempts[s] \in Nat
    BY DEF Types
  <2> QED BY <2>1 DEF Messages, Tasks
<1>1. ASSUME MarkJobRunning(w) PROVE Messages(s)'
  <2>1. PICK v \in Tasks : /\ Holds(w, v) /\ v.scan = t.scan /\ v.retries = t.retries
                           /\ v.pc = "begin"
    BY <1>1, Effects
  <2>2. /\ t.pc = "mark" /\ job' = [job EXCEPT ![t.scan] = "running"]
        /\ queue'[s] = queue[s] /\ redelivered'[s] = redelivered[s] /\ doubled' = doubled
        /\ attempts'[s] = attempts[s]
    BY <1>1 DEF MarkJobRunning, At, History
  <2>3. Weighs(v, s) <= Weighs(t, s) /\ Allows(v, s) = Allows(t, s) /\ Allows(v, s) \in Nat
    BY <1>0, <2>1, <2>2, Weights DEF Steps
  <2>4. /\ job'[s] = "absent" => job[s] = "absent" /\ v.scan # s
        /\ job'[s] \in Finished => job[s] \in Finished
    BY <1>0, <2>1, <2>2 DEF Finished
  <2>5. attempts'[s] \in Nat /\ attempts'[s] + Allows(v, s) <= attempts[s] + Allows(t, s)
    BY <1>0, <2>2, <2>3
  <2> QED BY <2>1, <2>2, <2>3, <2>4, <2>5, QuietTurn
<1>2. ASSUME NEW n \in 0..MaxAssets, Begin(w, n) PROVE Messages(s)'
  <2>1. PICK v \in Tasks : /\ Holds(w, v) /\ v.scan = t.scan /\ v.retries = t.retries
                           /\ v.pc = (IF n = 0 THEN "ack" ELSE "scan")
    BY <1>2, Effects
  <2>2. /\ t.pc = "begin"
        /\ queue'[s] = queue[s] /\ redelivered'[s] = redelivered[s] /\ doubled' = doubled
    BY <1>2 DEF Begin, At
  <2>3. /\ t.scan # s => attempts'[s] = attempts[s] /\ job'[s] = job[s]
        /\ t.scan = s /\ n = 0 => /\ attempts'[s] = attempts[s]
                                  /\ job'[s] \in {job[s], "done"}
        /\ t.scan = s /\ n # 0 => attempts'[s] = attempts[s] + 1 /\ job'[s] = job[s]
    BY <1>0, <1>2 DEF Begin, SetJob, Types
  <2>4. /\ Weighs(v, s) <= Weighs(t, s) /\ Allows(v, s) \in Nat /\ Allows(t, s) \in Nat
        /\ t.scan # s => Allows(v, s) = 0 /\ Allows(t, s) = 0
        /\ t.scan = s /\ n = 0 => Allows(v, s) = 0 /\ Weighs(v, s) = 0 /\ Weighs(t, s) = 1
        /\ t.scan = s /\ n # 0 => Allows(v, s) + 1 = Allows(t, s)
    <3>1. t.scan = s /\ n # 0 => /\ Allows(v, s) = PerMessage - (t.retries + 1)
                                 /\ Allows(t, s) = PerMessage - t.retries
      BY <1>0, <2>1, <2>2, Weights
    <3>2. PerMessage \in Nat /\ t.retries \in Nat
      BY <1>0, Weights
    <3> QED BY <1>0, <2>1, <2>2, <3>1, <3>2, Weights DEF Steps
  <2>5. attempts'[s] \in Nat /\ attempts'[s] + Allows(v, s) <= attempts[s] + Allows(t, s)
    BY <1>0, <2>3, <2>4
  <2>6. /\ job'[s] = "absent" => job[s] = "absent" /\ v.scan # s
        /\ \/ job'[s] \notin Finished
           \/ job[s] \in Finished
           \/ Weighs(t, s) = 1 /\ Weighs(v, s) = 0
    BY <1>0, <2>1, <2>2, <2>3, <2>4
  <2> QED BY <2>1, <2>2, <2>4, <2>5, <2>6, QuietTurn
<1>3. ASSUME job' = job, queue' = queue, attempts' = attempts, redelivered' = redelivered,
             doubled' = doubled, t.pc # "idle",
             NEW v \in Tasks, Holds(w, v), v.pc = "idle" \/ v.scan = t.scan,
             Weighs(v, s) <= Weighs(t, s), Allows(v, s) <= Allows(t, s)
      PROVE  Messages(s)'
  <2>1. Allows(v, s) \in Nat /\ Allows(t, s) \in Nat
    BY <1>0, Weights
  <2>2. attempts'[s] \in Nat /\ attempts'[s] + Allows(v, s) <= attempts[s] + Allows(t, s)
    BY <1>0, <1>3, <2>1
  <2>3. job'[s] = "absent" => job[s] = "absent" /\ (v.pc = "idle" \/ v.scan # s)
    BY <1>0, <1>3
  <2> QED BY <1>3, <2>2, <2>3, QuietTurn
<1>4. ASSUME t.pc \in {"scan", "cool"}, NEW v \in Tasks, v.scan = t.scan, v.retries = t.retries,
             v.pc \in {"scan", "cool", "conclude"}
      PROVE  Weighs(v, s) <= Weighs(t, s) /\ Allows(v, s) <= Allows(t, s)
  <2>1. CASE t.scan = s
    <3>1. Weighs(v, s) = 1 /\ Weighs(t, s) = 1 /\ Allows(v, s) = Allows(t, s) /\ Allows(t, s) \in Nat
      BY <1>0, <1>4, <2>1, Weights DEF Steps
    <3> QED BY <3>1
  <2>2. CASE t.scan # s
    <3>1. Weighs(v, s) = 0 /\ Weighs(t, s) = 0 /\ Allows(v, s) = 0 /\ Allows(t, s) = 0
      BY <1>0, <1>4, <2>2, Weights
    <3> QED BY <3>1
  <2> QED BY <2>1, <2>2
<1>5. ASSUME NEW outcome \in Costs \cup {"refused"}, ScanAsset(w, outcome) PROVE Messages(s)'
  <2>1. PICK v \in Tasks : /\ Holds(w, v) /\ v.scan = t.scan /\ v.retries = t.retries
                           /\ v.pc = "scan"
    BY <1>5, Effects
  <2> QED BY <1>3, <1>4, <1>5, <2>1 DEF ScanAsset, At
<1>6. ASSUME RecordUsage(w) PROVE Messages(s)'
  <2>1. PICK v \in Tasks : /\ Holds(w, v) /\ v.scan = t.scan /\ v.retries = t.retries
                           /\ v.pc = "cool"
    BY <1>6, Effects
  <2> QED BY <1>3, <1>4, <1>6, <2>1 DEF RecordUsage, At, History
<1>7. ASSUME MarkScanCooldown(w) PROVE Messages(s)'
  <2>1. PICK v \in Tasks : /\ Holds(w, v) /\ v.scan = t.scan /\ v.retries = t.retries
                           /\ v.pc = "conclude"
    BY <1>7, Effects
  <2> QED BY <1>3, <1>4, <1>7, <2>1 DEF MarkScanCooldown, At, History
<1>8. ASSUME Ack(w) PROVE Messages(s)'
  <2>1. /\ Holds(w, Rest) /\ Rest \in Tasks /\ Rest.pc = "idle" /\ t.pc = "ack"
    BY <1>8, Effects, RestType DEF Ack, At
  <2>2. Weighs(Rest, s) <= Weighs(t, s) /\ Allows(Rest, s) <= Allows(t, s)
    <3>1. Weighs(Rest, s) = 0 /\ Weighs(t, s) = 0 /\ Allows(Rest, s) = 0 /\ Allows(t, s) = 0
      BY <1>0, <2>1, Weights
    <3> QED BY <3>1
  <2> QED BY <1>3, <1>8, <2>1, <2>2 DEF Ack, History
<1> QED BY <1>1, <1>2, <1>5, <1>6, <1>7, <1>8

\* A message is published for s and the task of w gives up some of what it had:
\* the counts after the step.
LEMMA PublishedCounts ==
    ASSUME Types, NEW s \in Scans, Messages(s), NEW r \in Retries, Publish(s, r),
           NEW w \in Workers, NEW v \in Tasks,
           (Holds(w, v) /\ v.pc \in {"idle", "ack"}) \/ (task' = task /\ v = task[w]),
           attempts'[s] = attempts[s]
    PROVE  /\ IsFiniteSet(Copies(queue'[s])) /\ IsFiniteSet(Tries(queue'[s]))
           /\ Cardinality(ActiveOn(task', s)) \in Nat
           /\ Live(s)' + Weighs(task[w], s) = Live(s) + 1 + Weighs(v, s)
           /\ Potential(s)' + Allows(task[w], s) = Potential(s) + (PerMessage - r) + Allows(v, s)
           /\ Live(s)' = Cardinality(Copies(queue[s])) + 1 + Cardinality(ActiveOn(task', s))
           /\ Live(s) \in Nat /\ Live(s)' \in Nat /\ Potential(s) \in Nat /\ Potential(s)' \in Int
<1> DEFINE C == Cardinality(Copies(queue[s]))
           T == Cardinality(Tries(queue[s]))
           A == Cardinality(ActiveOn(task, s))
           H == Cardinality(TriesOf(task, s))
           A2 == Cardinality(ActiveOn(task', s))
           H2 == Cardinality(TriesOf(task', s))
<1>0. task' = [task EXCEPT ![w] = v] /\ task \in [Workers -> Tasks] /\ task[w] \in Tasks
      /\ task' \in [Workers -> Tasks]
  BY DEF Holds, Types
<1>1. /\ C \in Nat /\ T \in Nat /\ A \in Nat /\ H \in Nat /\ attempts[s] \in Nat
  BY Sizes
<1>2. /\ A2 \in Nat /\ H2 \in Nat
      /\ A2 + Weighs(task[w], s) = A + Weighs(v, s)
      /\ H2 + Allows(task[w], s) = H + Allows(v, s)
  <2> DEFINE next == [task EXCEPT ![w] = v]
  <2>1. /\ Cardinality(ActiveOn(next, s)) \in Nat /\ Cardinality(TriesOf(next, s)) \in Nat
        /\ Cardinality(ActiveOn(next, s)) + Weighs(task[w], s) = A + Weighs(v, s)
        /\ Cardinality(TriesOf(next, s)) + Allows(task[w], s) = H + Allows(v, s)
    <3>1. task \in [Workers -> Tasks]
      BY <1>0
    <3> HIDE <1>0
    <3> QED BY <3>1, HeldMoves
  <2>2. next = task'
    BY <1>0
  <2> HIDE DEF next
  <2> QED BY <2>1, <2>2
<1>3. /\ Weighs(v, s) \in {0, 1} /\ Weighs(task[w], s) \in {0, 1}
      /\ Allows(v, s) \in Nat /\ Allows(task[w], s) \in Nat
      /\ Weighs(v, s) <= Weighs(task[w], s) /\ Allows(v, s) <= Allows(task[w], s)
  <2>1. /\ Weighs(v, s) \in {0, 1} /\ Weighs(task[w], s) \in {0, 1}
        /\ Allows(v, s) \in Nat /\ Allows(task[w], s) \in Nat
        /\ v.pc \in {"idle", "ack"} => Weighs(v, s) = 0 /\ Allows(v, s) = 0
    BY <1>0, Weights
  <2> QED BY <2>1
<1>4. A2 <= A /\ H2 <= H
  BY <1>1, <1>2, <1>3
<1>5. /\ IsFiniteSet(Copies(queue'[s])) /\ IsFiniteSet(Tries(queue'[s]))
      /\ Live(s)' = C + 1 + A2
      /\ Potential(s)' = attempts[s] + T + (PerMessage - r) + H2
  BY <1>0, <1>2, <1>4, PublishTurn
<1>6. Live(s) = C + A /\ Potential(s) = attempts[s] + T + H
  BY DEF Live, Potential
<1>7. PerMessage - r \in Int
  BY ScanAssumption DEF PerMessage, Retries
<1> HIDE DEF C, T, A, H, A2, H2
<1>8. /\ Live(s)' + Weighs(task[w], s) = Live(s) + 1 + Weighs(v, s)
      /\ Potential(s)' + Allows(task[w], s) = Potential(s) + (PerMessage - r) + Allows(v, s)
      /\ Live(s) \in Nat /\ Live(s)' \in Nat /\ Potential(s) \in Nat /\ Potential(s)' \in Int
  <2> DEFINE L == Live(s)
             M == Live(s)'
             P == Potential(s)
             Q == Potential(s)'
             k == PerMessage - r
             at == attempts[s]
             x == Weighs(task[w], s)
             y == Weighs(v, s)
             a == Allows(task[w], s)
             b == Allows(v, s)
  <2>1. /\ C \in Nat /\ T \in Nat /\ A \in Nat /\ H \in Nat /\ A2 \in Nat /\ H2 \in Nat
        /\ at \in Nat /\ k \in Int /\ x \in Int /\ y \in Int /\ a \in Int /\ b \in Int
    BY <1>1, <1>2, <1>3, <1>7
  <2>2. /\ L = C + A /\ M = C + 1 + A2 /\ P = at + T + H /\ Q = at + T + k + H2
        /\ A2 + x = A + y /\ H2 + a = H + b
    BY <1>2, <1>5, <1>6
  <2> HIDE DEF L, M, P, Q, k, at, x, y, a, b
  <2>3. M + x = L + 1 + y /\ L \in Nat /\ M \in Nat
    BY <2>1, <2>2
  <2>4. Q + a = P + k + b /\ P \in Nat /\ Q \in Int
    BY <2>1, <2>2
  <2> QED BY <2>3, <2>4 DEF L, M, P, Q, k, at, x, y, a, b
<1> QED BY <1>2, <1>5, <1>8 DEF C, A2

\* An analysis that concludes passes what it has left to its retry, or gives it up.
LEMMA ConcludeKeeps ==
    ASSUME Types, NEW w \in Workers, Conclude(w), NEW s \in Scans, Messages(s)
    PROVE  Messages(s)'
<1> DEFINE t == task[w]
<1>0. /\ t \in Tasks /\ t.scan \in Scans /\ t.pc = "conclude"
      /\ attempts' = attempts /\ redelivered' = redelivered /\ doubled' = doubled
      /\ attempts[s] \in Nat /\ job \in [Scans -> JobStates]
      /\ t.scan = s => job[s] # "absent"
  <2>1. t \in Tasks /\ t.pc = "conclude"
    BY DEF Types, Conclude, At
  <2> QED BY <2>1 DEF Messages, Tasks, Types, Conclude, History
<1>1. PICK v \in Tasks : /\ Holds(w, v) /\ v.scan = t.scan /\ v.retries = t.retries
                         /\ v.pc = "ack"
  BY Effects
<1>2. /\ Weighs(v, s) = 0 /\ Allows(v, s) = 0
      /\ Weighs(t, s) \in {0, 1} /\ Allows(t, s) \in Nat
      /\ t.scan = s => Weighs(t, s) = 1 /\ Allows(t, s) = PerMessage - (t.retries + 1)
  BY <1>0, <1>1, Weights DEF Steps
<1>3. CASE queue'[s] = queue[s] /\ (t.scan # s => job'[s] = job[s]) /\ job'[s] \in {job[s], "done", "failed"}
  <2>1. attempts'[s] \in Nat /\ attempts'[s] + Allows(v, s) <= attempts[s] + Allows(t, s)
    BY <1>0, <1>2
  <2>2. /\ job'[s] = "absent" => job[s] = "absent" /\ v.scan # s
        /\ \/ job'[s] \notin Finished
           \/ job[s] \in Finished
           \/ Weighs(t, s) = 1 /\ Weighs(v, s) = 0
    BY <1>0, <1>1, <1>2, <1>3
  <2> QED BY <1>0, <1>1, <1>2, <1>3, <2>1, <2>2, QuietTurn
<1>4. CASE t.scan = s /\ Publish(s, t.retries + 1) /\ job' = job /\ t.retries < MaxRetries
  <2>1. t.retries + 1 \in Retries /\ PerMessage - (t.retries + 1) \in Nat
    BY <1>0, <1>4, ScanAssumption DEF Tasks, Retries, PerMessage
  <2>2. /\ IsFiniteSet(Copies(queue'[s])) /\ IsFiniteSet(Tries(queue'[s]))
        /\ Live(s)' + Weighs(t, s) = Live(s) + 1 + Weighs(v, s)
        /\ Potential(s)' + Allows(t, s)
             = Potential(s) + (PerMessage - (t.retries + 1)) + Allows(v, s)
        /\ Live(s) \in Nat /\ Live(s)' \in Nat /\ Potential(s) \in Nat /\ Potential(s)' \in Int
    BY <1>0, <1>1, <1>4, <2>1, PublishedCounts
  <2>3. Live(s)' = Live(s) /\ Potential(s)' = Potential(s)
    <3>1. Weighs(t, s) = 1 /\ Weighs(v, s) = 0
      BY <1>2, <1>4
    <3>2. Live(s)' = Live(s)
      BY <2>2, <3>1
    <3> DEFINE k == PerMessage - (t.retries + 1)
    <3>3. Allows(t, s) = k /\ Allows(v, s) = 0 /\ k \in Nat
      BY <1>2, <1>4, <2>1
    <3>4. Potential(s)' + k = Potential(s) + k + 0
      BY <2>2, <3>3
    <3> HIDE DEF k
    <3>5. Potential(s)' = Potential(s)
      BY <2>2, <3>3, <3>4
    <3> QED BY <3>2, <3>5
  <2>4. job'[s] # "absent"
    BY <1>0, <1>4
  <2>5. ~ (s \notin doubled /\ job'[s] \in Finished)
    <3>1. Weighs(t, s) <= Cardinality(ActiveOn(task, s))
      BY <1>0, HeldMoves DEF Types
    <3> QED BY <1>2, <1>4, <3>1 DEF Messages
  <2>6. redelivered'[s] = redelivered[s]
    BY <1>0
  <2> QED BY <1>0, <2>2, <2>3, <2>4, <2>5, <2>6 DEF Messages
<1>5. CASE t.scan # s /\ Publish(t.scan, t.retries + 1) /\ job' = job
  <2>1. queue'[s] = queue[s]
    BY <1>0, <1>5 DEF Publish, Types
  <2> QED BY <1>3, <1>5, <2>1
<1>6. /\ t.scan # s /\ SetJob(t.scan, "done") => job'[s] = job[s]
      /\ t.scan # s /\ SetJob(t.scan, "failed") => job'[s] = job[s]
      /\ SetJob(t.scan, "done") => job'[s] \in {job[s], "done"}
      /\ SetJob(t.scan, "failed") => job'[s] \in {job[s], "failed"}
  BY <1>0 DEF SetJob
<1> QED BY <1>0, <1>3, <1>4, <1>5, <1>6 DEF Conclude

\* A worker that dies gives its message back: a new delivery.  The analysis keeps
\* a single live message if it had none but this one.
LEMMA CrashKeeps ==
    ASSUME Types, NEW w \in Workers, Crash(w), NEW s \in Scans, Messages(s)
    PROVE  Messages(s)'
<1> DEFINE t == task[w]
<1>0. /\ t \in Tasks /\ t.scan \in Scans /\ t.retries \in Retries /\ t.pc # "idle"
      /\ attempts' = attempts /\ job' = job /\ Publish(t.scan, t.retries)
      /\ redelivered' = [redelivered EXCEPT ![t.scan] = redelivered[t.scan] + 1]
      /\ doubled' = IF Waiting(t.scan) \/ Held(t.scan) # {w} THEN doubled \cup {t.scan} ELSE doubled
      /\ attempts[s] \in Nat
      /\ t.scan = s => job[s] # "absent"
  <2>1. t \in Tasks /\ t.pc # "idle"
    BY DEF Types, Crash, At
  <2> QED BY <2>1 DEF Messages, Tasks, Types, Crash
<1>1. Holds(w, Rest) /\ Rest \in Tasks /\ Rest.pc = "idle"
  BY Effects, RestType
<1>2. /\ Weighs(Rest, s) = 0 /\ Allows(Rest, s) = 0
      /\ Weighs(t, s) \in {0, 1} /\ Allows(t, s) \in Nat
      /\ PerMessage - t.retries \in Nat /\ PerMessage - t.retries <= PerMessage
      /\ PerMessage \in Nat
  BY <1>0, <1>1, Weights
<1>3. CASE t.scan # s
  <2>1. /\ queue'[s] = queue[s] /\ redelivered'[s] = redelivered[s]
        /\ s \in doubled' <=> s \in doubled
    BY <1>0, <1>3 DEF Publish, Types
  <2>2. Weighs(Rest, s) <= Weighs(t, s)
    BY <1>2
  <2>3. attempts'[s] \in Nat /\ attempts'[s] + Allows(Rest, s) <= attempts[s] + Allows(t, s)
    BY <1>0, <1>2
  <2> QED BY <1>0, <1>1, <2>1, <2>2, <2>3, QuietTurn
<1>4. CASE t.scan = s
  <2>1. /\ IsFiniteSet(Copies(queue'[s])) /\ IsFiniteSet(Tries(queue'[s]))
        /\ Cardinality(ActiveOn(task', s)) \in Nat
        /\ Live(s)' + Weighs(t, s) = Live(s) + 1 + Weighs(Rest, s)
        /\ Potential(s)' + Allows(t, s) = Potential(s) + (PerMessage - t.retries) + Allows(Rest, s)
        /\ Live(s)' = Cardinality(Copies(queue[s])) + 1 + Cardinality(ActiveOn(task', s))
        /\ Live(s) \in Nat /\ Live(s)' \in Nat /\ Potential(s) \in Nat /\ Potential(s)' \in Int
    BY <1>0, <1>1, <1>4, PublishedCounts
  <2>2. /\ redelivered[s] \in Nat /\ redelivered'[s] = redelivered[s] + 1
        /\ PerMessage * (1 + redelivered'[s]) = PerMessage * (1 + redelivered[s]) + PerMessage
        /\ PerMessage * (1 + redelivered[s]) \in Nat
    <3>1. redelivered[s] \in Nat /\ redelivered'[s] = redelivered[s] + 1
      BY <1>0, <1>4, Sizes DEF Types
    <3> QED BY <1>2, <3>1, NewDelivery, Sizes
  <2>3. Live(s)' <= Live(s) + 1 /\ Potential(s)' <= Potential(s) + PerMessage
    BY <1>2, <2>1
  <2>4. /\ Live(s)' <= 1 + redelivered'[s]
        /\ Potential(s)' <= PerMessage * (1 + redelivered'[s])
    <3>1. Live(s) <= 1 + redelivered[s] /\ Potential(s) <= PerMessage * (1 + redelivered[s])
      BY DEF Messages
    <3> QED BY <1>2, <2>1, <2>2, <2>3, <3>1
  <2>5. job'[s] # "absent"
    BY <1>0, <1>4
  <2>6. ASSUME s \notin doubled' PROVE Live(s)' <= 1 /\ Cardinality(ActiveOn(task', s)) = 0
    <3>1. ~ Waiting(s) /\ Held(s) = {w}
      BY <1>0, <1>4, <2>6
    <3>2. \A r \in Retries : ~ (queue[s][r] > 0)
      BY <3>1 DEF Waiting
    <3>3. \A u \in Workers : ~ Active(task'[u], s)
      <4>1. \A u \in Workers : u # w => task'[u] = task[u] /\ ~ (task[u].pc # "idle" /\ task[u].scan = s)
        BY <1>1, <3>1 DEF Held, Holds, Types
      <4> QED BY <1>1, <4>1 DEF Active, Steps, Holds, Types
    <3>4. queue[s] \in [Retries -> Nat] /\ task' \in [Workers -> Tasks]
      BY <1>1 DEF Types, Holds
    <3>5. Cardinality(Copies(queue[s])) = 0 /\ Cardinality(ActiveOn(task', s)) = 0
      BY <3>2, <3>3, <3>4, NothingLive
    <3> QED BY <2>1, <3>5
  <2> QED BY <2>1, <2>4, <2>5, <2>6 DEF Messages
<1> QED BY <1>3, <1>4

\* A message given out while its worker still runs is a new delivery, and the
\* analysis has had two messages out at a time.
LEMMA TimeoutKeeps ==
    ASSUME Types, NEW w \in Workers, VisibilityTimeout(w), NEW s \in Scans, Messages(s)
    PROVE  Messages(s)'
<1> DEFINE t == task[w]
<1>0. /\ t \in Tasks /\ t.scan \in Scans /\ t.retries \in Retries /\ t.pc # "idle"
      /\ attempts' = attempts /\ job' = job /\ Publish(t.scan, t.retries) /\ task' = task
      /\ redelivered' = [redelivered EXCEPT ![t.scan] = redelivered[t.scan] + 1]
      /\ doubled' = doubled \cup {t.scan}
      /\ attempts[s] \in Nat
      /\ t.scan = s => job[s] # "absent"
  <2>1. t \in Tasks /\ t.pc # "idle"
    BY DEF Types, VisibilityTimeout, At
  <2> QED BY <2>1 DEF Messages, Tasks, Types, VisibilityTimeout
<1>1. /\ Weighs(t, s) \in {0, 1} /\ Allows(t, s) \in Nat
      /\ PerMessage - t.retries \in Nat /\ PerMessage - t.retries <= PerMessage
      /\ PerMessage \in Nat
  BY <1>0, Weights
<1>2. CASE t.scan # s
  <2>1. /\ queue'[s] = queue[s] /\ redelivered'[s] = redelivered[s]
        /\ s \in doubled' <=> s \in doubled
    BY <1>0, <1>2 DEF Publish, Types
  <2> QED BY <1>0, <2>1, Untouched
<1>3. CASE t.scan = s
  <2>1. /\ IsFiniteSet(Copies(queue'[s])) /\ IsFiniteSet(Tries(queue'[s]))
        /\ Live(s)' + Weighs(t, s) = Live(s) + 1 + Weighs(t, s)
        /\ Potential(s)' + Allows(t, s) = Potential(s) + (PerMessage - t.retries) + Allows(t, s)
        /\ Live(s) \in Nat /\ Live(s)' \in Nat /\ Potential(s) \in Nat /\ Potential(s)' \in Int
    BY <1>0, <1>3, PublishedCounts
  <2>2. /\ redelivered[s] \in Nat /\ redelivered'[s] = redelivered[s] + 1
        /\ PerMessage * (1 + redelivered'[s]) = PerMessage * (1 + redelivered[s]) + PerMessage
        /\ PerMessage * (1 + redelivered[s]) \in Nat
    <3>1. redelivered[s] \in Nat /\ redelivered'[s] = redelivered[s] + 1
      BY <1>0, <1>3, Sizes DEF Types
    <3> QED BY <1>1, <3>1, NewDelivery, Sizes
  <2>3. Live(s)' <= Live(s) + 1 /\ Potential(s)' <= Potential(s) + PerMessage
    BY <1>1, <2>1
  <2>4. /\ Live(s)' <= 1 + redelivered'[s]
        /\ Potential(s)' <= PerMessage * (1 + redelivered'[s])
    <3>1. Live(s) <= 1 + redelivered[s] /\ Potential(s) <= PerMessage * (1 + redelivered[s])
      BY DEF Messages
    <3> QED BY <1>1, <2>1, <2>2, <2>3, <3>1
  <2>5. job'[s] # "absent" /\ s \in doubled'
    BY <1>0, <1>3
  <2> QED BY <2>1, <2>4, <2>5 DEF Messages
<1> QED BY <1>2, <1>3

\* Every step keeps what is known of the messages of every analysis.
LEMMA MessagesKept ==
    ASSUME Types, \A s \in Scans : Messages(s), Next
    PROVE  \A s \in Scans : Messages(s)'
<1> SUFFICES ASSUME NEW s \in Scans PROVE Messages(s)'
  OBVIOUS
<1>0. Messages(s)
  OBVIOUS
<1>1. ASSUME NEW x \in Scans, Trigger(x) \/ TriggerInitial(x) PROVE Messages(s)'
  BY <1>0, <1>1, TriggerKeeps
<1>2. ASSUME NEW w \in Workers, Step(w) PROVE Messages(s)'
  <2>1. ASSUME NEW x \in Scans, NEW r \in Retries, Receive(w, x, r) PROVE Messages(s)'
    BY <1>0, <2>1, ReceiveKeeps
  <2>2. CASE Conclude(w)
    BY <1>0, <2>2, ConcludeKeeps
  <2>3. CASE \/ MarkJobRunning(w)
             \/ \E n \in 0..MaxAssets : Begin(w, n)
             \/ \E outcome \in Costs \cup {"refused"} : ScanAsset(w, outcome)
             \/ RecordUsage(w)
             \/ MarkScanCooldown(w)
             \/ Ack(w)
    BY <1>0, <2>3, QuietKeeps
  <2> QED BY <1>2, <2>1, <2>2, <2>3 DEF Step
<1>3. ASSUME NEW w \in Workers, Crash(w) PROVE Messages(s)'
  BY <1>0, <1>3, CrashKeeps
<1>4. ASSUME NEW w \in Workers, VisibilityTimeout(w) PROVE Messages(s)'
  BY <1>0, <1>4, TimeoutKeeps
<1>5. CASE CooldownEnds
  <2>1. /\ queue'[s] = queue[s] /\ task' = task /\ job'[s] = job[s] /\ attempts'[s] = attempts[s]
        /\ redelivered'[s] = redelivered[s] /\ (s \in doubled' <=> s \in doubled)
    BY <1>5 DEF CooldownEnds, History
  <2> QED BY <1>0, <2>1, Untouched
<1> QED BY <1>1, <1>2, <1>3, <1>4, <1>5 DEF Next

-----------------------------------------------------------------------------
(* The inductive invariant and the theorems.                               *)

ScanInv ==
    /\ Types
    /\ RequestsAccounted
    /\ \A s \in Scans : Messages(s)

\* Before anything is asked for nothing is out and nothing was spent.
LEMMA ScanInit == Init => ScanInv
<1> SUFFICES ASSUME Init PROVE ScanInv
  OBVIOUS
<1>0. /\ 0 \in Retries /\ MaxRetries \in Nat /\ MaxAssets \in Nat /\ Budget \in Nat
      /\ MaxRedeliveries \in Nat /\ Rest \in Tasks /\ TaskFits(Rest) /\ Rest.pc = "idle"
      /\ Rest.count = 0
  BY ScanAssumption, RestType DEF Retries, Rest, Idle
<1>1. IsFiniteSet({}) /\ Cardinality({}) = 0
  BY FS_EmptySet
<1>2. Types
  <2>1. task \in [Workers -> Tasks] /\ \A w \in Workers : TaskFits(task[w])
    BY <1>0 DEF Init
  <2>2. /\ job \in [Scans -> JobStates]
        /\ \A s \in Scans : ~ HasJob(s) => job[s] \in {"absent", "rowless"}
    BY DEF Init, JobStates
  <2>3. /\ queue \in [Scans -> [Retries -> Nat]] /\ attempts \in [Scans -> Nat]
        /\ redelivered \in [Scans -> 0..MaxRedeliveries]
    BY <1>0 DEF Init
  <2>4. /\ usage \in Nat /\ recorded \in Nat /\ spent \in Nat /\ lost \in Nat
        /\ spent <= Budget /\ doubled \in SUBSET Scans
    BY <1>0 DEF Init
  <2>5. cooldown \in BOOLEAN
    BY DEF Init
  <2> QED BY <1>0, <2>1, <2>2, <2>3, <2>4, <2>5 DEF Types
<1>3. RequestsAccounted
  <2>1. Unrecorded = {}
    BY <1>0 DEF Unrecorded, Init
  <2>2. spent = 0 /\ recorded = 0 /\ lost = 0
    BY DEF Init
  <2> QED BY <1>1, <2>1, <2>2 DEF RequestsAccounted
<1>4. ASSUME NEW s \in Scans PROVE Messages(s)
  <2>1. \A r \in Retries : queue[s][r] = 0
    BY DEF Init
  <2>2. Copies(queue[s]) = {} /\ Tries(queue[s]) = {}
    BY <2>1 DEF Copies, Tries, Pairs
  <2>3. \A w \in Workers : task[w] = Rest
    BY DEF Init
  <2>4. \A w \in Workers : ~ Active(task[w], s) /\ TriesLeft(task[w], s) = {}
    BY <1>0, <2>3 DEF Active, Steps, TriesLeft
  <2>5. ActiveOn(task, s) = {} /\ TriesOf(task, s) = {}
    BY <2>4 DEF ActiveOn, TriesOf, Pairs
  <2>6. job[s] = "absent" /\ attempts[s] = 0 /\ redelivered[s] = 0 /\ doubled = {}
    BY DEF Init
  <2>7. Live(s) = 0 /\ Potential(s) = 0
    BY <1>1, <2>2, <2>5, <2>6 DEF Live, Potential
  <2>8. PerMessage \in Nat /\ PerMessage * (1 + 0) = PerMessage
    BY <1>0 DEF PerMessage
  <2> QED BY <1>0, <1>1, <2>2, <2>3, <2>5, <2>6, <2>7, <2>8 DEF Messages, Finished
<1> QED BY <1>2, <1>3, <1>4 DEF ScanInv

\* The invariant is inductive.
LEMMA ScanStep == ScanInv /\ [Next]_vars => ScanInv'
<1> SUFFICES ASSUME ScanInv, [Next]_vars PROVE ScanInv'
  OBVIOUS
<1>1. CASE Next
  BY <1>1, TypesKept, RequestsStep, MessagesKept DEF ScanInv
<1>2. CASE UNCHANGED vars
  <2>1. /\ job' = job /\ queue' = queue /\ task' = task /\ usage' = usage /\ recorded' = recorded
        /\ cooldown' = cooldown /\ spent' = spent /\ lost' = lost /\ attempts' = attempts
        /\ redelivered' = redelivered /\ doubled' = doubled
    BY <1>2 DEF vars
  <2>2. Types'
    BY <2>1 DEF ScanInv, Types
  <2>3. RequestsAccounted'
    BY <2>1 DEF ScanInv, RequestsAccounted, Unrecorded
  <2>4. ASSUME NEW s \in Scans PROVE Messages(s)'
    BY <2>1, Untouched DEF ScanInv
  <2> QED BY <2>2, <2>3, <2>4 DEF ScanInv
<1> QED BY <1>1, <1>2

\* Between them the messages of an analysis that wait, the tasks that run and the
\* attempts made account for every bound of TypeOK and for AttemptsBounded.
LEMMA ScanBounds == ScanInv => AttemptsAccounted
<1> SUFFICES ASSUME ScanInv PROVE AttemptsAccounted
  OBVIOUS
<1>0. Types /\ RequestsAccounted /\ MaxRedeliveries \in Nat /\ Budget \in Nat
  BY ScanAssumption DEF ScanInv
<1>1. ASSUME NEW s \in Scans, NEW r \in Retries PROVE queue[s][r] \in 0..(1 + MaxRedeliveries)
  <2>1. Messages(s) /\ queue[s] \in [Retries -> Nat] /\ queue[s][r] \in Nat
    BY DEF ScanInv, Types
  <2>2. queue[s][r] <= Cardinality(Copies(queue[s]))
    BY <2>1, QueueMoves DEF Messages
  <2>3. /\ Cardinality(Copies(queue[s])) \in Nat /\ Cardinality(ActiveOn(task, s)) \in Nat
    BY <1>0, <2>1, Sizes
  <2>4. Cardinality(Copies(queue[s])) + Cardinality(ActiveOn(task, s)) <= 1 + redelivered[s]
    BY <2>1 DEF Messages, Live
  <2>5. redelivered[s] \in Nat /\ redelivered[s] <= MaxRedeliveries
    BY <1>0 DEF Types
  <2> QED BY <1>0, <2>1, <2>2, <2>3, <2>4, <2>5
<1>2. ASSUME NEW s \in Scans PROVE attempts[s] <= (MaxRetries + 1) * (1 + redelivered[s])
  <2> DEFINE paid == PerMessage * (1 + redelivered[s])
             waiting == Cardinality(Tries(queue[s]))
             held == Cardinality(TriesOf(task, s))
  <2>1. Messages(s)
    BY DEF ScanInv
  <2>2. waiting \in Nat /\ held \in Nat /\ attempts[s] \in Nat /\ paid \in Nat
    BY <1>0, <2>1, Sizes
  <2>3. attempts[s] + waiting + held <= paid
    BY <2>1 DEF Messages, Potential
  <2> HIDE DEF paid, waiting, held
  <2>4. attempts[s] <= paid
    BY <2>2, <2>3
  <2> QED BY <2>4 DEF paid, PerMessage
<1>3. recorded \in 0..Budget /\ lost \in 0..Budget /\ spent \in 0..Budget
  <2> DEFINE Open == Cardinality(Unrecorded)
  <2>1. Open \in Nat
    <3>1. IsFiniteSet(Workers) /\ IsFiniteSet(1..MaxAssets)
      BY FS_Interval, ScanAssumption
    <3>2. IsFiniteSet(Workers \X (1..MaxAssets))
      BY <3>1, FS_Product
    <3>3. Unrecorded \subseteq Workers \X (1..MaxAssets)
      BY DEF Unrecorded
    <3> QED BY <3>2, <3>3, FS_Subset, FS_CardinalityType
  <2>2. spent = recorded + lost + Open
    BY <1>0 DEF RequestsAccounted
  <2>3. spent \in Nat /\ recorded \in Nat /\ lost \in Nat /\ spent <= Budget
    BY <1>0 DEF Types
  <2> HIDE DEF Open
  <2> QED BY <1>0, <2>1, <2>2, <2>3
<1>4. task \in [Workers -> [pc : {"idle", "mark", "begin", "scan", "cool", "conclude", "ack"},
                            scan : Scans, retries : Retries, left : 0..MaxAssets,
                            ok : 0..MaxAssets, count : 0..MaxAssets]]
  <2>1. Steps \cup {"idle", "ack"} = {"idle", "mark", "begin", "scan", "cool", "conclude", "ack"}
    BY DEF Steps
  <2> QED BY <1>0, <2>1 DEF Types, Tasks
<1>5. \A w \in Workers : ~ At(w, "scan") => task[w].left = 0 /\ task[w].count = 0
  BY <1>0 DEF Types, TaskFits, At
<1>6. TypeOK
  BY <1>0, <1>1, <1>3, <1>4, <1>5 DEF TypeOK, Types
<1> QED BY <1>0, <1>2, <1>6 DEF AttemptsAccounted, AttemptsBounded

\* A task that could change the job of an analysis that has ended, or attempt it
\* again, would count as active on it.
LEMMA NobodyActive ==
    ASSUME ScanInv, NEW s \in Scans \ doubled, job[s] \in Finished, NEW w \in Workers
    PROVE  ~ Active(task[w], s)
<1>1. Cardinality(ActiveOn(task, s)) = 0
  BY DEF ScanInv, Messages
<1>2. task \in [Workers -> Tasks] /\ task[w] \in Tasks
  BY DEF ScanInv, Types
<1>3. Weighs(task[w], s) <= 0
  BY <1>1, <1>2, HeldMoves
<1> QED BY <1>3 DEF Weighs

\* No step changes the job of an analysis that has ended, or attempts it again.
LEMMA FinishedKept ==
    ASSUME ScanInv, Next, NEW s \in Scans \ doubled, job[s] \in Finished
    PROVE  job'[s] = job[s] /\ attempts'[s] = attempts[s]
<1>0. /\ job \in [Scans -> JobStates] /\ attempts \in [Scans -> Nat]
      /\ job[s] # "absent"
  BY DEF ScanInv, Types, Finished
<1>1. ASSUME NEW x \in Scans, Trigger(x) \/ TriggerInitial(x)
      PROVE  job'[s] = job[s] /\ attempts'[s] = attempts[s]
  <2>1. /\ job[x] = "absent" /\ attempts' = attempts
        /\ \E status \in {"pending", "rowless"} : job' = [job EXCEPT ![x] = status]
    BY <1>1 DEF Trigger, TriggerInitial, History
  <2>2. s # x
    BY <1>0, <2>1
  <2> QED BY <1>0, <2>1, <2>2
<1>2. ASSUME NEW w \in Workers, task[w].pc \in Steps PROVE task[w].scan # s
  BY <1>2, NobodyActive DEF Active
<1>3. ASSUME NEW w \in Workers, Step(w)
      PROVE  job'[s] = job[s] /\ attempts'[s] = attempts[s]
  <2>1. CASE MarkJobRunning(w)
    BY <1>0, <1>2, <2>1 DEF MarkJobRunning, At, Steps, History
  <2>2. ASSUME NEW n \in 0..MaxAssets, Begin(w, n)
        PROVE  job'[s] = job[s] /\ attempts'[s] = attempts[s]
    <3>1. task[w].scan # s
      BY <1>2, <2>2 DEF Begin, At, Steps
    <3> QED BY <1>0, <2>2, <3>1 DEF Begin, SetJob
  <2>3. CASE Conclude(w)
    <3>1. task[w].scan # s
      BY <1>2, <2>3 DEF Conclude, At, Steps
    <3>2. attempts' = attempts
      BY <2>3 DEF Conclude, History
    <3>3. job' = job \/ \E status \in JobStates : SetJob(task[w].scan, status)
      BY <2>3 DEF Conclude, JobStates, Finished
    <3> QED BY <1>0, <3>1, <3>2, <3>3 DEF SetJob
  <2>4. CASE \/ \E x \in Scans, r \in Retries : Receive(w, x, r)
             \/ \E outcome \in Costs \cup {"refused"} : ScanAsset(w, outcome)
             \/ RecordUsage(w) \/ MarkScanCooldown(w) \/ Ack(w)
    <3>1. job' = job /\ attempts' = attempts
      BY <2>4 DEF Receive, ScanAsset, RecordUsage, MarkScanCooldown, Ack, History
    <3> QED BY <3>1
  <2> QED BY <1>3, <2>1, <2>2, <2>3, <2>4 DEF Step
<1>4. ASSUME NEW w \in Workers, Crash(w) \/ VisibilityTimeout(w)
      PROVE  job'[s] = job[s] /\ attempts'[s] = attempts[s]
  BY <1>4 DEF Crash, VisibilityTimeout
<1>5. CASE CooldownEnds
  BY <1>5 DEF CooldownEnds, History
<1> QED BY <1>1, <1>3, <1>4, <1>5 DEF Next

\* execute_scan and record_usage: every request the provider has counted is in the
\* usage rows, about to be, or lost with an asset or a worker that failed half way,
\* and an analysis is attempted at most max_retries + 1 times per delivery.
THEOREM AttemptsAreAccounted == Spec => []AttemptsAccounted
<1>1. Spec => []ScanInv
  BY ScanInit, ScanStep, PTL DEF Spec
<1> QED BY <1>1, ScanBounds, PTL

\* tasks.py, "a redelivery of an already-finished job is a no-op": as long as two
\* messages of an analysis were never out at the same time, its job keeps the status
\* it ended with and is not attempted again, whatever is delivered again.
THEOREM RedeliveryChangesNothing == Spec => RedeliveryIsNoOp
<1>1. Spec => []ScanInv
  BY ScanInit, ScanStep, PTL DEF Spec
<1>2. ScanInv /\ [Next]_vars =>
         [\A s \in Scans \ doubled :
             job[s] \in Finished => job'[s] = job[s] /\ attempts'[s] = attempts[s]]_vars
  BY FinishedKept
<1> QED BY <1>1, <1>2, PTL DEF Spec, RedeliveryIsNoOp
=============================================================================
