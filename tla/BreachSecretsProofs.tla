------------------------- MODULE BreachSecretsProofs -------------------------
(***************************************************************************)
(* Proofs about BreachSecrets, for any number of leaks, clients, processes *)
(* and keys: the keys open what the platform says it has, every secret     *)
(* shown was audited before, and what was purged is gone.                  *)
(***************************************************************************)
EXTENDS BreachSecrets, FiniteSetTheorems, TLAPS

-----------------------------------------------------------------------------
(* Keys.                                                                   *)

\* A list of keys holds one key, or the newest and the one before it: what heads
\* it and what it contains.
LEMMA KeyLists ==
    ASSUME NEW list \in Keys
    PROVE  /\ Head(list) \in Key
           /\ Head(list) \in Range(list)
           /\ Range(list) \subseteq Key
           /\ Empty \notin Range(list)
<1>1. ASSUME NEW k \in Key, list = <<k>>
      PROVE  Head(list) = k /\ Range(list) = {k}
  BY <1>1 DEF Range
<1>2. ASSUME NEW k \in 1..(MaxKey - 1), list = <<k + 1, k>>
      PROVE  Head(list) = k + 1 /\ Range(list) = {k, k + 1}
  BY <1>2 DEF Range
<1> QED BY <1>1, <1>2, SecretAssumption DEF Keys, Key, Empty

\* A new key in front of a single one, and the old one taken out.
LEMMA KeysChange ==
    ASSUME NEW k \in Key
    PROVE  /\ Head(<<k>>) = k /\ Range(<<k>>) = {k}
           /\ Head(<<k + 1, k>>) = k + 1 /\ Range(<<k + 1, k>>) = {k, k + 1}
<1>1. Range(<<k>>) = {k}
  BY DEF Range
<1>2. Range(<<k + 1, k>>) = {k, k + 1}
  BY DEF Range
<1> QED BY <1>1, <1>2

-----------------------------------------------------------------------------
(* Counting the requests at a phase.                                       *)

\* The processes whose request is at one of some phases, about leak f.
Handling(state, phases, f) == {p \in Procs : state[p].pc \in phases /\ state[p].leak = f}

\* There are finitely many of them.
LEMMA HandlingFinite ==
    ASSUME NEW state, NEW phases, NEW f
    PROVE  /\ IsFiniteSet(Handling(state, phases, f))
           /\ Cardinality(Handling(state, phases, f)) \in Nat
<1>1. Handling(state, phases, f) \subseteq Procs
  BY DEF Handling
<1> QED BY <1>1, SecretAssumption, FS_Subset, FS_CardinalityType

\* One step of one process moves it in or out, and nobody else.
LEMMA HandlingChange ==
    ASSUME NEW state, NEW next, NEW phases, NEW f, NEW p \in Procs,
           \A q \in Procs \ {p} : next[q] = state[q]
    PROVE  /\ p \in Handling(state, phases, f) /\ p \notin Handling(next, phases, f)
                => Cardinality(Handling(next, phases, f)) = Cardinality(Handling(state, phases, f)) - 1
           /\ p \notin Handling(state, phases, f) /\ p \in Handling(next, phases, f)
                => Cardinality(Handling(next, phases, f)) = Cardinality(Handling(state, phases, f)) + 1
           /\ (p \in Handling(state, phases, f) <=> p \in Handling(next, phases, f))
                => Handling(next, phases, f) = Handling(state, phases, f)
<1> DEFINE old == Handling(state, phases, f)
           new == Handling(next, phases, f)
<1>1. \A q \in Procs \ {p} : q \in old <=> q \in new
  BY DEF Handling
<1>2. old \subseteq Procs /\ new \subseteq Procs
  BY DEF Handling
<1>3. IsFiniteSet(old) /\ IsFiniteSet(new) /\ Cardinality(old) \in Nat /\ Cardinality(new) \in Nat
  BY HandlingFinite
<1>4. CASE p \in old /\ p \notin new
  <2>1. new = old \ {p}
    BY <1>1, <1>2, <1>4
  <2> QED BY <1>3, <1>4, <2>1, FS_RemoveElement
<1>5. CASE p \notin old /\ p \in new
  <2>1. new = old \cup {p}
    BY <1>1, <1>2, <1>5
  <2> QED BY <1>3, <1>5, <2>1, FS_AddElement
<1>6. CASE p \in old <=> p \in new
  BY <1>1, <1>2, <1>6
<1> QED BY <1>4, <1>5, <1>6

-----------------------------------------------------------------------------
(* Types, and the requests counted.                                        *)

\* No leak has more grants than there were requests, less those that are not
\* answered yet, nor more answers than grants, less those that are being written.
Counted ==
    \A f \in Leaks :
        /\ granted[f] + Cardinality(Handling(req, {"read", "decrypted"}, f)) <= attempts
        /\ shown[f] + Cardinality(Handling(req, {"audited"}, f)) <= granted[f]

\* The part of the state no purge, key or request can get out of its domain.
Requests == [pc : {"idle", "read", "decrypted", "audited"}, leak : Leaks,
             blob : {Empty} \cup Key, has : BOOLEAN, purged : BOOLEAN]

Rotations == [on : BOOLEAN, keys : Keys, read : [Leaks -> {Empty} \cup Key], failed : BOOLEAN]

\* What one row does to the state of the rotation keeps it in its domain.
LEMMA RotationStep ==
    ASSUME rot \in Rotations, NEW f \in Leaks
    PROVE  /\ [rot EXCEPT !.read[f] = Empty] \in Rotations
           /\ [rot EXCEPT !.read[f] = Empty, !.failed = TRUE] \in Rotations
<1>1. [rot.read EXCEPT ![f] = Empty] \in [Leaks -> {Empty} \cup Key]
  BY DEF Rotations
<1> QED BY <1>1 DEF Rotations

\* A ciphertext made with another key leaves the rest of the row alone.
LEMMA Recoded ==
    ASSUME NEW r \in Secret, NEW k \in Key
    PROVE  LET new == [r EXCEPT !.blob = k] IN
           new \in Secret /\ new.has = r.has /\ new.seen = r.seen /\ new.purged = r.purged /\ new.blob = k
BY DEF Secret

\* What the rotation does to the row of a leak, and to its own reading of it: only
\* the ciphertext changes, and only that of the leak in hand.
LEMMA RotateEffect ==
    ASSUME TypeOK, NEW f \in Leaks, RotateOne(f), NEW g \in Leaks
    PROVE  /\ row'[g] \in Secret
           /\ row'[g].has = row[g].has /\ row'[g].seen = row[g].seen /\ row'[g].purged = row[g].purged
           /\ row'[g].blob \in {row[g].blob, Head(rot.keys)}
           /\ g # f => row'[g].blob = row[g].blob /\ rot'.read[g] = rot.read[g]
           /\ g = f => rot'.failed \/ row'[g].blob = Head(rot.keys)
<1>1. /\ row[g] \in Secret
      /\ rot.keys \in Keys
      /\ rot = [on |-> rot.on, keys |-> rot.keys, read |-> rot.read, failed |-> rot.failed]
  BY DEF TypeOK
<1>2. Head(rot.keys) \in Key
  BY <1>1, KeyLists
<1>3. g # f => rot'.read[g] = rot.read[g]
  BY DEF TypeOK, RotateOne
<1>4. CASE Readable(rot.read[f], rot.keys)
  <2>1. row' = [row EXCEPT ![f] = [row[f] EXCEPT !.blob = Head(rot.keys)]]
    BY <1>4 DEF RotateOne, EncryptSecret, TypeOK
  <2>2. CASE g = f
    <3>1. row'[g] = [row[g] EXCEPT !.blob = Head(rot.keys)]
      BY <2>1, <2>2 DEF TypeOK
    <3> QED BY <1>1, <1>2, <2>2, <3>1, Recoded
  <2>3. CASE g # f
    <3>1. row'[g] = row[g]
      BY <2>1, <2>3 DEF TypeOK
    <3> QED BY <1>1, <1>3, <2>3, <3>1
  <2> QED BY <2>2, <2>3
<1>5. CASE ~ Readable(rot.read[f], rot.keys)
  <2>1. row' = row /\ rot'.failed
    BY <1>5 DEF RotateOne, TypeOK
  <2> QED BY <1>1, <1>3, <2>1
<1> QED BY <1>4, <1>5

LEMMA IdleType == AnyLeak \in Leaks /\ Idle(AnyLeak) \in Requests
BY SecretAssumption DEF AnyLeak, Idle, Requests, Empty

\* Types and counts, which keep each other: what is counted bounds the columns.
LEMMA TypesCounted == Spec => [](TypeOK /\ Counted)
<1>1. Init => TypeOK /\ Counted
  <2> SUFFICES ASSUME Init PROVE TypeOK /\ Counted
    OBVIOUS
  <2>1. Handling(req, {"read", "decrypted"}, AnyLeak) = {} 
    BY DEF Init, Handling, Idle
  <2>2. \A f \in Leaks : /\ Handling(req, {"read", "decrypted"}, f) = {}
                         /\ Handling(req, {"audited"}, f) = {}
    BY DEF Init, Handling, Idle
  <2>3. Cardinality({}) = 0
    BY FS_EmptySet
  <2>4. Counted
    BY <2>2, <2>3 DEF Counted, Init
  <2>5. <<1>> \in Keys
    BY SecretAssumption DEF Keys, Key
  <2>6. TypeOK
    BY <2>5, IdleType, SecretAssumption
    DEF Init, TypeOK, Secret, Unseen, NoRotation, Requests, Empty, Key
  <2> QED BY <2>4, <2>6
<1>2. TypeOK /\ Counted /\ [Next]_vars => TypeOK' /\ Counted'
  <2> SUFFICES ASSUME TypeOK, Counted, [Next]_vars PROVE TypeOK' /\ Counted'
    OBVIOUS
  <2> USE DEF TypeOK
  <2>k. \A p \in Procs : Head(keys[p]) \in Key
    BY KeyLists
  <2>c. UNCHANGED Reveals => Counted'
    BY DEF Counted, Reveals
  <2>1. ASSUME NEW p \in Procs, NEW f \in Leaks, NEW s \in BOOLEAN, Ingest(p, f, s)
        PROVE  TypeOK' /\ Counted'
    <3>1. row' \in [Leaks -> Secret]
      BY <2>1, <2>k, SecretAssumption DEF Ingest, Secret, EncryptSecret, Empty
    <3>2. \A g \in Leaks : row'[g].has => row'[g].seen /\ row'[g].blob # Empty
      BY <2>1, <2>k DEF Ingest, Secret, EncryptSecret, Empty, Key
    <3> QED BY <2>1, <2>c, <3>1, <3>2 DEF Ingest, Operations, Reveals
  <2>2. CASE Day
    <3>1. row' \in [Leaks -> Secret]
      <4>1. ASSUME NEW f \in Leaks PROVE row'[f] \in Secret
        BY <2>2, SecretAssumption DEF Day, Secret
      <4> QED BY <2>2, <4>1 DEF Day
    <3>2. \A f \in Leaks : row'[f].has => row'[f].seen /\ row'[f].blob # Empty
      BY <2>2 DEF Day, Secret
    <3> QED BY <2>2, <2>c, <3>1, <3>2 DEF Day, Operations, Reveals
  <2>3. ASSUME NEW S \in SUBSET Leaks, Purge(S) PROVE TypeOK' /\ Counted'
    <3>1. row' \in [Leaks -> Secret]
      <4>1. ASSUME NEW f \in Leaks PROVE row'[f] \in Secret
        <5>1. \/ row'[f] = row[f]
              \/ row'[f] = [row[f] EXCEPT !.blob = Empty, !.has = FALSE, !.purged = TRUE]
          BY <2>3 DEF Purge, Purged
        <5> QED BY <5>1 DEF Secret
      <4> QED BY <2>3, <4>1 DEF Purge, Purged
    <3>2. \A f \in Leaks : row'[f].has => row'[f].seen /\ row'[f].blob # Empty
      BY <2>3 DEF Purge, Purged, Secret
    <3> QED BY <2>3, <2>c, <3>1, <3>2 DEF Purge, Operations, Reveals
  <2>4. CASE AddKey
    <3>1. config' \in Keys
      BY <2>4, KeyLists, SecretAssumption DEF AddKey, Keys, Key
    <3> QED BY <2>4, <2>c, <3>1 DEF AddKey, Secrets, Reveals
  <2>5. CASE RetireKey
    BY <2>5, <2>c, KeyLists DEF RetireKey, Secrets, Reveals, Keys
  <2>6. ASSUME NEW p \in Procs, Restart(p) PROVE TypeOK' /\ Counted'
    <3>1. \A q \in Procs \ {p} : req'[q] = req[q]
      BY <2>6 DEF Restart
    <3>2. ASSUME NEW f \in Leaks, NEW phases, "idle" \notin phases
          PROVE  /\ Cardinality(Handling(req', phases, f)) <= Cardinality(Handling(req, phases, f))
                 /\ Cardinality(Handling(req', phases, f)) \in Nat
                 /\ Cardinality(Handling(req, phases, f)) \in Nat
      <4>1. p \notin Handling(req', phases, f)
        BY <2>6, <3>2 DEF Restart, Handling, Idle
      <4>2. /\ Cardinality(Handling(req', phases, f)) \in Nat
            /\ Cardinality(Handling(req, phases, f)) \in Nat
        BY HandlingFinite
      <4>3. /\ p \in Handling(req, phases, f) =>
                 Cardinality(Handling(req', phases, f)) = Cardinality(Handling(req, phases, f)) - 1
            /\ p \notin Handling(req, phases, f) => Handling(req', phases, f) = Handling(req, phases, f)
        BY <3>1, <4>1, HandlingChange
      <4> QED BY <4>2, <4>3
    <3>4. Counted'
      <4> SUFFICES ASSUME NEW f \in Leaks
                   PROVE  /\ granted[f] + Cardinality(Handling(req', {"read", "decrypted"}, f)) <= attempts
                          /\ shown[f] + Cardinality(Handling(req', {"audited"}, f)) <= granted[f]
        BY <2>6 DEF Counted, Restart
      <4>1. "idle" \notin {"read", "decrypted"} /\ "idle" \notin {"audited"}
        OBVIOUS
      <4> QED BY <3>2, <4>1 DEF Counted
    <3>5. req' \in [Procs -> Requests]
      BY <2>6, IdleType DEF Restart, Requests
    <3> QED BY <2>6, <3>4, <3>5 DEF Restart, Secrets, Requests
  <2>7. CASE RotateStart
    BY <2>7, <2>c DEF RotateStart, Secrets, Reveals, Secret
  <2>8. ASSUME NEW f \in Leaks, RotateOne(f) PROVE TypeOK' /\ Counted'
    <3>1. EncryptSecret(rot.keys) \in Key /\ EncryptSecret(rot.keys) # Empty
      BY KeyLists DEF EncryptSecret, Key, Empty
    <3>2. ASSUME NEW g \in Leaks
          PROVE  row'[g] \in Secret /\ (row'[g].has => row'[g].seen /\ row'[g].blob # Empty)
      BY <2>8, <3>1, RotateEffect DEF EncryptSecret
    <3>4. row' \in [Leaks -> Secret]
      BY <2>8, <3>2 DEF RotateOne
    <3>6. rot \in Rotations
      BY DEF Rotations
    <3>7. rot' \in Rotations
      BY <2>8, <3>6, RotationStep DEF RotateOne
    <3> QED BY <2>8, <2>c, <3>2, <3>4, <3>7 DEF RotateOne, Reveals, Rotations
  <2>9. CASE RotateEnd \/ RotateInterrupted
    <3>1. <<1>> \in Keys
      BY SecretAssumption DEF Keys, Key
    <3>2. rot' \in Rotations
      <4>1. NoRotation \in Rotations
        BY <3>1 DEF NoRotation, Rotations
      <4> QED BY <2>9, <4>1 DEF RotateEnd, RotateInterrupted
    <3> QED BY <2>9, <2>c, <3>2 DEF Rotations, RotateEnd, RotateInterrupted, Secrets, Reveals
  <2>10. ASSUME NEW p \in Procs, RevealRefused(p) PROVE TypeOK' /\ Counted'
    <3>1. \A f \in Leaks : Cardinality(Handling(req, {"read", "decrypted"}, f)) \in Nat
      BY HandlingFinite
    <3>2. Counted'
      BY <2>10, <3>1, SecretAssumption DEF RevealRefused, Counted
    <3> QED BY <2>10, <3>2, SecretAssumption DEF RevealRefused, Secrets, Operations
  <2>a. ASSUME NEW p \in Procs, NEW f \in Leaks, RevealRead(p, f) PROVE TypeOK' /\ Counted'
    <3>1. req' \in [Procs -> Requests]
      BY <2>a DEF RevealRead, Secret, Requests
    <3>2. Counted'
      <4> SUFFICES ASSUME NEW g \in Leaks
                   PROVE  /\ granted[g] + Cardinality(Handling(req', {"read", "decrypted"}, g)) <= attempts + 1
                          /\ shown[g] + Cardinality(Handling(req', {"audited"}, g)) <= granted[g]
        BY <2>a DEF Counted, RevealRead
      <4>1. \A q \in Procs \ {p} : req'[q] = req[q]
        BY <2>a DEF RevealRead
      <4>2. /\ p \notin Handling(req, {"read", "decrypted"}, g)
            /\ p \notin Handling(req, {"audited"}, g) /\ p \notin Handling(req', {"audited"}, g)
        BY <2>a DEF RevealRead, Handling
      <4>3. Cardinality(Handling(req', {"audited"}, g)) = Cardinality(Handling(req, {"audited"}, g))
        BY <4>1, <4>2, HandlingChange
      <4>4. /\ Cardinality(Handling(req', {"read", "decrypted"}, g))
                 <= Cardinality(Handling(req, {"read", "decrypted"}, g)) + 1
        <5>1. \/ Cardinality(Handling(req', {"read", "decrypted"}, g))
                   = Cardinality(Handling(req, {"read", "decrypted"}, g)) + 1
              \/ Handling(req', {"read", "decrypted"}, g) = Handling(req, {"read", "decrypted"}, g)
          <6>1. CASE p \in Handling(req', {"read", "decrypted"}, g)
            BY <4>1, <4>2, <6>1, HandlingChange
          <6>2. CASE p \notin Handling(req', {"read", "decrypted"}, g)
            BY <4>1, <4>2, <6>2, HandlingChange
          <6> QED BY <6>1, <6>2
        <5> QED BY <5>1, HandlingFinite
      <4>5. Cardinality(Handling(req', {"read", "decrypted"}, g)) \in Nat
            /\ Cardinality(Handling(req, {"read", "decrypted"}, g)) \in Nat
        BY HandlingFinite
      <4> QED BY <4>3, <4>4, <4>5 DEF Counted
    <3>3. attempts' \in 0..MaxReveals
      BY <2>a, SecretAssumption DEF RevealRead
    <3> QED BY <2>a, <3>1, <3>2, <3>3 DEF RevealRead, Requests, Secrets, Operations
  <2>b. ASSUME NEW p \in Procs, RevealDecrypt(p) PROVE TypeOK' /\ Counted'
    <3>1. req' \in [Procs -> Requests]
      BY <2>b, IdleType DEF RevealDecrypt, Answer, Requests
    <3>2. Counted'
      <4> SUFFICES ASSUME NEW g \in Leaks
                   PROVE  /\ granted[g] + Cardinality(Handling(req', {"read", "decrypted"}, g)) <= attempts
                          /\ shown[g] + Cardinality(Handling(req', {"audited"}, g)) <= granted[g]
        BY <2>b DEF Counted, RevealDecrypt
      <4>1. \A q \in Procs \ {p} : req'[q] = req[q]
        BY <2>b DEF RevealDecrypt, Answer
      <4>2. /\ p \in Handling(req', {"read", "decrypted"}, g) => p \in Handling(req, {"read", "decrypted"}, g)
            /\ p \notin Handling(req, {"audited"}, g) /\ p \notin Handling(req', {"audited"}, g)
        BY <2>b DEF RevealDecrypt, Answer, Idle, Handling
      <4>3. Cardinality(Handling(req', {"audited"}, g)) = Cardinality(Handling(req, {"audited"}, g))
        BY <4>1, <4>2, HandlingChange
      <4>4. Cardinality(Handling(req', {"read", "decrypted"}, g)) \in Nat
            /\ Cardinality(Handling(req, {"read", "decrypted"}, g)) \in Nat
        BY HandlingFinite
      <4>5. Cardinality(Handling(req', {"read", "decrypted"}, g))
               <= Cardinality(Handling(req, {"read", "decrypted"}, g))
        <5>1. CASE p \in Handling(req, {"read", "decrypted"}, g) <=> p \in Handling(req', {"read", "decrypted"}, g)
          BY <4>1, <4>4, <5>1, HandlingChange
        <5>2. CASE p \in Handling(req, {"read", "decrypted"}, g) /\ p \notin Handling(req', {"read", "decrypted"}, g)
          BY <4>1, <4>4, <5>2, HandlingChange
        <5> QED BY <4>2, <5>1, <5>2
      <4> QED BY <4>3, <4>4, <4>5 DEF Counted
    <3> QED BY <2>b, <3>1, <3>2 DEF RevealDecrypt, Requests, Secrets, Operations
  <2>d. ASSUME NEW p \in Procs, RevealAudit(p) PROVE TypeOK' /\ Counted'
    <3>1. req' \in [Procs -> Requests]
      BY <2>d DEF RevealAudit, Requests
    <3>2. ASSUME NEW g \in Leaks
          PROVE  /\ granted'[g] \in Nat
                 /\ granted'[g] + Cardinality(Handling(req', {"read", "decrypted"}, g)) <= attempts
                 /\ shown[g] + Cardinality(Handling(req', {"audited"}, g)) <= granted'[g]
      <4>1. \A q \in Procs \ {p} : req'[q] = req[q]
        BY <2>d DEF RevealAudit
      <4>2. /\ p \in Handling(req, {"read", "decrypted"}, g) <=> g = req[p].leak
            /\ p \notin Handling(req', {"read", "decrypted"}, g)
            /\ p \notin Handling(req, {"audited"}, g)
            /\ p \in Handling(req', {"audited"}, g) <=> g = req[p].leak
        BY <2>d DEF RevealAudit, Handling
      <4>3. /\ Cardinality(Handling(req, {"read", "decrypted"}, g)) \in Nat
            /\ Cardinality(Handling(req, {"audited"}, g)) \in Nat
        BY HandlingFinite
      <4>4. CASE g = req[p].leak
        <5>1. Cardinality(Handling(req', {"read", "decrypted"}, g))
                 = Cardinality(Handling(req, {"read", "decrypted"}, g)) - 1
          <6>1. p \in Handling(req, {"read", "decrypted"}, g) /\ p \notin Handling(req', {"read", "decrypted"}, g)
            BY <4>2, <4>4
          <6> QED BY <4>1, <6>1, HandlingChange
        <5>2. Cardinality(Handling(req', {"audited"}, g)) = Cardinality(Handling(req, {"audited"}, g)) + 1
          <6>1. p \notin Handling(req, {"audited"}, g) /\ p \in Handling(req', {"audited"}, g)
            BY <4>2, <4>4
          <6> QED BY <4>1, <6>1, HandlingChange
        <5>3. granted'[g] = granted[g] + 1
          BY <2>d, <4>4 DEF RevealAudit
        <5> QED BY <4>3, <5>1, <5>2, <5>3 DEF Counted
      <4>5. CASE g # req[p].leak
        <5>1. /\ Handling(req', {"read", "decrypted"}, g) = Handling(req, {"read", "decrypted"}, g)
              /\ Handling(req', {"audited"}, g) = Handling(req, {"audited"}, g)
          BY <4>1, <4>2, <4>5, HandlingChange
        <5>2. granted'[g] = granted[g]
          BY <2>d, <4>5 DEF RevealAudit
        <5> QED BY <5>1, <5>2 DEF Counted
      <4> QED BY <4>4, <4>5
    <3>3. Counted'
      BY <2>d, <3>2 DEF RevealAudit, Counted
    <3>4. granted' \in [Leaks -> 0..MaxReveals]
      <4>1. \A g \in Leaks : Cardinality(Handling(req', {"read", "decrypted"}, g)) \in Nat
        BY HandlingFinite
      <4>2. \A g \in Leaks : granted'[g] \in 0..MaxReveals
        BY <3>2, <4>1, SecretAssumption
      <4> QED BY <2>d, <4>2 DEF RevealAudit
    <3> QED BY <2>d, <3>1, <3>3, <3>4 DEF RevealAudit, Requests, Secrets, Operations
  <2>e. ASSUME NEW p \in Procs, RevealRespond(p) PROVE TypeOK' /\ Counted'
    <3>1. req' \in [Procs -> Requests]
      BY <2>e, IdleType DEF RevealRespond, Answer, Requests
    <3>2. ASSUME NEW g \in Leaks
          PROVE  /\ shown'[g] \in Nat
                 /\ granted[g] + Cardinality(Handling(req', {"read", "decrypted"}, g)) <= attempts
                 /\ shown'[g] + Cardinality(Handling(req', {"audited"}, g)) <= granted[g]
      <4>1. \A q \in Procs \ {p} : req'[q] = req[q]
        BY <2>e DEF RevealRespond, Answer
      <4>2. /\ p \notin Handling(req, {"read", "decrypted"}, g)
            /\ p \notin Handling(req', {"read", "decrypted"}, g)
            /\ p \in Handling(req, {"audited"}, g) <=> g = req[p].leak
            /\ p \notin Handling(req', {"audited"}, g)
        BY <2>e DEF RevealRespond, Answer, Idle, Handling
      <4>3. Cardinality(Handling(req, {"audited"}, g)) \in Nat
        BY HandlingFinite
      <4>4. Handling(req', {"read", "decrypted"}, g) = Handling(req, {"read", "decrypted"}, g)
        BY <4>1, <4>2, HandlingChange
      <4>5. CASE g = req[p].leak
        <5>1. Cardinality(Handling(req', {"audited"}, g)) = Cardinality(Handling(req, {"audited"}, g)) - 1
          BY <4>1, <4>2, <4>5, HandlingChange
        <5>2. shown'[g] = shown[g] + 1
          BY <2>e, <4>5 DEF RevealRespond
        <5> QED BY <4>3, <4>4, <5>1, <5>2 DEF Counted
      <4>6. CASE g # req[p].leak
        <5>1. Handling(req', {"audited"}, g) = Handling(req, {"audited"}, g)
          BY <4>1, <4>2, <4>6, HandlingChange
        <5>2. shown'[g] = shown[g]
          BY <2>e, <4>6 DEF RevealRespond
        <5> QED BY <4>4, <5>1, <5>2 DEF Counted
      <4> QED BY <4>5, <4>6
    <3>3. Counted'
      BY <2>e, <3>2 DEF RevealRespond, Counted
    <3>4. shown' \in [Leaks -> 0..MaxReveals]
      <4>1. \A g \in Leaks : Cardinality(Handling(req', {"audited"}, g)) \in Nat
        BY HandlingFinite
      <4>2. \A g \in Leaks : shown'[g] \in 0..MaxReveals
        BY <3>2, <4>1, SecretAssumption
      <4> QED BY <2>e, <4>2 DEF RevealRespond
    <3> QED BY <2>e, <3>1, <3>3, <3>4 DEF RevealRespond, Requests, Secrets, Operations
  <2>f. CASE UNCHANGED vars
    BY <2>f, <2>c DEF vars, Reveals
  <2>g. (\E t \in Tenants : PurgeTenantSecrets(t)) \/ PurgeExpiredSecrets => TypeOK' /\ Counted'
    BY <2>3, SecretAssumption DEF PurgeTenantSecrets, PurgeExpiredSecrets
  <2> QED BY <2>1, <2>2, <2>g, <2>4, <2>5, <2>6, <2>7, <2>8, <2>9, <2>10, <2>a, <2>b, <2>d,
             <2>e, <2>f DEF Next
<1>3. QED
  BY <1>1, <1>2, PTL DEF Spec

-----------------------------------------------------------------------------
(* The three safety properties.                                            *)

\* A secret that leaves the platform was granted before, in a row of the audit,
\* even when the process died while it answered (BreachFindingRevealView).
THEOREM ShownWasAudited == Spec => []AuditedBeforeShown
<1>1. TypeOK /\ Counted => AuditedBeforeShown
  <2> SUFFICES ASSUME TypeOK, Counted, NEW f \in Leaks PROVE shown[f] <= granted[f]
    BY DEF AuditedBeforeShown
  <2>1. Cardinality(Handling(req, {"audited"}, f)) \in Nat
    BY HandlingFinite
  <2> QED BY <2>1 DEF Counted, TypeOK
<1> QED BY <1>1, TypesCounted, PTL

\* What a purge leaves: no ciphertext, but for the one a rotation read before; and
\* the requests that read the row after it know that it was purged.
PurgedForGood ==
    /\ \A f \in Leaks : row[f].has => ~ row[f].purged
    /\ \A f \in Leaks : row[f].purged => row[f].seen
    /\ \A f \in Leaks \ overtaken :
          row[f].purged => row[f].blob = Empty /\ rot.read[f] = Empty
    /\ \A p \in Procs : req[p].pc = "read" /\ req[p].has => ~ req[p].purged
    /\ PurgedNotRevealed

\* A purge is final for the client: neither an ingestion nor a rotation that starts
\* after it brings the secret back, and no request that reads the row after it
\* decrypts anything (purge_expired_secrets, purge_tenant_secrets).
THEOREM PurgeIsFinal == Spec => []PurgedIsGone
<1>1. Init => PurgedForGood
  BY DEF Init, PurgedForGood, PurgedNotRevealed, Unseen, NoRotation, Idle
<1>2. TypeOK /\ PurgedForGood /\ [Next]_vars => PurgedForGood'
  <2> SUFFICES ASSUME TypeOK, PurgedForGood, [Next]_vars PROVE PurgedForGood'
    OBVIOUS
  <2> USE DEF TypeOK, PurgedForGood, PurgedNotRevealed
  <2>1. ASSUME NEW p \in Procs, NEW f \in Leaks, NEW s \in BOOLEAN, Ingest(p, f, s)
        PROVE  PurgedForGood'
    BY <2>1 DEF Ingest, Operations, Reveals
  <2>2. CASE Day
    BY <2>2 DEF Day, Operations, Reveals
  <2>3. ASSUME NEW S \in SUBSET Leaks, Purge(S) PROVE PurgedForGood'
    <3>1. ASSUME NEW f \in Leaks
          PROVE  \/ row'[f] = row[f]
                 \/ /\ f \in S /\ row[f].has
                    /\ row'[f].blob = Empty /\ ~ row'[f].has /\ row'[f].purged /\ row'[f].seen
      BY <2>3 DEF Purge, Purged, Secret
    <3>2. /\ UNCHANGED <<rot, req>>
          /\ overtaken' = overtaken \cup {f \in S : row[f].has /\ rot.read[f] # Empty}
      BY <2>3 DEF Purge, Operations, Reveals
    <3> QED BY <3>1, <3>2
  <2>4. CASE AddKey \/ RetireKey
    BY <2>4 DEF AddKey, RetireKey, Secrets, Reveals
  <2>5. ASSUME NEW p \in Procs, Restart(p) PROVE PurgedForGood'
    BY <2>5 DEF Restart, Secrets, Idle
  <2>6. CASE RotateStart
    BY <2>6 DEF RotateStart, Secrets, Reveals
  <2>7. ASSUME NEW f \in Leaks, RotateOne(f) PROVE PurgedForGood'
    <3>1. /\ row[f].purged => f \in overtaken
          /\ UNCHANGED <<overtaken, req>>
      BY <2>7 DEF RotateOne, Reveals
    <3>2. ASSUME NEW g \in Leaks
          PROVE  /\ row'[g].has = row[g].has /\ row'[g].purged = row[g].purged
                 /\ row'[g].seen = row[g].seen
                 /\ g # f => row'[g].blob = row[g].blob /\ rot'.read[g] = rot.read[g]
      BY <2>7, RotateEffect
    <3> QED BY <3>1, <3>2
  <2>8. CASE RotateEnd \/ RotateInterrupted
    BY <2>8 DEF RotateEnd, RotateInterrupted, NoRotation, Secrets, Reveals
  <2>9. ASSUME NEW p \in Procs, NEW f \in Leaks, RevealRead(p, f) PROVE PurgedForGood'
    BY <2>9 DEF RevealRead, Secrets, Operations
  <2>10. ASSUME NEW p \in Procs, RevealDecrypt(p) PROVE PurgedForGood'
    BY <2>10 DEF RevealDecrypt, Revealable, Answer, Idle, Secrets, Operations
  <2>11. ASSUME NEW p \in Procs, RevealRefused(p) \/ RevealAudit(p) \/ RevealRespond(p)
         PROVE  PurgedForGood'
    <3>1. UNCHANGED <<row, overtaken, rot>>
      BY <2>11 DEF RevealRefused, RevealAudit, RevealRespond, Secrets, Operations
    <3>2. ASSUME NEW q \in Procs
          PROVE  \/ req'[q] = req[q]
                 \/ req'[q].pc = "idle"
                 \/ /\ req[q].pc = "decrypted" /\ req'[q].pc = "audited"
                    /\ req'[q].purged = req[q].purged
      BY <2>11 DEF RevealRefused, RevealAudit, RevealRespond, Answer, Idle
    <3> QED BY <3>1, <3>2
  <2>12. CASE UNCHANGED vars
    BY <2>12 DEF vars
  <2>13. (\E t \in Tenants : PurgeTenantSecrets(t)) \/ PurgeExpiredSecrets => PurgedForGood'
    BY <2>3, SecretAssumption DEF PurgeTenantSecrets, PurgeExpiredSecrets
  <2> QED BY <2>1, <2>2, <2>13, <2>4, <2>5, <2>6, <2>7, <2>8, <2>9, <2>10, <2>11, <2>12 DEF Next
<1>3. TypeOK /\ PurgedForGood => PurgedIsGone
  BY DEF TypeOK, PurgedForGood, PurgedIsGone, GoneUnlessOvertaken
<1> QED BY <1>1, <1>2, <1>3, TypesCounted, PTL DEF Spec

\* Which keys are where during the procedure: every process encrypts with a key of
\* the environment; while the command runs all of them have its list; what it has
\* written, and what is ingested meanwhile, is under the new key, so that nothing
\* is left under the old one when the old one is taken out.
KeysInOrder ==
    /\ phase = "steady" => \E k \in Key : config = <<k>>
    /\ phase # "steady" => \E k \in 1..(MaxKey - 1) : config = <<k + 1, k>>
    /\ \A p \in Procs : Head(keys[p]) \in Range(config)
    /\ \A f \in Leaks : row[f].has => row[f].blob \in Range(config)
    /\ rot.on => rot.keys = config /\ \A p \in Procs : keys[p] = config
    /\ rot.on /\ phase = "added" /\ ~ rot.failed =>
          \A f \in Leaks : row[f].has => row[f].blob = Head(config) \/ rot.read[f] # Empty
    /\ phase = "rotated" =>
          /\ \A p \in Procs : Head(keys[p]) = Head(config)
          /\ \A f \in Leaks : row[f].has => row[f].blob = Head(config)

\* has_secret means that the ciphertext can be decrypted (BreachFinding), through
\* any number of rotations, interrupted or not.
THEOREM KeysOpenEverySecret == Spec => []SecretsReadable
<1>1. Init => KeysInOrder
  <2>1. 1 \in Key /\ Head(<<1>>) = 1 /\ Range(<<1>>) = {1}
    <3>1. 1 \in Key
      BY SecretAssumption DEF Key
    <3> QED BY <3>1, KeysChange
  <2> QED BY <2>1 DEF Init, KeysInOrder, Unseen, NoRotation
<1>2. TypeOK /\ KeysInOrder /\ [Next]_vars => KeysInOrder'
  <2> SUFFICES ASSUME TypeOK, KeysInOrder, [Next]_vars PROVE KeysInOrder'
    OBVIOUS
  <2>k. /\ config \in Keys /\ Head(config) \in Range(config) /\ Head(config) # Empty
        /\ phase \in {"steady", "added", "rotated"}
    BY KeyLists DEF TypeOK, Key, Empty
  <2> USE DEF KeysInOrder
  <2>1. ASSUME NEW p \in Procs, NEW f \in Leaks, NEW s \in BOOLEAN, Ingest(p, f, s)
        PROVE  KeysInOrder'
    BY <2>1 DEF TypeOK, Ingest, EncryptSecret, Operations
  <2>2. CASE Day
    BY <2>2 DEF TypeOK, Day, Secret, Operations
  <2>3. ASSUME NEW S \in SUBSET Leaks, Purge(S) PROVE KeysInOrder'
    BY <2>3 DEF TypeOK, Purge, Purged, Secret, Operations
  <2>4. CASE AddKey
    <3>1. PICK k \in Key : config = <<k>>
      BY <2>4 DEF AddKey
    <3>2. Head(config) = k /\ Range(config) = {k}
      BY <3>1, KeysChange
    <3>3. config' = <<k + 1, k>> /\ k \in 1..(MaxKey - 1)
      BY <2>4, <3>1, <3>2, SecretAssumption DEF AddKey, Key
    <3>4. Range(config') = {k + 1, k}
      BY <3>1, <3>3, KeysChange
    <3>5. phase' = "added" /\ ~ rot'.on /\ UNCHANGED <<row, keys, rot>>
      BY <2>4 DEF AddKey, Secrets
    <3> QED BY <3>2, <3>3, <3>4, <3>5
  <2>5. CASE RetireKey
    <3>1. PICK k \in 1..(MaxKey - 1) : config = <<k + 1, k>>
      BY <2>5 DEF RetireKey
    <3>2. k \in Key /\ k + 1 \in Key
      BY SecretAssumption DEF Key
    <3>3. Head(config) = k + 1
      BY <3>1, <3>2, KeysChange
    <3>4. config' = <<k + 1>>
      BY <2>5, <3>3 DEF RetireKey
    <3>5. Range(config') = {k + 1}
      BY <3>2, <3>4, KeysChange
    <3>6. phase' = "steady" /\ ~ rot'.on /\ UNCHANGED <<row, keys, rot>>
      BY <2>5 DEF RetireKey, Secrets
    <3> QED BY <2>5, <3>2, <3>3, <3>4, <3>5, <3>6 DEF RetireKey
  <2>6. ASSUME NEW p \in Procs, Restart(p) PROVE KeysInOrder'
    BY <2>6, <2>k DEF TypeOK, Restart, Secrets
  <2>7. CASE RotateStart
    BY <2>7, <2>k DEF TypeOK, RotateStart, Secrets
  <2>8. ASSUME NEW f \in Leaks, RotateOne(f) PROVE KeysInOrder'
    <3>1. /\ rot.on /\ rot.keys = config /\ UNCHANGED <<config, keys, phase>>
          /\ rot'.on /\ rot'.keys = config
          /\ rot.failed => rot'.failed
      BY <2>8 DEF TypeOK, RotateOne
    <3>2. ASSUME NEW g \in Leaks
          PROVE  /\ row'[g].has = row[g].has
                 /\ row'[g].blob \in {row[g].blob, Head(config)}
                 /\ g # f => rot'.read[g] = rot.read[g]
                 /\ g = f => rot'.failed \/ row'[g].blob = Head(config)
      BY <2>8, <3>1, RotateEffect
    <3>3. \A g \in Leaks : row'[g].has => row'[g].blob \in Range(config)
      BY <2>k, <3>2
    <3>4. rot'.on /\ phase = "added" /\ ~ rot'.failed =>
             \A g \in Leaks : row'[g].has => row'[g].blob = Head(config) \/ rot'.read[g] # Empty
      BY <3>1, <3>2
    <3>5. phase = "rotated" => \A g \in Leaks : row'[g].has => row'[g].blob = Head(config)
      BY <3>2
    <3> QED BY <3>1, <3>3, <3>4, <3>5
  <2>9. CASE RotateEnd \/ RotateInterrupted
    BY <2>9, <2>k DEF TypeOK, RotateEnd, RotateInterrupted, NoRotation, Secrets
  <2>11. (\E t \in Tenants : PurgeTenantSecrets(t)) \/ PurgeExpiredSecrets => KeysInOrder'
    BY <2>3, SecretAssumption DEF PurgeTenantSecrets, PurgeExpiredSecrets
  <2>12. CASE UNCHANGED <<Secrets, Operations>>
    BY <2>12 DEF Secrets, Operations
  <2>13. CASE \/ \E p \in Procs, f \in Leaks : RevealRead(p, f)
              \/ \E p \in Procs : RevealRefused(p) \/ RevealDecrypt(p)
                                  \/ RevealAudit(p) \/ RevealRespond(p)
    <3>1. UNCHANGED <<Secrets, Operations>>
      BY <2>13 DEF RevealRead, RevealRefused, RevealDecrypt, RevealAudit, RevealRespond
    <3> QED BY <2>12, <3>1
  <2>14. CASE UNCHANGED vars
    BY <2>14 DEF vars
  <2> QED BY <2>1, <2>2, <2>4, <2>5, <2>6, <2>7, <2>8, <2>9, <2>11, <2>13, <2>14 DEF Next
<1>3. KeysInOrder => SecretsReadable
  BY DEF KeysInOrder, SecretsReadable, Readable
<1> QED BY <1>1, <1>2, <1>3, TypesCounted, PTL DEF Spec

=============================================================================
