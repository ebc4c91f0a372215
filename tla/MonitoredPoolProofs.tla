------------------------- MODULE MonitoredPoolProofs -------------------------
(***************************************************************************)
(* Proofs about MonitoredPool, for any number of clients, assets, domains, *)
(* methods of proof and requests that overlap, with requests that die.     *)
(***************************************************************************)
EXTENDS MonitoredPool, FiniteSetTheorems, TLAPS

Requests == [pc : {"idle", "add", "create", "del", "deactivate"}, asset : Assets \cup {None}]
Registering == {"add", "create"}
Unregistering == {"del", "deactivate"}

-----------------------------------------------------------------------------
(* The inductive invariant, part by part.                                  *)

\* A domain has one row, active or not: provider_ref is unique.
OneRowADomain ==
    \A a, b \in Assets :
        row[a] # "none" /\ row[b] # "none" /\ Domain[a] = Domain[b] => a = b

\* The proof is checked when the request begins and the row is created at its end; in
\* between it can be lost (the proof deleted or failed), but it did exist.
ProvenFirst ==
    /\ \A a \in Assets : IsOwnershipProven(a) \/ row[a] = "active" => a \in proved
    /\ \A w \in Workers : req[w].pc \in Registering => req[w].asset \in proved

\* Two requests under way about one client or one domain have been seen to overlap.
RacesSeen ==
    \A v, w \in Workers : v # w /\ ~ At(v, "idle") /\ ~ At(w, "idle") =>
        LET a == req[v].asset
            b == req[w].asset
        IN /\ Owner[a] = Owner[b] => Owner[b] \in raced
           /\ Domain[a] = Domain[b] => Domain[b] \in raced

\* A row that is about to be created has its slot.
SlotBeforeRow ==
    \A w \in Workers : At(w, "create") => Domain[req[w].asset] \in slots \cup raced

\* The slot that is about to be given back is nobody else's.
SlotOfOne ==
    \A w \in Workers : req[w].pc \in Unregistering =>
        \A b \in Active : /\ Domain[b] = Domain[req[w].asset]
                          /\ b # req[w].asset
                          => Domain[b] \in raced

\* The quota has room for the row a request is about to create.
RoomForRow ==
    /\ IsFiniteSet(Active)
    /\ \A t \in Tenants \ raced : Quota[t] # 0 =>
          /\ Cardinality(ActiveOf(t)) <= Quota[t]
          /\ \A w \in Workers : req[w].pc \in Registering /\ Owner[req[w].asset] = t =>
                Cardinality(ActiveOf(t)) < Quota[t]

IInv ==
    /\ TypeOK
    /\ OneRowADomain /\ ProvenFirst /\ RacesSeen
    /\ SlotBeforeRow /\ SlotOfOne /\ ActiveHasSlot
    /\ RoomForRow

-----------------------------------------------------------------------------
(* What a step does, table by table.                                       *)

\* The request w moves to this point, about this asset, and no other one moves.
Moves(w, pc, a) ==
    /\ req' \in [Workers -> Requests]
    /\ \A v \in Workers \ {w} : req'[v] = req[v]
    /\ req'[w].pc = pc /\ req'[w].asset = a

\* The row of a becomes s, and no other one changes.
Writes(a, s) ==
    /\ row' \in [Assets -> RowStates]
    /\ \A b \in Assets \ {a} : row'[b] = row[b]
    /\ row'[a] = s

\* What TypeOK says of the names, the tables and the requests.
LEMMA Shapes ==
    ASSUME TypeOK
    PROVE  /\ None \notin Assets
           /\ \A a \in Assets : Owner[a] \in Tenants /\ Domain[a] \in Domains
           /\ \A t \in Tenants : Quota[t] \in Nat
           /\ row \in [Assets -> RowStates]
           /\ slots \subseteq Domains
           /\ req \in [Workers -> Requests]
           /\ \A w \in Workers : /\ req[w].pc = "idle" => req[w].asset = None
                                 /\ req[w].pc # "idle" => req[w].asset \in Assets
           /\ proof \in [Assets -> [Methods -> ProofStates]]
<1>1. \A w \in Workers : req[w] \in Requests
  BY DEF TypeOK, Requests
<1> QED BY <1>1, SlotAssumption DEF TypeOK, Requests, At, Domains

\* What each action of a request does.
LEMMA Effects ==
    ASSUME TypeOK, NEW w \in Workers
    PROVE
      LET a == req[w].asset
          Unwritten == UNCHANGED <<declared, proof, operational, proved>>
      IN
      /\ \A b \in Assets : RegisterCheck(w, b) =>
            /\ req[w].pc = "idle"
            /\ Moves(w, "add", b)
            /\ IsOwnershipProven(b) /\ EnsureMonitoredAssetQuota(Owner[b])
            /\ raced' = raced \cup Overlapping(w, b)
            /\ UNCHANGED <<row, slots>> /\ Unwritten
      /\ ProviderAdd(w) =>
            /\ req[w].pc = "add" /\ a \in Assets
            /\ \/ Moves(w, "create", a) /\ slots' = slots \cup {Domain[a]}
               \/ Moves(w, "idle", None) /\ UNCHANGED slots
            /\ UNCHANGED <<row, raced>> /\ Unwritten
      /\ CreateRow(w) =>
            /\ req[w].pc = "create" /\ a \in Assets
            /\ \/ /\ \A b \in Assets : Domain[b] = Domain[a] => row[b] = "none"
                  /\ Writes(a, "active")
               \/ UNCHANGED row
            /\ Moves(w, "idle", None)
            /\ UNCHANGED <<slots, raced>> /\ Unwritten
      /\ \A b \in Assets : UnregisterCheck(w, b) =>
            /\ req[w].pc = "idle"
            /\ row[b] = "active"
            /\ Moves(w, "del", b)
            /\ raced' = raced \cup Overlapping(w, b)
            /\ UNCHANGED <<row, slots>> /\ Unwritten
      /\ ProviderDel(w) =>
            /\ req[w].pc = "del" /\ a \in Assets
            /\ slots' = slots \ {Domain[a]}
            /\ Moves(w, "deactivate", a)
            /\ UNCHANGED <<row, raced>> /\ Unwritten
      /\ Deactivate(w) =>
            /\ req[w].pc = "deactivate" /\ a \in Assets
            /\ \E s \in {"none", "inactive"} : (s = "none" <=> row[a] = "none") /\ Writes(a, s)
            /\ Moves(w, "idle", None)
            /\ UNCHANGED <<slots, raced>> /\ Unwritten
      /\ Die(w) =>
            /\ req[w].pc # "idle" /\ a \in Assets
            /\ Moves(w, "idle", None)
            /\ raced' = raced \cup {Domain[a]}
            /\ UNCHANGED <<row, slots>> /\ Unwritten
<1> DEFINE a == req[w].asset
<1>s. /\ req \in [Workers -> Requests] /\ row \in [Assets -> RowStates]
      /\ None \notin Assets
      /\ req[w].pc = "idle" => a = None
      /\ req[w].pc # "idle" => a \in Assets
  BY Shapes
<1>i. ASSUME Done(w) PROVE Moves(w, "idle", None)
  BY <1>s, <1>i DEF Done, Idle, Moves, Requests
<1>m. ASSUME NEW pc \in {"create", "deactivate"}, Goto(w, pc) PROVE Moves(w, pc, a)
  BY <1>s, <1>m DEF Goto, Moves, Requests
<1>1. ASSUME NEW b \in Assets, RegisterCheck(w, b) PROVE Moves(w, "add", b)
  BY <1>s, <1>1 DEF RegisterCheck, Moves, Requests
<1>2. ASSUME NEW b \in Assets, UnregisterCheck(w, b) PROVE Moves(w, "del", b)
  BY <1>s, <1>2 DEF UnregisterCheck, Moves, Requests
<1>3. ASSUME NEW b \in Assets, NEW s \in RowStates, row' = [row EXCEPT ![b] = s]
      PROVE  Writes(b, s)
  BY <1>s, <1>3 DEF Writes
<1>4. \A b \in Assets : RegisterCheck(w, b) =>
            /\ req[w].pc = "idle"
            /\ IsOwnershipProven(b) /\ EnsureMonitoredAssetQuota(Owner[b])
            /\ raced' = raced \cup Overlapping(w, b)
            /\ UNCHANGED <<row, slots, declared, proof, operational, proved>>
  BY DEF RegisterCheck, ViewAllows, ServiceAllows, OnlyRequests, At
<1>5. ProviderAdd(w) =>
            /\ req[w].pc = "add" /\ a \in Assets
            /\ \/ Moves(w, "create", a) /\ slots' = slots \cup {Domain[a]}
               \/ Moves(w, "idle", None) /\ UNCHANGED slots
            /\ UNCHANGED <<row, raced, declared, proof, operational, proved>>
  BY <1>s, <1>i, <1>m DEF ProviderAdd, OnlyRequests, NoRace, At
<1>6. CreateRow(w) =>
            /\ req[w].pc = "create" /\ a \in Assets
            /\ \/ /\ \A b \in Assets : Domain[b] = Domain[a] => row[b] = "none"
                  /\ Writes(a, "active")
               \/ UNCHANGED row
            /\ Moves(w, "idle", None)
            /\ UNCHANGED <<slots, raced, declared, proof, operational, proved>>
  <2>1. "active" \in RowStates
    BY DEF RowStates
  <2> QED BY <1>s, <1>i, <1>3, <2>1 DEF CreateRow, OnlyRequests, NoRace, At
<1>7. \A b \in Assets : UnregisterCheck(w, b) =>
            /\ req[w].pc = "idle" /\ row[b] = "active"
            /\ raced' = raced \cup Overlapping(w, b)
            /\ UNCHANGED <<row, slots, declared, proof, operational, proved>>
  BY DEF UnregisterCheck, OnlyRequests, At
<1>8. ProviderDel(w) =>
            /\ req[w].pc = "del" /\ a \in Assets
            /\ slots' = slots \ {Domain[a]}
            /\ Moves(w, "deactivate", a)
            /\ UNCHANGED <<row, raced, declared, proof, operational, proved>>
  BY <1>s, <1>m DEF ProviderDel, OnlyRequests, NoRace, At
<1>9. ASSUME Deactivate(w)
      PROVE  \E s \in {"none", "inactive"} : (s = "none" <=> row[a] = "none") /\ Writes(a, s)
  <2>1. a \in Assets
    BY <1>s, <1>9 DEF Deactivate, At
  <2>2. CASE row[a] = "none"
    <3>1. Writes(a, "none")
      BY <1>s, <1>9, <2>1, <2>2 DEF Deactivate, Writes, RowStates
    <3> QED BY <2>2, <3>1
  <2>3. CASE row[a] # "none"
    <3>1. Writes(a, "inactive")
      BY <1>s, <1>9, <2>1, <2>3 DEF Deactivate, Writes, RowStates
    <3> QED BY <2>3, <3>1
  <2> QED BY <2>2, <2>3
<1>10. Deactivate(w) =>
            /\ req[w].pc = "deactivate" /\ a \in Assets
            /\ Moves(w, "idle", None)
            /\ UNCHANGED <<slots, raced, declared, proof, operational, proved>>
  BY <1>s, <1>i DEF Deactivate, OnlyRequests, NoRace, At
<1>11. Die(w) =>
            /\ req[w].pc # "idle" /\ a \in Assets
            /\ Moves(w, "idle", None)
            /\ raced' = raced \cup {Domain[a]}
            /\ UNCHANGED <<row, slots, declared, proof, operational, proved>>
  BY <1>s, <1>i DEF Die, OnlyRequests, At
<1> QED
  BY <1>1, <1>2, <1>4, <1>5, <1>6, <1>7, <1>8, <1>9, <1>10, <1>11, Zenon

\* The overlap that a request records is that with every other request under way.
LEMMA OverlapsSeen ==
    ASSUME NEW w \in Workers, NEW a \in Assets, NEW v \in Workers, v # w, ~ At(v, "idle")
    PROVE  /\ Owner[a] = Owner[req[v].asset] => Owner[a] \in Overlapping(w, a)
           /\ Domain[a] = Domain[req[v].asset] => Domain[a] \in Overlapping(w, a)
BY DEF Overlapping

\* Nothing but clients and domains is recorded as raced.
LEMMA OverlapsTyped ==
    ASSUME TypeOK, NEW w \in Workers, NEW a \in Assets
    PROVE  Overlapping(w, a) \subseteq Tenants \cup Domains
<1>1. Overlapping(w, a) \subseteq {Owner[a], Domain[a]}
  BY DEF Overlapping
<1> QED BY <1>1, Shapes

\* What the actions of the client, and the subscription, do.
LEMMA AssetEffects ==
    ASSUME TypeOK, NEW a \in Assets
    PROVE  /\ CreateAsset(a) =>
                /\ declared' \in [Assets -> AssetStates]
                /\ UNCHANGED <<proof, row, slots, operational, req, proved, raced>>
           /\ DeleteAsset(a) =>
                /\ declared' \in [Assets -> AssetStates]
                /\ proof' \in [Assets -> [Methods -> ProofStates]]
                /\ \A b \in Assets : IsOwnershipProven(b)' => IsOwnershipProven(b)
                /\ Writes(a, "none")
                /\ UNCHANGED <<slots, operational, req, proved, raced>>
           /\ \A m \in Methods : StartOwnershipProof(a, m) =>
                /\ proof' \in [Assets -> [Methods -> ProofStates]]
                /\ \A b \in Assets : IsOwnershipProven(b)' => IsOwnershipProven(b)
                /\ UNCHANGED <<declared, row, slots, operational, req, proved, raced>>
           /\ \A m \in Methods : VerifyOwnershipProof(a, m) =>
                /\ proof' \in [Assets -> [Methods -> ProofStates]]
                /\ proved \subseteq proved' /\ proved' \subseteq proved \cup {a}
                /\ \A b \in Assets : IsOwnershipProven(b)' => IsOwnershipProven(b) \/ b \in proved'
                /\ UNCHANGED <<declared, row, slots, operational, req, raced>>
<1>s. /\ declared \in [Assets -> AssetStates] /\ row \in [Assets -> RowStates]
      /\ proof \in [Assets -> [Methods -> ProofStates]]
  BY DEF TypeOK
<1>1. CreateAsset(a) =>
                /\ declared' \in [Assets -> AssetStates]
                /\ UNCHANGED <<proof, row, slots, operational, req, proved, raced>>
  BY <1>s DEF CreateAsset, AssetStates
<1>2. ASSUME DeleteAsset(a)
      PROVE  /\ declared' \in [Assets -> AssetStates]
             /\ proof' \in [Assets -> [Methods -> ProofStates]]
             /\ \A b \in Assets : IsOwnershipProven(b)' => IsOwnershipProven(b)
             /\ Writes(a, "none")
             /\ UNCHANGED <<slots, operational, req, proved, raced>>
  <2>1. declared' \in [Assets -> AssetStates]
    BY <1>s, <1>2 DEF DeleteAsset, AssetStates
  <2>2. NoProof \in [Methods -> ProofStates] /\ \A n \in Methods : NoProof[n] # "verified"
    BY DEF NoProof, ProofStates
  <2>3. proof' = [proof EXCEPT ![a] = NoProof]
    BY <1>2 DEF DeleteAsset
  <2>4. proof' \in [Assets -> [Methods -> ProofStates]]
    BY <1>s, <2>2, <2>3
  <2>5. \A b \in Assets : IsOwnershipProven(b)' => IsOwnershipProven(b)
    BY <1>s, <2>2, <2>3 DEF IsOwnershipProven
  <2>6. Writes(a, "none")
    BY <1>s, <1>2 DEF DeleteAsset, Writes, RowStates
  <2> QED BY <1>2, <2>1, <2>4, <2>5, <2>6 DEF DeleteAsset
<1>p. ASSUME NEW m \in Methods, NEW s \in ProofStates, proof' = [proof EXCEPT ![a][m] = s]
      PROVE  /\ proof' \in [Assets -> [Methods -> ProofStates]]
             /\ \A b \in Assets : IsOwnershipProven(b)' => IsOwnershipProven(b) \/ (b = a /\ s = "verified")
  <2>1. [proof[a] EXCEPT ![m] = s] \in [Methods -> ProofStates]
    BY <1>s
  <2>2. proof' = [proof EXCEPT ![a] = [proof[a] EXCEPT ![m] = s]]
    BY <1>p
  <2>3. proof' \in [Assets -> [Methods -> ProofStates]]
    BY <1>s, <2>1, <2>2
  <2>4. ASSUME NEW b \in Assets, NEW n \in Methods, proof'[b][n] = "verified"
        PROVE  proof[b][n] = "verified" \/ (b = a /\ s = "verified")
    BY <1>s, <2>2, <2>4
  <2> QED BY <2>3, <2>4 DEF IsOwnershipProven
<1>3. ASSUME NEW m \in Methods, StartOwnershipProof(a, m)
      PROVE  /\ proof' \in [Assets -> [Methods -> ProofStates]]
             /\ \A b \in Assets : IsOwnershipProven(b)' => IsOwnershipProven(b)
             /\ UNCHANGED <<declared, row, slots, operational, req, proved, raced>>
  <2>1. PICK s \in {"pending", "failed"} : proof' = [proof EXCEPT ![a][m] = s]
    BY <1>3 DEF StartOwnershipProof
  <2>2. s \in ProofStates /\ s # "verified"
    BY DEF ProofStates
  <2> QED BY <1>3, <1>p, <2>1, <2>2 DEF StartOwnershipProof
<1>4. ASSUME NEW m \in Methods, VerifyOwnershipProof(a, m)
      PROVE  /\ proof' \in [Assets -> [Methods -> ProofStates]]
             /\ proved \subseteq proved' /\ proved' \subseteq proved \cup {a}
             /\ \A b \in Assets : IsOwnershipProven(b)' => IsOwnershipProven(b) \/ b \in proved'
             /\ UNCHANGED <<declared, row, slots, operational, req, raced>>
  <2>1. PICK s \in {"verified", "failed"} :
           /\ proof' = [proof EXCEPT ![a][m] = s]
           /\ proved' = IF s = "verified" THEN proved \cup {a} ELSE proved
    BY <1>4 DEF VerifyOwnershipProof
  <2>2. s \in ProofStates
    BY DEF ProofStates
  <2>3. /\ proof' \in [Assets -> [Methods -> ProofStates]]
        /\ \A b \in Assets : IsOwnershipProven(b)' => IsOwnershipProven(b) \/ (b = a /\ s = "verified")
    BY <1>p, <2>1, <2>2
  <2> QED BY <1>4, <2>1, <2>3 DEF VerifyOwnershipProof
<1> QED BY <1>1, <1>2, <1>3, <1>4, Zenon

-----------------------------------------------------------------------------
(* The tables and the requests keep their shape.                           *)

\* The shape is kept when each table and the request that moves keep theirs.
LEMMA TypesKept ==
    ASSUME TypeOK, NEW w \in Workers, NEW pc, NEW b, Moves(w, pc, b),
           pc = "idle" <=> b = None,
           row' \in [Assets -> RowStates], slots' \subseteq Domains,
           raced' \subseteq Tenants \cup Domains,
           UNCHANGED <<declared, proof, operational, proved>>
    PROVE  TypeOK'
<1>1. \A v \in Workers : req'[v].pc = "idle" <=> req'[v].asset = None
  BY DEF TypeOK, Moves, At
<1> QED BY <1>1 DEF TypeOK, Moves, Requests, At

\* Every reachable state of the assets, their proofs, their slots and the requests is
\* well typed, whatever overlaps and whatever dies.
THEOREM TypeCorrect == Spec => []TypeOK
<1>1. Init => TypeOK
  <2> SUFFICES ASSUME Init PROVE TypeOK
    OBVIOUS
  <2>1. declared \in [Assets -> AssetStates] /\ row \in [Assets -> RowStates]
    BY DEF Init, AssetStates, RowStates
  <2>2. NoProof \in [Methods -> ProofStates]
    BY DEF NoProof, ProofStates
  <2>3. proof \in [Assets -> [Methods -> ProofStates]]
    BY <2>2 DEF Init
  <2>4. req \in [Workers -> Requests] /\ \A w \in Workers : At(w, "idle") /\ req[w].asset = None
    BY DEF Init, Idle, Requests, At
  <2>5. slots = {} /\ operational = Tenants /\ proved = {} /\ raced = {}
    BY DEF Init
  <2> QED BY <2>1, <2>3, <2>4, <2>5 DEF TypeOK, Requests
<1>2. TypeOK /\ [Next]_vars => TypeOK'
  <2> SUFFICES ASSUME TypeOK, [Next]_vars PROVE TypeOK'
    OBVIOUS
  <2>s. /\ row \in [Assets -> RowStates] /\ slots \subseteq Domains
        /\ raced \subseteq Tenants \cup Domains /\ None \notin Assets
        /\ proved \subseteq Assets /\ operational \subseteq Tenants
        /\ \A a \in Assets : Domain[a] \in Domains
    BY Shapes DEF TypeOK
  <2>1. ASSUME NEW a \in Assets, CreateAsset(a) PROVE TypeOK'
    <3>1. /\ declared' \in [Assets -> AssetStates]
          /\ UNCHANGED <<proof, row, slots, operational, req, proved, raced>>
      BY <2>1 DEF CreateAsset, TypeOK, AssetStates
    <3> QED BY <3>1 DEF TypeOK, At
  <2>2. ASSUME NEW a \in Assets, DeleteAsset(a) PROVE TypeOK'
    <3>1. /\ declared' \in [Assets -> AssetStates] /\ row' \in [Assets -> RowStates]
          /\ proof' \in [Assets -> [Methods -> ProofStates]]
          /\ UNCHANGED <<slots, operational, req, proved, raced>>
      BY <2>2, AssetEffects DEF Writes
    <3> QED BY <3>1 DEF TypeOK, At
  <2>3. ASSUME NEW a \in Assets, NEW m \in Methods, StartOwnershipProof(a, m) PROVE TypeOK'
    <3>1. /\ proof' \in [Assets -> [Methods -> ProofStates]]
          /\ UNCHANGED <<declared, row, slots, operational, req, proved, raced>>
      BY <2>3, AssetEffects
    <3> QED BY <3>1 DEF TypeOK, At
  <2>4. ASSUME NEW a \in Assets, NEW m \in Methods, VerifyOwnershipProof(a, m) PROVE TypeOK'
    <3>1. /\ proof' \in [Assets -> [Methods -> ProofStates]]
          /\ proved' \subseteq proved \cup {a}
          /\ UNCHANGED <<declared, row, slots, operational, req, raced>>
      BY <2>4, AssetEffects
    <3> QED BY <2>s, <3>1 DEF TypeOK, At
  <2>5. ASSUME NEW t \in Tenants, SubscriptionChanges(t) PROVE TypeOK'
    <3>1. /\ operational' \subseteq Tenants
          /\ UNCHANGED <<declared, proof, row, slots, req, proved, raced>>
      BY <2>s, <2>5 DEF SubscriptionChanges
    <3> QED BY <3>1 DEF TypeOK, At
  <2>6. ASSUME NEW w \in Workers, NEW b \in Assets, RegisterCheck(w, b) \/ UnregisterCheck(w, b)
        PROVE  TypeOK'
    <3>1. /\ \E pc \in {"add", "del"} : Moves(w, pc, b)
          /\ raced' = raced \cup Overlapping(w, b)
          /\ UNCHANGED <<row, slots, declared, proof, operational, proved>>
      BY <2>6, Effects
    <3> QED BY <2>s, <3>1, OverlapsTyped, TypesKept
  <2>7. ASSUME NEW w \in Workers, ProviderAdd(w) \/ ProviderDel(w) PROVE TypeOK'
    <3>1. /\ slots' \subseteq Domains
          /\ UNCHANGED <<row, raced, declared, proof, operational, proved>>
          /\ \/ \E pc \in {"create", "deactivate"} :
                   req[w].asset \in Assets /\ Moves(w, pc, req[w].asset)
             \/ Moves(w, "idle", None)
      BY <2>s, <2>7, Effects
    <3> QED BY <2>s, <3>1, TypesKept
  <2>8. ASSUME NEW w \in Workers, CreateRow(w) \/ Deactivate(w) PROVE TypeOK'
    <3>1. /\ row' \in [Assets -> RowStates] /\ Moves(w, "idle", None)
          /\ UNCHANGED <<slots, raced, declared, proof, operational, proved>>
      BY <2>s, <2>8, Effects DEF Writes
    <3> QED BY <2>s, <3>1, TypesKept
  <2>9. ASSUME NEW w \in Workers, Die(w) PROVE TypeOK'
    <3>1. /\ raced' \subseteq Tenants \cup Domains /\ Moves(w, "idle", None)
          /\ UNCHANGED <<row, slots, declared, proof, operational, proved>>
      BY <2>s, <2>9, Effects
    <3> QED BY <2>s, <3>1, TypesKept
  <2>10. CASE UNCHANGED vars
    BY <2>10 DEF vars, TypeOK, At
  <2> QED BY <2>1, <2>2, <2>3, <2>4, <2>5, <2>6, <2>7, <2>8, <2>9, <2>10 DEF Next, Request
<1> QED BY <1>1, <1>2, PTL DEF Spec

-----------------------------------------------------------------------------
(* A domain has one client, who has proven it.                             *)

\* A row is created only for a domain that has none.
LEMMA OneRowStep ==
    ASSUME TypeOK, OneRowADomain, [Next]_vars
    PROVE  OneRowADomain'
<1>1. ASSUME NEW a \in Assets, Writes(a, row'[a]), row[a] # "none" \/ row'[a] = "none"
      PROVE  OneRowADomain'
  BY <1>1 DEF OneRowADomain, Writes
<1>2. ASSUME NEW w \in Workers, CreateRow(w) PROVE OneRowADomain'
  <2>1. CASE UNCHANGED row
    BY <2>1 DEF OneRowADomain
  <2>2. CASE /\ req[w].asset \in Assets
             /\ \A b \in Assets : Domain[b] = Domain[req[w].asset] => row[b] = "none"
             /\ Writes(req[w].asset, "active")
    BY <2>2 DEF OneRowADomain, Writes
  <2> QED BY <1>2, <2>1, <2>2, Effects
<1>3. ASSUME NEW w \in Workers, Deactivate(w) PROVE OneRowADomain'
  <2>1. PICK s \in {"none", "inactive"} :
           (s = "none" <=> row[req[w].asset] = "none") /\ Writes(req[w].asset, s)
    BY <1>3, Effects
  <2>2. req[w].asset \in Assets /\ row'[req[w].asset] = s
    BY <1>3, <2>1, Effects DEF Writes
  <2> QED BY <1>1, <2>1, <2>2
<1>4. ASSUME NEW a \in Assets, DeleteAsset(a) PROVE OneRowADomain'
  BY <1>1, <1>4, AssetEffects DEF Writes
<1>5. ASSUME UNCHANGED row PROVE OneRowADomain'
  BY <1>5 DEF OneRowADomain
<1>6. ASSUME NEW w \in Workers,
             \/ \E a \in Assets : RegisterCheck(w, a) \/ UnregisterCheck(w, a)
             \/ ProviderAdd(w) \/ ProviderDel(w) \/ Die(w)
      PROVE  OneRowADomain'
  BY <1>5, <1>6, Effects
<1>7. ASSUME NEW a \in Assets,
             \/ CreateAsset(a)
             \/ \E m \in Methods : StartOwnershipProof(a, m) \/ VerifyOwnershipProof(a, m)
      PROVE  OneRowADomain'
  BY <1>5, <1>7, AssetEffects
<1>8. CASE (\E t \in Tenants : SubscriptionChanges(t)) \/ UNCHANGED vars
  BY <1>5, <1>8 DEF SubscriptionChanges, vars
<1> QED BY <1>2, <1>3, <1>4, <1>6, <1>7, <1>8 DEF Next, Request

\* A row is created for an asset whose possession had been proven when it was asked for.
LEMMA ProvenStep ==
    ASSUME TypeOK, ProvenFirst, [Next]_vars
    PROVE  ProvenFirst'
<1>1. ASSUME proved \subseteq proved',
             \A a \in Assets : IsOwnershipProven(a)' => IsOwnershipProven(a) \/ a \in proved',
             \A a \in Assets : row'[a] = "active" => row[a] = "active" \/ a \in proved,
             \A v \in Workers : req'[v].pc \in Registering =>
                \/ req'[v].asset \in proved
                \/ req[v].pc \in Registering /\ req'[v].asset = req[v].asset
      PROVE  ProvenFirst'
  <2>1. ASSUME NEW a \in Assets, IsOwnershipProven(a)' \/ row'[a] = "active"
        PROVE  a \in proved'
    BY <1>1, <2>1 DEF ProvenFirst
  <2>2. ASSUME NEW v \in Workers, req'[v].pc \in Registering PROVE req'[v].asset \in proved'
    BY <1>1, <2>2 DEF ProvenFirst
  <2> QED BY <2>1, <2>2 DEF ProvenFirst
<1>p. ASSUME UNCHANGED <<proof, proved>>
      PROVE  /\ proved \subseteq proved'
             /\ \A a \in Assets : IsOwnershipProven(a)' => IsOwnershipProven(a) \/ a \in proved'
  BY <1>p DEF IsOwnershipProven
<1>2. ASSUME NEW w \in Workers, NEW a \in Assets, RegisterCheck(w, a) PROVE ProvenFirst'
  <2>1. /\ Moves(w, "add", a) /\ IsOwnershipProven(a) /\ UNCHANGED <<proof, proved, row>>
    BY <1>2, Effects
  <2>2. a \in proved
    BY <2>1 DEF ProvenFirst
  <2> QED BY <1>1, <1>p, <2>1, <2>2 DEF Moves
<1>3. ASSUME NEW w \in Workers, NEW a \in Assets, UnregisterCheck(w, a) PROVE ProvenFirst'
  <2>1. Moves(w, "del", a) /\ UNCHANGED <<proof, proved, row>>
    BY <1>3, Effects
  <2> QED BY <1>1, <1>p, <2>1 DEF Moves, Registering
<1>4. ASSUME NEW w \in Workers, ProviderAdd(w) PROVE ProvenFirst'
  <2>1. /\ req[w].pc = "add" /\ UNCHANGED <<proof, proved, row>>
        /\ Moves(w, "create", req[w].asset) \/ Moves(w, "idle", None)
    BY <1>4, Effects
  <2> QED BY <1>1, <1>p, <2>1 DEF Moves, Registering
<1>5. ASSUME NEW w \in Workers, CreateRow(w) PROVE ProvenFirst'
  <2>1. /\ req[w].pc = "create" /\ UNCHANGED <<proof, proved>> /\ Moves(w, "idle", None)
        /\ UNCHANGED row \/ Writes(req[w].asset, "active")
    BY <1>5, Effects
  <2>2. req[w].asset \in proved
    BY <2>1 DEF ProvenFirst, Registering
  <2>3. \A a \in Assets : row'[a] = "active" => row[a] = "active" \/ a \in proved
    BY <2>1, <2>2 DEF Writes
  <2> QED BY <1>1, <1>p, <2>1, <2>3 DEF Moves, Registering
<1>6. ASSUME NEW w \in Workers, ProviderDel(w) PROVE ProvenFirst'
  <2>1. Moves(w, "deactivate", req[w].asset) /\ UNCHANGED <<proof, proved, row>>
    BY <1>6, Effects
  <2> QED BY <1>1, <1>p, <2>1 DEF Moves, Registering
<1>7. ASSUME NEW w \in Workers, Deactivate(w) PROVE ProvenFirst'
  <2>1. /\ Moves(w, "idle", None) /\ UNCHANGED <<proof, proved>>
        /\ \E s \in {"none", "inactive"} : Writes(req[w].asset, s)
    BY <1>7, Effects
  <2>2. \A a \in Assets : row'[a] = "active" => row[a] = "active"
    BY <2>1 DEF Writes
  <2> QED BY <1>1, <1>p, <2>1, <2>2 DEF Moves, Registering
<1>8. ASSUME NEW w \in Workers, Die(w) PROVE ProvenFirst'
  <2>1. Moves(w, "idle", None) /\ UNCHANGED <<proof, proved, row>>
    BY <1>8, Effects
  <2> QED BY <1>1, <1>p, <2>1 DEF Moves, Registering
<1>9. ASSUME NEW a \in Assets, DeleteAsset(a) PROVE ProvenFirst'
  <2>1. /\ UNCHANGED <<proved, req>> /\ Writes(a, "none")
        /\ \A b \in Assets : IsOwnershipProven(b)' => IsOwnershipProven(b)
    BY <1>9, AssetEffects
  <2>2. \A b \in Assets : row'[b] = "active" => row[b] = "active"
    BY <2>1 DEF Writes
  <2> QED BY <1>1, <2>1, <2>2
<1>10. ASSUME NEW a \in Assets, NEW m \in Methods,
              StartOwnershipProof(a, m) \/ VerifyOwnershipProof(a, m)
       PROVE  ProvenFirst'
  <2>1. /\ UNCHANGED <<row, req>> /\ proved \subseteq proved'
        /\ \A b \in Assets : IsOwnershipProven(b)' => IsOwnershipProven(b) \/ b \in proved'
    BY <1>10, AssetEffects
  <2> QED BY <1>1, <2>1
<1>11. CASE \/ \E a \in Assets : CreateAsset(a)
            \/ \E t \in Tenants : SubscriptionChanges(t)
            \/ UNCHANGED vars
  <2>1. UNCHANGED <<proof, proved, row, req>>
    BY <1>11 DEF CreateAsset, SubscriptionChanges, vars
  <2> QED BY <1>1, <1>p, <2>1
<1> QED
  BY <1>2, <1>3, <1>4, <1>5, <1>6, <1>7, <1>8, <1>9, <1>10, <1>11 DEF Next, Request

\* ADR-026 and the unique provider_ref: however registrations, unregistrations and
\* deletions interleave, a monitored domain has one client, who has proven it.
THEOREM DomainsAreProven == Spec => []DomainsProven
<1>1. Init => OneRowADomain /\ ProvenFirst
  BY DEF Init, OneRowADomain, ProvenFirst, IsOwnershipProven, NoProof, Idle, Registering
<1>2. TypeOK /\ OneRowADomain /\ ProvenFirst /\ [Next]_vars => (OneRowADomain /\ ProvenFirst)'
  BY OneRowStep, ProvenStep
<1>3. OneRowADomain /\ ProvenFirst => DomainsProven
  BY DEF OneRowADomain, ProvenFirst, DomainsProven, OneClientPerDomain, MonitoredWasProven, Active
<1> QED BY <1>1, <1>2, <1>3, TypeCorrect, PTL DEF Spec

-----------------------------------------------------------------------------
(* The races are recorded.                                                 *)

\* A request that moves on, or ends, overlaps nothing new.
LEMMA RacesKept ==
    ASSUME RacesSeen, raced \subseteq raced',
           \A v \in Workers : ~ At(v, "idle")' => ~ At(v, "idle") /\ req'[v].asset = req[v].asset
    PROVE  RacesSeen'
<1> SUFFICES ASSUME NEW v \in Workers, NEW w \in Workers, v # w, ~ At(v, "idle")', ~ At(w, "idle")'
             PROVE  /\ Owner[req'[v].asset] = Owner[req'[w].asset] => Owner[req'[w].asset] \in raced'
                    /\ Domain[req'[v].asset] = Domain[req'[w].asset] => Domain[req'[w].asset] \in raced'
  BY DEF RacesSeen
<1>1. /\ Owner[req[v].asset] = Owner[req[w].asset] => Owner[req[w].asset] \in raced
      /\ Domain[req[v].asset] = Domain[req[w].asset] => Domain[req[w].asset] \in raced
  BY DEF RacesSeen
<1> QED BY <1>1

\* A request that begins records every other it overlaps.
LEMMA RacesBegun ==
    ASSUME RacesSeen, NEW w \in Workers, NEW a \in Assets, NEW pc \in {"add", "del"},
           At(w, "idle"), Moves(w, pc, a), raced' = raced \cup Overlapping(w, a)
    PROVE  RacesSeen'
<1>1. ASSUME NEW v \in Workers, v # w, ~ At(v, "idle")'
      PROVE  /\ ~ At(v, "idle") /\ req'[v] = req[v]
             /\ Owner[a] = Owner[req[v].asset] => Owner[a] \in raced'
             /\ Domain[a] = Domain[req[v].asset] => Domain[a] \in raced'
  <2>1. ~ At(v, "idle") /\ req'[v] = req[v]
    BY <1>1 DEF Moves, At
  <2> QED BY <1>1, <2>1, OverlapsSeen
<1>2. req'[w].asset = a
  BY DEF Moves
<1> SUFFICES ASSUME NEW v \in Workers, NEW x \in Workers, v # x, ~ At(v, "idle")', ~ At(x, "idle")'
             PROVE  /\ Owner[req'[v].asset] = Owner[req'[x].asset] => Owner[req'[x].asset] \in raced'
                    /\ Domain[req'[v].asset] = Domain[req'[x].asset] => Domain[req'[x].asset] \in raced'
  BY DEF RacesSeen
<1>3. CASE v = w
  BY <1>1, <1>2, <1>3
<1>4. CASE x = w
  BY <1>1, <1>2, <1>4
<1>5. CASE v # w /\ x # w
  <2>1. /\ ~ At(v, "idle") /\ req'[v] = req[v]
        /\ ~ At(x, "idle") /\ req'[x] = req[x]
    BY <1>1, <1>5
  <2>2. /\ Owner[req[v].asset] = Owner[req[x].asset] => Owner[req[x].asset] \in raced
        /\ Domain[req[v].asset] = Domain[req[x].asset] => Domain[req[x].asset] \in raced
    BY <2>1 DEF RacesSeen
  <2> QED BY <2>1, <2>2
<1> QED BY <1>3, <1>4, <1>5

\* Nothing recorded as raced is forgotten, and no race goes unrecorded.
LEMMA RacesStep ==
    ASSUME TypeOK, RacesSeen, [Next]_vars
    PROVE  RacesSeen' /\ raced \subseteq raced'
<1>1. ASSUME NEW w \in Workers, NEW a \in Assets, RegisterCheck(w, a) \/ UnregisterCheck(w, a)
      PROVE  RacesSeen' /\ raced \subseteq raced'
  <2>1. PICK pc \in {"add", "del"} :
           At(w, "idle") /\ Moves(w, pc, a) /\ raced' = raced \cup Overlapping(w, a)
    BY <1>1, Effects DEF At
  <2> QED BY <2>1, RacesBegun
<1>2. ASSUME NEW w \in Workers,
             ProviderAdd(w) \/ CreateRow(w) \/ ProviderDel(w) \/ Deactivate(w) \/ Die(w)
      PROVE  RacesSeen' /\ raced \subseteq raced'
  <2>1. /\ req[w].pc # "idle" /\ raced \subseteq raced'
        /\ \/ Moves(w, "idle", None)
           \/ \E pc \in {"create", "deactivate"} : Moves(w, pc, req[w].asset)
    BY <1>2, Effects
  <2>2. \A v \in Workers : ~ At(v, "idle")' => ~ At(v, "idle") /\ req'[v].asset = req[v].asset
    BY <2>1 DEF Moves, At
  <2> QED BY <2>1, <2>2, RacesKept
<1>3. ASSUME UNCHANGED <<req, raced>> PROVE RacesSeen' /\ raced \subseteq raced'
  BY <1>3, RacesKept DEF At
<1>4. ASSUME NEW a \in Assets,
             \/ CreateAsset(a) \/ DeleteAsset(a)
             \/ \E m \in Methods : StartOwnershipProof(a, m) \/ VerifyOwnershipProof(a, m)
      PROVE  RacesSeen' /\ raced \subseteq raced'
  BY <1>3, <1>4, AssetEffects
<1>5. CASE (\E t \in Tenants : SubscriptionChanges(t)) \/ UNCHANGED vars
  BY <1>3, <1>5 DEF SubscriptionChanges, vars
<1> QED BY <1>1, <1>2, <1>4, <1>5 DEF Next, Request

-----------------------------------------------------------------------------
(* An active row has its slot.                                             *)

SlotsInv == SlotBeforeRow /\ SlotOfOne /\ ActiveHasSlot

\* A step that takes no slot away, makes no row active and begins no removal keeps
\* what is known of the slots, if the row it was removing is not active any more.
LEMMA SlotsUntouched ==
    ASSUME SlotsInv, NEW w \in Workers,
           slots \subseteq slots', raced \subseteq raced',
           \A b \in Assets : row'[b] = "active" => row[b] = "active",
           \A v \in Workers \ {w} : req'[v] = req[v],
           req'[w].pc \notin Unregistering,
           req'[w].pc = "create" => Domain[req'[w].asset] \in slots',
           At(w, "deactivate") =>
               row'[req[w].asset] # "active" \/ Domain[req[w].asset] \in raced'
    PROVE  SlotsInv'
<1>1. SlotBeforeRow'
  BY DEF SlotsInv, SlotBeforeRow, At
<1>2. SlotOfOne'
  BY DEF SlotsInv, SlotOfOne, Active
<1>3. ASSUME NEW a \in Active'
      PROVE  \/ Domain[a] \in slots' \cup raced'
             \/ \E v \in Workers : req'[v].pc = "deactivate" /\ req'[v].asset = a
  <2>1. a \in Active /\ row'[a] = "active"
    BY <1>3 DEF Active
  <2>2. CASE Domain[a] \in slots \cup raced
    BY <2>2
  <2>3. ASSUME NEW v \in Workers, At(v, "deactivate"), req[v].asset = a
        PROVE  \/ Domain[a] \in slots' \cup raced'
               \/ \E x \in Workers : req'[x].pc = "deactivate" /\ req'[x].asset = a
    BY <2>1, <2>3 DEF At
  <2> QED BY <2>1, <2>2, <2>3 DEF SlotsInv, ActiveHasSlot
<1>4. ActiveHasSlot'
  BY <1>3 DEF ActiveHasSlot, At
<1> QED BY <1>1, <1>2, <1>4 DEF SlotsInv

\* The slots are kept in step with the rows, but for the races.
LEMMA SlotsStep ==
    ASSUME TypeOK, OneRowADomain, RacesSeen, RacesSeen', SlotsInv, raced \subseteq raced', [Next]_vars
    PROVE  SlotsInv'
<1>1. ASSUME NEW w \in Workers, NEW a \in Assets, RegisterCheck(w, a) PROVE SlotsInv'
  <2>1. Moves(w, "add", a) /\ req[w].pc = "idle" /\ UNCHANGED <<row, slots>>
    BY <1>1, Effects
  <2> QED BY <2>1, SlotsUntouched DEF Moves, Unregistering, At
<1>2. ASSUME NEW w \in Workers, ProviderAdd(w) PROVE SlotsInv'
  <2>1. /\ req[w].pc = "add" /\ UNCHANGED row /\ slots \subseteq slots'
        /\ \/ Moves(w, "create", req[w].asset) /\ Domain[req[w].asset] \in slots'
           \/ Moves(w, "idle", None)
    BY <1>2, Effects
  <2> QED BY <2>1, SlotsUntouched DEF Moves, Unregistering, At
<1>3. ASSUME NEW w \in Workers, CreateRow(w) PROVE SlotsInv'
  <2> DEFINE a == req[w].asset
  <2>1. /\ req[w].pc = "create" /\ a \in Assets /\ Moves(w, "idle", None)
        /\ UNCHANGED <<slots, raced>>
        /\ UNCHANGED row \/ Writes(a, "active")
    BY <1>3, Effects
  <2>2. CASE UNCHANGED row
    BY <2>1, <2>2, SlotsUntouched DEF Moves, Unregistering, At
  <2>3. CASE Writes(a, "active")
    <3>1. /\ \A v \in Workers \ {w} : req'[v] = req[v]
          /\ req'[w].pc = "idle"
          /\ \A b \in Assets : row'[b] = "active" => row[b] = "active" \/ b = a
      BY <2>1, <2>3 DEF Moves, Writes
    <3>2. Domain[a] \in slots \cup raced
      BY <2>1 DEF SlotsInv, SlotBeforeRow, At
    <3>3. SlotBeforeRow'
      BY <2>1, <3>1 DEF SlotsInv, SlotBeforeRow, At
    <3>4. SlotOfOne'
      <4>1. ASSUME NEW v \in Workers, req'[v].pc \in Unregistering, NEW b \in Assets,
                   row'[b] = "active", Domain[b] = Domain[req'[v].asset], b # req'[v].asset
            PROVE  Domain[b] \in raced'
        <5>1. v # w /\ req'[v] = req[v]
          BY <3>1, <4>1 DEF Unregistering
        <5>2. CASE row[b] = "active"
          BY <2>1, <4>1, <5>1, <5>2 DEF SlotsInv, SlotOfOne, Active
        <5>3. CASE b = a
          BY <2>1, <4>1, <5>1, <5>3 DEF RacesSeen, At, Unregistering
        <5> QED BY <3>1, <4>1, <5>2, <5>3
      <4> QED BY <4>1 DEF SlotOfOne, Active
    <3>5. ActiveHasSlot'
      <4>1. ASSUME NEW b \in Active'
            PROVE  \/ Domain[b] \in slots' \cup raced'
                   \/ \E v \in Workers : req'[v].pc = "deactivate" /\ req'[v].asset = b
        <5>1. CASE b = a
          BY <2>1, <3>2, <5>1
        <5>2. CASE b \in Active
          BY <2>1, <3>1, <5>2 DEF SlotsInv, ActiveHasSlot, At
        <5> QED BY <3>1, <5>1, <5>2 DEF Active
      <4> QED BY <4>1 DEF ActiveHasSlot, At
    <3> QED BY <3>3, <3>4, <3>5 DEF SlotsInv
  <2> QED BY <2>1, <2>2, <2>3
<1>4. ASSUME NEW w \in Workers, NEW a \in Assets, UnregisterCheck(w, a) PROVE SlotsInv'
  <2>1. /\ Moves(w, "del", a) /\ req[w].pc = "idle" /\ row[a] = "active"
        /\ UNCHANGED <<row, slots>>
    BY <1>4, Effects
  <2>2. /\ \A v \in Workers \ {w} : req'[v] = req[v]
        /\ req'[w].pc = "del" /\ req'[w].asset = a
    BY <2>1 DEF Moves
  <2>3. SlotBeforeRow'
    BY <2>1, <2>2 DEF SlotsInv, SlotBeforeRow, At
  <2>4. SlotOfOne'
    <3>1. ASSUME NEW v \in Workers, req'[v].pc \in Unregistering, NEW b \in Active',
                 Domain[b] = Domain[req'[v].asset], b # req'[v].asset
          PROVE  Domain[b] \in raced'
      <4>1. b \in Active /\ b \in Assets
        BY <2>1, <3>1 DEF Active
      <4>2. CASE v = w
        BY <2>1, <2>2, <3>1, <4>1, <4>2 DEF OneRowADomain, Active
      <4>3. CASE v # w
        BY <2>2, <3>1, <4>1, <4>3 DEF SlotsInv, SlotOfOne
      <4> QED BY <4>2, <4>3
    <3> QED BY <3>1 DEF SlotOfOne
  <2>5. ActiveHasSlot'
    BY <2>1, <2>2 DEF SlotsInv, ActiveHasSlot, Active, At
  <2> QED BY <2>3, <2>4, <2>5 DEF SlotsInv
<1>5. ASSUME NEW w \in Workers, ProviderDel(w) PROVE SlotsInv'
  <2> DEFINE a == req[w].asset
  <2>1. /\ req[w].pc = "del" /\ a \in Assets /\ slots' = slots \ {Domain[a]}
        /\ Moves(w, "deactivate", a) /\ UNCHANGED <<row, raced>>
    BY <1>5, Effects
  <2>2. /\ \A v \in Workers \ {w} : req'[v] = req[v]
        /\ req'[w].pc = "deactivate" /\ req'[w].asset = a
    BY <2>1 DEF Moves
  <2>3. SlotBeforeRow'
    <3>1. ASSUME NEW v \in Workers, req'[v].pc = "create"
          PROVE  Domain[req'[v].asset] \in slots' \cup raced'
      <4>1. v # w /\ req'[v] = req[v]
        BY <2>2, <3>1
      <4>2. Domain[req[v].asset] \in slots \cup raced
        BY <3>1, <4>1 DEF SlotsInv, SlotBeforeRow, At
      <4>3. Domain[req[v].asset] = Domain[a] => Domain[a] \in raced
        BY <2>1, <3>1, <4>1 DEF RacesSeen, At
      <4> QED BY <2>1, <4>1, <4>2, <4>3
    <3> QED BY <3>1 DEF SlotBeforeRow, At
  <2>4. SlotOfOne'
    <3>1. ASSUME NEW v \in Workers, req'[v].pc \in Unregistering
          PROVE  req[v].pc \in Unregistering /\ req'[v].asset = req[v].asset
      BY <2>1, <2>2, <3>1 DEF Unregistering
    <3> QED BY <2>1, <3>1 DEF SlotsInv, SlotOfOne, Active
  <2>5. ActiveHasSlot'
    <3>1. ASSUME NEW b \in Active'
          PROVE  \/ Domain[b] \in slots' \cup raced'
                 \/ \E v \in Workers : req'[v].pc = "deactivate" /\ req'[v].asset = b
      <4>0. b \in Active
        BY <2>1 DEF Active
      <4>1. CASE b = a
        BY <2>2, <4>1
      <4>2. CASE b # a /\ Domain[b] = Domain[a]
        BY <2>1, <4>0, <4>2 DEF SlotsInv, SlotOfOne, Unregistering
      <4>3. CASE Domain[b] # Domain[a]
        <5>1. CASE Domain[b] \in slots \cup raced
          BY <2>1, <4>3, <5>1
        <5>2. ASSUME NEW v \in Workers, req[v].pc = "deactivate", req[v].asset = b
              PROVE  req'[v].pc = "deactivate" /\ req'[v].asset = b
          BY <2>1, <2>2, <5>2
        <5> QED BY <4>0, <5>1, <5>2 DEF SlotsInv, ActiveHasSlot, At
      <4> QED BY <4>1, <4>2, <4>3
    <3> QED BY <3>1 DEF ActiveHasSlot, At
  <2> QED BY <2>3, <2>4, <2>5 DEF SlotsInv
<1>6. ASSUME NEW w \in Workers, Deactivate(w) PROVE SlotsInv'
  <2>1. /\ req[w].pc = "deactivate" /\ req[w].asset \in Assets /\ Moves(w, "idle", None)
        /\ UNCHANGED slots
        /\ \E s \in {"none", "inactive"} : Writes(req[w].asset, s)
    BY <1>6, Effects
  <2>2. /\ row'[req[w].asset] # "active"
        /\ \A b \in Assets : row'[b] = "active" => row[b] = "active"
    BY <2>1 DEF Writes
  <2>3. /\ req'[w].pc = "idle" /\ \A v \in Workers \ {w} : req'[v] = req[v]
    BY <2>1 DEF Moves
  <2> QED BY <2>1, <2>2, <2>3, SlotsUntouched DEF Unregistering
<1>7. ASSUME NEW w \in Workers, Die(w) PROVE SlotsInv'
  <2>1. /\ Moves(w, "idle", None) /\ raced' = raced \cup {Domain[req[w].asset]}
        /\ UNCHANGED <<row, slots>>
    BY <1>7, Effects
  <2> QED BY <2>1, SlotsUntouched DEF Moves, Unregistering
<1>8. ASSUME UNCHANGED <<slots, req>>,
             \A b \in Assets : row'[b] = "active" => row[b] = "active"
      PROVE  SlotsInv'
  <2>1. Active' \subseteq Active
    BY <1>8 DEF Active
  <2> QED BY <1>8, <2>1 DEF SlotsInv, SlotBeforeRow, SlotOfOne, ActiveHasSlot, At
<1>9. ASSUME NEW a \in Assets,
             \/ CreateAsset(a) \/ DeleteAsset(a)
             \/ \E m \in Methods : StartOwnershipProof(a, m) \/ VerifyOwnershipProof(a, m)
      PROVE  SlotsInv'
  <2>1. UNCHANGED <<slots, req>> /\ (UNCHANGED row \/ Writes(a, "none"))
    BY <1>9, AssetEffects
  <2>2. \A b \in Assets : row'[b] = "active" => row[b] = "active"
    BY <2>1 DEF Writes
  <2> QED BY <1>8, <2>1, <2>2
<1>10. CASE (\E t \in Tenants : SubscriptionChanges(t)) \/ UNCHANGED vars
  BY <1>8, <1>10 DEF SubscriptionChanges, vars
<1> QED BY <1>1, <1>2, <1>3, <1>4, <1>5, <1>6, <1>7, <1>9, <1>10 DEF Next, Request

-----------------------------------------------------------------------------
(* The quota of a client whose requests do not overlap.                    *)

\* What a client has active is a finite set.
LEMMA ActiveOfFinite ==
    ASSUME IsFiniteSet(Active), NEW t
    PROVE  IsFiniteSet(ActiveOf(t)) /\ Cardinality(ActiveOf(t)) \in Nat
BY FS_Subset, FS_CardinalityType DEF ActiveOf

\* Fewer active rows and fewer requests leave more room.
LEMMA RoomKept ==
    ASSUME RoomForRow, Active' \subseteq Active, raced \subseteq raced', TypeOK,
           \A v \in Workers : req'[v].pc \in Registering =>
               req[v].pc \in Registering /\ req'[v].asset = req[v].asset
    PROVE  RoomForRow'
<1>1. IsFiniteSet(Active) /\ IsFiniteSet(Active')
  BY FS_Subset DEF RoomForRow
<1>2. ASSUME NEW t \in Tenants \ raced', Quota[t] # 0
      PROVE  /\ Cardinality(ActiveOf(t)') <= Quota[t]
             /\ \A v \in Workers : req'[v].pc \in Registering /\ Owner[req'[v].asset] = t =>
                   Cardinality(ActiveOf(t)') < Quota[t]
  <2>1. /\ Cardinality(ActiveOf(t)) <= Quota[t]
        /\ \A v \in Workers : req[v].pc \in Registering /\ Owner[req[v].asset] = t =>
              Cardinality(ActiveOf(t)) < Quota[t]
    BY <1>2 DEF RoomForRow
  <2>2. ActiveOf(t)' \subseteq ActiveOf(t)
    BY DEF ActiveOf
  <2>3. Cardinality(ActiveOf(t)') <= Cardinality(ActiveOf(t))
    BY <1>1, <2>2, ActiveOfFinite, FS_Subset
  <2>4. Cardinality(ActiveOf(t)) \in Nat /\ Cardinality(ActiveOf(t)') \in Nat /\ Quota[t] \in Nat
    BY <1>1, <2>2, ActiveOfFinite, FS_Subset, FS_CardinalityType, Shapes
  <2> QED BY <2>1, <2>3, <2>4
<1> QED BY <1>1, <1>2 DEF RoomForRow

\* There is room for the row a request begins to create, and it is counted once.
LEMMA RoomStep ==
    ASSUME TypeOK, RacesSeen, RoomForRow, raced \subseteq raced', [Next]_vars
    PROVE  RoomForRow'
<1>1. ASSUME NEW w \in Workers, NEW a \in Assets, RegisterCheck(w, a) PROVE RoomForRow'
  <2>1. /\ Moves(w, "add", a) /\ EnsureMonitoredAssetQuota(Owner[a]) /\ UNCHANGED row
    BY <1>1, Effects
  <2>2. /\ Active' = Active /\ \A t : ActiveOf(t)' = ActiveOf(t)
    BY <2>1 DEF Active, ActiveOf
  <2>3. ASSUME NEW t \in Tenants \ raced', Quota[t] # 0, NEW v \in Workers,
               req'[v].pc \in Registering, Owner[req'[v].asset] = t
        PROVE  Cardinality(ActiveOf(t)) < Quota[t]
    <3>1. CASE v = w
      BY <2>1, <2>3, <3>1 DEF Moves, EnsureMonitoredAssetQuota
    <3>2. CASE v # w
      BY <2>1, <2>3, <3>2 DEF Moves, RoomForRow
    <3> QED BY <3>1, <3>2
  <2> QED BY <2>2, <2>3 DEF RoomForRow
<1>2. ASSUME NEW w \in Workers, CreateRow(w) PROVE RoomForRow'
  <2> DEFINE a == req[w].asset
  <2>1. /\ req[w].pc = "create" /\ a \in Assets /\ Moves(w, "idle", None) /\ UNCHANGED raced
        /\ \/ UNCHANGED row
           \/ Writes(a, "active") /\ row[a] = "none"
    BY <1>2, Effects
  <2>2. CASE UNCHANGED row
    <3>1. Active' = Active
      BY <2>2 DEF Active
    <3> QED BY <2>1, <3>1, RoomKept DEF Moves, Registering
  <2>3. CASE Writes(a, "active") /\ row[a] = "none"
    <3>1. Active' = Active \cup {a} /\ a \notin Active
      BY <2>1, <2>3 DEF Active, Writes
    <3>2. IsFiniteSet(Active) /\ IsFiniteSet(Active')
      BY <3>1, FS_AddElement DEF RoomForRow
    <3>3. ASSUME NEW t \in Tenants \ raced', Quota[t] # 0, t = Owner[a]
          PROVE  /\ Cardinality(ActiveOf(t)') <= Quota[t]
                 /\ \A v \in Workers : ~ (req'[v].pc \in Registering /\ Owner[req'[v].asset] = t)
      <4>1. ActiveOf(t)' = ActiveOf(t) \cup {a} /\ a \notin ActiveOf(t)
        BY <3>1, <3>3 DEF ActiveOf
      <4>2. Cardinality(ActiveOf(t)') = Cardinality(ActiveOf(t)) + 1
        BY <3>2, <4>1, ActiveOfFinite, FS_AddElement
      <4>3. Cardinality(ActiveOf(t)) < Quota[t]
        BY <2>1, <3>3 DEF RoomForRow, Registering
      <4>4. Cardinality(ActiveOf(t)) \in Nat /\ Quota[t] \in Nat
        BY <3>2, ActiveOfFinite, Shapes
      <4>5. ASSUME NEW v \in Workers, req'[v].pc \in Registering, Owner[req'[v].asset] = t
            PROVE  FALSE
        <5>1. v # w /\ req'[v] = req[v]
          BY <2>1, <4>5 DEF Moves, Registering
        <5> QED BY <2>1, <3>3, <4>5, <5>1 DEF RacesSeen, At, Registering
      <4> QED BY <4>2, <4>3, <4>4, <4>5
    <3>4. ASSUME NEW t \in Tenants \ raced', Quota[t] # 0, t # Owner[a]
          PROVE  /\ Cardinality(ActiveOf(t)') <= Quota[t]
                 /\ \A v \in Workers : req'[v].pc \in Registering /\ Owner[req'[v].asset] = t =>
                       Cardinality(ActiveOf(t)') < Quota[t]
      <4>1. ActiveOf(t)' = ActiveOf(t)
        BY <3>1, <3>4 DEF ActiveOf
      <4> QED BY <2>1, <3>4, <4>1 DEF RoomForRow, Moves, Registering
    <3> QED BY <3>2, <3>3, <3>4 DEF RoomForRow
  <2> QED BY <2>1, <2>2, <2>3
<1>3. ASSUME NEW w \in Workers,
             \/ \E a \in Assets : UnregisterCheck(w, a)
             \/ ProviderAdd(w) \/ ProviderDel(w) \/ Die(w)
      PROVE  RoomForRow'
  <2>1. UNCHANGED row
    BY <1>3, Effects
  <2>2. \/ \E a, pc : pc \notin Registering /\ Moves(w, pc, a)
        \/ req[w].pc = "add" /\ Moves(w, "create", req[w].asset)
    BY <1>3, Effects DEF Registering
  <2>3. Active' = Active
    BY <2>1 DEF Active
  <2> QED BY <2>2, <2>3, RoomKept DEF Moves, Registering
<1>4. ASSUME NEW w \in Workers, Deactivate(w) PROVE RoomForRow'
  <2>1. /\ Moves(w, "idle", None)
        /\ \E s \in {"none", "inactive"} : Writes(req[w].asset, s)
    BY <1>4, Effects
  <2>2. Active' \subseteq Active
    BY <2>1 DEF Active, Writes
  <2> QED BY <2>1, <2>2, RoomKept DEF Moves, Registering
<1>5. ASSUME NEW a \in Assets,
             \/ CreateAsset(a) \/ DeleteAsset(a)
             \/ \E m \in Methods : StartOwnershipProof(a, m) \/ VerifyOwnershipProof(a, m)
      PROVE  RoomForRow'
  <2>1. UNCHANGED req /\ (UNCHANGED row \/ Writes(a, "none"))
    BY <1>5, AssetEffects
  <2>2. Active' \subseteq Active
    BY <2>1 DEF Active, Writes
  <2> QED BY <2>1, <2>2, RoomKept
<1>6. CASE (\E t \in Tenants : SubscriptionChanges(t)) \/ UNCHANGED vars
  <2>1. UNCHANGED <<req, row>>
    BY <1>6 DEF SubscriptionChanges, vars
  <2>2. Active' = Active
    BY <2>1 DEF Active
  <2> QED BY <2>1, <2>2, RoomKept
<1> QED BY <1>1, <1>2, <1>3, <1>4, <1>5, <1>6 DEF Next, Request

\* Every part of the inductive invariant holds in every reachable state.
LEMMA Inductive == Spec => []IInv
<1>1. Init => /\ OneRowADomain /\ ProvenFirst /\ RacesSeen
              /\ SlotBeforeRow /\ SlotOfOne /\ ActiveHasSlot /\ RoomForRow
  <2> SUFFICES ASSUME Init
               PROVE  /\ OneRowADomain /\ ProvenFirst /\ RacesSeen
                      /\ SlotBeforeRow /\ SlotOfOne /\ ActiveHasSlot /\ RoomForRow
    OBVIOUS
  <2>1. /\ \A a \in Assets : row[a] = "none" /\ ~ IsOwnershipProven(a)
        /\ \A w \in Workers : req[w].pc = "idle"
    BY DEF Init, IsOwnershipProven, NoProof, Idle
  <2>2. Active = {} /\ \A t : ActiveOf(t) = {}
    BY <2>1 DEF Active, ActiveOf
  <2>3. RoomForRow
    <3>1. IsFiniteSet(Active) /\ \A t : Cardinality(ActiveOf(t)) = 0
      BY <2>2, FS_EmptySet
    <3>2. \A t \in Tenants : Quota[t] \in Nat
      BY SlotAssumption
    <3> QED BY <2>1, <3>1, <3>2 DEF RoomForRow, Registering
  <2> QED
    BY <2>1, <2>2, <2>3
    DEF OneRowADomain, ProvenFirst, RacesSeen, SlotBeforeRow, SlotOfOne, ActiveHasSlot, At,
        Registering, Unregistering
<1>2. IInv /\ [Next]_vars => (OneRowADomain /\ ProvenFirst /\ RacesSeen
                               /\ SlotBeforeRow /\ SlotOfOne /\ ActiveHasSlot /\ RoomForRow)'
  BY OneRowStep, ProvenStep, RacesStep, SlotsStep, RoomStep DEF IInv, SlotsInv
<1> QED BY <1>1, <1>2, TypeCorrect, PTL DEF Spec, IInv

\* register_monitored_asset and unregister_monitored_asset: an asset shown as
\* monitored has its slot at the provider and the client is within its quota, in
\* whatever order requests run and die, but for the requests that overlapped.
THEOREM SlotsAreKept == Spec => []SlotsKept
<1>1. IInv => SlotsKept
  BY DEF IInv, RoomForRow, SlotsKept, QuotaRespected
<1> QED BY <1>1, Inductive, PTL

=============================================================================
