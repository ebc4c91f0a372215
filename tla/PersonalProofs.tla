--------------------------- MODULE PersonalProofs ---------------------------
(***************************************************************************)
(* Proofs about the links, the second factor, the pseudonyms, the watched  *)
(* accounts and the deliveries of MCPersonal, for any numbers of links,    *)
(* requests, challenges and values.                                        *)
(***************************************************************************)
EXTENDS MCPersonal, Sequences, SequenceTheorems, FiniteSetTheorems, WellFoundedInduction, TLAPS

-----------------------------------------------------------------------------
(* The links of an account.                                                *)

LinkWork ==
    {L!Free}
      \cup [op : {"issue"}, purpose : L!Purposes, seen : SUBSET Links]
      \cup [op : {"accept", "mark"}, l : Links]

\* A request that has read link l and still has to write.
Holder(h, l) == linksWork[h].op \in {"accept", "mark"} /\ linksWork[h].l = l

LinkTypes ==
    /\ link \in [Links -> {L!NoLink} \cup [purpose : L!Purposes, state : {"usable", "expired", "used"}]]
    /\ linksActive \in BOOLEAN
    /\ linksWork \in [Handlers -> LinkWork]
    /\ uses \in [Links -> 0..2]
    /\ late \subseteq Links /\ linksExcused \subseteq Links

\* What an issue has ended stays so: of the links it has seen, none is usable.
IssueEndsThem ==
    \A h \in Handlers : linksWork[h].op = "issue" =>
        \A l \in linksWork[h].seen : /\ link[l].purpose = linksWork[h].purpose
                                     /\ link[l].state # "usable"

\* But for the late ones, two usable links have two purposes.
LivesAlone ==
    \A l, m \in Links \ late :
        link[l].state = "usable" /\ link[m].state = "usable" /\ link[l].purpose = link[m].purpose
          => l = m

\* One request at most holds a link that is not excused; as long as it has not
\* chosen a password none was chosen, and once one was the link is not usable or
\* its request is about to end it.
HeldOnce ==
    \A l \in Links \ linksExcused :
        /\ uses[l] =< 1
        /\ \A g, h \in Handlers : Holder(g, l) /\ Holder(h, l) => g = h
        /\ \A h \in Handlers : Holder(h, l) /\ linksWork[h].op = "accept" => uses[l] = 0
        /\ uses[l] # 0 /\ link[l].state = "usable" =>
              \E h \in Handlers : Holder(h, l) /\ linksWork[h].op = "mark"

\* A link that was not created was neither read nor used.
CreatedFirst ==
    \A l \in Links : link[l] = L!NoLink =>
        uses[l] = 0 /\ \A h \in Handlers : ~ Holder(h, l)

LinksInv == LinkTypes /\ IssueEndsThem /\ LivesAlone /\ HeldOnce /\ CreatedFirst

\* An account without links.
LEMMA LinksInit == L!Init => LinksInv
<1> SUFFICES ASSUME L!Init PROVE LinksInv
  OBVIOUS
<1>1. LinkTypes
  <2>1. linksActive \in BOOLEAN
    BY DEF L!Init
  <2> QED BY <2>1 DEF L!Init, LinkTypes, LinkWork
<1>2. \A h \in Handlers : linksWork[h].op = "free" /\ \A l \in Links : ~ Holder(h, l)
  BY DEF L!Init, L!Free, Holder
<1>3. \A l \in Links : link[l].state = "none" /\ uses[l] = 0
  BY DEF L!Init, L!NoLink
<1>4. IssueEndsThem
  BY <1>2 DEF IssueEndsThem
<1>5. LivesAlone /\ HeldOnce /\ CreatedFirst
  BY <1>2, <1>3 DEF LivesAlone, HeldOnce, CreatedFirst
<1> QED BY <1>1, <1>4, <1>5 DEF LinksInv

\* The types of the links after each step.
LEMMA LinksTyped ==
    ASSUME LinksInv, L!Next
    PROVE  LinkTypes'
<1> USE DEF LinksInv, LinkTypes
<1>1. ASSUME NEW h \in Handlers, NEW p \in L!Purposes, L!InvalidateEarlier(h, p) PROVE LinkTypes'
  <2>1. link' \in [Links -> {L!NoLink} \cup [purpose : L!Purposes, state : {"usable", "expired", "used"}]]
    <3>1. \A l \in Links : link[l].purpose = p => link[l] # L!NoLink
      BY DEF L!NoLink, L!Purposes
    <3>2. \A l \in Links : link[l].purpose = p =>
             [link[l] EXCEPT !.state = "used"]
               \in [purpose : L!Purposes, state : {"usable", "expired", "used"}]
      BY <3>1
    <3> QED BY <1>1, <3>2 DEF L!InvalidateEarlier, L!Ended
  <2>2. linksWork' \in [Handlers -> LinkWork]
    BY <1>1 DEF L!InvalidateEarlier, LinkWork
  <2> QED BY <1>1, <2>1, <2>2 DEF L!InvalidateEarlier
<1>2. ASSUME NEW h \in Handlers, NEW l \in Links, L!CreateLink(h, l) PROVE LinkTypes'
  <2>1. linksWork[h].purpose \in L!Purposes
    BY <1>2 DEF L!CreateLink, LinkWork, L!Free
  <2>2. link' \in [Links -> {L!NoLink} \cup [purpose : L!Purposes, state : {"usable", "expired", "used"}]]
    BY <1>2, <2>1 DEF L!CreateLink
  <2> QED BY <1>2, <2>2 DEF L!CreateLink, LinkWork
<1>3. ASSUME NEW h \in Handlers, NEW l \in Links, L!Resolve(h, l) PROVE LinkTypes'
  BY <1>3 DEF L!Resolve, LinkWork
<1>4. ASSUME NEW h \in Handlers, L!SetPassword(h) PROVE LinkTypes'
  <2>1. linksWork[h] \in [op : {"accept", "mark"}, l : Links]
    BY <1>4 DEF L!SetPassword, LinkWork, L!Free
  <2>2. linksWork' \in [Handlers -> LinkWork]
    BY <1>4, <2>1 DEF L!SetPassword, LinkWork
  <2>3. uses' \in [Links -> 0..2]
    BY <1>4, <2>1 DEF L!SetPassword
  <2>4. linksActive' \in BOOLEAN
    BY <1>4 DEF L!SetPassword
  <2> QED BY <1>4, <2>2, <2>3, <2>4 DEF L!SetPassword
<1>5. ASSUME NEW h \in Handlers, L!MarkUsed(h) PROVE LinkTypes'
  <2>1. linksWork[h] \in [op : {"accept", "mark"}, l : Links]
    BY <1>5 DEF L!MarkUsed, LinkWork, L!Free
  <2>2. link[linksWork[h].l] # L!NoLink
    BY <1>5, <2>1 DEF L!MarkUsed, CreatedFirst, Holder
  <2>3. link' \in [Links -> {L!NoLink} \cup [purpose : L!Purposes, state : {"usable", "expired", "used"}]]
    BY <1>5, <2>1, <2>2 DEF L!MarkUsed
  <2> QED BY <1>5, <2>3 DEF L!MarkUsed, LinkWork
<1>6. ASSUME NEW h \in Handlers, L!Die(h) PROVE LinkTypes'
  <2>1. linksWork[h].op = "mark" => linksWork[h].l \in Links
    BY DEF LinkWork, L!Free
  <2> QED BY <1>6, <2>1 DEF L!Die, LinkWork
<1>7. ASSUME NEW l \in Links, L!Expire(l) PROVE LinkTypes'
  <2>1. link[l] \in [purpose : L!Purposes, state : {"usable", "expired", "used"}]
    BY <1>7 DEF L!Expire, L!NoLink
  <2> QED BY <1>7, <2>1 DEF L!Expire
<1>8. ASSUME L!SetMemberActive PROVE LinkTypes'
  <2>1. linksActive' \in BOOLEAN
    BY <1>8 DEF L!SetMemberActive
  <2> QED BY <1>8, <2>1 DEF L!SetMemberActive
<1> QED BY <1>1, <1>2, <1>3, <1>4, <1>5, <1>6, <1>7, <1>8 DEF L!Next

\* A request writes what it has to write: its work is replaced, the others stay.
Works(h, v) == linksWork' = [linksWork EXCEPT ![h] = v] /\ v \in LinkWork

\* What each step does to the requests, the links and the passwords chosen.
LEMMA LinksKept ==
    ASSUME LinksInv, L!Next
    PROVE  IssueEndsThem' /\ LivesAlone' /\ HeldOnce' /\ CreatedFirst'
<1> DEFINE Goal == IssueEndsThem' /\ LivesAlone' /\ HeldOnce' /\ CreatedFirst'
<1> USE DEF LinksInv
<1>0. /\ link \in [Links -> {L!NoLink} \cup [purpose : L!Purposes, state : {"usable", "expired", "used"}]]
      /\ linksWork \in [Handlers -> LinkWork] /\ uses \in [Links -> 0..2]
      /\ L!NoLink.state = "none" /\ L!NoLink.purpose = "none" /\ L!Free.op = "free"
      /\ "none" \notin L!Purposes
  BY DEF LinkTypes, L!NoLink, L!Free, L!Purposes
<1>1. ASSUME NEW h \in Handlers, NEW p \in L!Purposes, L!InvalidateEarlier(h, p) PROVE Goal
  <2>1. /\ linksWork[h] = L!Free /\ uses' = uses /\ linksExcused' = linksExcused /\ late' = late
        /\ linksWork' = [linksWork EXCEPT ![h] =
              [op |-> "issue", purpose |-> p, seen |-> {l \in Links : link[l].purpose = p}]]
    BY <1>1 DEF L!InvalidateEarlier
  <2>2. \A l \in Links : IF link[l].purpose = p
                         THEN link'[l].purpose = p /\ link'[l].state = "used"
                         ELSE link'[l] = link[l]
    BY <1>0, <1>1 DEF L!InvalidateEarlier, L!Ended
  <2>3. \A x \in Handlers, l \in Links : Holder(x, l)' <=> Holder(x, l)
    BY <1>0, <2>1 DEF Holder
  <2>4. \A x \in Handlers, l \in Links : Holder(x, l) => linksWork'[x].op = linksWork[x].op
    BY <1>0, <2>1 DEF Holder
  <2>5. IssueEndsThem'
    <3>1. \A x \in Handlers \ {h} : linksWork'[x] = linksWork[x]
      BY <1>0, <2>1
    <3>2. /\ linksWork'[h].op = "issue" /\ linksWork'[h].purpose = p
          /\ linksWork'[h].seen = {l \in Links : link[l].purpose = p}
      BY <1>0, <2>1
    <3>3. \A x \in Handlers : linksWork[x].op = "issue" => linksWork[x].seen \subseteq Links
      BY <1>0 DEF LinkWork
    <3> QED BY <2>2, <3>1, <3>2, <3>3 DEF IssueEndsThem
  <2>6. LivesAlone' /\ CreatedFirst'
    BY <1>0, <2>1, <2>2, <2>3 DEF LivesAlone, CreatedFirst
  <2>7. HeldOnce'
    BY <1>0, <2>1, <2>2, <2>3, <2>4 DEF HeldOnce
  <2> QED BY <2>5, <2>6, <2>7
<1>2. ASSUME NEW h \in Handlers, NEW l \in Links, L!CreateLink(h, l) PROVE Goal
  <2> DEFINE p == linksWork[h].purpose
  <2>1. /\ linksWork[h].op = "issue" /\ link[l] = L!NoLink /\ p \in L!Purposes
        /\ link' = [link EXCEPT ![l] = [purpose |-> p, state |-> "usable"]]
        /\ linksWork' = [linksWork EXCEPT ![h] = L!Free]
        /\ uses' = uses /\ linksExcused' = linksExcused
        /\ late \subseteq late'
        /\ (\E x \in Links \ linksWork[h].seen : link[x].purpose = p) => l \in late'
    BY <1>0, <1>2 DEF L!CreateLink, LinkWork
  <2>2. /\ \A x \in Links \ {l} : link'[x] = link[x]
        /\ link'[l].purpose = p /\ link'[l].state = "usable" /\ link'[l] # L!NoLink
    BY <1>0, <2>1
  <2>3. /\ \A x \in Handlers \ {h} : linksWork'[x] = linksWork[x]
        /\ linksWork'[h] = L!Free
    BY <1>0, <2>1
  <2>4. \A x \in Handlers, m \in Links : Holder(x, m)' <=> Holder(x, m)
    BY <1>0, <2>1, <2>3 DEF Holder
  <2>5. IssueEndsThem'
    <3>1. \A x \in Handlers : linksWork[x].op = "issue" =>
             linksWork[x].seen \subseteq Links \ {l}
      BY <1>0, <2>1 DEF IssueEndsThem, LinkWork
    <3> QED BY <1>0, <2>2, <2>3, <3>1 DEF IssueEndsThem
  <2>6. LivesAlone'
    <3>1. ASSUME l \notin late', NEW m \in Links, m # l, link[m].purpose = p
          PROVE  link[m].state # "usable"
      BY <2>1, <3>1 DEF IssueEndsThem
    <3> QED BY <2>1, <2>2, <3>1 DEF LivesAlone
  <2>7. HeldOnce'
    <3>1. uses[l] = 0
      BY <2>1 DEF CreatedFirst
    <3>2. \A x \in Handlers, m \in Links : Holder(x, m) => linksWork'[x].op = linksWork[x].op
      BY <1>0, <2>1, <2>3 DEF Holder
    <3> QED BY <2>1, <2>2, <2>4, <3>1, <3>2 DEF HeldOnce
  <2>8. CreatedFirst'
    BY <2>1, <2>2, <2>4 DEF CreatedFirst
  <2> QED BY <2>5, <2>6, <2>7, <2>8
<1>3. ASSUME NEW h \in Handlers, NEW l \in Links, L!Resolve(h, l) PROVE Goal
  <2>1. /\ linksWork[h] = L!Free /\ link[l].state = "usable"
        /\ linksWork' = [linksWork EXCEPT ![h] = [op |-> "accept", l |-> l]]
        /\ link' = link /\ uses' = uses /\ late' = late /\ linksExcused \subseteq linksExcused'
        /\ (\E x \in Handlers : Holder(x, l)) => l \in linksExcused'
    BY <1>3 DEF L!Resolve, L!IsUsable, Holder
  <2>2. /\ \A x \in Handlers \ {h} : linksWork'[x] = linksWork[x]
        /\ linksWork'[h].op = "accept" /\ linksWork'[h].l = l
    BY <1>0, <2>1
  <2>3. /\ \A x \in Handlers \ {h}, m \in Links : Holder(x, m)' <=> Holder(x, m)
        /\ \A m \in Links : ~ Holder(h, m)
        /\ \A m \in Links : Holder(h, m)' <=> m = l
    BY <1>0, <2>1, <2>2 DEF Holder
  <2>4. IssueEndsThem' /\ LivesAlone'
    BY <2>1, <2>2 DEF IssueEndsThem, LivesAlone
  <2>5. HeldOnce'
    <3>1. ASSUME NEW m \in Links \ linksExcused' PROVE
             /\ uses'[m] =< 1
             /\ \A f, g \in Handlers : Holder(f, m)' /\ Holder(g, m)' => f = g
             /\ \A g \in Handlers : Holder(g, m)' /\ linksWork'[g].op = "accept" => uses'[m] = 0
             /\ uses'[m] # 0 /\ link'[m].state = "usable" =>
                   \E g \in Handlers : Holder(g, m)' /\ linksWork'[g].op = "mark"
      <4>1. CASE m = l
        <5>1. \A x \in Handlers : ~ Holder(x, l)
          BY <2>1, <4>1
        <5>2. uses[l] = 0
          BY <2>1, <4>1, <5>1 DEF HeldOnce
        <5> QED BY <2>1, <2>3, <4>1, <5>1, <5>2
      <4>2. CASE m # l
        <5>1. \A x \in Handlers : Holder(x, m)' <=> Holder(x, m)
          BY <2>3, <4>2
        <5>2. \A x \in Handlers : Holder(x, m) => linksWork'[x].op = linksWork[x].op
          BY <2>2, <2>3
        <5> QED BY <2>1, <5>1, <5>2 DEF HeldOnce
      <4> QED BY <4>1, <4>2
    <3> QED BY <3>1 DEF HeldOnce
  <2>6. CreatedFirst'
    BY <1>0, <2>1, <2>3 DEF CreatedFirst
  <2> QED BY <2>4, <2>5, <2>6
<1>4. ASSUME NEW h \in Handlers, L!SetPassword(h) PROVE Goal
  <2> DEFINE l == linksWork[h].l
  <2>1. /\ linksWork[h].op = "accept" /\ l \in Links /\ Holder(h, l)
        /\ uses' = [uses EXCEPT ![l] = IF uses[l] = 0 THEN 1 ELSE 2]
        /\ linksWork' = [linksWork EXCEPT ![h] = [linksWork[h] EXCEPT !.op = "mark"]]
        /\ link' = link /\ late' = late /\ linksExcused' = linksExcused
    BY <1>0, <1>4 DEF L!SetPassword, LinkWork, Holder
  <2>2. /\ \A x \in Handlers \ {h} : linksWork'[x] = linksWork[x]
        /\ linksWork'[h].op = "mark" /\ linksWork'[h].l = l
    <3>1. linksWork[h] \in [op : {"accept", "mark"}, l : Links]
      BY <1>0, <2>1 DEF LinkWork
    <3> QED BY <1>0, <2>1, <3>1
  <2>3. \A x \in Handlers, m \in Links : Holder(x, m)' <=> Holder(x, m)
    BY <2>1, <2>2 DEF Holder
  <2>4. IssueEndsThem' /\ LivesAlone'
    BY <2>1, <2>2 DEF IssueEndsThem, LivesAlone
  <2>5. HeldOnce'
    <3>1. ASSUME NEW m \in Links \ linksExcused' PROVE
             /\ uses'[m] =< 1
             /\ \A f, g \in Handlers : Holder(f, m)' /\ Holder(g, m)' => f = g
             /\ \A g \in Handlers : Holder(g, m)' /\ linksWork'[g].op = "accept" => uses'[m] = 0
             /\ uses'[m] # 0 /\ link'[m].state = "usable" =>
                   \E g \in Handlers : Holder(g, m)' /\ linksWork'[g].op = "mark"
      <4>0. \A f, g \in Handlers : Holder(f, m) /\ Holder(g, m) => f = g
        BY <2>1 DEF HeldOnce
      <4>1. CASE m = l
        <5>1. uses[l] = 0 /\ uses'[l] = 1
          BY <1>0, <2>1, <4>1 DEF HeldOnce
        <5>2. \A g \in Handlers : Holder(g, l) => g = h
          BY <2>1, <4>0, <4>1
        <5> QED BY <2>1, <2>2, <2>3, <4>0, <4>1, <5>1, <5>2
      <4>2. CASE m # l
        <5>1. uses'[m] = uses[m] /\ ~ Holder(h, m)
          BY <1>0, <2>1, <4>2 DEF Holder
        <5>2. \A x \in Handlers : Holder(x, m) => linksWork'[x].op = linksWork[x].op
          BY <2>2, <5>1
        <5> QED BY <2>1, <2>3, <5>1, <5>2 DEF HeldOnce
      <4> QED BY <4>1, <4>2
    <3> QED BY <3>1 DEF HeldOnce
  <2>6. CreatedFirst'
    <3>1. link[l] # L!NoLink
      BY <2>1 DEF CreatedFirst
    <3> QED BY <1>0, <2>1, <2>3, <3>1 DEF CreatedFirst
  <2> QED BY <2>4, <2>5, <2>6
<1>5. ASSUME NEW h \in Handlers, L!MarkUsed(h) PROVE Goal
  <2> DEFINE l == linksWork[h].l
  <2>1. /\ linksWork[h].op = "mark" /\ l \in Links /\ Holder(h, l)
        /\ link' = [link EXCEPT ![l] = [link[l] EXCEPT !.state = "used"]]
        /\ linksWork' = [linksWork EXCEPT ![h] = L!Free]
        /\ uses' = uses /\ late' = late /\ linksExcused' = linksExcused
    BY <1>0, <1>5 DEF L!MarkUsed, LinkWork, Holder
  <2>2. link[l] # L!NoLink
    BY <2>1 DEF CreatedFirst
  <2>3. /\ \A m \in Links \ {l} : link'[m] = link[m]
        /\ link'[l].state = "used" /\ link'[l].purpose = link[l].purpose
    <3>1. link[l] \in [purpose : L!Purposes, state : {"usable", "expired", "used"}]
      BY <1>0, <2>1, <2>2
    <3> QED BY <1>0, <2>1, <3>1
  <2>4. /\ \A x \in Handlers \ {h} : linksWork'[x] = linksWork[x]
        /\ linksWork'[h].op = "free"
    BY <1>0, <2>1
  <2>5. /\ \A x \in Handlers \ {h}, m \in Links : Holder(x, m)' <=> Holder(x, m)
        /\ \A m \in Links : ~ Holder(h, m)'
        /\ \A m \in Links \ {l} : ~ Holder(h, m)
    BY <2>1, <2>4 DEF Holder
  <2>6. IssueEndsThem' /\ LivesAlone'
    <3>1. \A x \in Handlers : linksWork[x].op = "issue" => linksWork[x].seen \subseteq Links
      BY <1>0 DEF LinkWork
    <3> QED BY <2>1, <2>3, <2>4, <3>1 DEF IssueEndsThem, LivesAlone
  <2>7. HeldOnce'
    BY <2>1, <2>3, <2>4, <2>5 DEF HeldOnce
  <2>8. CreatedFirst'
    <3>1. link'[l] # L!NoLink
      BY <1>0, <2>3
    <3> QED BY <2>1, <2>3, <2>5, <3>1 DEF CreatedFirst
  <2> QED BY <2>6, <2>7, <2>8
<1>6. ASSUME NEW h \in Handlers, L!Die(h) PROVE Goal
  <2>1. /\ linksWork' = [linksWork EXCEPT ![h] = L!Free]
        /\ link' = link /\ uses' = uses /\ late' = late /\ linksExcused \subseteq linksExcused'
        /\ linksWork[h].op = "mark" => linksWork[h].l \in linksExcused'
    BY <1>6 DEF L!Die
  <2>2. /\ \A x \in Handlers \ {h} : linksWork'[x] = linksWork[x]
        /\ linksWork'[h].op = "free"
    BY <1>0, <2>1
  <2>3. /\ \A x \in Handlers \ {h}, m \in Links : Holder(x, m)' <=> Holder(x, m)
        /\ \A m \in Links : ~ Holder(h, m)'
    BY <2>2 DEF Holder
  <2>4. IssueEndsThem' /\ LivesAlone' /\ CreatedFirst'
    BY <2>1, <2>2, <2>3 DEF IssueEndsThem, LivesAlone, CreatedFirst
  <2>5. HeldOnce'
    <3>1. \A m \in Links \ linksExcused' : ~ (Holder(h, m) /\ linksWork[h].op = "mark")
      BY <2>1 DEF Holder
    <3> QED BY <2>1, <2>2, <2>3, <3>1 DEF HeldOnce
  <2> QED BY <2>4, <2>5
<1>7. ASSUME NEW l \in Links, L!Expire(l) PROVE Goal
  <2>1. /\ link[l].state = "usable" /\ link' = [link EXCEPT ![l].state = "expired"]
        /\ linksWork' = linksWork /\ uses' = uses /\ late' = late /\ linksExcused' = linksExcused
    BY <1>7 DEF L!Expire
  <2>2. /\ \A m \in Links \ {l} : link'[m] = link[m]
        /\ link'[l].state = "expired" /\ link'[l].purpose = link[l].purpose
        /\ link'[l] # L!NoLink
    <3>1. link[l] \in [purpose : L!Purposes, state : {"usable", "expired", "used"}]
      BY <1>0, <2>1
    <3>2. /\ \A m \in Links \ {l} : link'[m] = link[m]
          /\ link'[l].state = "expired" /\ link'[l].purpose = link[l].purpose
      BY <1>0, <2>1, <3>1
    <3> QED BY <1>0, <3>2
  <2>3. \A x \in Handlers, m \in Links : Holder(x, m)' <=> Holder(x, m)
    BY <2>1 DEF Holder
  <2>4. IssueEndsThem'
    <3>1. \A x \in Handlers : linksWork[x].op = "issue" => linksWork[x].seen \subseteq Links
      BY <1>0 DEF LinkWork
    <3> QED BY <2>1, <2>2, <3>1 DEF IssueEndsThem
  <2>5. LivesAlone' /\ CreatedFirst' /\ HeldOnce'
    BY <2>1, <2>2, <2>3 DEF LivesAlone, CreatedFirst, HeldOnce
  <2> QED BY <2>4, <2>5
<1>8. ASSUME UNCHANGED <<link, linksWork, uses, late, linksExcused>> PROVE Goal
  BY <1>8 DEF IssueEndsThem, LivesAlone, CreatedFirst, HeldOnce, Holder
<1> QED BY <1>1, <1>2, <1>3, <1>4, <1>5, <1>6, <1>7, <1>8 DEF L!Next, L!SetMemberActive

\* The invariant of the links holds whatever moves.
LEMMA LinksStep == LinksInv /\ (L!Next \/ UNCHANGED linksVars) => LinksInv'
<1>1. LinksInv /\ L!Next => LinksInv'
  BY LinksTyped, LinksKept DEF LinksInv
<1>2. LinksInv /\ UNCHANGED linksVars => LinksInv'
  BY DEF LinksInv, linksVars, LinkTypes, IssueEndsThem, LivesAlone, HeldOnce, CreatedFirst, Holder
<1> QED BY <1>1, <1>2

\* A set whose elements are all equal has one at most.
LEMMA AtMostOne ==
    ASSUME NEW S, \A x, y \in S : x = y
    PROVE  L!Cardinality(S) =< 1
<1>0. L!Cardinality(S) = Cardinality(S)
  BY DEF Cardinality, L!Cardinality
<1>1. CASE S = {}
  BY <1>0, <1>1, FS_EmptySet
<1>2. CASE S # {}
  <2>1. PICK x \in S : TRUE
    BY <1>2
  <2>2. S = {x}
    BY <2>1
  <2> QED BY <1>0, <2>2, FS_Singleton
<1> QED BY <1>0, <1>1, <1>2

\* What the invariant says of the links is what the property says.
LEMMA LinksServe == LinksInv => L!TypeOK /\ L!OneLivingLink /\ L!LinkServesOnce
<1> SUFFICES ASSUME LinksInv PROVE L!TypeOK /\ L!OneLivingLink /\ L!LinkServesOnce
  OBVIOUS
<1>1. L!TypeOK
  <2>1. ASSUME NEW h \in Handlers
        PROVE  \/ linksWork[h] = L!Free
               \/ linksWork[h] \in [op : {"issue"}, purpose : L!Purposes, seen : SUBSET Links]
               \/ /\ linksWork[h] \in [op : {"accept", "mark"}, l : Links]
                  /\ link[linksWork[h].l] # L!NoLink
    BY DEF LinksInv, LinkTypes, LinkWork, CreatedFirst, Holder
  <2> QED BY <2>1 DEF LinksInv, LinkTypes, L!TypeOK
<1>2. L!OneLivingLink
  <2>1. ASSUME NEW p \in L!Purposes
        PROVE  L!Cardinality({l \in Links \ late : link[l].purpose = p /\ L!IsUsable(l)}) =< 1
    <3> DEFINE S == {l \in Links \ late : link[l].purpose = p /\ L!IsUsable(l)}
    <3>1. \A x, y \in S : x = y
      BY DEF LinksInv, LivesAlone, L!IsUsable
    <3> HIDE DEF S
    <3>2. L!Cardinality(S) =< 1
      BY <3>1, AtMostOne
    <3> QED BY <3>2 DEF S
  <2> QED BY <2>1 DEF L!OneLivingLink
<1>3. L!LinkServesOnce
  BY DEF LinksInv, HeldOnce, L!LinkServesOnce
<1> QED BY <1>1, <1>2, <1>3

-----------------------------------------------------------------------------
(* The second factor of an account.                                        *)

Answering == {"code", "found", "verified"}

\* A confirmation that has read the factor, saved it, deleted the old codes; a
\* request that has disabled the factor.
Steps == {"pending", "confirmed", "deleted", "disabled"}

PostStates ==
    {F!Free} \cup [at : Steps] \cup [at : Answering, c : Challenges, k : Links \cup {"none"}]

\* A post answers a challenge, with a code once it has found one.
PostFits(s) ==
    /\ s.at \in Answering => s.c \in Challenges
    /\ s.at = "code" => s.k = "none"
    /\ s.at = "found" => s.k \in Links

FactorTypes ==
    /\ factorActive \in BOOLEAN
    /\ totp \in {"none", "pending", "on"}
    /\ unused \subseteq stored /\ stored \subseteq issued /\ issued \subseteq Links
    /\ seen \subseteq Handlers
    /\ chall \in [Challenges -> {"new", "open", "gone"}]
    /\ post \in [Handlers -> PostStates]
    /\ \A p \in Handlers : PostFits(post[p])
    /\ sessions \in [Challenges \cup Links -> 0..2]
    /\ last \subseteq issued
    /\ factorExcused \subseteq Challenges \cup Links
    /\ overlapped \subseteq issued

Answers(p, c) == post[p].at \in Answering /\ post[p].c = c
Spends(p, k) == post[p].at \in {"found", "verified"} /\ post[p].k = k

\* A challenge that is not excused is answered by one post at most, which has not
\* opened its session yet; once it is opened the challenge is gone.
ChallengeOnce ==
    \A c \in Challenges \ factorExcused :
        /\ sessions[c] =< 1
        /\ sessions[c] # 0 => chall[c] = "gone"
        /\ \A p \in Handlers : Answers(p, c) => sessions[c] = 0
        /\ \A p, q \in Handlers : Answers(p, c) /\ Answers(q, c) => p = q

\* Nobody knows the codes of a batch before they are written.
CodesAreNew ==
    \A k \in Links \ issued : sessions[k] = 0 /\ \A p \in Handlers : ~ Spends(p, k)

\* Once a generation has deleted the old codes, those that work were all written since.
NoOldCode == (\E p \in Handlers : post[p].at = "deleted") => unused \subseteq overlapped

\* A code that is verified was marked; but for the excused ones, a code is spent
\* by one post at most and works no longer once it has opened its session.
CodeOnce ==
    /\ \A p \in Handlers, k \in Links : Spends(p, k) /\ post[p].at = "verified" => k \notin unused
    /\ \A k \in Links \ factorExcused :
        /\ sessions[k] =< 1
        /\ sessions[k] # 0 => k \notin unused
        /\ \A p \in Handlers : Spends(p, k) => sessions[k] = 0
        /\ \A p, q \in Handlers : Spends(p, k) /\ Spends(q, k) => p = q

FactorInv ==
    FactorTypes /\ ChallengeOnce /\ CodesAreNew /\ CodeOnce /\ NoOldCode /\ F!OnlyLastCodesWork

\* An account without a factor.
LEMMA FactorInit == F!Init => FactorInv
<1> SUFFICES ASSUME F!Init PROVE FactorInv
  OBVIOUS
<1>0. F!Free.at = "free" /\ F!Free \in PostStates /\ PostFits(F!Free)
  BY DEF F!Free, PostStates, PostFits, Answering
<1>1. factorActive \in BOOLEAN
  BY DEF F!Init
<1>2. FactorTypes
  BY <1>0, <1>1 DEF F!Init, FactorTypes
<1>3. \A p \in Handlers : post[p].at = "free"
  BY <1>0 DEF F!Init
<1>4. ChallengeOnce /\ CodesAreNew /\ CodeOnce
  BY <1>3 DEF F!Init, ChallengeOnce, CodesAreNew, CodeOnce, Answers, Spends, Answering
<1>5. NoOldCode /\ F!OnlyLastCodesWork
  BY DEF F!Init, NoOldCode, F!OnlyLastCodesWork
<1> QED BY <1>2, <1>4, <1>5 DEF FactorInv

\* Post p is now v, which fits; the others are what they were.
Turns(p, v) ==
    /\ post' = [post EXCEPT ![p] = v]
    /\ v \in PostStates
    /\ PostFits(v)

\* What each step that a post takes makes of it.
LEMMA PostMoves ==
    ASSUME FactorInv, NEW p \in Handlers
    PROVE  /\ \A c \in Challenges : F!ResolveChallenge(p, c) =>
                 \E v \in PostStates : Turns(p, v) /\ v.at = "code" /\ v.c = c
           /\ F!VerifyTotpCode(p) =>
                 \E v \in PostStates : Turns(p, v) /\ v.at = "verified" /\ v.c = post[p].c /\ v.k = "none"
           /\ \A k \in Links : F!FindRecoveryCode(p, k) =>
                 \E v \in PostStates : Turns(p, v) /\ v.at = "found" /\ v.c = post[p].c /\ v.k = k
           /\ F!MarkCode(p) =>
                 \E v \in PostStates : Turns(p, v) /\ v.at = "verified" /\ v.c = post[p].c /\ v.k = post[p].k
           /\ F!GiveTokens(p) \/ (\E k \in Links : F!CreateCodes(p, k)) \/ F!DropCodes(p) \/ F!GiveUp(p) =>
                 \E v \in PostStates : Turns(p, v) /\ v.at = "free"
           /\ F!LoadPending(p) \/ F!ConfirmEnrollment(p) \/ F!DisableTotp(p) =>
                 \E v \in PostStates : Turns(p, v) /\ v.at \in {"pending", "confirmed", "disabled"}
           /\ F!DeleteOldCodes(p) =>
                 \E v \in PostStates : Turns(p, v) /\ v.at = "deleted"
<1> DEFINE s == post[p]
           Full == [at : Answering, c : Challenges, k : Links \cup {"none"}]
<1>0. /\ s \in PostStates /\ PostFits(s) /\ post \in [Handlers -> PostStates]
      /\ s.at \in Answering => s \in Full
      /\ F!Free.at = "free" /\ F!Free \in PostStates /\ PostFits(F!Free)
      /\ Full \subseteq PostStates
  BY DEF FactorInv, FactorTypes, PostStates, PostFits, F!Free, Answering, Steps
<1>1. ASSUME NEW c \in Challenges, F!ResolveChallenge(p, c)
      PROVE  \E v \in PostStates : Turns(p, v) /\ v.at = "code" /\ v.c = c
  <2> DEFINE v == [at |-> "code", c |-> c, k |-> "none"]
  <2>1. v \in Full /\ v.at = "code" /\ v.c = c /\ v.k = "none" /\ PostFits(v)
    BY DEF PostFits, Answering
  <2> QED BY <1>0, <1>1, <2>1 DEF F!ResolveChallenge, Turns
<1>2. ASSUME F!VerifyTotpCode(p)
      PROVE  \E v \in PostStates : Turns(p, v) /\ v.at = "verified" /\ v.c = post[p].c /\ v.k = "none"
  <2> DEFINE v == [s EXCEPT !.at = "verified"]
  <2>1. s.at = "code" /\ post' = [post EXCEPT ![p] = v]
    BY <1>2 DEF F!VerifyTotpCode
  <2>2. /\ v \in Full /\ v.at = "verified" /\ v.c = s.c /\ v.k = "none" /\ PostFits(v)
    BY <1>0, <2>1 DEF PostFits, Answering
  <2> QED BY <1>0, <2>1, <2>2 DEF Turns
<1>3. ASSUME NEW k \in Links, F!FindRecoveryCode(p, k)
      PROVE  \E v \in PostStates : Turns(p, v) /\ v.at = "found" /\ v.c = post[p].c /\ v.k = k
  <2> DEFINE v == [s EXCEPT !.at = "found", !.k = k]
  <2>1. s.at = "code" /\ s \in Full
    BY <1>0, <1>3 DEF F!FindRecoveryCode, Answering
  <2>2. post' = [post EXCEPT ![p] = v]
    BY <1>0, <1>3, <2>1 DEF F!FindRecoveryCode
  <2>3. /\ v \in Full /\ v.at = "found" /\ v.c = s.c /\ v.k = k /\ PostFits(v)
    BY <1>0, <2>1 DEF PostFits, Answering
  <2> QED BY <1>0, <2>2, <2>3 DEF Turns
<1>4. ASSUME F!MarkCode(p)
      PROVE  \E v \in PostStates : Turns(p, v) /\ v.at = "verified" /\ v.c = post[p].c /\ v.k = post[p].k
  <2> DEFINE v == [s EXCEPT !.at = "verified"]
  <2>1. s.at = "found" /\ post' = [post EXCEPT ![p] = v]
    BY <1>4 DEF F!MarkCode
  <2>2. /\ v \in Full /\ v.at = "verified" /\ v.c = s.c /\ v.k = s.k /\ PostFits(v)
    BY <1>0, <2>1 DEF PostFits, Answering
  <2> QED BY <1>0, <2>1, <2>2 DEF Turns
<1>5. ASSUME F!GiveTokens(p) \/ (\E k \in Links : F!CreateCodes(p, k)) \/ F!DropCodes(p) \/ F!GiveUp(p)
      PROVE  \E v \in PostStates : Turns(p, v) /\ v.at = "free"
  <2>1. post' = [post EXCEPT ![p] = F!Free]
    BY <1>5 DEF F!GiveTokens, F!CreateCodes, F!DropCodes, F!GiveUp
  <2> QED BY <1>0, <2>1 DEF Turns
<1>6. ASSUME NEW at \in Steps, post' = [post EXCEPT ![p] = [at |-> at]]
      PROVE  Turns(p, [at |-> at]) /\ [at |-> at] \in PostStates /\ [at |-> at].at = at
  <2>1. [at |-> at] \in PostStates /\ [at |-> at].at = at /\ PostFits([at |-> at])
    BY DEF PostStates, PostFits, Answering, Steps
  <2> QED BY <1>6, <2>1 DEF Turns
<1>7. ASSUME F!LoadPending(p) \/ F!ConfirmEnrollment(p) \/ F!DisableTotp(p)
      PROVE  \E v \in PostStates : Turns(p, v) /\ v.at \in {"pending", "confirmed", "disabled"}
  <2>1. PICK at \in {"pending", "confirmed", "disabled"} : post' = [post EXCEPT ![p] = [at |-> at]]
    BY <1>7 DEF F!LoadPending, F!ConfirmEnrollment, F!DisableTotp
  <2>2. at \in Steps
    BY DEF Steps
  <2> QED BY <1>6, <2>1, <2>2
<1>8. ASSUME F!DeleteOldCodes(p)
      PROVE  \E v \in PostStates : Turns(p, v) /\ v.at = "deleted"
  <2>1. post' = [post EXCEPT ![p] = [at |-> "deleted"]] /\ "deleted" \in Steps
    BY <1>8 DEF F!DeleteOldCodes, Steps
  <2> QED BY <1>6, <2>1
<1> QED BY <1>1, <1>2, <1>3, <1>4, <1>5, <1>7, <1>8

\* When post p turns, what the others answer, spend and write stays, and what p
\* does is what it has become.
LEMMA TurnEffect ==
    ASSUME FactorTypes, NEW p \in Handlers, NEW v \in PostStates, Turns(p, v)
    PROVE  /\ post'[p] = v /\ \A q \in Handlers \ {p} : post'[q] = post[q]
           /\ post' \in [Handlers -> PostStates] /\ \A q \in Handlers : PostFits(post'[q])
           /\ \A q \in Handlers \ {p}, x \in Challenges \cup Links :
                 /\ Answers(q, x)' <=> Answers(q, x)
                 /\ Spends(q, x)' <=> Spends(q, x)
           /\ \A x \in Challenges \cup Links :
                 /\ Answers(p, x)' <=> v.at \in Answering /\ v.c = x
                 /\ Spends(p, x)' <=> v.at \in {"found", "verified"} /\ v.k = x
<1>1. /\ post'[p] = v /\ \A q \in Handlers \ {p} : post'[q] = post[q]
      /\ post' \in [Handlers -> PostStates] /\ \A q \in Handlers : PostFits(post'[q])
  BY DEF FactorTypes, Turns
<1> QED BY <1>1 DEF Answers, Spends

\* The types of the factor after each step.
LEMMA FactorTyped ==
    ASSUME FactorInv, F!Next
    PROVE  FactorTypes'
<1>0. FactorTypes
  BY DEF FactorInv
<1> DEFINE Posts == post' \in [Handlers -> PostStates] /\ \A q \in Handlers : PostFits(post'[q])
<1>1. ASSUME UNCHANGED post PROVE Posts
  BY <1>0, <1>1 DEF FactorTypes
<1>2. ASSUME NEW p \in Handlers, NEW v \in PostStates, Turns(p, v) PROVE Posts
  BY <1>0, <1>2, TurnEffect
<1> HIDE DEF Posts
<1>3. ASSUME NEW c \in Challenges, F!Login(c) \/ F!ChallengeExpires(c) PROVE FactorTypes'
  <2>1. Posts
    BY <1>1, <1>3 DEF F!Login, F!ChallengeExpires, F!codes
  <2>2. chall' \in [Challenges -> {"new", "open", "gone"}]
    BY <1>0, <1>3 DEF F!Login, F!ChallengeExpires, FactorTypes
  <2> QED BY <1>0, <1>3, <2>1, <2>2 DEF F!Login, F!ChallengeExpires, FactorTypes, Posts, F!codes
<1>4. ASSUME NEW p \in Handlers, NEW c \in Challenges, F!ResolveChallenge(p, c) PROVE FactorTypes'
  <2>1. Posts
    BY <1>2, <1>4, PostMoves
  <2> QED BY <1>0, <1>4, <2>1 DEF F!ResolveChallenge, FactorTypes, Posts, F!codes
<1>5. ASSUME NEW p \in Handlers, NEW k \in Links, F!FindRecoveryCode(p, k) PROVE FactorTypes'
  <2>1. Posts
    BY <1>2, <1>5, PostMoves
  <2> QED BY <1>0, <1>5, <2>1 DEF F!FindRecoveryCode, FactorTypes, Posts, F!codes
<1>6. ASSUME NEW p \in Handlers, F!LoadPending(p) \/ F!ConfirmEnrollment(p) \/ F!DeleteOldCodes(p)
      PROVE  FactorTypes'
  <2>1. Posts
    BY <1>2, <1>6, PostMoves
  <2> QED BY <1>0, <1>6, <2>1 DEF F!LoadPending, F!ConfirmEnrollment, F!DeleteOldCodes, FactorTypes,
                                  Posts, F!codes
<1>7. ASSUME NEW p \in Handlers, F!VerifyTotpCode(p) \/ F!MarkCode(p) PROVE FactorTypes'
  <2>1. Posts
    BY <1>2, <1>7, PostMoves
  <2> QED BY <1>0, <1>7, <2>1 DEF F!VerifyTotpCode, F!MarkCode, FactorTypes, Posts, F!codes
<1>8. ASSUME NEW p \in Handlers, F!GiveTokens(p) PROVE FactorTypes'
  <2>1. Posts
    BY <1>2, <1>8, PostMoves
  <2>2. sessions' \in [Challenges \cup Links -> 0..2]
    <3>1. sessions \in [Challenges \cup Links -> 0..2]
      BY <1>0 DEF FactorTypes
    <3>2. \A x : F!Once(x) \in 0..2
      BY DEF F!Once
    <3>3. sessions' = [x \in Challenges \cup Links |->
                         IF x \in {post[p].c, post[p].k} THEN F!Once(x) ELSE sessions[x]]
      BY <1>8, <3>1 DEF F!GiveTokens
    <3> QED BY <3>1, <3>2, <3>3
  <2>3. chall' \in [Challenges -> {"new", "open", "gone"}]
    BY <1>0, <1>8 DEF F!GiveTokens, FactorTypes
  <2> QED BY <1>0, <1>8, <2>1, <2>2, <2>3 DEF F!GiveTokens, FactorTypes, Posts, F!codes
<1>9. ASSUME NEW p \in Handlers, NEW k \in Links, F!CreateCodes(p, k) PROVE FactorTypes'
  <2>1. Posts
    BY <1>2, <1>9, PostMoves
  <2> QED BY <1>0, <1>9, <2>1 DEF F!CreateCodes, FactorTypes, Posts
<1>10. ASSUME NEW p \in Handlers, F!DisableTotp(p) \/ F!DropCodes(p) \/ F!GiveUp(p) PROVE FactorTypes'
  <2>1. Posts
    BY <1>2, <1>10, PostMoves
  <2> QED BY <1>0, <1>10, <2>1 DEF F!DisableTotp, F!DropCodes, F!GiveUp, FactorTypes, Posts, F!codes
<1>11. ASSUME F!StartEnrollment PROVE FactorTypes'
  BY <1>0, <1>1, <1>11 DEF F!StartEnrollment, FactorTypes, Posts, F!codes
<1>12. ASSUME F!SetActive PROVE FactorTypes'
  <2>1. factorActive' \in BOOLEAN
    BY <1>12 DEF F!SetActive
  <2> QED BY <1>0, <1>1, <1>12, <2>1 DEF F!SetActive, FactorTypes, Posts, F!codes
<1> QED BY <1>3, <1>4, <1>5, <1>6, <1>7, <1>8, <1>9, <1>10, <1>11, <1>12 DEF F!Next

\* Nothing that counts moves: the posts, the challenges, the codes, the sessions.
LEMMA FactorQuiet ==
    ASSUME FactorInv, UNCHANGED <<unused, post, issued, sessions, factorExcused>>,
           \A c \in Challenges : sessions[c] # 0 /\ c \notin factorExcused => chall'[c] = chall[c]
    PROVE  ChallengeOnce' /\ CodesAreNew' /\ CodeOnce'
BY DEF FactorInv, ChallengeOnce, CodesAreNew, CodeOnce, Answers, Spends

\* A post turns and neither answers, spends nor writes anything it did not.
LEMMA FactorLess ==
    ASSUME FactorInv, NEW p \in Handlers, NEW v \in PostStates, Turns(p, v),
           sessions' = sessions, issued' = issued, factorExcused' = factorExcused,
           chall' = chall, unused' \subseteq unused,
           \A x \in Challenges \cup Links :
              /\ Answers(p, x)' => Answers(p, x)
              /\ Spends(p, x)' => Spends(p, x),
           v.at = "verified" => \A x \in Links : Spends(p, x)' => x \notin unused'
    PROVE  ChallengeOnce' /\ CodesAreNew' /\ CodeOnce'
<1>0. FactorTypes
  BY DEF FactorInv
<1>1. /\ post'[p] = v /\ \A q \in Handlers \ {p} : post'[q] = post[q]
      /\ \A q \in Handlers \ {p}, x \in Challenges \cup Links :
            (Answers(q, x)' <=> Answers(q, x)) /\ (Spends(q, x)' <=> Spends(q, x))
  BY <1>0, TurnEffect
<1>2. \A q \in Handlers, x \in Challenges \cup Links :
         (Answers(q, x)' => Answers(q, x)) /\ (Spends(q, x)' => Spends(q, x))
  BY <1>1
<1>3. ChallengeOnce' /\ CodesAreNew'
  BY <1>2 DEF FactorInv, ChallengeOnce, CodesAreNew
<1>4. CodeOnce'
  <2>1. ASSUME NEW q \in Handlers, NEW k \in Links, Spends(q, k)', post'[q].at = "verified"
        PROVE  k \notin unused'
    BY <1>1, <1>2, <2>1 DEF FactorInv, CodeOnce
  <2> QED BY <1>2, <2>1 DEF FactorInv, CodeOnce
<1> QED BY <1>3, <1>4

\* Sessions open once, and codes are new.
LEMMA FactorKept ==
    ASSUME FactorInv, F!Next
    PROVE  ChallengeOnce' /\ CodesAreNew' /\ CodeOnce'
<1> DEFINE Goal == ChallengeOnce' /\ CodesAreNew' /\ CodeOnce'
<1>0. /\ FactorTypes /\ ChallengeOnce /\ CodesAreNew /\ CodeOnce
      /\ chall \in [Challenges -> {"new", "open", "gone"}]
  BY DEF FactorInv, FactorTypes
<1>a. ASSUME NEW p \in Handlers
      PROVE  /\ post[p].at \in Answering => post[p].c \in Challenges
             /\ post[p].at = "code" => post[p].k = "none"
             /\ post[p].at = "found" => post[p].k \in Links
             /\ "none" \notin Links \cup Challenges
             /\ post[p] = F!Free => post[p].at = "free"
  BY <1>0, IdentityAssumption DEF FactorTypes, PostFits, F!Free
<1>1. ASSUME NEW c \in Challenges, F!Login(c) \/ F!ChallengeExpires(c) PROVE Goal
  <2>1. \A d \in Challenges : sessions[d] # 0 /\ d \notin factorExcused => chall'[d] = chall[d]
    BY <1>0, <1>1 DEF F!Login, F!ChallengeExpires, ChallengeOnce, F!codes
  <2> QED BY <1>1, <2>1, FactorQuiet DEF F!Login, F!ChallengeExpires, F!codes
<1>2. ASSUME NEW p \in Handlers, NEW c \in Challenges, F!ResolveChallenge(p, c) PROVE Goal
  <2>1. PICK v \in PostStates : Turns(p, v) /\ v.at = "code" /\ v.c = c
    BY <1>2, PostMoves
  <2>2. /\ chall[c] = "open" /\ post[p].at = "free"
        /\ chall' = chall /\ sessions' = sessions /\ unused' = unused /\ issued' = issued
        /\ factorExcused \subseteq factorExcused'
        /\ (\E q \in Handlers : Answers(q, c)) => c \in factorExcused'
    BY <1>a, <1>2 DEF F!ResolveChallenge, F!Holding, Answers, Answering, F!codes
  <2>3. /\ \A q \in Handlers \ {p}, x \in Challenges \cup Links :
              /\ Answers(q, x)' <=> Answers(q, x)
              /\ Spends(q, x)' <=> Spends(q, x)
        /\ \A x \in Challenges \cup Links :
              (Answers(p, x)' <=> x = c) /\ ~ Spends(p, x)'
        /\ \A q \in Handlers \ {p} : post'[q] = post[q]
    <3>1. "code" \in Answering /\ "code" \notin {"found", "verified"}
      BY DEF Answering
    <3> QED BY <1>0, <2>1, <3>1, TurnEffect
  <2>4. \A x \in Challenges \cup Links : ~ Answers(p, x) /\ ~ Spends(p, x)
    BY <2>2 DEF Answers, Spends, Answering
  <2>5. ChallengeOnce'
    BY <1>0, <2>2, <2>3, <2>4 DEF ChallengeOnce
  <2>6. CodesAreNew'
    BY <1>0, <2>2, <2>3, <2>4 DEF CodesAreNew
  <2>7. CodeOnce'
    BY <1>0, <2>2, <2>3, <2>4 DEF CodeOnce
  <2> QED BY <2>5, <2>6, <2>7
<1>3. ASSUME NEW p \in Handlers, NEW k \in Links, F!FindRecoveryCode(p, k) PROVE Goal
  <2>1. PICK v \in PostStates : Turns(p, v) /\ v.at = "found" /\ v.c = post[p].c /\ v.k = k
    BY <1>3, PostMoves
  <2>2. /\ post[p].at = "code" /\ k \in unused
        /\ chall' = chall /\ sessions' = sessions /\ unused' = unused /\ issued' = issued
        /\ factorExcused \subseteq factorExcused'
        /\ (\E q \in Handlers : Spends(q, k)) => k \in factorExcused'
    BY <1>3 DEF F!FindRecoveryCode, F!Holding, Spends, F!codes
  <2>3. /\ \A q \in Handlers \ {p}, x \in Challenges \cup Links :
              /\ Answers(q, x)' <=> Answers(q, x)
              /\ Spends(q, x)' <=> Spends(q, x)
        /\ \A x \in Challenges \cup Links :
              (Answers(p, x)' <=> v.c = x) /\ (Spends(p, x)' <=> x = k)
        /\ post'[p].at = "found" /\ \A q \in Handlers \ {p} : post'[q] = post[q]
    <3>1. "found" \in Answering /\ "found" \in {"found", "verified"}
      BY DEF Answering
    <3>2. \A x : k = x <=> x = k
      OBVIOUS
    <3> QED BY <1>0, <2>1, <3>1, <3>2, TurnEffect
  <2>4. \A x \in Challenges \cup Links : /\ Answers(p, x) <=> v.c = x
                                         /\ ~ Spends(p, x)
    BY <2>1, <2>2 DEF Answers, Spends, Answering
  <2>5. \A q \in Handlers, x \in Challenges \cup Links :
           (Answers(q, x)' <=> Answers(q, x))
    BY <2>3, <2>4
  <2>6. ChallengeOnce'
    BY <1>0, <2>2, <2>5 DEF ChallengeOnce
  <2>7. CodesAreNew'
    BY <1>0, <2>2, <2>3, <2>5 DEF CodesAreNew, FactorTypes
  <2>8. CodeOnce'
    BY <1>0, <2>2, <2>3, <2>4 DEF CodeOnce
  <2> QED BY <2>6, <2>7, <2>8
<1>4. ASSUME NEW p \in Handlers, F!VerifyTotpCode(p) PROVE Goal
  <2>1. PICK v \in PostStates : Turns(p, v) /\ v.at = "verified" /\ v.c = post[p].c /\ v.k = "none"
    BY <1>4, PostMoves
  <2>2. /\ post[p].at = "code" /\ chall' = chall /\ sessions' = sessions /\ unused' = unused
        /\ issued' = issued /\ factorExcused' = factorExcused
    BY <1>4 DEF F!VerifyTotpCode, F!codes
  <2>3. \A x \in Challenges \cup Links :
           (Answers(p, x)' => Answers(p, x)) /\ (~ Spends(p, x)')
    <3>1. \A x \in Challenges \cup Links :
             /\ Answers(p, x)' <=> v.at \in Answering /\ v.c = x
             /\ Spends(p, x)' <=> v.at \in {"found", "verified"} /\ v.k = x
      BY <1>0, <2>1, TurnEffect
    <3>2. \A x \in Challenges \cup Links : Answers(p, x) <=> v.c = x
      BY <2>1, <2>2 DEF Answers, Answering
    <3> QED BY <1>a, <2>1, <3>1, <3>2
  <2> QED BY <2>1, <2>2, <2>3, FactorLess
<1>5. ASSUME NEW p \in Handlers, F!MarkCode(p) PROVE Goal
  <2>1. PICK v \in PostStates : Turns(p, v) /\ v.at = "verified" /\ v.c = post[p].c /\ v.k = post[p].k
    BY <1>5, PostMoves
  <2>2. /\ post[p].at = "found" /\ chall' = chall /\ sessions' = sessions
        /\ unused' = unused \ {post[p].k} /\ unused' \subseteq unused
        /\ issued' = issued /\ factorExcused' = factorExcused
    BY <1>5 DEF F!MarkCode
  <2>3. \A x \in Challenges \cup Links :
           /\ Answers(p, x)' => Answers(p, x)
           /\ Spends(p, x)' => Spends(p, x)
           /\ Spends(p, x)' => x \notin unused'
    <3>1. \A x \in Challenges \cup Links :
             /\ Answers(p, x)' <=> v.at \in Answering /\ v.c = x
             /\ Spends(p, x)' <=> v.at \in {"found", "verified"} /\ v.k = x
      BY <1>0, <2>1, TurnEffect
    <3>2. \A x \in Challenges \cup Links :
             (Answers(p, x) <=> v.c = x) /\ (Spends(p, x) <=> v.k = x)
      BY <2>1, <2>2 DEF Answers, Spends, Answering
    <3> QED BY <2>1, <2>2, <3>1, <3>2
  <2> QED BY <2>1, <2>2, <2>3, FactorLess
<1>6. ASSUME NEW p \in Handlers, F!GiveTokens(p) PROVE Goal
  <2> DEFINE c == post[p].c
             k == post[p].k
  <2>1. PICK v \in PostStates : Turns(p, v) /\ v.at = "free"
    BY <1>6, PostMoves
  <2>2. /\ post[p].at = "verified" /\ c \in Challenges
        /\ Answers(p, c) /\ (k \in Links => Spends(p, k))
        /\ unused' = unused /\ issued' = issued /\ factorExcused' = factorExcused
        /\ chall' = [chall EXCEPT ![c] = "gone"]
        /\ sessions' = [x \in Challenges \cup Links |->
                          IF x \in {c, k} THEN F!Once(x) ELSE sessions[x]]
    BY <1>0, <1>a, <1>6 DEF F!GiveTokens, Answers, Spends, Answering, FactorTypes, F!codes
  <2>3. /\ \A x \in Challenges \ {c} : x = k \/ sessions'[x] = sessions[x]
        /\ \A x \in Links \ {k} : x = c \/ sessions'[x] = sessions[x]
        /\ \A x \in Challenges \cup Links :
              IF x \in {c, k} THEN sessions'[x] = (IF sessions[x] = 0 THEN 1 ELSE 2)
                              ELSE sessions'[x] = sessions[x]
    BY <2>2 DEF F!Once
  <2>4. /\ \A q \in Handlers \ {p}, x \in Challenges \cup Links :
              /\ Answers(q, x)' <=> Answers(q, x)
              /\ Spends(q, x)' <=> Spends(q, x)
        /\ \A x \in Challenges \cup Links : ~ Answers(p, x)' /\ ~ Spends(p, x)'
        /\ \A q \in Handlers \ {p} : post'[q] = post[q]
    <3>1. v.at \notin Answering /\ v.at \notin {"found", "verified"}
      BY <2>1 DEF Answering
    <3> QED BY <1>0, <2>1, <3>1, TurnEffect
  <2>5. k \in Links \/ k = "none"
    BY <1>0, <2>2 DEF FactorTypes, PostStates, F!Free, Steps
  <2>6. /\ c \notin Links /\ k \notin Challenges /\ \A x \in Links : x # c
        /\ \A x \in Challenges : x # k
    BY <2>2, <2>5, IdentityAssumption
  <2>7. ChallengeOnce'
    <3>1. ASSUME NEW x \in Challenges \ factorExcused'
          PROVE  /\ sessions'[x] =< 1
                 /\ sessions'[x] # 0 => chall'[x] = "gone"
                 /\ \A q \in Handlers : Answers(q, x)' => sessions'[x] = 0
                 /\ \A q, r \in Handlers : Answers(q, x)' /\ Answers(r, x)' => q = r
      <4>0. /\ sessions[x] # 0 => chall[x] = "gone" /\ sessions[x] =< 1
            /\ \A q \in Handlers : Answers(q, x) => sessions[x] = 0
            /\ \A q, r \in Handlers : Answers(q, x) /\ Answers(r, x) => q = r
        BY <1>0, <2>2 DEF ChallengeOnce
      <4>1. CASE x = c
        <5>1. sessions[x] = 0 /\ \A q \in Handlers \ {p} : ~ Answers(q, x)
          BY <2>2, <4>0, <4>1
        <5>2. sessions'[x] = 1 /\ chall'[x] = "gone"
          BY <1>0, <2>2, <2>3, <4>1, <5>1
        <5> QED BY <2>4, <5>1, <5>2
      <4>2. CASE x # c
        <5>1. sessions'[x] = sessions[x] /\ chall'[x] = chall[x]
          BY <1>0, <2>2, <2>3, <2>6, <4>2
        <5>2. sessions[x] =< 1
          BY <1>0, <2>2 DEF ChallengeOnce
        <5> QED BY <2>4, <4>0, <5>1, <5>2
      <4> QED BY <4>1, <4>2
    <3> QED BY <3>1 DEF ChallengeOnce
  <2>8. CodesAreNew'
    <3>1. ASSUME NEW x \in Links \ issued
          PROVE  sessions'[x] = 0
      <4>1. sessions[x] = 0 /\ ~ Spends(p, x)
        BY <1>0, <3>1 DEF CodesAreNew
      <4>2. x # k
        BY <2>2, <4>1
      <4> QED BY <2>3, <2>6, <4>1, <4>2
    <3>2. \A q \in Handlers, x \in Links :
             Spends(q, x)' => Spends(q, x)
      BY <2>4
    <3> QED BY <1>0, <2>2, <3>1, <3>2 DEF CodesAreNew
  <2>9. CodeOnce'
    <3>1. ASSUME NEW x \in Links \ factorExcused'
          PROVE  /\ sessions'[x] =< 1
                 /\ sessions'[x] # 0 => x \notin unused'
                 /\ \A q \in Handlers : Spends(q, x)' => sessions'[x] = 0
                 /\ \A q, r \in Handlers : Spends(q, x)' /\ Spends(r, x)' => q = r
      <4>0. /\ sessions[x] =< 1 /\ (sessions[x] # 0 => x \notin unused)
            /\ \A q \in Handlers : Spends(q, x) => sessions[x] = 0
            /\ \A q, r \in Handlers : Spends(q, x) /\ Spends(r, x) => q = r
        BY <1>0, <2>2 DEF CodeOnce
      <4>1. CASE x = k
        <5>1. sessions[x] = 0 /\ \A q \in Handlers \ {p} : ~ Spends(q, x)
          BY <2>2, <4>0, <4>1
        <5>2. sessions'[x] = 1
          BY <2>3, <4>1, <5>1
        <5>3. x \notin unused'
          BY <1>0, <2>2, <4>1 DEF CodeOnce
        <5> QED BY <2>4, <5>1, <5>2, <5>3
      <4>2. CASE x # k
        <5>1. sessions'[x] = sessions[x]
          BY <2>3, <2>6, <4>2
        <5> QED BY <2>2, <2>4, <4>0, <5>1
      <4> QED BY <4>1, <4>2
    <3>2. ASSUME NEW q \in Handlers, NEW x \in Links, Spends(q, x)', post'[q].at = "verified"
          PROVE  x \notin unused'
      <4>1. q # p /\ Spends(q, x) /\ post[q].at = "verified"
        BY <2>4, <3>2
      <4> QED BY <1>0, <2>2, <4>1 DEF CodeOnce
    <3> QED BY <3>1, <3>2 DEF CodeOnce
  <2> QED BY <2>7, <2>8, <2>9
<1>7. ASSUME NEW p \in Handlers, NEW k \in Links, F!CreateCodes(p, k) PROVE Goal
  <2>1. PICK v \in PostStates : Turns(p, v) /\ v.at = "free"
    BY <1>7, PostMoves
  <2>2. /\ k \notin issued /\ issued' = issued \cup {k} /\ unused' = unused \cup {k}
        /\ chall' = chall /\ sessions' = sessions /\ factorExcused' = factorExcused
    BY <1>7 DEF F!CreateCodes
  <2>3. /\ \A q \in Handlers \ {p}, x \in Challenges \cup Links :
              (Answers(q, x)' <=> Answers(q, x)) /\ (Spends(q, x)' <=> Spends(q, x))
        /\ \A x \in Challenges \cup Links : ~ Answers(p, x)' /\ ~ Spends(p, x)'
        /\ \A q \in Handlers \ {p} : post'[q] = post[q]
    <3>1. v.at \notin Answering /\ v.at \notin {"found", "verified"}
      BY <2>1 DEF Answering
    <3> QED BY <1>0, <2>1, <3>1, TurnEffect
  <2>4. sessions[k] = 0 /\ \A q \in Handlers : ~ Spends(q, k)
    BY <1>0, <2>2 DEF CodesAreNew
  <2>5. ChallengeOnce'
    BY <1>0, <2>2, <2>3 DEF ChallengeOnce
  <2>6. CodesAreNew'
    BY <1>0, <2>2, <2>3 DEF CodesAreNew
  <2>7. CodeOnce'
    <3>1. \A q \in Handlers, x \in Links :
             Spends(q, x)' => Spends(q, x) /\ x # k /\ post'[q] = post[q]
      BY <2>3, <2>4
    <3> QED BY <1>0, <2>2, <2>4, <3>1 DEF CodeOnce
  <2> QED BY <2>5, <2>6, <2>7
<1>8. ASSUME NEW p \in Handlers,
             \/ F!LoadPending(p) \/ F!ConfirmEnrollment(p) \/ F!DeleteOldCodes(p)
             \/ F!DisableTotp(p) \/ F!DropCodes(p) \/ F!GiveUp(p)
      PROVE  Goal
  <2>1. PICK v \in PostStates : Turns(p, v) /\ v.at \in Steps \cup {"free"}
    <3>1. {"pending", "confirmed", "disabled", "deleted"} \subseteq Steps
      BY DEF Steps
    <3> QED BY <1>8, <3>1, PostMoves
  <2>2. /\ chall' = chall /\ sessions' = sessions /\ unused' \subseteq unused
        /\ issued' = issued /\ factorExcused' = factorExcused
    BY <1>8 DEF F!LoadPending, F!ConfirmEnrollment, F!DeleteOldCodes, F!DisableTotp, F!DropCodes,
                F!GiveUp, F!codes
  <2>3. v.at \notin Answering /\ v.at \notin {"found", "verified"}
    BY <2>1 DEF Answering, Steps
  <2>4. \A x \in Challenges \cup Links : ~ Answers(p, x)' /\ ~ Spends(p, x)'
    BY <1>0, <2>1, <2>3, TurnEffect
  <2> QED BY <2>1, <2>2, <2>3, <2>4, FactorLess
<1>9. ASSUME F!StartEnrollment \/ F!SetActive PROVE Goal
  BY <1>9, FactorQuiet DEF F!StartEnrollment, F!SetActive, F!codes
<1> QED BY <1>1, <1>2, <1>3, <1>4, <1>5, <1>6, <1>7, <1>8, <1>9 DEF F!Next

\* The codes that work are those of the last generation.
LEMMA LastCodes ==
    ASSUME FactorInv, F!Next
    PROVE  NoOldCode' /\ F!OnlyLastCodesWork'
<1>0. NoOldCode /\ F!OnlyLastCodesWork /\ FactorTypes
  BY DEF FactorInv
<1>1. ASSUME NEW p \in Handlers, NEW v \in PostStates, Turns(p, v), v.at # "deleted",
             unused' \subseteq unused, last' = last, overlapped' = overlapped
      PROVE  NoOldCode' /\ F!OnlyLastCodesWork'
  <2>1. \A q \in Handlers : post'[q].at = "deleted" => post[q].at = "deleted"
    BY <1>0, <1>1, TurnEffect
  <2> QED BY <1>0, <1>1, <2>1 DEF NoOldCode, F!OnlyLastCodesWork
<1>2. ASSUME UNCHANGED <<post, unused, last, overlapped>>
      PROVE  NoOldCode' /\ F!OnlyLastCodesWork'
  BY <1>0, <1>2 DEF NoOldCode, F!OnlyLastCodesWork
<1>3. ASSUME NEW c \in Challenges, F!Login(c) \/ F!ChallengeExpires(c)
      PROVE  NoOldCode' /\ F!OnlyLastCodesWork'
  BY <1>2, <1>3 DEF F!Login, F!ChallengeExpires, F!codes
<1>4. ASSUME NEW p \in Handlers,
             \/ \E c \in Challenges : F!ResolveChallenge(p, c)
             \/ \E k \in Links : F!FindRecoveryCode(p, k)
             \/ F!VerifyTotpCode(p) \/ F!MarkCode(p) \/ F!GiveTokens(p)
             \/ F!LoadPending(p) \/ F!ConfirmEnrollment(p)
             \/ F!DisableTotp(p) \/ F!DropCodes(p) \/ F!GiveUp(p)
      PROVE  NoOldCode' /\ F!OnlyLastCodesWork'
  <2>1. \E v \in PostStates : Turns(p, v) /\ v.at # "deleted"
    BY <1>4, PostMoves
  <2>2. unused' \subseteq unused /\ last' = last /\ overlapped' = overlapped
    BY <1>4 DEF F!ResolveChallenge, F!FindRecoveryCode, F!VerifyTotpCode, F!MarkCode, F!GiveTokens,
                F!LoadPending, F!ConfirmEnrollment, F!DisableTotp, F!DropCodes, F!GiveUp, F!codes
  <2> QED BY <1>1, <2>1, <2>2
<1>5. ASSUME NEW p \in Handlers, F!DeleteOldCodes(p) PROVE NoOldCode' /\ F!OnlyLastCodesWork'
  BY <1>5 DEF F!DeleteOldCodes, NoOldCode, F!OnlyLastCodesWork
<1>6. ASSUME NEW p \in Handlers, NEW k \in Links, F!CreateCodes(p, k)
      PROVE  NoOldCode' /\ F!OnlyLastCodesWork'
  <2>1. /\ unused \subseteq overlapped /\ unused' = unused \cup {k} /\ last' = {k}
        /\ overlapped \subseteq overlapped'
        /\ (\E q \in Handlers \ {p} : post[q].at = "deleted") => k \in overlapped'
    BY <1>0, <1>6 DEF F!CreateCodes, NoOldCode
  <2>2. \A q \in Handlers : post'[q].at = "deleted" => q # p /\ post[q].at = "deleted"
    <3>1. PICK v \in PostStates : Turns(p, v) /\ v.at = "free"
      BY <1>6, PostMoves
    <3> QED BY <1>0, <3>1, TurnEffect
  <2> QED BY <2>1, <2>2 DEF NoOldCode, F!OnlyLastCodesWork
<1>7. ASSUME F!StartEnrollment \/ F!SetActive PROVE NoOldCode' /\ F!OnlyLastCodesWork'
  BY <1>2, <1>7 DEF F!StartEnrollment, F!SetActive, F!codes
<1> QED BY <1>3, <1>4, <1>5, <1>6, <1>7 DEF F!Next

\* The invariant of the factor holds whatever moves.
LEMMA FactorStep == FactorInv /\ (F!Next \/ UNCHANGED factorVars) => FactorInv'
<1>1. FactorInv /\ F!Next => FactorInv'
  BY FactorTyped, FactorKept, LastCodes DEF FactorInv
<1>2. FactorInv /\ UNCHANGED factorVars => FactorInv'
  <2> SUFFICES ASSUME FactorInv, UNCHANGED factorVars PROVE FactorInv'
    OBVIOUS
  <2>1. ChallengeOnce' /\ CodesAreNew' /\ CodeOnce'
    BY FactorQuiet DEF factorVars
  <2>2. FactorTypes' /\ NoOldCode' /\ F!OnlyLastCodesWork'
    BY DEF factorVars, FactorInv, FactorTypes, NoOldCode, F!OnlyLastCodesWork
  <2> QED BY <2>1, <2>2 DEF FactorInv
<1> QED BY <1>1, <1>2

\* What the invariant says of the factor is what the property says.
LEMMA FactorServes == FactorInv => F!TypeOK /\ F!OneSessionEach /\ F!OnlyLastCodesWork
<1> SUFFICES ASSUME FactorInv PROVE F!TypeOK /\ F!OneSessionEach /\ F!OnlyLastCodesWork
  OBVIOUS
<1>1. F!TypeOK
  BY DEF FactorInv, FactorTypes, F!TypeOK, PostStates, Answering, Steps
<1>2. F!OneSessionEach
  BY DEF FactorInv, ChallengeOnce, CodeOnce, F!OneSessionEach
<1> QED BY <1>1, <1>2 DEF FactorInv

-----------------------------------------------------------------------------
(* The mappings of the assistant.                                          *)

\* A mapping: its values have different numbers, none higher than their count.
Mappings ==
    {m \in UNION {[D -> Nat] : D \in SUBSET Values} :
        /\ \A v \in DOMAIN m : m[v] \in 1..Cardinality(DOMAIN m)
        /\ \A v, w \in DOMAIN m : m[v] = m[w] => v = w}

\* A set of numbers has a least one.
LEMMA LeastExists ==
    ASSUME NEW S, S \subseteq Nat, S # {}
    PROVE  \E x \in S : \A y \in S : x =< y
<1> DEFINE R == {ss \in Nat \X Nat : ss[1] < ss[2]}
<1>1. IsWellFoundedOn(R, Nat)
  BY NatLessThanWellFounded DEF OpToRel
<1>2. \A x, y \in Nat : x < y => <<x, y>> \in R
  OBVIOUS
<1> HIDE DEF R
<1>3. PICK x \in S : \A y \in S : ~ (<<y, x>> \in R)
  BY <1>1, WFMin
<1>4. ASSUME NEW y \in S PROVE x =< y
  <2>1. ~ (y < x)
    BY <1>2, <1>3
  <2> QED BY <2>1
<1> QED BY <1>4

\* Max is the greatest of a bounded set of numbers.
LEMMA GreatestOf ==
    ASSUME NEW S, S \subseteq Nat, S # {}, NEW n \in Nat, \A y \in S : y =< n
    PROVE  P!Max(S) \in S /\ \A y \in S : y =< P!Max(S)
<1> DEFINE T == {n - y : y \in S}
<1>1. T \subseteq Nat /\ T # {}
  <2>1. \A y \in S : n - y \in Nat
    OBVIOUS
  <2> QED BY <2>1
<1>2. PICK z \in T : \A y \in T : z =< y
  BY <1>1, LeastExists
<1>3. PICK x \in S : z = n - x
  BY <1>2
<1>4. \A y \in S : n - y \in T
  OBVIOUS
<1> HIDE DEF T
<1>5. \A y \in S : y =< x
  BY <1>2, <1>3, <1>4
<1>6. \E w \in S : \A y \in S : w >= y
  BY <1>5
<1>7. P!Max(S) \in S /\ \A y \in S : P!Max(S) >= y
  BY <1>6 DEF P!Max
<1> QED BY <1>7

\* The values are finitely many, and so are those of a mapping.
LEMMA ValuesCounted ==
    ASSUME NEW D \in SUBSET Values
    PROVE  /\ IsFiniteSet(D) /\ Cardinality(D) \in Nat /\ D \subseteq Nat
           /\ Cardinality(D) =< Cardinality(Values)
           /\ P!Cardinality(D) = Cardinality(D)
<1>1. IsFiniteSet(D) /\ Cardinality(D) =< Cardinality(Values)
  BY ValuesAssumption, FS_Subset
<1>2. Cardinality(D) \in Nat
  BY <1>1, FS_CardinalityType
<1>3. P!Cardinality(D) = Cardinality(D)
  BY DEF Cardinality, P!Cardinality
<1> QED BY <1>1, <1>2, <1>3, ValuesAssumption

\* The counter of a mapping is not below its numbers, nor above their count.
LEMMA CounterBounds ==
    ASSUME NEW m \in Mappings
    PROVE  /\ P!CountersFromMapping(m) \in 0..Cardinality(DOMAIN m)
           /\ \A v \in DOMAIN m : m[v] =< P!CountersFromMapping(m)
<1> DEFINE S == {0} \cup {m[v] : v \in DOMAIN m}
           n == Cardinality(DOMAIN m)
<1>1. DOMAIN m \in SUBSET Values /\ \A v \in DOMAIN m : m[v] \in 1..n
  BY DEF Mappings
<1>2. n \in Nat
  BY <1>1, ValuesCounted
<1> HIDE DEF n
<1>3. S \subseteq Nat /\ S # {} /\ \A y \in S : y =< n
  BY <1>1, <1>2
<1>4. \A v \in DOMAIN m : m[v] \in S
  OBVIOUS
<1> HIDE DEF S
<1>5. P!Max(S) \in S /\ \A y \in S : y =< P!Max(S)
  BY <1>2, <1>3, GreatestOf
<1>6. P!Max(S) \in 0..n
  <2> DEFINE x == P!Max(S)
  <2>1. x \in Nat /\ x =< n
    BY <1>3, <1>5
  <2> HIDE DEF x
  <2>2. x \in 0..n
    BY <1>2, <2>1
  <2> QED BY <2>2 DEF x
<1> QED BY <1>4, <1>5, <1>6 DEF P!CountersFromMapping, S, n

\* Of two new values the smaller one has fewer before it.
LEMMA RankGrows ==
    ASSUME NEW D \in SUBSET Values, NEW v \in D
    PROVE  /\ Cardinality({u \in D : u =< v}) \in 1..Cardinality(D)
           /\ \A w \in D : v < w =>
                Cardinality({u \in D : u =< v}) < Cardinality({u \in D : u =< w})
<1> DEFINE B(x) == {u \in D : u =< x}
<1>0. \A x \in D : B(x) \in SUBSET Values /\ B(x) \subseteq D /\ IsFiniteSet(B(x))
                   /\ Cardinality(B(x)) \in Nat
  BY ValuesCounted
<1>1. D \subseteq Nat /\ IsFiniteSet(D) /\ Cardinality(D) \in Nat
  BY ValuesCounted
<1>2. v \in B(v)
  BY <1>1
<1>3. ASSUME NEW w \in D, v < w PROVE B(v) \subseteq B(w) /\ B(v) # B(w)
  <2>1. ~ (w =< v) /\ \A u \in D : u =< v => u =< w
    BY <1>1, <1>3
  <2>2. w \in B(w) /\ w \notin B(v)
    BY <1>1, <2>1
  <2> QED BY <2>1, <2>2
<1> HIDE DEF B
<1>4. Cardinality(B(v)) # 0
  BY <1>0, <1>2, FS_EmptySet
<1>5. Cardinality(B(v)) =< Cardinality(D)
  BY <1>0, <1>1, FS_Subset
<1>6. ASSUME NEW w \in D, v < w PROVE Cardinality(B(v)) < Cardinality(B(w))
  <2>1. B(v) \in SUBSET B(w) /\ B(v) # B(w)
    BY <1>3, <1>6
  <2>2. Cardinality(B(v)) =< Cardinality(B(w)) /\ Cardinality(B(v)) # Cardinality(B(w))
    BY <1>0, <2>1, FS_Subset
  <2> QED BY <1>0, <2>2
<1>7. Cardinality(B(v)) \in 1..Cardinality(D)
  BY <1>0, <1>1, <1>4, <1>5
<1> QED BY <1>6, <1>7 DEF B

\* collect_sensitive_values gives a mapping of the old and the new values, and changes no entry.
LEMMA CollectMaps ==
    ASSUME NEW m \in Mappings, NEW S \in SUBSET Values
    PROVE  /\ P!CollectSensitiveValues(m, S) \in Mappings
           /\ DOMAIN P!CollectSensitiveValues(m, S) = DOMAIN m \cup S
           /\ \A v \in DOMAIN m : P!CollectSensitiveValues(m, S)[v] = m[v]
<1> DEFINE D == DOMAIN m
           new == S \ D
           base == P!CountersFromMapping(m)
           Rank(v) == Cardinality({u \in new : u =< v})
           r == P!CollectSensitiveValues(m, S)
           size == Cardinality(D)
           more == Cardinality(new)
<1>1. /\ D \in SUBSET Values /\ new \in SUBSET Values /\ D \cap new = {} /\ D \cup new = D \cup S
      /\ \A v \in D : m[v] \in 1..size
      /\ \A v, w \in D : m[v] = m[w] => v = w
  BY DEF Mappings
<1>2. size \in Nat /\ more \in Nat /\ IsFiniteSet(D) /\ IsFiniteSet(new) /\ new \subseteq Nat
  BY <1>1, ValuesCounted
<1>3. Cardinality(D \cup S) = size + more
  <2>1. Cardinality(D \cup new) = size + more - Cardinality(D \cap new)
    BY <1>2, FS_Union
  <2>2. Cardinality(D \cap new) = 0
    BY <1>1, FS_EmptySet
  <2>3. Cardinality(D \cup S) = Cardinality(D \cup new)
    BY <1>1
  <2> HIDE DEF new, size, more
  <2>4. Cardinality(D \cup new) = size + more
    BY <1>2, <2>1, <2>2
  <2> QED BY <2>3, <2>4
<1>4. base \in 0..size /\ \A v \in D : m[v] =< base
  BY CounterBounds
<1>5. \A v \in new : /\ Rank(v) \in 1..more
                     /\ \A w \in new : v < w => Rank(v) < Rank(w)
  BY <1>1, RankGrows
<1>6. \A v \in new : P!Cardinality({u \in new : u =< v}) = Rank(v)
  BY <1>1, ValuesCounted
<1>7. r = [v \in D \cup S |-> IF v \in D THEN m[v]
                              ELSE base + P!Cardinality({u \in new : u =< v})]
  BY DEF P!CollectSensitiveValues
<1>8. /\ DOMAIN r = D \cup S
      /\ \A v \in D : r[v] = m[v]
      /\ \A v \in new : r[v] = base + Rank(v)
  BY <1>6, <1>7
<1>a. r = [v \in D \cup S |-> r[v]]
  BY <1>7
<1> HIDE DEF new, base, Rank, r, size, more, D
<1>9. \A v \in D \cup S : r[v] \in 1..(size + more)
  <2>1. ASSUME NEW v \in D PROVE r[v] \in 1..(size + more)
    BY <1>1, <1>2, <1>8
  <2>2. ASSUME NEW v \in new PROVE r[v] \in 1..(size + more)
    <3>1. Rank(v) \in 1..more /\ base \in 0..size /\ r[v] = base + Rank(v)
      BY <1>4, <1>5, <1>8
    <3> QED BY <1>2, <3>1
  <2> QED BY <1>1, <2>1, <2>2
<1>10. \A v, w \in D \cup S : r[v] = r[w] => v = w
  <2>1. ASSUME NEW v \in D, NEW w \in D, r[v] = r[w] PROVE v = w
    BY <1>1, <1>8, <2>1
  <2>2. ASSUME NEW v \in D, NEW w \in new PROVE r[v] # r[w]
    <3>1. r[v] \in 1..size /\ r[v] =< base
      BY <1>1, <1>4, <1>8
    <3>2. r[w] = base + Rank(w) /\ Rank(w) \in 1..more /\ base \in 0..size
      BY <1>4, <1>5, <1>8
    <3> QED BY <1>2, <3>1, <3>2
  <2>3. ASSUME NEW v \in new, NEW w \in new, v < w PROVE r[v] # r[w]
    <3>1. r[v] = base + Rank(v) /\ r[w] = base + Rank(w) /\ base \in 0..size
      BY <1>4, <1>8
    <3>2. Rank(v) \in 1..more /\ Rank(w) \in 1..more /\ Rank(v) < Rank(w)
      BY <1>5, <2>3
    <3> QED BY <1>2, <3>1, <3>2
  <2>4. ASSUME NEW v \in new, NEW w \in new, r[v] = r[w] PROVE v = w
    <3>1. ~ (v < w) /\ ~ (w < v)
      BY <2>3, <2>4
    <3> QED BY <1>2, <3>1
  <2> QED BY <1>1, <2>1, <2>2, <2>4
<1>11. r \in Mappings
  <2>1. r \in [D \cup S -> Nat]
    BY <1>2, <1>9, <1>a
  <2>2. D \cup S \in SUBSET Values
    BY <1>1
  <2>3. r \in UNION {[E -> Nat] : E \in SUBSET Values}
    BY <2>1, <2>2
  <2>4. /\ \A v \in DOMAIN r : r[v] \in 1..Cardinality(DOMAIN r)
        /\ \A v, w \in DOMAIN r : r[v] = r[w] => v = w
    BY <1>3, <1>8, <1>9, <1>10
  <2> QED BY <2>3, <2>4 DEF Mappings
<1> QED BY <1>8, <1>11 DEF r, D

\* A placeholder is read back as its value.
LEMMA ReadsBack ==
    ASSUME NEW m \in Mappings, NEW v \in DOMAIN m
    PROVE  P!Rehydrate(m, m[v]) = v
  BY DEF Mappings, P!Rehydrate

\* The empty mapping.
LEMMA EmptyMaps == P!Empty \in Mappings /\ DOMAIN P!Empty = {}
<1>1. P!Empty \in [{} -> Nat] /\ DOMAIN P!Empty = {}
  BY DEF P!Empty
<1>2. P!Empty \in UNION {[D -> Nat] : D \in SUBSET Values}
  BY <1>1
<1> QED BY <1>1, <1>2 DEF Mappings

-----------------------------------------------------------------------------
(* The conversation and the calls.                                         *)

MapWork ==
    {P!Idle}
      \cup [op : {"store"}, flow : {"reply"}, base : Mappings, map : Mappings]
      \cup [op : {"send"}, flow : {"reply", "digest"}, map : Mappings]
      \cup [op : {"collect"}, flow : {"charter"}, context : SUBSET Values]

NamesTypes ==
    /\ present \subseteq Values /\ said \subseteq Values
    /\ listed \subseteq Values /\ forgotten \subseteq listed /\ DOMAIN row.map \subseteq listed
    /\ row \in [expired : BOOLEAN, map : Mappings]
    /\ pseudonymsWork \in [Handlers -> MapWork]
    /\ fresh \in [Handlers -> SUBSET Values]

\* What the conversation ever listed has its entry, or has lost it; the entries
\* of an expired mapping are lost.
HistoryNamed ==
    /\ listed \subseteq DOMAIN row.map \cup forgotten
    /\ row.expired => DOMAIN row.map \subseteq forgotten

\* A call has an entry for what the client has, and, once its mapping is stored,
\* for what the conversation lists, but for what changed since it began; a
\* mapping to store extends the one it was read from.
CallNamed(t) ==
    /\ pseudonymsWork[t].op \in {"store", "send"} =>
         present \subseteq DOMAIN pseudonymsWork[t].map \cup fresh[t]
    /\ pseudonymsWork[t].op = "send" /\ pseudonymsWork[t].flow = "reply" =>
         DOMAIN P!LoadMapping \subseteq DOMAIN pseudonymsWork[t].map \cup fresh[t]
    /\ pseudonymsWork[t].op = "collect" => pseudonymsWork[t].context \subseteq present \cup fresh[t]
    /\ pseudonymsWork[t].op = "store" =>
         \A v \in DOMAIN pseudonymsWork[t].base :
            /\ v \in DOMAIN pseudonymsWork[t].map
            /\ pseudonymsWork[t].map[v] = pseudonymsWork[t].base[v]

NamesInv ==
    /\ NamesTypes
    /\ leaked = {}
    /\ HistoryNamed
    /\ \A t \in Handlers : CallNamed(t)

\* A client without conversation.
LEMMA NamesInit == P!Init => NamesInv
<1> SUFFICES ASSUME P!Init PROVE NamesInv
  OBVIOUS
<1>1. NamesTypes
  <2>1. row \in [expired : BOOLEAN, map : Mappings]
    BY EmptyMaps DEF P!Init
  <2>2. pseudonymsWork \in [Handlers -> MapWork]
    BY DEF P!Init, MapWork
  <2>3. DOMAIN row.map = {}
    BY EmptyMaps DEF P!Init
  <2> QED BY <2>1, <2>2, <2>3 DEF P!Init, NamesTypes
<1>2. leaked = {} /\ HistoryNamed
  BY DEF P!Init, HistoryNamed
<1>3. \A t \in Handlers : CallNamed(t)
  BY DEF P!Init, P!Idle, CallNamed
<1> QED BY <1>1, <1>2, <1>3 DEF NamesInv

\* The call that moves, and the others.
LEMMA CallMoves ==
    ASSUME NamesTypes, NEW t \in Handlers, NEW w \in MapWork,
           pseudonymsWork' = [pseudonymsWork EXCEPT ![t] = w]
    PROVE  /\ pseudonymsWork'[t] = w
           /\ \A x \in Handlers \ {t} : pseudonymsWork'[x] = pseudonymsWork[x]
           /\ pseudonymsWork' \in [Handlers -> MapWork]
  BY DEF NamesTypes

\* A call that does not move keeps its names, when what comes, goes or is given
\* an entry is fresh for it.
LEMMA CallKeeps ==
    ASSUME NEW x \in Handlers, CallNamed(x), pseudonymsWork'[x] = pseudonymsWork[x],
           pseudonymsWork[x] # P!Idle =>
              /\ fresh[x] \subseteq fresh'[x]
              /\ present' \subseteq present \cup fresh'[x] /\ present \subseteq present' \cup fresh'[x]
              /\ DOMAIN P!LoadMapping' \subseteq DOMAIN P!LoadMapping \cup fresh'[x]
    PROVE  CallNamed(x)'
<1> DEFINE living == DOMAIN P!LoadMapping
<1>1. CASE pseudonymsWork[x] = P!Idle
  BY <1>1 DEF CallNamed, P!Idle
<1>2. CASE pseudonymsWork[x] # P!Idle
  <2>1. /\ fresh[x] \subseteq fresh'[x]
        /\ present' \subseteq present \cup fresh'[x] /\ present \subseteq present' \cup fresh'[x]
        /\ living' \subseteq living \cup fresh'[x]
    BY <1>2
  <2>2. pseudonymsWork[x].op = "send" /\ pseudonymsWork[x].flow = "reply" =>
          living' \subseteq DOMAIN pseudonymsWork[x].map \cup fresh'[x]
    BY <2>1 DEF CallNamed
  <2> HIDE DEF living
  <2> QED BY <2>1, <2>2 DEF CallNamed, living
<1> QED BY <1>1, <1>2

\* load_mapping gives a mapping: that of the row unless it has expired.
LEMMA LoadMaps ==
    ASSUME NamesTypes
    PROVE  /\ P!LoadMapping \in Mappings
           /\ DOMAIN P!LoadMapping = IF row.expired THEN {} ELSE DOMAIN row.map
           /\ ~ row.expired => P!LoadMapping = row.map
<1>1. CASE row.expired
  BY <1>1, EmptyMaps DEF P!LoadMapping
<1>2. CASE ~ row.expired
  BY <1>2 DEF P!LoadMapping, NamesTypes
<1> QED BY <1>1, <1>2

\* Each step keeps the names of the conversation and of the calls.
LEMMA NamesKept == NamesInv /\ P!Next => NamesInv'
<1> SUFFICES ASSUME NamesInv, P!Next PROVE NamesInv'
  OBVIOUS
<1> USE DEF NamesInv
<1>0. /\ NamesTypes /\ HistoryNamed /\ leaked = {}
      /\ \A t \in Handlers : CallNamed(t) /\ pseudonymsWork[t] \in MapWork
      /\ present \in SUBSET Values /\ P!Empty \in Mappings
  BY EmptyMaps DEF NamesTypes
<1>1. ASSUME NEW v \in Values, P!Come(v) \/ P!Go(v) PROVE NamesInv'
  <2>1. /\ UNCHANGED <<row, said, pseudonymsWork, leaked, listed, forgotten>>
        /\ present' \subseteq present \cup {v} /\ present \subseteq present' \cup {v}
        /\ fresh' = [t \in Handlers |-> IF pseudonymsWork[t] = P!Idle THEN {}
                                        ELSE fresh[t] \cup {v}]
    BY <1>1 DEF P!Come, P!Go, P!Touched
  <2>2. fresh' \in [Handlers -> SUBSET Values]
    BY <1>0, <2>1 DEF NamesTypes
  <2>3. NamesTypes'
    BY <1>0, <2>1, <2>2 DEF NamesTypes
  <2>4. ASSUME NEW x \in Handlers PROVE CallNamed(x)'
    <3>1. pseudonymsWork[x] # P!Idle => fresh'[x] = fresh[x] \cup {v}
      BY <2>1
    <3>2. P!LoadMapping' = P!LoadMapping
      BY <2>1 DEF P!LoadMapping
    <3> QED BY <1>0, <2>1, <3>1, <3>2, CallKeeps
  <2> QED BY <1>0, <2>1, <2>3, <2>4 DEF HistoryNamed
<1>2. ASSUME P!Expire PROVE NamesInv'
  <2>1. /\ row' = [row EXCEPT !.expired = TRUE] /\ forgotten' = forgotten \cup DOMAIN row.map
        /\ UNCHANGED <<present, said, pseudonymsWork, leaked, fresh, listed>>
    BY <1>2 DEF P!Expire
  <2>2. row' \in [expired : BOOLEAN, map : Mappings] /\ row'.map = row.map /\ row'.expired
    BY <1>0, <2>1 DEF NamesTypes
  <2>3. NamesTypes' /\ HistoryNamed'
    BY <1>0, <2>1, <2>2 DEF NamesTypes, HistoryNamed
  <2>4. DOMAIN P!LoadMapping' = {}
    BY <2>2, EmptyMaps DEF P!LoadMapping
  <2>5. \A x \in Handlers : CallNamed(x)'
    BY <1>0, <2>1, <2>4, CallKeeps
  <2> QED BY <1>0, <2>1, <2>3, <2>5
<1>3. ASSUME NEW t \in Handlers, P!BeginReply(t) PROVE NamesInv'
  <2> DEFINE b == P!LoadMapping
             m == P!CollectSensitiveValues(b, present)
             w == [op |-> "store", flow |-> "reply", base |-> b, map |-> m]
  <2>1. /\ pseudonymsWork' = [pseudonymsWork EXCEPT ![t] = w]
        /\ fresh' = [fresh EXCEPT ![t] = {}]
        /\ UNCHANGED <<present, row, said, leaked, listed, forgotten>>
    BY <1>3 DEF P!BeginReply
  <2>2. b \in Mappings
    BY <1>0, LoadMaps
  <2>3. /\ m \in Mappings /\ DOMAIN m = DOMAIN b \cup present
        /\ \A v \in DOMAIN b : m[v] = b[v]
    BY <1>0, <2>2, CollectMaps
  <2> HIDE DEF b, m
  <2>4. w \in MapWork /\ w.op = "store" /\ w.map = m /\ w.base = b
    BY <2>2, <2>3 DEF MapWork
  <2> HIDE DEF w
  <2>5. /\ pseudonymsWork'[t] = w /\ pseudonymsWork' \in [Handlers -> MapWork]
        /\ \A x \in Handlers \ {t} : pseudonymsWork'[x] = pseudonymsWork[x]
    BY <1>0, <2>1, <2>4, CallMoves
  <2>6. NamesTypes'
    BY <1>0, <2>1, <2>5 DEF NamesTypes
  <2>7. CallNamed(t)'
    BY <2>1, <2>2, <2>3, <2>4, <2>5 DEF CallNamed
  <2>8. ASSUME NEW x \in Handlers \ {t} PROVE CallNamed(x)'
    <3>1. fresh'[x] = fresh[x]
      BY <1>0, <2>1 DEF NamesTypes
    <3>2. P!LoadMapping' = P!LoadMapping
      BY <2>1 DEF P!LoadMapping
    <3> QED BY <1>0, <2>1, <2>5, <3>1, <3>2, CallKeeps
  <2> QED BY <1>0, <2>1, <2>6, <2>7, <2>8 DEF HistoryNamed
<1>4. ASSUME NEW t \in Handlers, P!StoreMapping(t) PROVE NamesInv'
  <2> DEFINE m == pseudonymsWork[t].map
             b == pseudonymsWork[t].base
             w == [op |-> "send", flow |-> "reply", map |-> m]
             old == DOMAIN P!LoadMapping
  <2>1. /\ pseudonymsWork[t].op = "store"
        /\ pseudonymsWork' = [pseudonymsWork EXCEPT ![t] = w]
        /\ row' = [expired |-> FALSE, map |-> m]
        /\ listed' = listed \cup DOMAIN m
        /\ forgotten' = (forgotten \cup (IF b = P!LoadMapping THEN {} ELSE DOMAIN row.map)) \ DOMAIN m
        /\ fresh' = [x \in Handlers |-> IF x = t \/ pseudonymsWork[x] = P!Idle THEN fresh[x]
                                        ELSE fresh[x] \cup (DOMAIN m \ old)]
        /\ UNCHANGED <<present, said, leaked>>
    BY <1>4 DEF P!StoreMapping, P!Stored
  <2>2. m \in Mappings /\ DOMAIN m \subseteq Values
    BY <1>0, <2>1 DEF MapWork, P!Idle, Mappings
  <2>3. present \subseteq DOMAIN m \cup fresh[t] /\ DOMAIN b \subseteq DOMAIN m
    BY <1>0, <2>1 DEF CallNamed
  <2>4. b = P!LoadMapping => row.expired \/ DOMAIN row.map \subseteq DOMAIN m
    BY <1>0, <2>3, LoadMaps
  <2> HIDE DEF m, b, old
  <2>5. w \in MapWork /\ w.op = "send" /\ w.flow = "reply" /\ w.map = m
    BY <2>2 DEF MapWork
  <2> HIDE DEF w
  <2>6. /\ pseudonymsWork'[t] = w /\ pseudonymsWork' \in [Handlers -> MapWork]
        /\ \A x \in Handlers \ {t} : pseudonymsWork'[x] = pseudonymsWork[x]
    BY <1>0, <2>1, <2>5, CallMoves
  <2>7. row' \in [expired : BOOLEAN, map : Mappings] /\ row'.map = m /\ ~ row'.expired
    BY <2>1, <2>2
  <2>8. /\ fresh' \in [Handlers -> SUBSET Values] /\ fresh'[t] = fresh[t]
        /\ \A x \in Handlers \ {t} : pseudonymsWork[x] # P!Idle =>
              fresh'[x] = fresh[x] \cup (DOMAIN m \ old)
    BY <1>0, <2>1, <2>2 DEF NamesTypes
  <2>9. NamesTypes'
    BY <1>0, <2>1, <2>2, <2>6, <2>7, <2>8 DEF NamesTypes
  <2>10. HistoryNamed'
    <3>1. listed \subseteq DOMAIN m \cup forgotten'
      BY <1>0, <2>1, <2>4 DEF HistoryNamed
    <3> QED BY <2>1, <2>7, <3>1 DEF HistoryNamed
  <2>11. DOMAIN P!LoadMapping' = DOMAIN m
    BY <2>7 DEF P!LoadMapping
  <2>12. CallNamed(t)'
    BY <2>1, <2>3, <2>5, <2>6, <2>8, <2>11 DEF CallNamed
  <2>13. ASSUME NEW x \in Handlers \ {t} PROVE CallNamed(x)'
    <3>1. pseudonymsWork[x] # P!Idle => DOMAIN P!LoadMapping' \subseteq DOMAIN P!LoadMapping \cup fresh'[x]
      BY <2>8, <2>11 DEF old
    <3> QED BY <1>0, <2>1, <2>6, <2>8, <3>1, CallKeeps
  <2> QED BY <1>0, <2>1, <2>9, <2>10, <2>12, <2>13
<1>5. ASSUME NEW t \in Handlers, P!BeginDigest(t) \/ P!BeginCharter(t) PROVE NamesInv'
  <2> DEFINE m == P!CollectSensitiveValues(P!Empty, present)
  <2>1. m \in Mappings /\ DOMAIN m = present
    BY <1>0, EmptyMaps, CollectMaps
  <2>2. PICK w \in MapWork :
          /\ pseudonymsWork' = [pseudonymsWork EXCEPT ![t] = w]
          /\ \/ w.op = "send" /\ w.flow = "digest" /\ DOMAIN w.map = present
             \/ w.op = "collect" /\ w.context = present
    <3>1. CASE P!BeginDigest(t)
      <4> HIDE DEF m
      <4> DEFINE w == [op |-> "send", flow |-> "digest", map |-> m]
      <4>1. w \in MapWork /\ w.op = "send" /\ w.flow = "digest" /\ DOMAIN w.map = present
        BY <2>1 DEF MapWork
      <4>2. pseudonymsWork' = [pseudonymsWork EXCEPT ![t] = w]
        BY <3>1 DEF P!BeginDigest, m
      <4> HIDE DEF w
      <4> QED BY <4>1, <4>2
    <3>2. CASE P!BeginCharter(t)
      <4> DEFINE w == [op |-> "collect", flow |-> "charter", context |-> present]
      <4>1. w \in MapWork /\ w.op = "collect" /\ w.context = present
        BY <1>0 DEF MapWork
      <4>2. pseudonymsWork' = [pseudonymsWork EXCEPT ![t] = w]
        BY <3>2 DEF P!BeginCharter
      <4> HIDE DEF w
      <4> QED BY <4>1, <4>2
    <3> QED BY <1>5, <3>1, <3>2
  <2>3. /\ fresh' = [fresh EXCEPT ![t] = {}]
        /\ UNCHANGED <<present, row, said, leaked, listed, forgotten>>
    BY <1>5 DEF P!BeginDigest, P!BeginCharter
  <2>4. /\ pseudonymsWork'[t] = w /\ pseudonymsWork' \in [Handlers -> MapWork]
        /\ \A x \in Handlers \ {t} : pseudonymsWork'[x] = pseudonymsWork[x]
    BY <1>0, <2>2, CallMoves
  <2>5. NamesTypes'
    BY <1>0, <2>3, <2>4 DEF NamesTypes
  <2>6. CallNamed(t)'
    BY <2>2, <2>3, <2>4 DEF CallNamed
  <2>7. ASSUME NEW x \in Handlers \ {t} PROVE CallNamed(x)'
    <3>1. fresh'[x] = fresh[x]
      BY <1>0, <2>3 DEF NamesTypes
    <3>2. P!LoadMapping' = P!LoadMapping
      BY <2>3 DEF P!LoadMapping
    <3> QED BY <1>0, <2>3, <2>4, <3>1, <3>2, CallKeeps
  <2> QED BY <1>0, <2>3, <2>5, <2>6, <2>7 DEF HistoryNamed
<1>6. ASSUME NEW t \in Handlers, pseudonymsWork' = [pseudonymsWork EXCEPT ![t] = P!Idle],
             fresh' = [fresh EXCEPT ![t] = {}], UNCHANGED <<present, row, listed, forgotten>>,
             leaked' = {}, said' \subseteq Values
      PROVE  NamesInv'
  <2>1. P!Idle \in MapWork
    BY DEF MapWork
  <2>2. /\ pseudonymsWork'[t] = P!Idle /\ pseudonymsWork' \in [Handlers -> MapWork]
        /\ \A x \in Handlers \ {t} : pseudonymsWork'[x] = pseudonymsWork[x]
    BY <1>0, <1>6, <2>1, CallMoves
  <2>3. NamesTypes' /\ HistoryNamed'
    BY <1>0, <1>6, <2>2 DEF NamesTypes, HistoryNamed
  <2>4. CallNamed(t)'
    BY <2>2 DEF CallNamed, P!Idle
  <2>5. ASSUME NEW x \in Handlers \ {t} PROVE CallNamed(x)'
    <3>1. fresh'[x] = fresh[x]
      BY <1>0, <1>6 DEF NamesTypes
    <3>2. P!LoadMapping' = P!LoadMapping
      BY <1>6 DEF P!LoadMapping
    <3> QED BY <1>0, <1>6, <2>2, <3>1, <3>2, CallKeeps
  <2> QED BY <1>6, <2>3, <2>4, <2>5
<1>7. ASSUME NEW t \in Handlers, P!Send(t) PROVE NamesInv'
  <2> DEFINE m == pseudonymsWork[t].map
             context == present \cup (IF pseudonymsWork[t].flow = "reply" THEN said ELSE {})
  <2>1. /\ pseudonymsWork[t].op = "send"
        /\ leaked' = leaked \cup ((context \ DOMAIN m) \ (fresh[t] \cup P!OnlySaid))
        /\ pseudonymsWork' = [pseudonymsWork EXCEPT ![t] = P!Idle]
        /\ fresh' = [fresh EXCEPT ![t] = {}]
        /\ UNCHANGED <<present, row, listed, forgotten>>
    BY <1>7 DEF P!Send, P!Sent, P!Unmapped
  <2>2. PICK S \in SUBSET (IF pseudonymsWork[t].flow = "reply" THEN DOMAIN m ELSE {}) :
          said' = said \cup S
    BY <1>7 DEF P!Send, P!Answered
  <2>3. DOMAIN m \subseteq Values
    BY <1>0, <2>1 DEF MapWork, P!Idle, Mappings
  <2>4. present \subseteq DOMAIN m \cup fresh[t]
    BY <1>0, <2>1 DEF CallNamed
  <2>5. ASSUME NEW v \in context, v \notin DOMAIN m, v \notin fresh[t], v \notin P!OnlySaid
        PROVE  FALSE
    <3>1. v \in said \ present /\ pseudonymsWork[t].flow = "reply"
      BY <2>4, <2>5
    <3>2. v \in listed \ forgotten
      BY <2>5, <3>1 DEF P!OnlySaid
    <3>3. v \in DOMAIN row.map /\ ~ row.expired
      BY <1>0, <3>2 DEF HistoryNamed
    <3>4. v \in DOMAIN P!LoadMapping
      BY <1>0, <3>3, LoadMaps
    <3> QED BY <1>0, <2>1, <2>5, <3>1, <3>4 DEF CallNamed
  <2>6. said' \subseteq Values
    BY <1>0, <2>2, <2>3 DEF NamesTypes
  <2> HIDE DEF context, m
  <2>7. leaked' = {}
    BY <1>0, <2>1, <2>5
  <2> QED BY <1>6, <2>1, <2>6, <2>7
<1>8. ASSUME NEW t \in Handlers, P!SendCharter(t) PROVE NamesInv'
  <2> DEFINE m == P!CollectSensitiveValues(P!Empty, present)
  <2>1. /\ pseudonymsWork[t].op = "collect"
        /\ leaked' = leaked \cup ((pseudonymsWork[t].context \ DOMAIN m) \ (fresh[t] \cup P!OnlySaid))
        /\ pseudonymsWork' = [pseudonymsWork EXCEPT ![t] = P!Idle]
        /\ fresh' = [fresh EXCEPT ![t] = {}]
        /\ UNCHANGED <<present, row, said, listed, forgotten>>
    BY <1>8 DEF P!SendCharter, P!Sent, P!Unmapped
  <2>2. DOMAIN m = present
    BY <1>0, EmptyMaps, CollectMaps
  <2>3. pseudonymsWork[t].context \subseteq present \cup fresh[t]
    BY <1>0, <2>1 DEF CallNamed
  <2>4. said' \subseteq Values
    BY <1>0, <2>1 DEF NamesTypes
  <2> HIDE DEF m
  <2>5. leaked' = {}
    BY <1>0, <2>1, <2>2, <2>3
  <2> QED BY <1>6, <2>1, <2>4, <2>5
<1>9. ASSUME NEW S \in SUBSET Values, P!CreateMessage(S) PROVE NamesInv'
  <2>1. /\ said' = said \cup S
        /\ UNCHANGED <<present, row, pseudonymsWork, leaked, fresh, listed, forgotten>>
    BY <1>9 DEF P!CreateMessage
  <2>2. NamesTypes' /\ HistoryNamed'
    BY <1>0, <2>1 DEF NamesTypes, HistoryNamed
  <2>3. P!LoadMapping' = P!LoadMapping
    BY <2>1 DEF P!LoadMapping
  <2>4. \A x \in Handlers : CallNamed(x)'
    BY <1>0, <2>1, <2>3, CallKeeps
  <2> QED BY <1>0, <2>1, <2>2, <2>4
<1> QED BY <1>1, <1>2, <1>3, <1>4, <1>5, <1>7, <1>8, <1>9 DEF P!Next

\* The invariant of the names holds whatever moves.
LEMMA NamesStep == NamesInv /\ (P!Next \/ UNCHANGED pseudonymsVars) => NamesInv'
<1>1. NamesInv /\ UNCHANGED pseudonymsVars => NamesInv'
  BY DEF pseudonymsVars, NamesInv, NamesTypes, HistoryNamed, CallNamed, P!LoadMapping
<1> QED BY <1>1, NamesKept

\* What the invariant says of the names is what the property says.
LEMMA NamesServe == NamesInv => P!TypeOK /\ P!NothingLeavesInClear /\ P!ReadBack
<1> SUFFICES ASSUME NamesInv PROVE P!TypeOK /\ P!NothingLeavesInClear /\ P!ReadBack
  OBVIOUS
<1>1. NamesTypes /\ leaked = {} /\ row.map \in Mappings /\ row.expired \in BOOLEAN
  BY DEF NamesInv, NamesTypes
<1>2. P!TypeOK
  <2>1. /\ DOMAIN row.map \in SUBSET Values
        /\ \A v \in DOMAIN row.map : row.map[v] \in 1..Cardinality(DOMAIN row.map)
    BY <1>1 DEF Mappings
  <2>2. /\ Cardinality(DOMAIN row.map) \in Nat
        /\ Cardinality(DOMAIN row.map) =< Cardinality(Values)
    BY <2>1, ValuesCounted
  <2>3. P!Cardinality(Values) = Cardinality(Values) /\ Cardinality(Values) \in Nat
    BY ValuesCounted
  <2>4. ASSUME NEW v \in DOMAIN row.map PROVE row.map[v] \in 1..P!Cardinality(Values)
    BY <2>1, <2>2, <2>3
  <2> QED BY <1>1, <2>1, <2>4 DEF P!TypeOK, NamesTypes
<1>3. P!ReadBack
  <2>1. ASSUME NEW t \in Handlers, pseudonymsWork[t].op = "send"
        PROVE pseudonymsWork[t].map \in Mappings
    BY <1>1, <2>1 DEF NamesTypes, MapWork, P!Idle
  <2> QED BY <1>1, <2>1, ReadsBack DEF P!ReadBack
<1> QED BY <1>1, <1>2, <1>3 DEF P!NothingLeavesInClear

\* Only a mapping that is stored changes an entry, and one read from the entries
\* that are there changes none.
LEMMA EntriesStay ==
    NamesInv /\ P!Next =>
      \A v \in DOMAIN row.map :
        (v \notin DOMAIN row'.map \/ row'.map[v] # row.map[v])
          => \E t \in Handlers :
               pseudonymsWork[t].op = "store" /\ pseudonymsWork[t].base # row.map
<1> SUFFICES ASSUME NamesInv, P!Next, NEW v \in DOMAIN row.map,
                    v \notin DOMAIN row'.map \/ row'.map[v] # row.map[v]
             PROVE  \E t \in Handlers :
                      pseudonymsWork[t].op = "store" /\ pseudonymsWork[t].base # row.map
  OBVIOUS
<1>1. row.map # row'.map
  OBVIOUS
<1>2. PICK t \in Handlers : P!StoreMapping(t)
  <2>1. ~ P!Expire
    BY <1>1 DEF P!Expire, NamesInv, NamesTypes
  <2> QED BY <1>1, <2>1 DEF P!Next, P!Come, P!Go, P!BeginReply, P!BeginDigest, P!BeginCharter,
                           P!Send, P!SendCharter, P!CreateMessage
<1>3. pseudonymsWork[t].op = "store" /\ row'.map = pseudonymsWork[t].map
  BY <1>2 DEF P!StoreMapping, P!Stored
<1>4. pseudonymsWork[t].base # row.map
  BY <1>3 DEF NamesInv, CallNamed
<1> QED BY <1>3, <1>4

-----------------------------------------------------------------------------
(* The watched accounts.                                                   *)

Watching ==
    [pc : {"next", "ingest", "notify", "done"}, j : {"job"}, retries : 0..1,
     todo : SUBSET Challenges, fresh : SUBSET Challenges, cur : Challenges \cup {"none"},
     left : SUBSET Observations, here : SUBSET Observations, made : SUBSET Observations,
     requests : Nat, ok : BOOLEAN]

AccountTypes ==
    /\ account \in [Challenges -> {A!Absent} \cup [value : {"v1", "v2"}, state : {"active", "removed"}]]
    /\ first \subseteq Challenges
    /\ rows \in [Observations -> {A!NoRow} \cup [d : Challenges, early : BOOLEAN]]
    /\ known \subseteq Observations
    /\ job \in [{"job"} -> [status : {"none", "pending", "running", "done", "failed"},
                            ids : SUBSET Challenges]]
    /\ queue \subseteq {"job"} \X (0..1)
    /\ task \in [Handlers -> {A!Idle} \cup Watching]
    /\ req \in [Handlers -> {A!Free} \cup [op : {"declare"}, d : Challenges, v : {"v1", "v2"}]]
    /\ missing \in Nat /\ lost \in Nat
    /\ told \subseteq Observations /\ silent \subseteq Observations
    /\ baseline \in [Challenges -> SUBSET Observations]
    /\ mishaps \in Nat

Running(w) == task[w] # A!Idle
Kept == {l \in Observations : rows[l] # A!NoRow}

\* A declaration under way has no row yet and nobody else makes it; the active ones are
\* within the quota, each for another account.
DeclaredOnce ==
    /\ \A h \in Handlers : req[h] # A!Free => account[req[h].d] = A!Absent
    /\ \A g, h \in Handlers : req[g] # A!Free /\ req[h] # A!Free /\ req[g].d = req[h].d => g = h
    /\ IsFiniteSet(A!Active)
    /\ "quota" \notin excuse => Cardinality(A!Active) =< 1
    /\ \A d, x \in A!Active : account[d].value = account[x].value => d = x

\* A row is an observation the provider has, of the account it is stored under.
RowsPlaced == \A l \in Kept : l \in known /\ account[rows[l].d].value = "v1"

\* What was told or passed over is stored, and what is stored was told, passed over, or is
\* in the hands of a run.
Announced ==
    /\ told \cup silent \subseteq Kept
    /\ \A w \in Handlers : Running(w) => task[w].made \cup task[w].here \subseteq Kept
    /\ A!NewIsAnnounced

\* The declarations a run has still to look at.
Ahead(w) == task[w].todo \cup (IF task[w].pc = "ingest" THEN {task[w].cur} ELSE {})

\* What a run knows in each phase, and that a first pass which another has overtaken is excused.
RunFits(w) ==
    Running(w) =>
      /\ task[w].pc # "ingest" => task[w].here = {}
      /\ task[w].pc = "ingest" => task[w].cur \in Challenges
                                  /\ task[w].cur \notin task[w].todo
                                  /\ task[w].left \subseteq known
                                  /\ \A l \in task[w].left : account[task[w].cur].value = "v1"
      /\ ~ task[w].ok => task[w].made = {}
      /\ task[w].pc \in {"notify", "done"} => task[w].todo = {} /\ task[w].requests = 0
      /\ task[w].pc = "done" => task[w].made = {}
      /\ \A d \in Ahead(w) : IF d \in task[w].fresh THEN d \in first => d \in excuse ELSE d \in first

\* The requests a run has made and not recorded.
InHand == UNION {{w} \X (1..task[w].requests) : w \in {x \in Handlers : Running(x)}}

Counted == IsFiniteSet(InHand) /\ missing = lost + Cardinality(InHand)

WatchInv ==
    /\ AccountTypes /\ DeclaredOnce /\ RowsPlaced /\ Announced /\ Counted
    /\ A!HistoryIsHistory
    /\ \A w \in Handlers : RunFits(w)

\* The size of a set is the same in an instance.
LEMMA SameSize == \A S : A!Cardinality(S) = Cardinality(S)
BY DEF Cardinality, A!Cardinality

\* A row is missing when its declaration is the null name, which no declaration has.
LEMMA RowsOrNone ==
    ASSUME WatchInv, NEW l \in Observations
    PROVE  (l \in Kept) <=> rows[l] \in [d : Challenges, early : BOOLEAN]
<1>1. rows[l] \in {A!NoRow} \cup [d : Challenges, early : BOOLEAN]
  BY DEF WatchInv, AccountTypes
<1>2. A!NoRow \notin [d : Challenges, early : BOOLEAN]
  BY IdentityAssumption DEF A!NoRow
<1> QED BY <1>1, <1>2 DEF Kept

\* No declaration, no row and no run to begin with.
LEMMA WatchInit == A!Init => WatchInv
<1> SUFFICES ASSUME A!Init PROVE WatchInv
  OBVIOUS
<1>1. /\ account = [d \in Challenges |-> A!Absent] /\ first = {}
      /\ rows = [l \in Observations |-> A!NoRow] /\ known \in SUBSET Observations
      /\ job = [j \in {"job"} |-> A!NoJob] /\ queue = {}
      /\ task = [w \in Handlers |-> A!Idle] /\ req = [h \in Handlers |-> A!Free]
      /\ missing = 0 /\ lost = 0 /\ told = {} /\ silent = {}
      /\ baseline = [d \in Challenges |-> {}] /\ excuse = {} /\ mishaps = 0
  BY DEF A!Init
<1>2. AccountTypes
  BY <1>1 DEF AccountTypes, A!NoJob
<1>3. A!Active = {} /\ Kept = {} /\ InHand = {} /\ \A w \in Handlers : ~ Running(w)
  BY <1>1 DEF A!Active, A!Absent, Kept, InHand, Running
<1>4. DeclaredOnce
  BY <1>1, <1>3, FS_EmptySet DEF DeclaredOnce
<1>5. RowsPlaced /\ Announced
  BY <1>1, <1>3 DEF RowsPlaced, Announced, A!NewIsAnnounced
<1>6. Counted
  BY <1>1, <1>3, FS_EmptySet DEF Counted
<1>7. A!HistoryIsHistory
  BY <1>1 DEF A!HistoryIsHistory
<1> QED BY <1>2, <1>3, <1>4, <1>5, <1>6, <1>7 DEF WatchInv, RunFits

\* What is said of the declarations stays when they do.
LEMMA DeclarationsStay ==
    ASSUME WatchInv, account' = account, req' = req, "quota" \in excuse => "quota" \in excuse'
    PROVE  DeclaredOnce'
BY DEF WatchInv, DeclaredOnce, A!Active

\* Rows stay in their place while accounts keep their names.
LEMMA RowsStayPlaced ==
    ASSUME WatchInv, rows' = rows, known \subseteq known',
           \A d \in Challenges : account[d].value = "v1" => account'[d].value = "v1"
    PROVE  RowsPlaced'
<1>1. \A l \in Kept : rows[l].d \in Challenges
  BY RowsOrNone DEF Kept
<1> QED BY <1>1 DEF WatchInv, RowsPlaced, Kept

\* History stays so between two ends of a first pass.
LEMMA HistoryStays ==
    ASSUME WatchInv, rows' = rows, first' = first, baseline' = baseline, excuse \subseteq excuse'
    PROVE  A!HistoryIsHistory'
BY DEF WatchInv, A!HistoryIsHistory

\* A run that does not move still fits when only observations and excuses are added.
LEMMA RunStays ==
    ASSUME WatchInv, NEW w \in Handlers, task'[w] = task[w],
           known \subseteq known', first' = first, excuse \subseteq excuse',
           \A d \in Challenges : account[d].value = "v1" => account'[d].value = "v1"
    PROVE  RunFits(w)'
BY DEF WatchInv, RunFits, Running, Ahead

\* The requests add up when no run makes or records one.
LEMMA CountsStay ==
    ASSUME WatchInv, missing' = missing, lost' = lost,
           \A w \in Handlers : /\ Running(w)' <=> Running(w)
                               /\ Running(w) => task'[w].requests = task[w].requests
    PROVE  Counted'
<1>1. InHand' = InHand
  BY DEF InHand
<1> QED BY <1>1 DEF WatchInv, Counted

\* A client declares an account or removes one, the provider publishes, a scan is asked for.
LEMMA ClientActs ==
    ASSUME WatchInv,
           \/ UNCHANGED accountsVars
           \/ \E h \in Handlers : A!Declare(h) \/ \E d \in Challenges, v \in {"v1", "v2"} : A!BeginDeclare(h, d, v)
           \/ \E d \in Challenges : A!Remove(d)
           \/ \E l \in Observations : A!Publish(l)
           \/ \E j \in {"job"}, ids \in SUBSET Challenges : A!Trigger(j, ids)
    PROVE  WatchInv'
<1> USE DEF WatchInv
<1>1. /\ task' = task /\ rows' = rows /\ first' = first /\ baseline' = baseline
      /\ missing' = missing /\ lost' = lost /\ told' = told /\ silent' = silent /\ mishaps' = mishaps
      /\ known \subseteq known' /\ known' \subseteq Observations /\ excuse \subseteq excuse'
  BY DEF accountsVars, A!Declare, A!BeginDeclare, A!Remove, A!Publish, A!Trigger, A!Requests, A!Runs, AccountTypes
<1> DEFINE JobsTyped ==
             /\ job' \in [{"job"} -> [status : {"none", "pending", "running", "done", "failed"},
                                      ids : SUBSET Challenges]]
             /\ queue' \subseteq {"job"} \X (0..1)
           Declaring ==
             /\ account' \in [Challenges -> {A!Absent} \cup [value : {"v1", "v2"}, state : {"active", "removed"}]]
             /\ req' \in [Handlers -> {A!Free} \cup [op : {"declare"}, d : Challenges, v : {"v1", "v2"}]]
             /\ DeclaredOnce'
             /\ \A d \in Challenges : account[d].value = "v1" => account'[d].value = "v1"
<1>2. JobsTyped
  <2>1. CASE job' = job /\ queue' = queue
    BY <2>1 DEF AccountTypes
  <2>2. ASSUME NEW ids \in SUBSET Challenges, A!Trigger("job", ids) PROVE JobsTyped
    BY <2>2 DEF A!Trigger, AccountTypes
  <2> QED BY <2>1, <2>2 DEF accountsVars, A!Declare, A!BeginDeclare, A!Remove, A!Publish, A!Requests, A!Runs
<1>3. Declaring
  <2>1. CASE account' = account /\ req' = req
    BY <1>1, <2>1, DeclarationsStay DEF AccountTypes
  <2>2. ASSUME NEW h \in Handlers, NEW d \in Challenges, NEW v \in {"v1", "v2"}, A!BeginDeclare(h, d, v)
        PROVE  Declaring
    <3>1. /\ req[h] = A!Free /\ account[d] = A!Absent /\ account' = account /\ excuse' = excuse
          /\ \A x \in Handlers : req[x] # A!Free => req[x].d # d
          /\ req' = [req EXCEPT ![h] = [op |-> "declare", d |-> d, v |-> v]]
      BY <2>2 DEF A!BeginDeclare
    <3>2. /\ req' \in [Handlers -> {A!Free} \cup [op : {"declare"}, d : Challenges, v : {"v1", "v2"}]]
          /\ req'[h].d = d /\ \A x \in Handlers \ {h} : req'[x] = req[x]
      BY <3>1 DEF AccountTypes
    <3>3. A!Active' = A!Active
      BY <3>1 DEF A!Active
    <3> QED BY <3>1, <3>2, <3>3 DEF DeclaredOnce, AccountTypes
  <2>3. ASSUME NEW d \in Challenges, A!Remove(d) PROVE Declaring
    <3>1. /\ account' = [account EXCEPT ![d].state = "removed"] /\ req' = req /\ excuse' = excuse
          /\ account[d].state = "active"
      BY <2>3 DEF A!Remove, A!Active, A!Requests
    <3>2. account[d] \in [value : {"v1", "v2"}, state : {"active", "removed"}]
      BY <3>1 DEF AccountTypes, A!Absent
    <3>3. /\ account' \in [Challenges -> {A!Absent} \cup [value : {"v1", "v2"}, state : {"active", "removed"}]]
          /\ account'[d].value = account[d].value /\ account'[d].state = "removed"
          /\ \A x \in Challenges \ {d} : account'[x] = account[x]
      BY <3>1, <3>2 DEF AccountTypes
    <3>4. A!Active' = A!Active \ {d}
      BY <3>1, <3>3 DEF A!Active
    <3>5. IsFiniteSet(A!Active') /\ Cardinality(A!Active') =< Cardinality(A!Active)
      BY <3>4, FS_Subset DEF DeclaredOnce
    <3>6. Cardinality(A!Active') \in Nat /\ Cardinality(A!Active) \in Nat
      BY <3>5, FS_CardinalityType DEF DeclaredOnce
    <3>7. "quota" \notin excuse' => Cardinality(A!Active') =< 1
      BY <3>1, <3>5, <3>6 DEF DeclaredOnce
    <3>8. \A h \in Handlers : req[h] # A!Free => req[h].d # d
      BY <3>1 DEF DeclaredOnce, A!Absent
    <3>9. \A h \in Handlers : req'[h] # A!Free => account'[req'[h].d] = A!Absent
      <4>1. \A h \in Handlers : req[h] # A!Free => req[h].d \in Challenges \ {d}
        BY <3>8 DEF AccountTypes
      <4> QED BY <3>1, <3>3, <4>1 DEF DeclaredOnce
    <3>10. \A x, y \in A!Active' : account'[x].value = account'[y].value => x = y
      <4>1. \A x \in A!Active' : x \in A!Active /\ account'[x].value = account[x].value
        BY <3>3, <3>4 DEF A!Active
      <4> QED BY <4>1 DEF DeclaredOnce
    <3>11. DeclaredOnce'
      BY <3>1, <3>5, <3>7, <3>9, <3>10 DEF DeclaredOnce
    <3> QED BY <3>1, <3>3, <3>11 DEF AccountTypes
  <2>4. ASSUME NEW h \in Handlers, A!Declare(h) PROVE Declaring
    <3>1. /\ req[h].op = "declare" /\ req' = [req EXCEPT ![h] = A!Free]
      BY <2>4 DEF A!Declare
    <3>2. req[h] # A!Free /\ req[h].d \in Challenges /\ req[h].v \in {"v1", "v2"}
      BY <3>1 DEF AccountTypes, A!Free
    <3>3. /\ req' \in [Handlers -> {A!Free} \cup [op : {"declare"}, d : Challenges, v : {"v1", "v2"}]]
          /\ req'[h] = A!Free /\ \A x \in Handlers \ {h} : req'[x] = req[x]
      BY <3>1 DEF AccountTypes
    <3>4. CASE account' = account /\ excuse' = excuse
      <4>1. A!Active' = A!Active
        BY <3>4 DEF A!Active
      <4> QED BY <3>3, <3>4, <4>1 DEF DeclaredOnce, AccountTypes
    <3>5. CASE /\ ~ \E x \in A!Active : account[x].value = req[h].v
               /\ account' = [account EXCEPT ![req[h].d] = [value |-> req[h].v, state |-> "active"]]
               /\ excuse' = IF A!QuotaAllows THEN excuse ELSE excuse \cup {"quota"}
      <4>1. account[req[h].d] = A!Absent
        BY <3>2 DEF DeclaredOnce
      <4>2. PICK d \in Challenges : d = req[h].d
        BY <3>2
      <4>3. /\ account' \in [Challenges -> {A!Absent} \cup [value : {"v1", "v2"}, state : {"active", "removed"}]]
            /\ account'[d].value = req[h].v /\ account'[d].state = "active"
            /\ \A x \in Challenges \ {d} : account'[x] = account[x]
        BY <3>2, <3>5, <4>2 DEF AccountTypes
      <4>4. A!Active' = A!Active \cup {d} /\ d \notin A!Active
        BY <4>1, <4>2, <4>3 DEF A!Active, A!Absent
      <4>5. IsFiniteSet(A!Active') /\ Cardinality(A!Active') = Cardinality(A!Active) + 1
        BY <4>4, FS_AddElement DEF DeclaredOnce
      <4>6. Cardinality(A!Active) \in Nat
        BY FS_CardinalityType DEF DeclaredOnce
      <4>7. "quota" \notin excuse' => Cardinality(A!Active') =< 1
        <5>1. "quota" \notin excuse' => Cardinality(A!Active) < 1
          BY <3>5, SameSize DEF A!QuotaAllows
        <5> QED BY <4>5, <4>6, <5>1
      <4>8. \A x \in Handlers : req'[x] # A!Free => account'[req'[x].d] = A!Absent
        <5>1. \A x \in Handlers \ {h} : req[x] # A!Free => req[x].d \in Challenges \ {d}
          BY <3>2, <4>2 DEF DeclaredOnce, AccountTypes
        <5> QED BY <3>3, <4>3, <5>1 DEF DeclaredOnce
      <4>9. \A x, y \in A!Active' : account'[x].value = account'[y].value => x = y
        <5>1. \A x \in A!Active : account'[x].value = account[x].value /\ account[x].value # req[h].v
          BY <3>5, <4>3, <4>4 DEF A!Active
        <5> QED BY <4>3, <4>4, <5>1 DEF DeclaredOnce
      <4>10. DeclaredOnce'
        BY <3>3, <4>5, <4>7, <4>8, <4>9 DEF DeclaredOnce
      <4>11. \A x \in Challenges : account[x].value = "v1" => account'[x].value = "v1"
        BY <4>1, <4>2, <4>3 DEF A!Absent
      <4> QED BY <3>3, <4>3, <4>10, <4>11
    <3> QED BY <2>4, <3>4, <3>5 DEF A!Declare
  <2> QED BY <2>1, <2>2, <2>3, <2>4 DEF accountsVars, A!Publish, A!Trigger, A!Requests
<1>4. AccountTypes'
  BY <1>1, <1>2, <1>3 DEF AccountTypes
<1>5. RowsPlaced' /\ A!HistoryIsHistory'
  BY <1>1, <1>3, RowsStayPlaced, HistoryStays
<1>6. Announced'
  BY <1>1 DEF Announced, Kept, Running, A!NewIsAnnounced
<1>7. Counted'
  BY <1>1, CountsStay DEF Running
<1>8. \A w \in Handlers : RunFits(w)'
  BY <1>1, <1>3, RunStays
<1> QED BY <1>3, <1>4, <1>5, <1>6, <1>7, <1>8

\* A run is not idle, and not finished with by being idle.
LEMMA RunningIsWatching ==
    ASSUME WatchInv, NEW w \in Handlers
    PROVE  Running(w) <=> task[w] \in Watching
<1>1. task[w] \in {A!Idle} \cup Watching
  BY DEF WatchInv, AccountTypes
<1>2. A!Idle \notin Watching
  BY DEF A!Idle, Watching
<1> QED BY <1>1, <1>2 DEF Running

\* What a step of one worker leaves.
LEMMA OneWorkerMoves ==
    ASSUME WatchInv, NEW w \in Handlers, NEW v \in {A!Idle} \cup Watching,
           task' = [task EXCEPT ![w] = v]
    PROVE  /\ task' \in [Handlers -> {A!Idle} \cup Watching]
           /\ task'[w] = v
           /\ \A x \in Handlers \ {w} : task'[x] = task[x]
BY DEF WatchInv, AccountTypes

\* The requests in hand, one by one.
LEMMA OneByOne ==
    \A x : x \in InHand <=> \E w \in Handlers : Running(w) /\ x \in {w} \X (1..task[w].requests)
BY DEF InHand

\* A worker that makes one more request.
LEMMA OneMoreRequest ==
    ASSUME WatchInv, NEW w \in Handlers, Running(w), Running(w)',
           task'[w].requests = task[w].requests + 1,
           \A x \in Handlers \ {w} : task'[x] = task[x],
           missing' = missing + 1, lost' = lost
    PROVE  Counted'
<1>1. PICK n \in Nat : n = task[w].requests
  BY RunningIsWatching DEF Watching
<1>2. InHand' = InHand \cup {<<w, n + 1>>}
  <2>1. 1..(n + 1) = (1..n) \cup {n + 1}
    OBVIOUS
  <2>2. {w} \X (1..(n + 1)) = ({w} \X (1..n)) \cup {<<w, n + 1>>}
    BY <2>1
  <2>3. \A x : x \in InHand' <=> \E y \in Handlers : Running(y)' /\ x \in {y} \X (1..task'[y].requests)
    BY DEF InHand
  <2>4. \A y \in Handlers \ {w} : /\ Running(y)' <=> Running(y)
                                  /\ task'[y].requests = task[y].requests
    BY DEF Running
  <2>5. task'[w].requests = n + 1
    BY <1>1
  <2> QED BY <1>1, <2>2, <2>3, <2>4, <2>5, OneByOne
<1>3. <<w, n + 1>> \notin InHand
  <2>1. \A y \in Handlers : <<w, n + 1>> \in {y} \X (1..task[y].requests) => y = w
    OBVIOUS
  <2>2. <<w, n + 1>> \notin {w} \X (1..n)
    OBVIOUS
  <2> QED BY <1>1, <2>1, <2>2, OneByOne
<1>4. IsFiniteSet(InHand') /\ Cardinality(InHand') = Cardinality(InHand) + 1
  BY <1>2, <1>3, FS_AddElement DEF WatchInv, Counted
<1>5. Cardinality(InHand) \in Nat /\ missing \in Nat /\ lost \in Nat
  BY FS_CardinalityType DEF WatchInv, Counted, AccountTypes
<1> QED BY <1>4, <1>5 DEF WatchInv, Counted

\* A worker that hands over all its requests, recorded or lost.
LEMMA RequestsHandedOver ==
    ASSUME WatchInv, NEW w \in Handlers, Running(w),
           Running(w)' => task'[w].requests = 0,
           \A x \in Handlers \ {w} : task'[x] = task[x],
           \/ missing' = missing - task[w].requests /\ lost' = lost
           \/ missing' = missing /\ lost' = lost + task[w].requests
    PROVE  Counted' /\ missing' \in Nat /\ lost' \in Nat
<1>1. PICK n \in Nat : n = task[w].requests
  BY RunningIsWatching DEF Watching
<1> DEFINE own == {w} \X (1..n)
<1>2. own \subseteq InHand
  BY <1>1, OneByOne
<1>3. InHand' = InHand \ own
  <2>1. \A x : x \in InHand' <=> \E y \in Handlers : Running(y)' /\ x \in {y} \X (1..task'[y].requests)
    BY DEF InHand
  <2>2. \A y \in Handlers \ {w} : /\ Running(y)' <=> Running(y)
                                  /\ task'[y].requests = task[y].requests
                                  /\ \A x : x \in {y} \X (1..task[y].requests) => x \notin own
    BY DEF Running
  <2>3. \A x : ~ (Running(w)' /\ x \in {w} \X (1..task'[w].requests))
    <3>1. Running(w)' => {w} \X (1..task'[w].requests) = {}
      OBVIOUS
    <3> QED BY <3>1
  <2>4. \A x : x \in InHand' => x \in InHand \ own
    BY <2>1, <2>2, <2>3, OneByOne
  <2>5. \A x : x \in InHand \ own => x \in InHand'
    BY <1>1, <2>1, <2>2, OneByOne
  <2> QED BY <2>4, <2>5
<1>4. IsFiniteSet(own) /\ Cardinality(own) = n
  <2>1. IsFiniteSet({w}) /\ Cardinality({w}) = 1
    BY FS_Singleton
  <2>2. IsFiniteSet(1..n) /\ Cardinality(1..n) = IF 1 > n THEN 0 ELSE n - 1 + 1
    <3>1. 1 \in Int /\ n \in Int
      OBVIOUS
    <3> QED BY <3>1, FS_Interval
  <2>3. IsFiniteSet(1..n) /\ Cardinality(1..n) = n
    BY <2>2
  <2>4. IsFiniteSet({w} \X (1..n)) /\ Cardinality({w} \X (1..n)) = Cardinality({w}) * Cardinality(1..n)
    BY <2>1, <2>3, FS_Product, Zenon
  <2> QED BY <2>1, <2>3, <2>4
<1>5. IsFiniteSet(InHand)
  BY DEF WatchInv, Counted
<1>6. IsFiniteSet(InHand') /\ Cardinality(InHand') = Cardinality(InHand) - Cardinality(InHand \cap own)
  BY <1>3, <1>4, <1>5, FS_Difference
<1>7. InHand \cap own = own
  BY <1>2
<1>8. Cardinality(InHand') = Cardinality(InHand) - n
  BY <1>4, <1>6, <1>7
<1>9. Cardinality(InHand) \in Nat /\ Cardinality(InHand') \in Nat /\ missing \in Nat /\ lost \in Nat
      /\ missing = lost + Cardinality(InHand)
  BY <1>5, <1>6, FS_CardinalityType DEF WatchInv, Counted, AccountTypes
<1>10. \/ missing' = missing - n /\ lost' = lost
       \/ missing' = missing /\ lost' = lost + n
  BY <1>1
<1>11. missing' = lost' + Cardinality(InHand')
  BY <1>8, <1>9, <1>10
<1>12. missing' \in Nat /\ lost' \in Nat
  BY <1>8, <1>9, <1>10
<1> QED BY <1>6, <1>11, <1>12 DEF Counted

\* A worker takes a message.
LEMMA RunReceives ==
    ASSUME WatchInv, NEW w \in Handlers, NEW m \in queue, A!Receive(w, m)
    PROVE  WatchInv'
<1> USE DEF WatchInv
<1>1. /\ ~ Running(w) /\ queue' = queue \ {m}
      /\ account' = account /\ first' = first /\ req' = req /\ known' = known /\ rows' = rows
      /\ missing' = missing /\ lost' = lost /\ told' = told /\ silent' = silent
      /\ baseline' = baseline /\ excuse' = excuse /\ mishaps' = mishaps
  BY DEF A!Receive, A!Requests, Running
<1>2. m[1] = "job" /\ m[2] \in 0..1
  BY DEF AccountTypes
<1> DEFINE targets == job["job"].ids \cap A!Active
           begun == [pc |-> "next", j |-> "job", retries |-> m[2], todo |-> targets,
                     fresh |-> targets \ first, cur |-> "none", left |-> {}, here |-> {}, made |-> {},
                     requests |-> 0, ok |-> FALSE]
<1>3. \/ job' = job /\ task' = task
      \/ job' = [job EXCEPT !["job"].status = "done"] /\ task' = task
      \/ job' = [job EXCEPT !["job"].status = "running"] /\ task' = [task EXCEPT ![w] = begun]
  BY <1>2 DEF A!Receive
<1>4. targets \subseteq Challenges
  BY DEF A!Active
<1>5. begun \in Watching
  BY <1>2, <1>4 DEF Watching
<1>6. job' \in [{"job"} -> [status : {"none", "pending", "running", "done", "failed"},
                            ids : SUBSET Challenges]]
  BY <1>3 DEF AccountTypes
<1>7. \/ task'[w] = task[w]
      \/ task'[w] = begun /\ begun \in Watching
  BY <1>3, <1>5, OneWorkerMoves
<1>8. /\ task' \in [Handlers -> {A!Idle} \cup Watching]
      /\ \A x \in Handlers \ {w} : task'[x] = task[x]
  BY <1>3, <1>5, OneWorkerMoves DEF AccountTypes
<1>9. AccountTypes'
  BY <1>1, <1>6, <1>8 DEF AccountTypes
<1>10. DeclaredOnce' /\ RowsPlaced' /\ A!HistoryIsHistory'
  BY <1>1, DeclarationsStay, RowsStayPlaced, HistoryStays
<1>11. Running(w)' => task'[w] = begun
  BY <1>1, <1>7 DEF Running
<1>12. Announced'
  <2>1. \A x \in Handlers : Running(x)' => task'[x].made \cup task'[x].here \subseteq Kept
    BY <1>8, <1>11 DEF Announced, Running
  <2>2. \A x \in Handlers : Running(x) => task'[x] = task[x] /\ Running(x)'
    BY <1>1, <1>8 DEF Running
  <2> QED BY <1>1, <2>1, <2>2 DEF Announced, Kept, A!NewIsAnnounced, Running
<1>13. Counted'
  <2>1. InHand' = InHand
    <3>1. \A x : x \in InHand' <=> \E y \in Handlers : Running(y)' /\ x \in {y} \X (1..task'[y].requests)
      BY DEF InHand
    <3>2. \A x : ~ (Running(w)' /\ x \in {w} \X (1..task'[w].requests))
      BY <1>11
    <3>3. \A y \in Handlers \ {w} : /\ Running(y)' <=> Running(y)
                                    /\ task'[y].requests = task[y].requests
      BY <1>8 DEF Running
    <3>4. \A x : x \in InHand' <=> x \in InHand
      BY <1>1, <3>1, <3>2, <3>3, OneByOne
    <3> QED BY <3>4
  <2> QED BY <1>1, <2>1 DEF Counted
<1>14. \A x \in Handlers \ {w} : RunFits(x)'
  BY <1>1, <1>8, RunStays
<1>15. RunFits(w)'
  BY <1>1, <1>11 DEF RunFits, Ahead
<1> QED BY <1>9, <1>10, <1>12, <1>13, <1>14, <1>15

\* What a worker's step leaves of the other runs, when it is only the run that moves.
LEMMA OtherRuns ==
    ASSUME WatchInv, NEW w \in Handlers, \A x \in Handlers \ {w} : task'[x] = task[x],
           known \subseteq known', first' = first, excuse \subseteq excuse', account' = account
    PROVE  \A x \in Handlers \ {w} : RunFits(x)'
BY RunStays

\* The provider is asked for an account.
LEMMA RunScans ==
    ASSUME WatchInv, NEW w \in Handlers, NEW d \in Challenges, A!Scan(w, d)
    PROVE  WatchInv'
<1> USE DEF WatchInv
<1>1. /\ task[w].pc = "next" /\ d \in task[w].todo /\ missing' = missing + 1
      /\ account' = account /\ first' = first /\ req' = req /\ known' = known /\ rows' = rows
      /\ job' = job /\ queue' = queue /\ lost' = lost /\ told' = told /\ silent' = silent
      /\ baseline' = baseline /\ excuse' = excuse /\ mishaps' = mishaps
  BY DEF A!Scan, A!Requests
<1>2. Running(w) /\ task[w] \in Watching
  BY <1>1, RunningIsWatching DEF Running, A!Idle
<1>3. PICK t \in Watching : t = task[w]
  BY <1>2
<1> DEFINE v == [t EXCEPT !.pc = "ingest", !.todo = t.todo \ {d}, !.cur = d, !.here = {},
                          !.left = {l \in known : ValueOf[l] = account[d].value},
                          !.requests = t.requests + 1]
<1>4. {l \in known : ValueOf[l] = account[d].value} \in SUBSET Observations
  BY DEF AccountTypes
<1>5. v \in Watching
  <2>1. t.todo \ {d} \in SUBSET Challenges /\ t.requests + 1 \in Nat
    BY DEF Watching
  <2> QED BY <1>4, <2>1 DEF Watching
<1>6. task' = [task EXCEPT ![w] = v]
  BY <1>3 DEF A!Scan, Watching, AccountTypes
<1>7. /\ task' \in [Handlers -> {A!Idle} \cup Watching] /\ task'[w] = v
      /\ \A x \in Handlers \ {w} : task'[x] = task[x]
  BY <1>5, <1>6, OneWorkerMoves
<1>8. Running(w)'
  BY <1>5, <1>7 DEF Running, A!Idle, Watching
<1>9. /\ v.pc = "ingest" /\ v.todo = t.todo \ {d} /\ v.cur = d /\ v.here = {} /\ v.made = t.made
      /\ v.left = {l \in known : ValueOf[l] = account[d].value} /\ v.requests = t.requests + 1
      /\ v.ok = t.ok /\ v.fresh = t.fresh
  BY DEF Watching
<1> HIDE DEF v
<1>10. AccountTypes'
  BY <1>1, <1>7 DEF AccountTypes
<1>11. DeclaredOnce' /\ RowsPlaced' /\ A!HistoryIsHistory'
  BY <1>1, DeclarationsStay, RowsStayPlaced, HistoryStays
<1>12. t.here = {}
  BY <1>1, <1>2, <1>3 DEF RunFits
<1>13. Announced'
  <2>1. \A x \in Handlers : Running(x) <=> Running(x)'
    BY <1>2, <1>7, <1>8 DEF Running
  <2>2. \A x \in Handlers : Running(x) => task'[x].made \cup task'[x].here = task[x].made \cup task[x].here
    BY <1>3, <1>7, <1>9, <1>12
  <2> QED BY <1>1, <2>1, <2>2 DEF Announced, Kept, A!NewIsAnnounced, Running
<1>14. Counted'
  BY <1>1, <1>2, <1>3, <1>7, <1>8, <1>9, OneMoreRequest
<1>15. RunFits(w)'
  <2>1. Ahead(w)' = Ahead(w)
    BY <1>1, <1>3, <1>7, <1>9 DEF Ahead
  <2>2. v.left \subseteq known /\ \A l \in v.left : account[d].value = "v1"
    BY <1>9 DEF ValueOf, AccountTypes
  <2>3. RunFits(w)
    OBVIOUS
  <2> QED BY <1>1, <1>2, <1>3, <1>7, <1>9, <2>1, <2>2, <2>3 DEF RunFits
<1> QED BY <1>1, <1>7, <1>10, <1>11, <1>13, <1>14, <1>15, OtherRuns

\* A step of a run that leaves its requests, the rows and what it has to announce.
LEMMA RunGoesOn ==
    ASSUME WatchInv, NEW w \in Handlers, NEW t \in Watching, NEW v \in Watching,
           t = task[w], task' = [task EXCEPT ![w] = v],
           v.made \cup v.here \subseteq Kept, v.requests = t.requests,
           \A l \in Kept : l \in t.made \cup t.here => l \in v.made \cup v.here \cup told' \cup silent',
           UNCHANGED <<rows, account, req, missing, lost>>,
           told \subseteq told' /\ silent \subseteq silent' /\ told' \cup silent' \subseteq Kept,
           excuse \subseteq excuse'
    PROVE  /\ task' \in [Handlers -> {A!Idle} \cup Watching] /\ task'[w] = v
           /\ \A x \in Handlers \ {w} : task'[x] = task[x]
           /\ Running(w) /\ Running(w)'
           /\ DeclaredOnce' /\ Announced' /\ Counted'
<1>1. /\ task' \in [Handlers -> {A!Idle} \cup Watching] /\ task'[w] = v
      /\ \A x \in Handlers \ {w} : task'[x] = task[x]
  BY OneWorkerMoves
<1>2. Running(w) /\ Running(w)'
  BY <1>1 DEF Running, A!Idle, Watching
<1>3. \A x \in Handlers : Running(x) <=> Running(x)'
  BY <1>1, <1>2 DEF Running
<1>4. Counted'
  BY <1>1, <1>3, CountsStay
<1>5. Kept' = Kept
  BY DEF Kept
<1>6. Announced'
  <2>1. \A x \in Handlers : Running(x)' => task'[x].made \cup task'[x].here \subseteq Kept
    BY <1>1, <1>3 DEF WatchInv, Announced
  <2>2. A!NewIsAnnounced'
    <3> SUFFICES ASSUME NEW l \in Kept, l \notin told' \cup silent'
                 PROVE  \E x \in Handlers : task'[x] # A!Idle /\ l \in task'[x].made \cup task'[x].here
      BY <1>5 DEF A!NewIsAnnounced, Kept
    <3>1. PICK x \in Handlers : task[x] # A!Idle /\ l \in task[x].made \cup task[x].here
      BY DEF WatchInv, Announced, A!NewIsAnnounced, Kept
    <3>2. task'[x] # A!Idle /\ l \in task'[x].made \cup task'[x].here
      BY <1>1, <1>2, <3>1 DEF Running
    <3> QED BY <3>2
  <2> QED BY <1>5, <2>1, <2>2 DEF Announced
<1> QED BY <1>1, <1>2, <1>4, <1>6, DeclarationsStay

\* The provider fails: the account is left out.
LEMMA RunFailsToScan ==
    ASSUME WatchInv, NEW w \in Handlers, NEW d \in Challenges, A!ScanFails(w, d)
    PROVE  WatchInv'
<1> USE DEF WatchInv
<1>1. /\ task[w].pc = "next" /\ d \in task[w].todo /\ mishaps' = mishaps + 1
      /\ missing' = missing
      /\ account' = account /\ first' = first /\ req' = req /\ known' = known /\ rows' = rows
      /\ job' = job /\ queue' = queue /\ lost' = lost /\ told' = told /\ silent' = silent
      /\ baseline' = baseline /\ excuse' = excuse
  BY DEF A!ScanFails, A!Requests
<1>2. Running(w) /\ task[w] \in Watching
  BY <1>1, RunningIsWatching DEF Running, A!Idle
<1>3. PICK t \in Watching : t = task[w]
  BY <1>2
<1> DEFINE v == [t EXCEPT !.todo = t.todo \ {d}]
<1>4. v \in Watching
  BY DEF Watching
<1>5. task' = [task EXCEPT ![w] = v]
  BY <1>3 DEF A!ScanFails, Watching, AccountTypes
<1>6. /\ v.pc = t.pc /\ v.todo = t.todo \ {d} /\ v.cur = t.cur /\ v.here = t.here /\ v.made = t.made
      /\ v.left = t.left /\ v.requests = t.requests /\ v.ok = t.ok /\ v.fresh = t.fresh
  BY DEF Watching
<1> HIDE DEF v
<1>7. v.made \cup v.here \subseteq Kept
  BY <1>2, <1>3, <1>6 DEF Announced
<1>8. /\ task' \in [Handlers -> {A!Idle} \cup Watching] /\ task'[w] = v
      /\ \A x \in Handlers \ {w} : task'[x] = task[x]
      /\ Running(w) /\ Running(w)'
      /\ DeclaredOnce' /\ Announced' /\ Counted'
  BY <1>1, <1>3, <1>4, <1>5, <1>6, <1>7, RunGoesOn DEF Announced
<1>9. AccountTypes'
  BY <1>1, <1>8 DEF AccountTypes
<1>10. RowsPlaced' /\ A!HistoryIsHistory'
  BY <1>1, RowsStayPlaced, HistoryStays
<1>11. RunFits(w)'
  <2>1. Ahead(w)' \subseteq Ahead(w)
    BY <1>1, <1>3, <1>8, <1>6 DEF Ahead
  <2>2. RunFits(w)
    OBVIOUS
  <2> QED BY <1>1, <1>3, <1>6, <1>8, <2>1, <2>2 DEF RunFits
<1> QED BY <1>1, <1>8, <1>9, <1>10, <1>11, OtherRuns

\* An observation is written, unless it was there.
LEMMA RunIngests ==
    ASSUME WatchInv, NEW w \in Handlers, NEW l \in Observations, A!Ingest(w, l)
    PROVE  WatchInv'
<1> USE DEF WatchInv
<1>1. /\ task[w].pc = "ingest" /\ l \in task[w].left
      /\ missing' = missing
      /\ account' = account /\ first' = first /\ req' = req /\ known' = known
      /\ job' = job /\ queue' = queue /\ lost' = lost /\ told' = told /\ silent' = silent
      /\ baseline' = baseline /\ excuse' = excuse /\ mishaps' = mishaps
  BY DEF A!Ingest, A!Requests
<1>2. Running(w) /\ task[w] \in Watching
  BY <1>1, RunningIsWatching DEF Running, A!Idle
<1>3. PICK t \in Watching : t = task[w]
  BY <1>2
<1> DEFINE e == [d |-> t.cur, early |-> t.cur \in t.fresh]
<1>4. /\ t.cur \in Challenges /\ l \in known /\ account[t.cur].value = "v1"
      /\ IF t.cur \in t.fresh THEN t.cur \in first => t.cur \in excuse ELSE t.cur \in first
  BY <1>1, <1>2, <1>3 DEF RunFits, Ahead
<1>5. e \in [d : Challenges, early : BOOLEAN] /\ e.d = t.cur /\ (e.early <=> t.cur \in t.fresh)
  <2>1. (t.cur \in t.fresh) \in BOOLEAN
    OBVIOUS
  <2>2. \A p \in Challenges, z \in BOOLEAN : [d |-> p, early |-> z] \in [d : Challenges, early : BOOLEAN]
    OBVIOUS
  <2>3. e \in [d : Challenges, early : BOOLEAN]
    BY <1>4, <2>1, <2>2, Zenon
  <2> QED BY <2>3
<1>6. e # A!NoRow
  BY <1>5, IdentityAssumption DEF A!NoRow
<1>7. PICK v \in Watching :
        /\ v.pc = t.pc /\ v.todo = t.todo /\ v.cur = t.cur /\ v.made = t.made
        /\ v.left = t.left \ {l} /\ v.requests = t.requests /\ v.ok = t.ok /\ v.fresh = t.fresh
        /\ v.here = IF l \in Kept THEN t.here ELSE t.here \cup {l}
        /\ task' = [task EXCEPT ![w] = v]
  <2> DEFINE v == [t EXCEPT !.left = t.left \ {l},
                            !.here = IF rows[l] = A!NoRow THEN t.here \cup {l} ELSE t.here]
  <2>1. v \in Watching
    BY DEF Watching
  <2>2. task' = [task EXCEPT ![w] = v]
    BY <1>3 DEF A!Ingest, Watching, AccountTypes
  <2>3. /\ v.pc = t.pc /\ v.todo = t.todo /\ v.cur = t.cur /\ v.made = t.made
        /\ v.left = t.left \ {l} /\ v.requests = t.requests /\ v.ok = t.ok /\ v.fresh = t.fresh
        /\ v.here = IF l \in Kept THEN t.here ELSE t.here \cup {l}
    BY DEF Watching, Kept
  <2> QED BY <2>1, <2>2, <2>3
<1>8. /\ task' \in [Handlers -> {A!Idle} \cup Watching] /\ task'[w] = v
      /\ \A x \in Handlers \ {w} : task'[x] = task[x]
  BY <1>7, OneWorkerMoves
<1>9. Running(w)'
  BY <1>7, <1>8 DEF Running, A!Idle, Watching
<1>10. rows' = IF l \in Kept THEN rows ELSE [rows EXCEPT ![l] = e]
  BY <1>3 DEF A!Ingest, Kept
<1> HIDE DEF e
<1>11. /\ rows' \in [Observations -> {A!NoRow} \cup [d : Challenges, early : BOOLEAN]]
       /\ \A x \in Kept : rows'[x] = rows[x]
       /\ \A x \in Observations \ (Kept \cup {l}) : rows'[x] = A!NoRow
       /\ l \notin Kept => rows'[l] = e
  <2>1. rows \in [Observations -> {A!NoRow} \cup [d : Challenges, early : BOOLEAN]]
    BY DEF AccountTypes
  <2>2. CASE l \in Kept
    BY <1>10, <2>1, <2>2 DEF Kept
  <2>3. CASE l \notin Kept
    BY <1>5, <1>10, <2>1, <2>3 DEF Kept
  <2> QED BY <2>2, <2>3
<1>12. Kept' = Kept \cup {l}
  BY <1>6, <1>11 DEF Kept
<1>13. AccountTypes'
  BY <1>1, <1>8, <1>11 DEF AccountTypes
<1>14. DeclaredOnce'
  BY <1>1, DeclarationsStay
<1>15. RowsPlaced'
  BY <1>1, <1>4, <1>5, <1>11, <1>12 DEF RowsPlaced
<1>16. A!HistoryIsHistory'
  <2> SUFFICES ASSUME NEW x \in Kept', rows'[x].d \notin excuse
               PROVE  IF rows'[x].early THEN rows'[x].d \in first => x \in baseline[rows'[x].d]
                      ELSE rows'[x].d \in first
    BY <1>1 DEF A!HistoryIsHistory, Kept
  <2>1. CASE x \in Kept
    BY <1>11, <2>1 DEF A!HistoryIsHistory, Kept
  <2>2. CASE x = l /\ l \notin Kept
    BY <1>4, <1>5, <1>11, <2>2
  <2> QED BY <1>12, <2>1, <2>2
<1>17. \A x \in Handlers : Running(x) <=> Running(x)'
  BY <1>2, <1>8, <1>9 DEF Running
<1>18. Announced'
  <2>1. \A x \in Handlers : Running(x)' => task'[x].made \cup task'[x].here \subseteq Kept'
    BY <1>3, <1>7, <1>8, <1>12, <1>17 DEF Announced
  <2>2. A!NewIsAnnounced'
    <3> SUFFICES ASSUME NEW y \in Kept', y \notin told \cup silent
                 PROVE  \E x \in Handlers : task'[x] # A!Idle /\ y \in task'[x].made \cup task'[x].here
      BY <1>1 DEF A!NewIsAnnounced, Kept
    <3>1. CASE y \in Kept
      <4>1. PICK x \in Handlers : task[x] # A!Idle /\ y \in task[x].made \cup task[x].here
        BY <3>1 DEF Announced, A!NewIsAnnounced, Kept
      <4>2. task'[x] # A!Idle /\ y \in task'[x].made \cup task'[x].here
        BY <1>3, <1>7, <1>8, <1>9, <4>1 DEF Running
      <4> QED BY <4>2
    <3>2. CASE y = l /\ l \notin Kept
      BY <1>7, <1>8, <1>9, <3>2 DEF Running
    <3> QED BY <1>12, <3>1, <3>2
  <2> QED BY <1>1, <1>12, <2>1, <2>2 DEF Announced
<1>19. Counted'
  BY <1>1, <1>3, <1>7, <1>8, <1>17, CountsStay
<1>20. RunFits(w)'
  <2>1. Ahead(w)' = Ahead(w)
    BY <1>1, <1>3, <1>7, <1>8 DEF Ahead
  <2>2. RunFits(w)
    OBVIOUS
  <2> QED BY <1>1, <1>2, <1>3, <1>7, <1>8, <2>1, <2>2 DEF RunFits
<1> QED BY <1>1, <1>8, <1>13, <1>14, <1>15, <1>16, <1>18, <1>19, <1>20, OtherRuns

\* Writing fails: what was created in this account is kept and passed over.
LEMMA RunFailsToIngest ==
    ASSUME WatchInv, NEW w \in Handlers, A!IngestFails(w)
    PROVE  WatchInv'
<1> USE DEF WatchInv
<1>1. /\ task[w].pc = "ingest" /\ mishaps' = mishaps + 1
      /\ missing' = missing /\ silent' = silent \cup task[w].here
      /\ account' = account /\ first' = first /\ req' = req /\ known' = known /\ rows' = rows
      /\ job' = job /\ queue' = queue /\ lost' = lost /\ told' = told
      /\ baseline' = baseline /\ excuse' = excuse
  BY DEF A!IngestFails, A!Requests
<1>2. Running(w) /\ task[w] \in Watching
  BY <1>1, RunningIsWatching DEF Running, A!Idle
<1>3. PICK t \in Watching : t = task[w]
  BY <1>2
<1> DEFINE v == [t EXCEPT !.pc = "next", !.here = {}, !.left = {}]
<1>4. v \in Watching
  BY DEF Watching
<1>5. task' = [task EXCEPT ![w] = v]
  BY <1>3 DEF A!IngestFails, Watching, AccountTypes
<1>6. /\ v.pc = "next" /\ v.todo = t.todo /\ v.cur = t.cur /\ v.here = {} /\ v.made = t.made
      /\ v.left = {} /\ v.requests = t.requests /\ v.ok = t.ok /\ v.fresh = t.fresh
  BY DEF Watching
<1> HIDE DEF v
<1>7. v.made \cup v.here \subseteq Kept /\ t.here \subseteq Kept
  BY <1>2, <1>3, <1>6 DEF Announced
<1>8. /\ task' \in [Handlers -> {A!Idle} \cup Watching] /\ task'[w] = v
      /\ \A x \in Handlers \ {w} : task'[x] = task[x]
      /\ Running(w) /\ Running(w)'
      /\ DeclaredOnce' /\ Announced' /\ Counted'
  BY <1>1, <1>3, <1>4, <1>5, <1>6, <1>7, RunGoesOn DEF Announced
<1>9. AccountTypes'
  BY <1>1, <1>3, <1>8 DEF AccountTypes, Watching
<1>10. RowsPlaced' /\ A!HistoryIsHistory'
  BY <1>1, RowsStayPlaced, HistoryStays
<1>11. RunFits(w)'
  <2>1. Ahead(w)' \subseteq Ahead(w)
    BY <1>1, <1>3, <1>8, <1>6 DEF Ahead
  <2>2. RunFits(w)
    OBVIOUS
  <2> QED BY <1>1, <1>3, <1>6, <1>8, <2>1, <2>2 DEF RunFits
<1> QED BY <1>1, <1>8, <1>9, <1>10, <1>11, OtherRuns

\* The pass of an account ends: what another first pass meets is excused.
LEMMA RunEndsAccount ==
    ASSUME WatchInv, NEW w \in Handlers, A!EndAccount(w)
    PROVE  WatchInv'
<1> USE DEF WatchInv
<1>1. /\ task[w].pc = "ingest" /\ task[w].left = {}
      /\ missing' = missing /\ mishaps' = mishaps
      /\ account' = account /\ req' = req /\ known' = known /\ rows' = rows
      /\ job' = job /\ queue' = queue /\ lost' = lost /\ told' = told /\ silent' = silent
      /\ first' = first \cup ({task[w].cur} \cap task[w].fresh)
      /\ baseline' = IF task[w].cur \in first THEN baseline ELSE [baseline EXCEPT ![task[w].cur] = known]
      /\ excuse' = IF task[w].cur \notin first /\ A!AlsoFirst(w, task[w].cur)
                   THEN excuse \cup {task[w].cur} ELSE excuse
  BY DEF A!EndAccount
<1>2. Running(w) /\ task[w] \in Watching
  BY <1>1, RunningIsWatching DEF Running, A!Idle
<1>3. PICK t \in Watching : t = task[w]
  BY <1>2
<1>4. PICK c \in Challenges : c = t.cur
  BY <1>1, <1>2, <1>3 DEF RunFits
<1>5. IF c \in t.fresh THEN c \in first => c \in excuse ELSE c \in first
  BY <1>1, <1>2, <1>3, <1>4 DEF RunFits, Ahead
<1>6. /\ first' = first \cup {c}
      /\ baseline' = IF c \in first THEN baseline ELSE [baseline EXCEPT ![c] = known]
      /\ excuse \subseteq excuse'
      /\ \A d \in Challenges \ {c} : d \in excuse' <=> d \in excuse
      /\ c \notin first /\ A!AlsoFirst(w, c) => c \in excuse'
      /\ "quota" \in excuse => "quota" \in excuse'
  BY <1>1, <1>3, <1>4, <1>5
<1> DEFINE v == [t EXCEPT !.pc = "next", !.made = t.made \cup t.here, !.here = {}, !.ok = TRUE]
<1>7. v \in Watching
  BY DEF Watching
<1>8. task' = [task EXCEPT ![w] = v]
  BY <1>3 DEF A!EndAccount, Watching, AccountTypes
<1>9. /\ v.pc = "next" /\ v.todo = t.todo /\ v.cur = t.cur /\ v.here = {} /\ v.made = t.made \cup t.here
      /\ v.left = t.left /\ v.requests = t.requests /\ v.ok = TRUE /\ v.fresh = t.fresh
  BY DEF Watching
<1> HIDE DEF v
<1>10. v.made \cup v.here \subseteq Kept
  BY <1>2, <1>3, <1>9 DEF Announced
<1>11. /\ task' \in [Handlers -> {A!Idle} \cup Watching] /\ task'[w] = v
       /\ \A x \in Handlers \ {w} : task'[x] = task[x]
       /\ Running(w) /\ Running(w)'
       /\ DeclaredOnce' /\ Announced' /\ Counted'
  BY <1>1, <1>3, <1>6, <1>7, <1>8, <1>9, <1>10, RunGoesOn DEF Announced
<1>12. AccountTypes'
  <2>1. known \in SUBSET Observations /\ baseline \in [Challenges -> SUBSET Observations]
    BY DEF AccountTypes
  <2>2. baseline' \in [Challenges -> SUBSET Observations]
    BY <1>6, <2>1
  <2>3. first' \subseteq Challenges
    BY <1>6 DEF AccountTypes
  <2> QED BY <1>1, <1>11, <2>2, <2>3 DEF AccountTypes
<1>13. RowsPlaced'
  BY <1>1, RowsStayPlaced
<1>14. baseline' \in [Challenges -> SUBSET Observations] /\ (c \notin first => baseline'[c] = known)
       /\ \A d \in Challenges : d # c \/ d \in first => baseline'[d] = baseline[d]
  BY <1>6, <1>12 DEF AccountTypes
<1>15. A!HistoryIsHistory'
  <2> SUFFICES ASSUME NEW x \in Kept, rows[x].d \notin excuse'
               PROVE  IF rows[x].early THEN rows[x].d \in first' => x \in baseline'[rows[x].d]
                      ELSE rows[x].d \in first'
    BY <1>1 DEF A!HistoryIsHistory, Kept
  <2>1. PICK d \in Challenges : d = rows[x].d
    BY RowsOrNone DEF Kept
  <2>2. d \notin excuse /\ x \in known
    BY <1>6, <2>1 DEF RowsPlaced
  <2>3. IF rows[x].early THEN d \in first => x \in baseline[d] ELSE d \in first
    BY <2>1, <2>2 DEF A!HistoryIsHistory, Kept
  <2>4. CASE d = c /\ c \notin first
    BY <1>6, <1>14, <2>1, <2>2, <2>3, <2>4
  <2>5. CASE d # c \/ c \in first
    BY <1>6, <1>14, <2>1, <2>2, <2>3, <2>5
  <2> QED BY <2>4, <2>5
<1>16. \A x \in Handlers \ {w} : RunFits(x)'
  <2> SUFFICES ASSUME NEW x \in Handlers \ {w}, Running(x) PROVE RunFits(x)'
    BY <1>11 DEF RunFits, Running
  <2>1. task'[x] = task[x] /\ RunFits(x)
    BY <1>11
  <2>2. Ahead(x)' = Ahead(x)
    BY <2>1 DEF Ahead
  <2>3. ASSUME NEW d \in Ahead(x) PROVE IF d \in task[x].fresh THEN d \in first' => d \in excuse' ELSE d \in first'
    <3>1. IF d \in task[x].fresh THEN d \in first => d \in excuse ELSE d \in first
      BY <2>1, <2>3 DEF RunFits
    <3>2. CASE d = c /\ c \notin first /\ d \in task[x].fresh
      <4>1. A!AlsoFirst(w, c)
        BY <2>3, <3>2 DEF A!AlsoFirst, Ahead, Running
      <4> QED BY <1>6, <3>2, <4>1
    <3>3. CASE ~ (d = c /\ c \notin first /\ d \in task[x].fresh)
      BY <1>6, <3>1, <3>3
    <3> QED BY <3>2, <3>3
  <2> QED BY <1>1, <2>1, <2>2, <2>3 DEF RunFits
<1>17. RunFits(w)'
  <2>1. Ahead(w)' = t.todo /\ Ahead(w) = t.todo \cup {c}
    BY <1>1, <1>3, <1>4, <1>9, <1>11 DEF Ahead
  <2>2. RunFits(w)
    OBVIOUS
  <2>3. ASSUME NEW d \in t.todo PROVE IF d \in t.fresh THEN d \in first' => d \in excuse' ELSE d \in first'
    <3>1. IF d \in t.fresh THEN d \in first => d \in excuse ELSE d \in first
      BY <1>2, <1>3, <2>1, <2>2 DEF RunFits
    <3>2. d # c
      BY <1>1, <1>2, <1>3, <1>4, <2>2 DEF RunFits
    <3> QED BY <1>6, <3>1, <3>2
  <2> QED BY <1>1, <1>3, <1>9, <1>11, <2>1, <2>2, <2>3 DEF RunFits
<1> QED BY <1>11, <1>12, <1>13, <1>15, <1>16, <1>17

\* The run of a worker ends, with all it had to say said or passed over.
LEMMA RunEnds ==
    ASSUME WatchInv, NEW w \in Handlers, Running(w), task' = [task EXCEPT ![w] = A!Idle],
           task[w].made \cup task[w].here \subseteq told' \cup silent',
           told \subseteq told' /\ silent \subseteq silent' /\ told' \cup silent' \subseteq Kept,
           UNCHANGED <<account, first, req, known, rows, baseline, excuse>>,
           \/ missing' = missing - task[w].requests /\ lost' = lost
           \/ missing' = missing /\ lost' = lost + task[w].requests,
           mishaps' \in Nat,
           job' \in [{"job"} -> [status : {"none", "pending", "running", "done", "failed"}, ids : SUBSET Challenges]],
           queue' \subseteq {"job"} \X (0..1)
    PROVE  WatchInv'
<1>1. /\ task' \in [Handlers -> {A!Idle} \cup Watching] /\ task'[w] = A!Idle
      /\ \A x \in Handlers \ {w} : task'[x] = task[x]
  BY OneWorkerMoves
<1>2. ~ Running(w)' /\ \A x \in Handlers \ {w} : Running(x)' <=> Running(x)
  BY <1>1 DEF Running
<1>3. Counted' /\ missing' \in Nat /\ lost' \in Nat
  BY <1>1, <1>2, RequestsHandedOver
<1>4. told' \subseteq Observations /\ silent' \subseteq Observations
  BY DEF Kept
<1>5. AccountTypes'
  BY <1>1, <1>3, <1>4 DEF WatchInv, AccountTypes
<1>6. DeclaredOnce' /\ RowsPlaced' /\ A!HistoryIsHistory'
  BY DeclarationsStay, RowsStayPlaced, HistoryStays
<1>7. Kept' = Kept
  BY DEF Kept
<1>8. Announced'
  <2>1. \A x \in Handlers : Running(x)' => task'[x].made \cup task'[x].here \subseteq Kept
    BY <1>1, <1>2 DEF WatchInv, Announced
  <2>2. A!NewIsAnnounced'
    <3> SUFFICES ASSUME NEW l \in Kept, l \notin told' \cup silent'
                 PROVE  \E x \in Handlers : task'[x] # A!Idle /\ l \in task'[x].made \cup task'[x].here
      BY <1>7 DEF A!NewIsAnnounced, Kept
    <3>1. PICK x \in Handlers : task[x] # A!Idle /\ l \in task[x].made \cup task[x].here
      BY DEF WatchInv, Announced, A!NewIsAnnounced, Kept
    <3>2. x # w
      BY <3>1
    <3>3. task'[x] # A!Idle /\ l \in task'[x].made \cup task'[x].here
      BY <1>1, <3>1, <3>2
    <3> QED BY <3>3
  <2> QED BY <1>7, <2>1, <2>2 DEF Announced
<1>9. \A x \in Handlers : RunFits(x)'
  <2>1. RunFits(w)'
    BY <1>2 DEF RunFits
  <2> QED BY <1>1, <2>1, OtherRuns
<1> QED BY <1>3, <1>5, <1>6, <1>8, <1>9 DEF WatchInv

\* The usage is recorded; a run in which nothing answered is retried or given up.
LEMMA RunRecords ==
    ASSUME WatchInv, NEW w \in Handlers, A!Record(w)
    PROVE  WatchInv'
<1> USE DEF WatchInv
<1>1. /\ task[w].pc = "next" /\ task[w].todo = {} /\ missing' = missing - task[w].requests
      /\ account' = account /\ first' = first /\ req' = req /\ known' = known /\ rows' = rows
      /\ lost' = lost /\ told' = told /\ silent' = silent
      /\ baseline' = baseline /\ excuse' = excuse /\ mishaps' = mishaps
  BY DEF A!Record, A!Requests
<1>2. Running(w) /\ task[w] \in Watching
  BY <1>1, RunningIsWatching DEF Running, A!Idle
<1>3. PICK t \in Watching : t = task[w]
  BY <1>2
<1>4. t.here = {} /\ (~ t.ok => t.made = {})
  BY <1>1, <1>2, <1>3 DEF RunFits
<1>5. CASE t.ok
  <2> DEFINE v == [t EXCEPT !.pc = "notify", !.requests = 0]
  <2>1. v \in Watching
    BY DEF Watching
  <2>2. task' = [task EXCEPT ![w] = v] /\ job' = job /\ queue' = queue
    BY <1>3, <1>5 DEF A!Record, A!Conclude, Watching, AccountTypes
  <2>3. /\ v.pc = "notify" /\ v.todo = t.todo /\ v.cur = t.cur /\ v.here = t.here /\ v.made = t.made
        /\ v.left = t.left /\ v.requests = 0 /\ v.ok = t.ok /\ v.fresh = t.fresh
    BY DEF Watching
  <2> HIDE DEF v
  <2>4. /\ task' \in [Handlers -> {A!Idle} \cup Watching] /\ task'[w] = v
        /\ \A x \in Handlers \ {w} : task'[x] = task[x]
    BY <2>1, <2>2, OneWorkerMoves
  <2>5. Running(w)'
    BY <2>1, <2>4 DEF Running, A!Idle, Watching
  <2>6. Counted' /\ missing' \in Nat
    BY <1>1, <1>2, <2>3, <2>4, RequestsHandedOver
  <2>7. AccountTypes'
    BY <1>1, <2>2, <2>4, <2>6 DEF AccountTypes
  <2>8. DeclaredOnce' /\ RowsPlaced' /\ A!HistoryIsHistory'
    BY <1>1, DeclarationsStay, RowsStayPlaced, HistoryStays
  <2>9. Announced'
    <3>1. \A x \in Handlers : Running(x) <=> Running(x)'
      BY <1>2, <2>4, <2>5 DEF Running
    <3>2. \A x \in Handlers : Running(x) => task'[x].made \cup task'[x].here = task[x].made \cup task[x].here
      BY <1>3, <2>3, <2>4
    <3> QED BY <1>1, <3>1, <3>2 DEF Announced, Kept, A!NewIsAnnounced, Running
  <2>10. RunFits(w)'
    <3>1. Ahead(w)' = {}
      BY <1>1, <1>3, <2>3, <2>4 DEF Ahead
    <3> QED BY <1>1, <1>3, <1>4, <1>5, <2>3, <2>4, <3>1 DEF RunFits
  <2> QED BY <1>1, <2>4, <2>6, <2>7, <2>8, <2>9, <2>10, OtherRuns
<1>6. CASE ~ t.ok
  <2>1. task' = [task EXCEPT ![w] = A!Idle]
    BY <1>3, <1>6 DEF A!Record, A!Conclude
  <2>2. t.j = "job" /\ t.retries \in 0..1
    BY DEF Watching
  <2>3. \/ t.retries < 1 /\ queue' = queue \cup {<<"job", t.retries + 1>>} /\ job' = job
        \/ queue' = queue /\ job' = [job EXCEPT !["job"].status = "failed"]
    BY <1>3, <1>6, <2>2 DEF A!Record, A!Conclude
  <2>4. queue' \subseteq {"job"} \X (0..1)
    <3>1. t.retries < 1 => t.retries + 1 \in 0..1
      BY <2>2
    <3> QED BY <2>3, <3>1 DEF AccountTypes
  <2>5. job' \in [{"job"} -> [status : {"none", "pending", "running", "done", "failed"}, ids : SUBSET Challenges]]
    BY <2>3 DEF AccountTypes
  <2>6. told' \cup silent' \subseteq Kept /\ mishaps' \in Nat
    BY <1>1 DEF Announced, AccountTypes
  <2> QED BY <1>1, <1>2, <1>3, <1>4, <1>6, <2>1, <2>4, <2>5, <2>6, RunEnds
<1> QED BY <1>5, <1>6

\* The client is told of what is new.
LEMMA RunNotifies ==
    ASSUME WatchInv, NEW w \in Handlers, A!Notify(w)
    PROVE  WatchInv'
<1> USE DEF WatchInv
<1>1. /\ task[w].pc = "notify" /\ told' = told \cup task[w].made
      /\ missing' = missing /\ mishaps' = mishaps
      /\ account' = account /\ first' = first /\ req' = req /\ known' = known /\ rows' = rows
      /\ job' = job /\ queue' = queue /\ lost' = lost /\ silent' = silent
      /\ baseline' = baseline /\ excuse' = excuse
  BY DEF A!Notify, A!Requests
<1>2. Running(w) /\ task[w] \in Watching
  BY <1>1, RunningIsWatching DEF Running, A!Idle
<1>3. PICK t \in Watching : t = task[w]
  BY <1>2
<1> DEFINE v == [t EXCEPT !.pc = "done", !.made = {}]
<1>4. v \in Watching
  BY DEF Watching
<1>5. task' = [task EXCEPT ![w] = v]
  BY <1>3 DEF A!Notify, Watching, AccountTypes
<1>6. /\ v.pc = "done" /\ v.todo = t.todo /\ v.cur = t.cur /\ v.here = t.here /\ v.made = {}
      /\ v.left = t.left /\ v.requests = t.requests /\ v.ok = t.ok /\ v.fresh = t.fresh
  BY DEF Watching
<1> HIDE DEF v
<1>7. t.made \cup t.here \subseteq Kept
  BY <1>2, <1>3 DEF Announced
<1>8. told' \cup silent' \subseteq Kept
  BY <1>1, <1>3, <1>7 DEF Announced
<1>9. /\ task' \in [Handlers -> {A!Idle} \cup Watching] /\ task'[w] = v
      /\ \A x \in Handlers \ {w} : task'[x] = task[x]
      /\ Running(w) /\ Running(w)'
      /\ DeclaredOnce' /\ Announced' /\ Counted'
  BY <1>1, <1>3, <1>4, <1>5, <1>6, <1>7, <1>8, RunGoesOn
<1>10. AccountTypes'
  BY <1>1, <1>8, <1>9 DEF AccountTypes, Kept
<1>11. RowsPlaced' /\ A!HistoryIsHistory'
  BY <1>1, RowsStayPlaced, HistoryStays
<1>12. RunFits(w)'
  <2>1. Ahead(w)' \subseteq Ahead(w)
    BY <1>1, <1>3, <1>9, <1>6 DEF Ahead
  <2>2. RunFits(w)
    OBVIOUS
  <2> QED BY <1>1, <1>3, <1>6, <1>9, <2>1, <2>2 DEF RunFits
<1> QED BY <1>1, <1>9, <1>10, <1>11, <1>12, OtherRuns

\* The job is marked done.
LEMMA RunMarksDone ==
    ASSUME WatchInv, NEW w \in Handlers, A!MarkDone(w)
    PROVE  WatchInv'
<1> USE DEF WatchInv
<1>1. /\ task[w].pc = "done" /\ task' = [task EXCEPT ![w] = A!Idle]
      /\ job' = [job EXCEPT ![task[w].j].status = "done"]
      /\ account' = account /\ first' = first /\ req' = req /\ known' = known /\ rows' = rows
      /\ queue' = queue /\ missing' = missing /\ lost' = lost /\ told' = told /\ silent' = silent
      /\ baseline' = baseline /\ excuse' = excuse /\ mishaps' = mishaps
  BY DEF A!MarkDone, A!Requests
<1>2. Running(w) /\ task[w] \in Watching
  BY <1>1, RunningIsWatching DEF Running, A!Idle
<1>3. task[w].j = "job"
  BY <1>2 DEF Watching
<1>4. task[w].made = {} /\ task[w].here = {} /\ task[w].requests = 0
  BY <1>1, <1>2 DEF RunFits
<1>5. missing' = missing - task[w].requests
  BY <1>1, <1>4 DEF AccountTypes
<1>6. job' \in [{"job"} -> [status : {"none", "pending", "running", "done", "failed"}, ids : SUBSET Challenges]]
  BY <1>1, <1>3 DEF AccountTypes
<1>7. told' \cup silent' \subseteq Kept /\ mishaps' \in Nat /\ queue' \subseteq {"job"} \X (0..1)
  BY <1>1 DEF Announced, AccountTypes
<1> QED BY <1>1, <1>2, <1>4, <1>5, <1>6, <1>7, RunEnds

\* The message comes back, from a run that goes on or has died.
LEMMA RunRedelivered ==
    ASSUME WatchInv, NEW w \in Handlers, A!Redeliver(w)
    PROVE  WatchInv'
<1> USE DEF WatchInv
<1>1. /\ Running(w) /\ mishaps' = mishaps + 1
      /\ queue' = queue \cup {<<task[w].j, task[w].retries>>}
      /\ account' = account /\ first' = first /\ req' = req /\ known' = known /\ rows' = rows
      /\ job' = job /\ missing' = missing /\ told' = told
      /\ baseline' = baseline /\ excuse' = excuse
      /\ \/ task' = task /\ silent' = silent /\ lost' = lost
         \/ /\ task' = [task EXCEPT ![w] = A!Idle]
            /\ silent' = silent \cup task[w].made \cup task[w].here
            /\ lost' = lost + task[w].requests
  BY DEF A!Redeliver, A!Requests, Running
<1>2. task[w].j = "job" /\ task[w].retries \in 0..1
  BY <1>1, RunningIsWatching DEF Watching
<1>3. /\ queue' \subseteq {"job"} \X (0..1) /\ mishaps' \in Nat
      /\ job' \in [{"job"} -> [status : {"none", "pending", "running", "done", "failed"}, ids : SUBSET Challenges]]
  BY <1>1, <1>2 DEF AccountTypes
<1>4. CASE task' = task /\ silent' = silent /\ lost' = lost
  <2>1. AccountTypes'
    BY <1>1, <1>3, <1>4 DEF AccountTypes
  <2>2. DeclaredOnce' /\ RowsPlaced' /\ A!HistoryIsHistory'
    BY <1>1, DeclarationsStay, RowsStayPlaced, HistoryStays
  <2>3. Announced' /\ Counted'
    BY <1>1, <1>4, CountsStay DEF Announced, A!NewIsAnnounced, Kept, Running
  <2>4. \A x \in Handlers : RunFits(x)'
    BY <1>1, <1>4, RunStays
  <2> QED BY <2>1, <2>2, <2>3, <2>4
<1>5. CASE /\ task' = [task EXCEPT ![w] = A!Idle]
           /\ silent' = silent \cup task[w].made \cup task[w].here
           /\ lost' = lost + task[w].requests
  <2>1. told' \cup silent' \subseteq Kept
    BY <1>1, <1>5 DEF Announced
  <2> QED BY <1>1, <1>3, <1>5, <2>1, RunEnds
<1> QED BY <1>1, <1>4, <1>5

\* Every step of the watched accounts keeps the invariant.
LEMMA WatchStep == WatchInv /\ (A!Next \/ UNCHANGED accountsVars) => WatchInv'
<1> SUFFICES ASSUME WatchInv, A!Next \/ UNCHANGED accountsVars PROVE WatchInv'
  OBVIOUS
<1>1. CASE \E w \in Handlers :
             \/ \E m \in queue : A!Receive(w, m)
             \/ \E d \in Challenges : A!Scan(w, d) \/ A!ScanFails(w, d)
             \/ \E l \in Observations : A!Ingest(w, l)
             \/ A!IngestFails(w) \/ A!EndAccount(w) \/ A!Record(w) \/ A!Notify(w) \/ A!MarkDone(w)
             \/ A!Redeliver(w)
  BY <1>1, RunReceives, RunScans, RunFailsToScan, RunIngests, RunFailsToIngest, RunEndsAccount,
     RunRecords, RunNotifies, RunMarksDone, RunRedelivered
<1>2. CASE \/ UNCHANGED accountsVars
           \/ \E h \in Handlers : A!Declare(h) \/ \E d \in Challenges, v \in {"v1", "v2"} : A!BeginDeclare(h, d, v)
           \/ \E d \in Challenges : A!Remove(d)
           \/ \E l \in Observations : A!Publish(l)
           \/ \E j \in {"job"}, ids \in SUBSET Challenges : A!Trigger(j, ids)
  BY <1>2, ClientActs
<1> QED BY <1>1, <1>2 DEF A!Next

\* What the property says of the watched accounts.
LEMMA WatchServe ==
    ASSUME WatchInv
    PROVE  A!TypeOK /\ A!WithinQuota /\ A!NewIsAnnounced /\ A!HistoryIsHistory /\ A!RequestsRecorded
<1> USE DEF WatchInv
<1>1. A!TypeOK
  <2>1. \A l \in Observations : rows[l] # A!NoRow => account[rows[l].d].value = ValueOf[l]
    BY DEF RowsPlaced, Kept, ValueOf
  <2>2. told \cup silent \subseteq {l \in Observations : rows[l] # A!NoRow}
    BY DEF Announced, Kept
  <2>3. job \in [{"job"} -> [status : {"none", "pending", "running"} \cup A!Finished, ids : SUBSET Challenges]]
    BY DEF AccountTypes, A!Finished
  <2> QED BY <2>1, <2>2, <2>3 DEF A!TypeOK, AccountTypes
<1>2. A!WithinQuota
  BY SameSize DEF A!WithinQuota, DeclaredOnce
<1>3. A!RequestsRecorded
  <2>1. UNION {{w} \X (1..task[w].requests) : w \in {x \in Handlers : task[x] # A!Idle}} = InHand
    BY DEF InHand, Running
  <2> QED BY <2>1, SameSize DEF A!RequestsRecorded, Counted
<1> QED BY <1>1, <1>2, <1>3 DEF Announced

-----------------------------------------------------------------------------
(* The payloads of the provider. *)

PlainKeys == {"eml", "src", "usr", "platform", "category", "dom", "type"}
PlainValues == {"marie", "shop", "forum", "svc", "aws", "malware of sixty characters and more",
                "d1", "d2", "pphish", "mx", "x"}
Secrets == {"winter", "summer", "AKIA1", "AKIA2"}
PlainFields == [key : PlainKeys, value : PlainValues, listed : {FALSE}]

\* What comes before the secret: the date, and the leak's fields, one of which may be lacking.
OpeningFields == [key : PlainKeys \cup {"fnd"}, value : PlainValues \cup {"", "2026-01-01"}, listed : {FALSE}]
Opening(d) ==
    (IF d.form.dated THEN <<N!Field("fnd", "2026-01-01")>> ELSE <<>>)
    \o [i \in DOMAIN d.leak.fields |->
           IF i = d.form.without THEN [d.leak.fields[i] EXCEPT !.value = ""] ELSE d.leak.fields[i]]

\* The secret, and the field whose name looks secret.
SecretField(d) ==
    [key |-> d.leak.key, value |-> d.leak.secret, listed |-> (d.form.secret = "listed")]
TypeField == [key |-> "token_type", value |-> "kind", listed |-> FALSE]
Ending(d) ==
    IF d.leak.secret = "" THEN <<>>
    ELSE IF d.form.secret = "after type" THEN <<TypeField, SecretField(d)>>
    ELSE IF d.form.secret = "before type" THEN <<SecretField(d), TypeField>>
    ELSE <<SecretField(d)>>

\* A leak names things in clear, and its secret under a key of secrets.
LeakShaped(leak) ==
    /\ leak.fields \in Seq(PlainFields)
    /\ \A i, j \in DOMAIN leak.fields : leak.fields[i].key = leak.fields[j].key => i = j
    /\ leak.secret = "" \/ (leak.secret \in Secrets /\ leak.key \in {"pwd", "token"})


\* Two fields, or three, are a sequence of fields.
LEMMA TwoOrThree ==
    \A x, y, z \in PlainFields : <<x, y>> \in Seq(PlainFields) /\ <<x, y, z>> \in Seq(PlainFields)
OBVIOUS

\* A field of plain key and value.
LEMMA PlainField == \A k \in PlainKeys, v \in PlainValues : N!Field(k, v) \in PlainFields
BY DEF N!Field, PlainFields

\* Every leak there is has that form.
LEMMA LeaksAreShaped == \A leak \in N!Leaks : LeakShaped(leak)
<1>1. ASSUME NEW site \in {"shop", "forum"}, NEW secret \in {"winter", "summer"}
      PROVE  LeakShaped(N!MarieOn(site, secret))
  <2>1. N!Field("eml", "marie") \in PlainFields /\ N!Field("src", site) \in PlainFields
    BY PlainField DEF PlainKeys, PlainValues
  <2>2. <<N!Field("eml", "marie"), N!Field("src", site)>> \in Seq(PlainFields)
    BY <2>1, TwoOrThree
  <2>3. N!Field("eml", "marie").key = "eml" /\ N!Field("src", site).key = "src"
    BY DEF N!Field
  <2>4. \A i, j \in 1..2 : <<N!Field("eml", "marie"), N!Field("src", site)>>[i].key
                             = <<N!Field("eml", "marie"), N!Field("src", site)>>[j].key => i = j
    BY <2>3
  <2>5. /\ N!MarieOn(site, secret).fields = <<N!Field("eml", "marie"), N!Field("src", site)>>
        /\ N!MarieOn(site, secret).key = "pwd" /\ N!MarieOn(site, secret).secret = secret
    BY DEF N!MarieOn, N!Leak
  <2>6. DOMAIN <<N!Field("eml", "marie"), N!Field("src", site)>> = 1..2
    OBVIOUS
  <2> QED BY <2>2, <2>4, <2>5, <2>6 DEF LeakShaped, Secrets
<1>2. ASSUME NEW secret \in {"AKIA1", "AKIA2"} PROVE LeakShaped(N!Token(secret))
  <2>1. /\ N!Field("usr", "svc") \in PlainFields /\ N!Field("platform", "aws") \in PlainFields
        /\ N!Field("category", "malware of sixty characters and more") \in PlainFields
    BY PlainField DEF PlainKeys, PlainValues
  <2>2. <<N!Field("usr", "svc"), N!Field("platform", "aws"),
          N!Field("category", "malware of sixty characters and more")>> \in Seq(PlainFields)
    BY <2>1, TwoOrThree
  <2> DEFINE z == <<N!Field("usr", "svc"), N!Field("platform", "aws"),
                    N!Field("category", "malware of sixty characters and more")>>
  <2>3. z[1].key = "usr" /\ z[2].key = "platform" /\ z[3].key = "category"
    BY DEF N!Field
  <2> HIDE DEF z
  <2>4. \A i, j \in 1..3 : z[i].key = z[j].key => i = j
    BY <2>3
  <2>5. DOMAIN z = 1..3
    BY DEF z
  <2>6. N!Token(secret).fields = z /\ N!Token(secret).key = "token" /\ N!Token(secret).secret = secret
    BY DEF N!Token, N!Leak, z
  <2> QED BY <2>2, <2>4, <2>5, <2>6 DEF LeakShaped, Secrets, z
<1>3. ASSUME NEW endpoint, NEW dom \in {"d1", "d2"}, NEW type \in {"pphish", "mx", "x"}
      PROVE  LeakShaped(N!Seen(endpoint, dom, type))
  <2>1. N!Field("dom", dom) \in PlainFields /\ N!Field("type", type) \in PlainFields
    BY PlainField DEF PlainKeys, PlainValues
  <2>2. <<N!Field("dom", dom), N!Field("type", type)>> \in Seq(PlainFields)
    BY <2>1, TwoOrThree
  <2> QED BY <2>2 DEF LeakShaped, N!Field, N!Seen, N!Leak
<1> QED BY <1>1, <1>2, <1>3 DEF N!Leaks


\* What is delivered is the one, then the other.
LEMMA Delivery ==
    ASSUME NEW d \in N!Deliveries
    PROVE  /\ d.leak \in N!Leaks /\ LeakShaped(d.leak)
           /\ d.form.dated \in BOOLEAN /\ d.form.without \in 0..2
           /\ d.form.secret \in {"alone", "after type", "before type", "listed"}
           /\ d.leak.secret = "" => d.form.secret = "alone"
           /\ N!Payload(d) = Opening(d) \o Ending(d)
<1>1. /\ d.leak \in N!Leaks
      /\ d.form.dated \in BOOLEAN /\ d.form.without \in 0..2
      /\ d.form.secret \in {"alone", "after type", "before type", "listed"}
      /\ d.leak.secret = "" => d.form.secret = "alone"
  BY DEF N!Deliveries, N!Forms
<1>2. N!Payload(d) = Opening(d) \o Ending(d)
  <2>1. [N!Field(d.leak.key, d.leak.secret) EXCEPT !.listed = (d.form.secret = "listed")] = SecretField(d)
    BY DEF N!Field, SecretField
  <2>2. N!Field("token_type", "kind") = TypeField
    BY DEF N!Field, TypeField
  <2>3. Ending(d) = CASE d.leak.secret = "" -> <<>>
                    [] d.form.secret = "after type" -> <<TypeField, SecretField(d)>>
                    [] d.form.secret = "before type" -> <<SecretField(d), TypeField>>
                    [] OTHER -> <<SecretField(d)>>
    BY <1>1 DEF Ending
  <2> QED BY <2>1, <2>2, <2>3, Zenon DEF N!Payload, Opening
<1> QED BY <1>1, <1>2, LeaksAreShaped

\* The elements of two sequences that are joined, at their places.
LEMMA Joined ==
    ASSUME NEW Items, NEW x \in Seq(Items), NEW y \in Seq(Items)
    PROVE  /\ x \o y \in Seq(Items) /\ Len(x \o y) = Len(x) + Len(y)
           /\ Len(x) \in Nat /\ Len(y) \in Nat /\ DOMAIN x = 1..Len(x) /\ DOMAIN y = 1..Len(y)
           /\ \A i \in DOMAIN x : i \in DOMAIN (x \o y) /\ (x \o y)[i] = x[i]
           /\ \A i \in DOMAIN y : Len(x) + i \in DOMAIN (x \o y) /\ (x \o y)[Len(x) + i] = y[i]
           /\ \A j \in DOMAIN (x \o y) : j \in DOMAIN x \/ \E i \in DOMAIN y : j = Len(x) + i
<1>1. PICK m \in Nat : m = Len(x) /\ DOMAIN x = 1..m
  BY LenProperties
<1>2. PICK n \in Nat : n = Len(y) /\ DOMAIN y = 1..n
  BY LenProperties
<1>3. /\ x \o y \in Seq(Items) /\ Len(x \o y) = m + n
      /\ \A i \in 1..(m + n) : (x \o y)[i] = IF i <= m THEN x[i] ELSE y[i - m]
  BY <1>1, <1>2, ConcatProperties
<1>4. DOMAIN (x \o y) = 1..(m + n)
  BY <1>3, LenProperties
<1>5. \A i \in 1..m : i \in 1..(m + n) /\ (x \o y)[i] = x[i]
  BY <1>3
<1>6. \A i \in 1..n : m + i \in 1..(m + n) /\ ~ (m + i <= m) /\ (m + i) - m = i
  OBVIOUS
<1>7. \A i \in 1..n : (x \o y)[m + i] = y[i]
  BY <1>3, <1>6
<1>8. ASSUME NEW j \in 1..(m + n), j \notin 1..m PROVE \E i \in 1..n : j = m + i
  <2>1. j - m \in 1..n /\ j = m + (j - m)
    BY <1>8
  <2> QED BY <2>1
<1>9. x \o y \in Seq(Items) /\ Len(x \o y) = Len(x) + Len(y) /\ Len(x) \in Nat /\ Len(y) \in Nat
  BY <1>1, <1>2, <1>3
<1>10. /\ \A i \in DOMAIN x : i \in DOMAIN (x \o y) /\ (x \o y)[i] = x[i]
       /\ \A i \in DOMAIN y : m + i \in DOMAIN (x \o y) /\ (x \o y)[m + i] = y[i]
       /\ \A j \in DOMAIN (x \o y) : j \in DOMAIN x \/ \E i \in DOMAIN y : j = m + i
  <2>1. \A i \in DOMAIN x : i \in DOMAIN (x \o y) /\ (x \o y)[i] = x[i]
    BY <1>1, <1>4, <1>5, Zenon
  <2>2. \A i \in DOMAIN y : m + i \in DOMAIN (x \o y) /\ (x \o y)[m + i] = y[i]
    BY <1>2, <1>4, <1>6, <1>7, Zenon
  <2>3. \A j \in DOMAIN (x \o y) : j \in DOMAIN x \/ \E i \in DOMAIN y : j = m + i
    BY <1>1, <1>2, <1>4, <1>8, Zenon
  <2> QED BY <2>1, <2>2, <2>3
<1> QED BY <1>1, <1>2, <1>9, <1>10, Zenon

\* The fields before the secret are of plain names; when none is lacking they are the leak's.
LEMMA OpeningShaped ==
    ASSUME NEW d \in N!Deliveries
    PROVE  /\ Opening(d) \in Seq(OpeningFields)
           /\ d.form.without = 0 =>
                /\ \A j \in DOMAIN Opening(d) : \/ Opening(d)[j].key = "fnd"
                                             \/ \E i \in DOMAIN d.leak.fields : Opening(d)[j] = d.leak.fields[i]
                /\ \A i \in DOMAIN d.leak.fields : \E j \in DOMAIN Opening(d) : Opening(d)[j] = d.leak.fields[i]
<1> DEFINE dateField == N!Field("fnd", "2026-01-01")
           date == IF d.form.dated THEN <<dateField>> ELSE <<>>
           own == [i \in DOMAIN d.leak.fields |->
                     IF i = d.form.without THEN [d.leak.fields[i] EXCEPT !.value = ""] ELSE d.leak.fields[i]]
<1>1. dateField \in OpeningFields /\ dateField.key = "fnd"
  BY DEF N!Field, OpeningFields
<1>2. date \in Seq(OpeningFields) /\ \A k \in DOMAIN date : date[k].key = "fnd"
  BY <1>1
<1>3. /\ own \in Seq(OpeningFields) /\ Len(own) = Len(d.leak.fields)
      /\ d.form.without = 0 => \A i \in DOMAIN d.leak.fields : own[i] = d.leak.fields[i]
  <2>1. PICK f \in Seq(PlainFields) : f = d.leak.fields
    BY Delivery DEF LeakShaped
  <2>2. \A x \in PlainFields : x \in OpeningFields /\ [x EXCEPT !.value = ""] \in OpeningFields
    BY DEF PlainFields, OpeningFields
  <2>3. Len(f) \in Nat /\ DOMAIN f = 1..Len(f) /\ \A i \in 1..Len(f) : f[i] \in PlainFields
    OBVIOUS
  <2>4. own = [i \in 1..Len(f) |-> IF i = d.form.without THEN [f[i] EXCEPT !.value = ""] ELSE f[i]]
    BY <2>1, <2>3
  <2>5. \A i \in 1..Len(f) : own[i] \in OpeningFields
    BY <2>2, <2>3, <2>4
  <2>6. own \in Seq(OpeningFields) /\ Len(own) = Len(f)
    <3>1. own \in [1..Len(f) -> OpeningFields]
      BY <2>4, <2>5
    <3> HIDE DEF own
    <3> QED BY <2>3, <3>1, LenProperties, SeqDef
  <2>7. d.form.without = 0 => \A i \in 1..Len(f) : own[i] = f[i]
    <3>1. \A i \in 1..Len(f) : own[i] = IF i = d.form.without THEN [f[i] EXCEPT !.value = ""] ELSE f[i]
      BY <2>4
    <3>2. \A i \in 1..Len(f) : i # 0
      BY <2>3
    <3> HIDE DEF own
    <3> QED BY <3>1, <3>2
  <2> QED BY <2>1, <2>3, <2>6, <2>7
<1> HIDE DEF date, own
<1>4. Opening(d) = date \o own
  BY DEF Opening, date, own
<1>5. /\ date \o own \in Seq(OpeningFields)
      /\ Len(date) \in Nat /\ DOMAIN date = 1..Len(date) /\ DOMAIN own = 1..Len(own)
      /\ \A i \in DOMAIN date : (date \o own)[i] = date[i]
      /\ \A i \in DOMAIN own : Len(date) + i \in DOMAIN (date \o own) /\ (date \o own)[Len(date) + i] = own[i]
      /\ \A j \in DOMAIN (date \o own) : j \in DOMAIN date \/ \E i \in DOMAIN own : j = Len(date) + i
  BY <1>2, <1>3, Joined
<1>6. DOMAIN d.leak.fields = DOMAIN own
  BY <1>3, <1>5, LenProperties, Delivery DEF LeakShaped
<1>7. ASSUME d.form.without = 0, NEW j \in DOMAIN (date \o own)
      PROVE  (date \o own)[j].key = "fnd" \/ \E i \in DOMAIN d.leak.fields : (date \o own)[j] = d.leak.fields[i]
  BY <1>2, <1>3, <1>5, <1>6, <1>7
<1>8. ASSUME d.form.without = 0, NEW i \in DOMAIN d.leak.fields
      PROVE  \E j \in DOMAIN (date \o own) : (date \o own)[j] = d.leak.fields[i]
  BY <1>3, <1>5, <1>6, <1>8
<1> QED BY <1>4, <1>5, <1>7, <1>8

\* A leak is of one of three forms.
LEMMA LeakForms ==
    ASSUME NEW leak \in N!Leaks
    PROVE  \/ \E site \in {"shop", "forum"}, secret \in {"winter", "summer"} : leak = N!MarieOn(site, secret)
           \/ \E secret \in {"AKIA1", "AKIA2"} : leak = N!Token(secret)
           \/ \E endpoint \in {"asm", "later"}, dom \in {"d1", "d2"}, type \in {"pphish", "mx", "x"} :
                leak = N!Seen(endpoint, dom, type)
BY DEF N!Leaks

\* All that a payload may hold.
Parcel(d) == OpeningFields \cup {TypeField, SecretField(d)}

\* Each field of a payload is before the secret or among what follows.
LEMMA PayloadShaped ==
    ASSUME NEW d \in N!Deliveries
    PROVE  /\ Opening(d) \in Seq(OpeningFields) /\ Ending(d) \in Seq({TypeField, SecretField(d)})
           /\ d.leak.secret = "" => Ending(d) = <<>>
           /\ N!Payload(d) \in Seq(Parcel(d))
           /\ Len(Opening(d)) \in Nat
           /\ \A i \in DOMAIN Opening(d) : /\ i \in DOMAIN N!Payload(d) /\ N!Payload(d)[i] = Opening(d)[i]
                                           /\ i \in 1..Len(Opening(d)) /\ Opening(d)[i] \in OpeningFields
           /\ \A i \in DOMAIN Ending(d) : /\ Len(Opening(d)) + i \in DOMAIN N!Payload(d)
                                          /\ N!Payload(d)[Len(Opening(d)) + i] = Ending(d)[i]
           /\ \A j \in DOMAIN N!Payload(d) : j \in DOMAIN Opening(d) \/ \E i \in DOMAIN Ending(d) : j = Len(Opening(d)) + i
<1>1. Opening(d) \in Seq(OpeningFields) /\ N!Payload(d) = Opening(d) \o Ending(d)
  BY OpeningShaped, Delivery
<1>2. Ending(d) \in Seq({TypeField, SecretField(d)}) /\ (d.leak.secret = "" => Ending(d) = <<>>)
  <2> DEFINE two == {TypeField, SecretField(d)}
  <2>1. \A x, y \in two : <<x>> \in Seq(two) /\ <<x, y>> \in Seq(two)
    OBVIOUS
  <2>2. <<>> \in Seq(two)
    OBVIOUS
  <2>3. TypeField \in two /\ SecretField(d) \in two
    OBVIOUS
  <2> HIDE DEF two
  <2>4. Ending(d) \in Seq(two)
    BY <2>1, <2>2, <2>3 DEF Ending
  <2> QED BY <2>4 DEF two, Ending
<1>3. Opening(d) \in Seq(Parcel(d)) /\ Ending(d) \in Seq(Parcel(d))
  BY <1>1, <1>2, SeqMonotonic DEF Parcel
<1>4. DOMAIN Opening(d) = 1..Len(Opening(d)) /\ \A i \in 1..Len(Opening(d)) : Opening(d)[i] \in OpeningFields
  BY <1>1, LenProperties
<1>5. /\ N!Payload(d) \in Seq(Parcel(d)) /\ Len(Opening(d)) \in Nat
      /\ \A i \in DOMAIN Opening(d) : i \in DOMAIN N!Payload(d) /\ N!Payload(d)[i] = Opening(d)[i]
      /\ \A i \in DOMAIN Ending(d) : /\ Len(Opening(d)) + i \in DOMAIN N!Payload(d)
                                     /\ N!Payload(d)[Len(Opening(d)) + i] = Ending(d)[i]
      /\ \A j \in DOMAIN N!Payload(d) : j \in DOMAIN Opening(d) \/ \E i \in DOMAIN Ending(d) : j = Len(Opening(d)) + i
  BY <1>1, <1>3, Joined
<1> QED BY <1>1, <1>2, <1>4, <1>5, Zenon

\* A field before the secret is not read as one; what follows in the alone form is.
LEMMA SecretsAreRead ==
    ASSUME NEW d \in N!Deliveries
    PROVE  /\ \A x \in OpeningFields : ~ N!IsSecret(x)
           /\ N!IsSecret(TypeField)
           /\ d.leak.secret # "" => (N!IsSecret(SecretField(d)) <=> d.form.secret # "listed")
BY Delivery DEF N!IsSecret, N!IsSecretKey, N!Exact, N!Marked, OpeningFields, PlainKeys, TypeField, SecretField,
                LeakShaped, Secrets

\* No row holds the secret in clear, but for one that came in a list.
LEMMA MaskedWell ==
    ASSUME NEW d \in N!Deliveries, NEW i \in DOMAIN N!Masked(N!Payload(d)),
           N!Masked(N!Payload(d))[i].value = d.leak.secret, d.leak.secret # ""
    PROVE  N!Masked(N!Payload(d))[i].listed
<1>1. d.leak.secret \in Secrets
  BY Delivery DEF LeakShaped
<1>2. /\ i \in DOMAIN N!Payload(d)
      /\ N!Masked(N!Payload(d))[i] = IF N!IsSecret(N!Payload(d)[i]) THEN [N!Payload(d)[i] EXCEPT !.value = "masked"]
                                     ELSE N!Payload(d)[i]
  BY DEF N!Masked
<1>3. PICK f \in Parcel(d) : f = N!Payload(d)[i]
  BY <1>2, PayloadShaped, LenProperties
<1>4. N!Masked(N!Payload(d))[i] = IF N!IsSecret(f) THEN [f EXCEPT !.value = "masked"] ELSE f
  BY <1>2, <1>3
<1>5. N!IsSecret(f) => [f EXCEPT !.value = "masked"].value = "masked"
  BY <1>3 DEF Parcel, OpeningFields, TypeField, SecretField
<1>6. ~ N!IsSecret(f)
  BY <1>1, <1>4, <1>5 DEF Secrets
<1>7. f.value = d.leak.secret
  BY <1>4, <1>6
<1>8. f \notin OpeningFields
  BY <1>1, <1>7 DEF OpeningFields, Secrets, PlainValues
<1>9. f # TypeField
  BY <1>6, SecretsAreRead
<1>10. f = SecretField(d) /\ d.form.secret = "listed"
  BY <1>3, <1>6, <1>8, <1>9, SecretsAreRead DEF Parcel
<1>11. SecretField(d).listed
  BY <1>10 DEF SecretField
<1> QED BY <1>4, <1>6, <1>10, <1>11

\* A row fits its columns, and what no endpoint of the provider gave is to watch, no more.
LEMMA RowFits ==
    ASSUME NEW d \in N!Deliveries
    PROVE  /\ N!Normal(d).finding_type \notin N!Long
           /\ N!Normal(d).source_endpoint = "webhook" => N!Normal(d).severity = "attention"
           /\ N!Normal(d).raw_data = N!Masked(N!Payload(d))
<1>1. N!Normal(d).finding_type \notin N!Long
  BY DEF N!Normal, N!normalize_finding, N!Borner, N!Long
<1>2. N!Normal(d).raw_data = N!Masked(N!Payload(d))
  BY DEF N!Normal, N!normalize_finding
<1>3. N!Normal(d).source_endpoint = "webhook" => N!Normal(d).severity = "attention"
  <2> SUFFICES ASSUME N!Normal(d).source_endpoint = "webhook" PROVE N!Normal(d).severity = "attention"
    OBVIOUS
  <2>1. d.leak.endpoint \notin N!Known
    BY DEF N!Normal, N!normalize_finding, N!Known
  <2>2. d.leak.endpoint = "later"
    <3>1. /\ \A site, secret : N!MarieOn(site, secret).endpoint = "creds"
          /\ \A secret : N!Token(secret).endpoint = "nhi"
          /\ \A endpoint, dom, type : N!Seen(endpoint, dom, type).endpoint = endpoint
      BY DEF N!MarieOn, N!Token, N!Seen, N!Leak
    <3>2. d.leak.endpoint \in {"creds", "nhi", "asm", "later"}
      <4>1. d.leak \in N!Leaks
        BY Delivery
      <4> QED BY <3>1, <4>1, LeakForms
    <3> QED BY <2>1, <3>2 DEF N!Known
  <2>3. \A payload : N!SeverityOf("later", payload) = "attention"
    BY DEF N!SeverityOf, N!SEVERITY_BY_ENDPOINT
  <2> QED BY <2>2, <2>3 DEF N!Normal, N!normalize_finding
<1> QED BY <1>1, <1>2, <1>3

-----------------------------------------------------------------------------
(* What makes a leak the same from one delivery to the next.               *)

\* A delivery in which nothing is lacking and the secret is read as such.
PlainForm(d) == ~ N!Thin(d) /\ ~ N!Misread(d)

\* The fields of a leak that identify it, with their names.
PresentOf(leak) ==
    {<<leak.fields[i].key, leak.fields[i].value>> :
        i \in {j \in DOMAIN leak.fields : leak.fields[j].key \in N!IdentityFields(leak.endpoint)}}

\* What _first_present reads under a key that one value has.
LEMMA ValueRead ==
    ASSUME NEW payload, NEW key, NEW i \in DOMAIN payload, payload[i].key = key,
           \A j \in DOMAIN payload : payload[j].key = key => payload[j].value = payload[i].value
    PROVE  /\ N!ValueOf(payload, key) = payload[i].value
           /\ N!Holds(payload, key) <=> payload[i].value # ""
<1>1. PICK c : c = (CHOOSE j \in DOMAIN payload : payload[j].key = key)
  OBVIOUS
<1>2. c \in DOMAIN payload /\ payload[c].key = key
  BY <1>1, Zenon
<1>3. N!ValueOf(payload, key) = payload[i].value
  BY <1>1, <1>2 DEF N!ValueOf
<1> QED BY <1>3 DEF N!Holds

\* No endpoint identifies by the date or by a secret.
LEMMA IdentityIsPlain ==
    \A endpoint : N!IdentityFields(endpoint) \cap {"fnd", "pwd", "token", "token_type"} = {}
BY DEF N!IdentityFields

\* In a plain delivery, the fields that identify are those of the leak.
LEMMA IdentityRead ==
    ASSUME NEW d \in N!Deliveries, PlainForm(d)
    PROVE  N!Identity(d.leak.endpoint, N!Payload(d)) = [endpoint |-> d.leak.endpoint, present |-> PresentOf(d.leak)]
<1> DEFINE payload == N!Payload(d)
           leak == d.leak
           ids == N!IdentityFields(d.leak.endpoint)
<1>1. d.form.without = 0 /\ d.form.secret \in {"alone", "before type"}
  BY Delivery DEF PlainForm, N!Thin, N!Misread
<1>2. \A i \in DOMAIN leak.fields : leak.fields[i] \in PlainFields
  <2>1. leak.fields \in Seq(PlainFields)
    BY Delivery DEF LeakShaped
  <2>2. DOMAIN leak.fields = 1..Len(leak.fields) /\ leak.fields \in [1..Len(leak.fields) -> PlainFields]
    BY <2>1, LenProperties
  <2> QED BY <2>2
<1>3. \A i, j \in DOMAIN leak.fields : leak.fields[i].key = leak.fields[j].key => i = j
  BY Delivery DEF LeakShaped
<1>4. ASSUME NEW j \in DOMAIN payload, payload[j].key \in ids
      PROVE  \E i \in DOMAIN leak.fields : payload[j] = leak.fields[i]
  <2>1. payload[j].key \notin {"fnd", "pwd", "token", "token_type"}
    BY <1>4, IdentityIsPlain
  <2>2. CASE j \in DOMAIN Opening(d)
    <3>1. payload[j] = Opening(d)[j]
      BY <2>2, PayloadShaped
    <3>2. Opening(d)[j].key = "fnd" \/ \E i \in DOMAIN leak.fields : Opening(d)[j] = leak.fields[i]
      BY <1>1, <2>2, OpeningShaped
    <3> QED BY <2>1, <3>1, <3>2
  <2>3. CASE \E i \in DOMAIN Ending(d) : j = Len(Opening(d)) + i
    <3>1. PICK i \in DOMAIN Ending(d) : j = Len(Opening(d)) + i
      BY <2>3
    <3>2. payload[j] = Ending(d)[i]
      BY <3>1, PayloadShaped
    <3>3. payload[j] \in {TypeField, SecretField(d)}
      <4>1. Ending(d) \in Seq({TypeField, SecretField(d)})
        BY PayloadShaped
      <4>2. /\ DOMAIN Ending(d) = 1..Len(Ending(d))
            /\ Ending(d) \in [1..Len(Ending(d)) -> {TypeField, SecretField(d)}]
        BY <4>1, LenProperties
      <4> QED BY <3>2, <4>2
    <3>4. d.leak.secret # ""
      <4>1. d.leak.secret = "" => Ending(d) = <<>>
        BY PayloadShaped
      <4>2. DOMAIN << >> = {}
        OBVIOUS
      <4> QED BY <3>1, <4>1, <4>2
    <3>5. payload[j].key \in {"token_type", "pwd", "token"}
      <4>1. d.leak.key \in {"pwd", "token"}
        BY <3>4, Delivery DEF LeakShaped
      <4>2. TypeField.key = "token_type" /\ SecretField(d).key = d.leak.key
        BY DEF TypeField, SecretField
      <4> QED BY <3>3, <4>1, <4>2
    <3> QED BY <2>1, <3>5
  <2>4. j \in DOMAIN Opening(d) \/ \E i \in DOMAIN Ending(d) : j = Len(Opening(d)) + i
    BY PayloadShaped
  <2> QED BY <2>2, <2>3, <2>4
<1>5. ASSUME NEW i \in DOMAIN leak.fields, leak.fields[i].key \in ids
      PROVE  /\ N!ValueOf(payload, leak.fields[i].key) = leak.fields[i].value
             /\ N!Holds(payload, leak.fields[i].key)
  <2>1. PICK j \in DOMAIN payload : payload[j] = leak.fields[i]
    <3>1. PICK k \in DOMAIN Opening(d) : Opening(d)[k] = leak.fields[i]
      BY <1>1, OpeningShaped
    <3>2. k \in DOMAIN payload /\ payload[k] = Opening(d)[k]
      BY PayloadShaped
    <3> QED BY <3>1, <3>2
  <2>2. \A k \in DOMAIN payload : payload[k].key = leak.fields[i].key => payload[k].value = payload[j].value
    BY <1>3, <1>4, <1>5, <2>1
  <2>3. leak.fields[i].value # ""
    BY <1>2 DEF PlainFields, PlainValues
  <2> HIDE DEF payload, leak
  <2>4. payload[j].key = leak.fields[i].key
    BY <2>1
  <2>5. /\ N!ValueOf(payload, leak.fields[i].key) = payload[j].value
        /\ N!Holds(payload, leak.fields[i].key) <=> payload[j].value # ""
    BY <2>2, <2>4, ValueRead
  <2> QED BY <2>1, <2>3, <2>5
<1>6. ASSUME NEW key \in ids, N!Holds(payload, key)
      PROVE  \E i \in DOMAIN leak.fields : leak.fields[i].key = key
  <2>1. PICK j \in DOMAIN payload : payload[j].key = key
    BY <1>6 DEF N!Holds
  <2> QED BY <1>4, <2>1
<1>7. {<<key, N!ValueOf(payload, key)>> : key \in {f \in ids : N!Holds(payload, f)}} = PresentOf(leak)
  <2> DEFINE read == {<<key, N!ValueOf(payload, key)>> : key \in {f \in ids : N!Holds(payload, f)}}
  <2>1. ASSUME NEW x \in read PROVE x \in PresentOf(leak)
    <3>1. PICK key \in ids : N!Holds(payload, key) /\ x = <<key, N!ValueOf(payload, key)>>
      OBVIOUS
    <3>2. PICK i \in DOMAIN leak.fields : leak.fields[i].key = key
      BY <1>6, <3>1
    <3>3. x = <<leak.fields[i].key, leak.fields[i].value>>
      BY <1>5, <3>1, <3>2
    <3> HIDE DEF payload
    <3> QED BY <3>2, <3>3 DEF PresentOf
  <2>2. ASSUME NEW x \in PresentOf(leak) PROVE x \in read
    <3>1. PICK i \in DOMAIN leak.fields : leak.fields[i].key \in ids /\ x = <<leak.fields[i].key, leak.fields[i].value>>
      BY <2>2 DEF PresentOf
    <3> QED BY <1>5, <3>1
  <2> QED BY <2>1, <2>2
<1> QED BY <1>7 DEF N!Identity

\* In a plain delivery, the secret that is read is the leak's.
LEMMA SecretRead ==
    ASSUME NEW d \in N!Deliveries, PlainForm(d)
    PROVE  N!SecretPlain(N!Payload(d)) = d.leak.secret
<1>1. d.form.secret \in {"alone", "before type"}
  BY Delivery DEF PlainForm, N!Misread
<1>2. PICK payload : payload = N!Payload(d)
  OBVIOUS
<1>3. PICK n \in Nat : n = Len(Opening(d))
  BY PayloadShaped
<1> DEFINE secret == {i \in DOMAIN payload : N!IsSecret(payload[i])}
<1>4. \A i \in DOMAIN Opening(d) : i \in 1..n /\ payload[i] \in OpeningFields
  BY <1>2, <1>3, PayloadShaped
<1>5. \A j \in secret : \E i \in DOMAIN Ending(d) : j = n + i
  <2> SUFFICES ASSUME NEW j \in secret PROVE \E i \in DOMAIN Ending(d) : j = n + i
    OBVIOUS
  <2>1. j \notin DOMAIN Opening(d)
    BY <1>4, SecretsAreRead
  <2>2. j \in DOMAIN Opening(d) \/ \E i \in DOMAIN Ending(d) : j = Len(Opening(d)) + i
    BY <1>2, PayloadShaped
  <2> QED BY <1>3, <2>1, <2>2
<1>6. N!SecretPlain(payload) = IF secret = {} THEN ""
                               ELSE payload[CHOOSE i \in secret : \A j \in secret : i =< j].value
  BY DEF N!SecretPlain
<1>7. CASE d.leak.secret = ""
  <2>1. DOMAIN Ending(d) = {}
    <3>1. Ending(d) = <<>>
      BY <1>7, PayloadShaped
    <3> QED BY <3>1
  <2> QED BY <1>2, <1>5, <1>6, <1>7, <2>1
<1>8. CASE d.leak.secret # ""
  <2>1. Ending(d) = <<SecretField(d)>> \/ Ending(d) = <<SecretField(d), TypeField>>
    BY <1>1, <1>8 DEF Ending
  <2>2. 1 \in DOMAIN Ending(d) /\ Ending(d)[1] = SecretField(d) /\ DOMAIN Ending(d) \subseteq 1..2
    BY <2>1
  <2>3. n + 1 \in DOMAIN payload /\ payload[n + 1] = SecretField(d)
    BY <1>2, <1>3, <2>2, PayloadShaped
  <2>4. n + 1 \in secret
    BY <1>1, <1>8, <2>3, SecretsAreRead
  <2>5. \A j \in secret : j \in Nat /\ n + 1 =< j
    BY <1>5, <2>2
  <2> HIDE DEF secret
  <2>6. PICK c : c = (CHOOSE i \in secret : \A j \in secret : i =< j)
    OBVIOUS
  <2>7. c \in secret /\ \A j \in secret : c =< j
    BY <2>4, <2>5, <2>6, Zenon
  <2>8. c = n + 1
    BY <2>4, <2>5, <2>7
  <2>9. N!SecretPlain(payload) = payload[c].value
    BY <1>6, <2>4, <2>6
  <2>10. SecretField(d).value = d.leak.secret
    BY DEF SecretField
  <2> QED BY <1>2, <2>3, <2>8, <2>9, <2>10
<1> QED BY <1>7, <1>8

\* What makes a plain delivery the same is what identifies its leak, and its secret.
LEMMA PlainDedup ==
    ASSUME NEW d \in N!Deliveries, PlainForm(d)
    PROVE  N!Normal(d).dedup = [identity |-> [endpoint |-> d.leak.endpoint, present |-> PresentOf(d.leak)],
                                fingerprint |-> d.leak.secret]
BY IdentityRead, SecretRead DEF N!Normal, N!normalize_finding

\* Every delivery is of its own endpoint.
LEMMA DedupEndpoint ==
    ASSUME NEW d PROVE N!Normal(d).dedup.identity.endpoint = d.leak.endpoint
BY DEF N!Normal, N!normalize_finding, N!Identity

\* The site of a leaked account and the type of an observation are among what identifies them.
LEMMA PresentOfLeaks ==
    /\ \A site, secret, v : <<"src", v>> \in PresentOf(N!MarieOn(site, secret)) <=> v = site
    /\ \A dom, type, v : /\ <<"type", v>> \in PresentOf(N!Seen("asm", dom, type)) <=> v = type
                         /\ <<"dom", v>> \in PresentOf(N!Seen("asm", dom, type)) <=> v = dom
<1>1. ASSUME NEW site, NEW secret, NEW v PROVE <<"src", v>> \in PresentOf(N!MarieOn(site, secret)) <=> v = site
  <2>1. N!MarieOn(site, secret).fields = <<N!Field("eml", "marie"), N!Field("src", site)>>
        /\ N!MarieOn(site, secret).endpoint = "creds"
    BY DEF N!MarieOn, N!Leak
  <2>2. N!IdentityFields("creds") = {"eml", "src"}
    BY DEF N!IdentityFields
  <2> QED BY <2>1, <2>2 DEF PresentOf, N!Field
<1>2. ASSUME NEW dom, NEW type, NEW v
      PROVE  /\ <<"type", v>> \in PresentOf(N!Seen("asm", dom, type)) <=> v = type
             /\ <<"dom", v>> \in PresentOf(N!Seen("asm", dom, type)) <=> v = dom
  <2>1. N!Seen("asm", dom, type).fields = <<N!Field("dom", dom), N!Field("type", type)>>
        /\ N!Seen("asm", dom, type).endpoint = "asm"
    BY DEF N!Seen, N!Leak
  <2>2. {"dom", "type"} \subseteq N!IdentityFields("asm")
    BY DEF N!IdentityFields
  <2> QED BY <2>1, <2>2 DEF PresentOf, N!Field
<1> QED BY <1>1, <1>2

\* Two leaks of an endpoint whose fields identify differ in these or in the secret.
LEMMA LeaksDiffer ==
    ASSUME NEW leak \in N!Leaks, NEW other \in N!Leaks, leak.endpoint = other.endpoint,
           leak.endpoint \in N!Known, PresentOf(leak) = PresentOf(other), leak.secret = other.secret
    PROVE  leak = other
<1>1. /\ \A site, secret : N!MarieOn(site, secret).endpoint = "creds" /\ N!MarieOn(site, secret).secret = secret
      /\ \A secret : N!Token(secret).endpoint = "nhi" /\ N!Token(secret).secret = secret
      /\ \A endpoint, dom, type : N!Seen(endpoint, dom, type).endpoint = endpoint
  BY DEF N!MarieOn, N!Token, N!Seen, N!Leak
<1> DEFINE Forms(x) ==
             \/ \E site, secret : x = N!MarieOn(site, secret)
             \/ \E secret : x = N!Token(secret)
             \/ \E endpoint \in {"asm", "later"} : \E dom, type : x = N!Seen(endpoint, dom, type)
<1>2. Forms(leak) /\ Forms(other)
  <2>1. \A x \in N!Leaks : Forms(x)
    <3> SUFFICES ASSUME NEW x \in N!Leaks PROVE Forms(x)
      OBVIOUS
    <3> QED BY LeakForms
  <2> QED BY <2>1
<1> DEFINE Told(x) ==
             /\ x.endpoint \in {"creds", "nhi", "asm", "later"}
             /\ x.endpoint = "creds" => \E site, secret : x = N!MarieOn(site, secret)
             /\ x.endpoint = "nhi" => \E secret : x = N!Token(secret)
             /\ x.endpoint = "asm" => \E dom, type : x = N!Seen("asm", dom, type)
<1>7. ASSUME NEW x, Forms(x) PROVE Told(x)
  <2>1. ASSUME NEW site, NEW secret, x = N!MarieOn(site, secret) PROVE Told(x)
    BY <1>1, <2>1
  <2>2. ASSUME NEW secret, x = N!Token(secret) PROVE Told(x)
    BY <1>1, <2>2
  <2>3. ASSUME NEW endpoint \in {"asm", "later"}, NEW dom, NEW type, x = N!Seen(endpoint, dom, type) PROVE Told(x)
    BY <1>1, <2>3
  <2> QED BY <1>7, <2>1, <2>2, <2>3
<1>8. Told(leak) /\ Told(other)
  BY <1>2, <1>7
<1> HIDE DEF Forms
<1>3. CASE leak.endpoint = "creds"
  <2>1. PICK site, secret : leak = N!MarieOn(site, secret)
    BY <1>3, <1>8
  <2>2. PICK place, word : other = N!MarieOn(place, word)
    BY <1>3, <1>8
  <2>3. secret = word
    BY <1>1, <2>1, <2>2
  <2>4. <<"src", site>> \in PresentOf(leak)
    BY <2>1, PresentOfLeaks
  <2>5. site = place
    BY <2>2, <2>4, PresentOfLeaks
  <2> QED BY <2>1, <2>2, <2>3, <2>5
<1>4. CASE leak.endpoint = "nhi"
  <2>1. PICK secret : leak = N!Token(secret)
    BY <1>4, <1>8
  <2>2. PICK word : other = N!Token(word)
    BY <1>4, <1>8
  <2> QED BY <1>1, <2>1, <2>2
<1>5. CASE leak.endpoint = "asm"
  <2>1. PICK dom, type : leak = N!Seen("asm", dom, type)
    BY <1>5, <1>8
  <2>2. PICK place, kind : other = N!Seen("asm", place, kind)
    BY <1>5, <1>8
  <2>3. <<"dom", dom>> \in PresentOf(leak) /\ <<"type", type>> \in PresentOf(leak)
    BY <2>1, PresentOfLeaks
  <2>4. dom = place /\ type = kind
    BY <2>2, <2>3, PresentOfLeaks
  <2> QED BY <2>1, <2>2, <2>4
<1>6. leak.endpoint \in {"creds", "nhi", "asm", "later"}
  BY <1>8
<1> QED BY <1>3, <1>4, <1>5, <1>6 DEF N!Known

-----------------------------------------------------------------------------
(* The deliveries.                                                         *)

\* Each row was created for a delivery, each delivery has a row of its key, and no two rows
\* have one key.
PayloadsInv ==
    /\ normaliserDelivered \subseteq N!Deliveries
    /\ \A r \in normaliserStored : \E d \in normaliserDelivered : r = [row |-> N!Normal(d), leak |-> d.leak]
    /\ \A d \in normaliserDelivered : \E r \in normaliserStored : r.row.dedup = N!Normal(d).dedup
    /\ \A r, s \in normaliserStored : r.row.dedup = s.row.dedup => r = s

\* Nothing delivered, then one delivery after another.
LEMMA PayloadsInit == N!Init => PayloadsInv
BY DEF N!Init, PayloadsInv

\* A delivery makes a row, unless one has its key.
LEMMA PayloadsStep == PayloadsInv /\ (N!Next \/ UNCHANGED normaliserVars) => PayloadsInv'
<1>1. ASSUME PayloadsInv, UNCHANGED normaliserVars PROVE PayloadsInv'
  BY <1>1 DEF PayloadsInv, normaliserVars
<1>2. ASSUME PayloadsInv, NEW d \in N!Deliveries, N!Deliver(d) PROVE PayloadsInv'
  <2>1. PICK n : n = N!Normal(d)
    OBVIOUS
  <2>2. /\ normaliserDelivered' = normaliserDelivered \cup {d}
        /\ normaliserStored' = IF \E r \in normaliserStored : r.row.dedup = n.dedup THEN normaliserStored
                               ELSE normaliserStored \cup {[row |-> n, leak |-> d.leak]}
    BY <1>2, <2>1 DEF N!Deliver
  <2>3. PICK new : new = [row |-> n, leak |-> d.leak]
    OBVIOUS
  <2>4. new.row.dedup = n.dedup
    BY <2>3
  <2>5. CASE \E r \in normaliserStored : r.row.dedup = n.dedup
    BY <1>2, <2>1, <2>2, <2>5 DEF PayloadsInv
  <2>6. CASE ~ \E r \in normaliserStored : r.row.dedup = n.dedup
    <3>1. normaliserStored' = normaliserStored \cup {new}
      BY <2>2, <2>3, <2>6
    <3>2. \A r, s \in normaliserStored' : r.row.dedup = s.row.dedup => r = s
      BY <1>2, <2>4, <2>6, <3>1 DEF PayloadsInv
    <3>3. \A r \in normaliserStored' : \E x \in normaliserDelivered' : r = [row |-> N!Normal(x), leak |-> x.leak]
      BY <1>2, <2>1, <2>2, <2>3, <3>1 DEF PayloadsInv
    <3>4. \A x \in normaliserDelivered' : \E r \in normaliserStored' : r.row.dedup = N!Normal(x).dedup
      BY <1>2, <2>1, <2>2, <2>4, <3>1 DEF PayloadsInv
    <3> QED BY <1>2, <2>2, <3>2, <3>3, <3>4 DEF PayloadsInv
  <2> QED BY <2>5, <2>6
<1> QED BY <1>1, <1>2 DEF N!Next

\* One leak is one row, and another leak is another row; the rows are masked.
LEMMA PayloadsServe ==
    ASSUME PayloadsInv
    PROVE  N!TypeOK /\ N!OneLeakOneRow /\ N!NoLeakAbsorbed /\ N!RowsAreMasked
<1> USE DEF PayloadsInv
<1>1. \A r \in normaliserStored : \E d \in normaliserDelivered \cap N!Deliveries :
        r.row = N!Normal(d) /\ r.leak = d.leak
  OBVIOUS
<1>2. N!TypeOK
  <2>1. \A d \in N!Deliveries : d.leak \in N!Leaks
    BY Delivery
  <2> QED BY <1>1, <2>1 DEF N!TypeOK
<1>3. N!OneLeakOneRow
  <2> SUFFICES ASSUME NEW leak \in N!Leaks, N!Plain(leak) PROVE N!Cardinality(N!RowsOf(leak)) =< 1
    BY DEF N!OneLeakOneRow
  <2>1. ASSUME NEW r \in N!RowsOf(leak)
        PROVE  r.row.dedup = [identity |-> [endpoint |-> leak.endpoint, present |-> PresentOf(leak)],
                              fingerprint |-> leak.secret]
    <3>1. r \in normaliserStored /\ r.leak = leak
      BY DEF N!RowsOf
    <3>2. PICK d \in normaliserDelivered \cap N!Deliveries : r.row = N!Normal(d) /\ d.leak = leak
      BY <1>1, <3>1
    <3>3. PlainForm(d)
      BY <3>2 DEF N!Plain, PlainForm
    <3> QED BY <3>2, <3>3, PlainDedup
  <2>2. \A r, s \in N!RowsOf(leak) : r = s
    BY <2>1 DEF N!RowsOf
  <2>3. N!RowsOf(leak) = {} \/ \E r : N!RowsOf(leak) = {r}
    BY <2>2
  <2>4. Cardinality(N!RowsOf(leak)) =< 1
    <3>1. CASE N!RowsOf(leak) = {}
      BY <3>1, FS_EmptySet
    <3>2. CASE \E r : N!RowsOf(leak) = {r}
      <4>1. PICK r : N!RowsOf(leak) = {r}
        BY <3>2
      <4>2. Cardinality({r}) = 1
        BY FS_Singleton
      <4> QED BY <4>1, <4>2
    <3> QED BY <2>3, <3>1, <3>2
  <2>5. N!Cardinality(N!RowsOf(leak)) = Cardinality(N!RowsOf(leak))
    BY DEF Cardinality, N!Cardinality
  <2> QED BY <2>4, <2>5
<1>4. N!NoLeakAbsorbed
  <2> SUFFICES ASSUME NEW d \in normaliserDelivered, N!RowsOf(d.leak) = {}, ~ N!NoSchema(d),
                      \A x \in normaliserDelivered : x.leak.endpoint = d.leak.endpoint => PlainForm(x)
               PROVE  FALSE
    BY DEF N!NoLeakAbsorbed, PlainForm
  <2>1. PICK r \in normaliserStored : r.row.dedup = N!Normal(d).dedup
    OBVIOUS
  <2>2. PICK x \in normaliserDelivered \cap N!Deliveries : r.row = N!Normal(x) /\ r.leak = x.leak
    BY <1>1
  <2>3. x.leak.endpoint = d.leak.endpoint
    <3>1. N!Normal(x).dedup.identity.endpoint = x.leak.endpoint
      BY DedupEndpoint
    <3>2. N!Normal(d).dedup.identity.endpoint = d.leak.endpoint
      BY DedupEndpoint
    <3> QED BY <2>1, <2>2, <3>1, <3>2
  <2>4. PlainForm(d) /\ PlainForm(x) /\ d \in N!Deliveries
    BY <2>2, <2>3
  <2>5. N!Normal(d).dedup = [identity |-> [endpoint |-> d.leak.endpoint, present |-> PresentOf(d.leak)],
                             fingerprint |-> d.leak.secret]
    BY <2>4, PlainDedup
  <2>6. N!Normal(x).dedup = [identity |-> [endpoint |-> x.leak.endpoint, present |-> PresentOf(x.leak)],
                             fingerprint |-> x.leak.secret]
    BY <2>4, PlainDedup
  <2>7. PresentOf(x.leak) = PresentOf(d.leak) /\ x.leak.secret = d.leak.secret
    BY <2>1, <2>2, <2>5, <2>6
  <2>8. x.leak = d.leak
    <3>1. x.leak \in N!Leaks /\ d.leak \in N!Leaks
      BY <2>4, Delivery
    <3>2. x.leak.endpoint \in N!Known
      BY <2>3 DEF N!NoSchema
    <3> QED BY <2>3, <2>7, <3>1, <3>2, LeaksDiffer
  <2> QED BY <2>2, <2>8 DEF N!RowsOf
<1>5. N!RowsAreMasked
  <2> SUFFICES ASSUME NEW r \in normaliserStored
               PROVE  /\ \A i \in DOMAIN r.row.raw_data :
                           r.row.raw_data[i].value = r.leak.secret /\ r.row.raw_data[i].value # ""
                             => r.row.raw_data[i].listed
                      /\ r.row.finding_type \notin N!Long
                      /\ r.row.source_endpoint = "webhook" => r.row.severity = "attention"
    BY DEF N!RowsAreMasked
  <2>1. PICK d \in normaliserDelivered \cap N!Deliveries : r.row = N!Normal(d) /\ r.leak = d.leak
    BY <1>1
  <2>2. r.row.raw_data = N!Masked(N!Payload(d))
    BY <2>1, RowFits
  <2>3. ASSUME NEW i \in DOMAIN N!Masked(N!Payload(d)),
               N!Masked(N!Payload(d))[i].value = d.leak.secret, N!Masked(N!Payload(d))[i].value # ""
        PROVE  N!Masked(N!Payload(d))[i].listed
    BY <2>3, MaskedWell
  <2>4. r.row.finding_type \notin N!Long /\ (r.row.source_endpoint = "webhook" => r.row.severity = "attention")
    BY <2>1, RowFits
  <2> QED BY <2>1, <2>2, <2>3, <2>4
<1> QED BY <1>2, <1>3, <1>4, <1>5

-----------------------------------------------------------------------------
(* The run. *)

PersonInv == LinksInv /\ FactorInv /\ NamesInv /\ WatchInv /\ PayloadsInv

\* The links, the factor, the names, the watched accounts and the deliveries keep their
\* invariants, whichever part moves.
LEMMA PersonInductive == Spec => []PersonInv
<1>1. Init => PersonInv
  BY LinksInit, FactorInit, NamesInit, WatchInit, PayloadsInit DEF Init, PersonInv
<1>2. PersonInv /\ [Next]_vars => PersonInv'
  <2> SUFFICES ASSUME PersonInv, [Next]_vars PROVE PersonInv'
    OBVIOUS
  <2>1. L!Next \/ UNCHANGED linksVars
    BY DEF Next, vars
  <2>2. F!Next \/ UNCHANGED factorVars
    BY DEF Next, vars
  <2>3. P!Next \/ UNCHANGED pseudonymsVars
    BY DEF Next, vars
  <2>4. A!Next \/ UNCHANGED accountsVars
    BY DEF Next, vars
  <2>5. N!Next \/ UNCHANGED normaliserVars
    BY DEF Next, vars
  <2> QED BY <2>1, <2>2, <2>3, <2>4, <2>5, LinksStep, FactorStep, NamesStep, WatchStep, PayloadsStep
          DEF PersonInv
<1> QED BY <1>1, <1>2, PTL DEF Spec

\* One link of a purpose lives at a time and chooses one password, a challenge and a
\* recovery code each open one session, only the codes generated last work
\* (accept_access_invitation, resolve_mfa_challenge, consume_mfa_challenge,
\* consume_recovery_code, generate_recovery_codes): for any numbers of links, requests
\* and challenges.
THEOREM CredentialsAreServedOnce == Spec => []CredentialsServeOnce
<1>1. PersonInv => CredentialsServeOnce
  BY LinksServe, FactorServes DEF CredentialsServeOnce, PersonInv
<1> QED BY <1>1, PersonInductive, PTL

\* What the client has, and what the mapping of the conversation lists, leaves under a
\* placeholder (collect_sensitive_values, pseudonymize_text), and a placeholder is read
\* back as its value: for any values, any messages and any number of calls.
THEOREM MentionsAreHidden == Spec => []MentionsHidden
<1>1. PersonInv => MentionsHidden
  BY NamesServe DEF MentionsHidden, PersonInv
<1> QED BY <1>1, PersonInductive, PTL

\* Accounts are watched within the offer, what is stored is announced or its run failed,
\* history was there when a first pass ended, and the requests that nobody recorded are in a
\* run's hands or were lost with one (declare_watched_account, run_watched_account_scan_task);
\* a leak delivered again is one row, another is another row, and rows are masked
\* (ingest_raw_findings, normalize_finding): for any numbers of declarations, requests and
\* workers.
THEOREM AccountsAreWatched == Spec => []AccountsWatched
<1>1. PersonInv => AccountsWatched
  BY WatchServe, PayloadsServe DEF AccountsWatched, PersonInv
<1> QED BY <1>1, PersonInductive, PTL

\* store_mapping changes an entry only when it writes over a mapping it did not read.
THEOREM PlaceholdersAreStable == Spec => PlaceholdersStay
<1> DEFINE Stays ==
      \A v \in DOMAIN row.map :
        (v \notin DOMAIN row'.map \/ row'.map[v] # row.map[v])
          => \E t \in Handlers :
               pseudonymsWork[t].op = "store" /\ pseudonymsWork[t].base # row.map
<1>1. PersonInv /\ [Next]_vars => [Stays]_(P!vars)
  <2> SUFFICES ASSUME PersonInv, [Next]_vars PROVE Stays \/ UNCHANGED P!vars
    OBVIOUS
  <2>1. CASE P!Next
    BY <2>1, EntriesStay DEF PersonInv
  <2>2. CASE UNCHANGED pseudonymsVars
    BY <2>2 DEF pseudonymsVars, P!vars
  <2> QED BY <2>1, <2>2 DEF Next, vars
<1>2. PlaceholdersStay <=> [][Stays]_(P!vars)
  BY DEF PlaceholdersStay, P!StablePlaceholders
<1> QED BY <1>1, <1>2, PersonInductive, PTL DEF Spec
=============================================================================
