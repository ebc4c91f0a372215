----------------------------- MODULE MCPersonal -----------------------------
(***************************************************************************)
(* What concerns one person: the links and the second factor of an         *)
(* account, the pseudonyms under which the assistant speaks of people,     *)
(* the accounts a client has watched, and what is read in the provider's   *)
(* payloads, in one run. They share no variable and each property speaks   *)
(* of one of them, so it is enough to let one of them move in a            *)
(* behaviour.                                                              *)
(***************************************************************************)
EXTENDS Naturals, FiniteSets, TLC

CONSTANTS
    Links, Handlers, Challenges, Values

\* A link, a batch of codes and a challenge are never taken for one another.
ASSUME IdentityAssumption == Links \cap Challenges = {} /\ "none" \notin Links \cup Challenges

\* The identifying values are listed in a fixed order.
ASSUME ValuesAssumption == Values \subseteq Nat /\ IsFiniteSet(Values)

VARIABLES
    part,       \* the part that moves
    link, linksActive, linksWork, uses, late, linksExcused,
    factorActive, totp, unused, stored, seen, chall, post, issued, sessions, last,
    factorExcused, overlapped,
    present, row, said, pseudonymsWork, leaked, fresh, listed, forgotten,
    account, first, rows, known, job, queue, task, req, missing, lost, told, silent,
    baseline, excuse, mishaps,
    normaliserDelivered, normaliserStored

Observations == {"o1", "o2"}

\* every observation is about the first of the two accounts
ValueOf == [l \in Observations |-> "v1"]

L == INSTANCE AccessLinks WITH
    active <- linksActive, work <- linksWork, excused <- linksExcused
F == INSTANCE SecondFactor WITH
    Posts <- Handlers, Batches <- Links, active <- factorActive,
    excused <- factorExcused
P == INSTANCE Pseudonyms WITH
    Tasks <- Handlers, work <- pseudonymsWork
A == INSTANCE WatchedAccounts WITH
    Declarations <- Challenges, Values <- {"v1", "v2"}, Leaks <- Observations,
    ValueOf <- ValueOf, Quota <- 1, Jobs <- {"job"}, Workers <- Handlers,
    MaxRetries <- 1, MaxMishaps <- 1
N == INSTANCE Normaliser WITH
    MaxDeliveries <- 2, delivered <- normaliserDelivered, stored <- normaliserStored

linksVars == <<link, linksActive, linksWork, uses, late, linksExcused>>
factorVars ==
    <<factorActive, totp, unused, stored, seen, chall, post, issued, sessions, last,
      factorExcused, overlapped>>
pseudonymsVars == <<present, row, said, pseudonymsWork, leaked, fresh, listed, forgotten>>
accountsVars ==
      <<account, first, rows, known, job, queue, task, req, missing, lost, told, silent,
      baseline, excuse, mishaps>>
normaliserVars == <<normaliserDelivered, normaliserStored>>
vars == <<part, linksVars, factorVars, pseudonymsVars, accountsVars, normaliserVars>>

Parts == {"links", "factor", "pseudonyms", "accounts", "normaliser"}

Init ==
    /\ part \in Parts
    /\ L!Init
    /\ F!Init
    /\ P!Init
    /\ A!Init
    /\ N!Init
    /\ part = "pseudonyms" \/ present = {}
    /\ part = "accounts" \/ known = {}

Next ==
    \/ /\ part = "links" /\ L!Next
       /\ UNCHANGED <<part, factorVars, pseudonymsVars, accountsVars, normaliserVars>>
    \/ /\ part = "factor" /\ F!Next
       /\ UNCHANGED <<part, linksVars, pseudonymsVars, accountsVars, normaliserVars>>
    \/ /\ part = "pseudonyms" /\ P!Next
       /\ UNCHANGED <<part, linksVars, factorVars, accountsVars, normaliserVars>>
    \/ /\ part = "accounts" /\ A!Next
       /\ UNCHANGED <<part, linksVars, factorVars, pseudonymsVars, normaliserVars>>
    \/ /\ part = "normaliser" /\ N!Next
       /\ UNCHANGED <<part, linksVars, factorVars, pseudonymsVars, accountsVars>>

Spec == Init /\ [][Next]_vars

Symmetry == Permutations(Links) \cup Permutations(Handlers) \cup Permutations(Challenges)

-----------------------------------------------------------------------------
(* Bounds: one challenge or code that two posts hold, one batch of codes   *)
(* written while another generation had deleted; accounts are declared     *)
(* while no scan is under way, and before anything has failed.             *)
QuietDeclarations ==
    /\ Cardinality(factorExcused) + Cardinality(overlapped) =< 1
    /\ \A h \in Handlers : req[h] # A!Free => mishaps = 0 /\ \A w \in Handlers : task[w] = A!Idle

-----------------------------------------------------------------------------
(* What lets one in serves once: one link of a purpose lives at a time and *)
(* a link chooses one password; a challenge and a recovery code each open  *)
(* one session, and only the codes generated last work.  But for requests  *)
(* that hold the same link, challenge or code together, and confirmations  *)
(* that deleted the old codes together.                                    *)
CredentialsServeOnce ==
    /\ part = "links" =>
         /\ L!TypeOK
         /\ L!OneLivingLink
         /\ L!LinkServesOnce
    /\ part = "factor" =>
         /\ F!TypeOK
         /\ F!OneSessionEach
         /\ F!OnlyLastCodesWork

(* No identifying value of the client, and none that the mapping of the    *)
(* conversation lists, leaves in clear; every placeholder that comes back  *)
(* is read as the value it stood for.  But for what moves while a call is  *)
(* prepared, and what an expired or overwritten mapping has lost.          *)
MentionsHidden ==
    /\ part = "pseudonyms" =>
         /\ P!TypeOK
         /\ P!NothingLeavesInClear
         /\ P!ReadBack

(* Accounts are watched within the offer, each once; what is found is      *)
(* announced, history is told from news, and the provider's requests are   *)
(* in the table of usage.  But for declarations and first passes that met, *)
(* and runs that failed or died in between.  A leak delivered again is one *)
(* row, another leak is another row, and rows hold no secret in clear: but *)
(* for the payloads that part names.                                       *)
AccountsWatched ==
    /\ part = "accounts" =>
         /\ A!TypeOK
         /\ A!WithinQuota
         /\ A!NewIsAnnounced
         /\ A!HistoryIsHistory
         /\ A!RequestsRecorded
    /\ part = "normaliser" =>
         /\ N!TypeOK
         /\ N!OneLeakOneRow
         /\ N!NoLeakAbsorbed
         /\ N!RowsAreMasked

(* The placeholder of a value in a conversation stays the same. *)
PlaceholdersStay == P!StablePlaceholders
=============================================================================
