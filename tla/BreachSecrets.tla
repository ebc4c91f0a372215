---------------------------- MODULE BreachSecrets ----------------------------
(***************************************************************************)
(* The life of a leaked password in the platform (ADR-014): encrypted when *)
(* the leak is ingested, revealed to an administrator who authenticates    *)
(* again, erased when its retention ends or at the operator's request, and *)
(* re-encrypted when the key is rotated.                                   *)
(*                                                                         *)
(* The web and worker processes read the list of keys when they start.     *)
(* The operator changes the key as the README of the application says:     *)
(* new key in front, restart everything, run rotate_breach_secret_key,     *)
(* take the old key out.  The command reads every ciphertext when its      *)
(* query opens (a server-side cursor) and writes them back one by one; a   *)
(* reveal reads the row, then authenticates, then decrypts what it read.   *)
(* Purges, ingestions and restarts come in between.                        *)
(*                                                                         *)
(* Abstractions.  A ciphertext is the number of the key it was made with,  *)
(* and Empty is b"".  Ages are in days and stop at MaxAge.  The refusals   *)
(* of a reveal (role, plan, unknown leak, wrong password) are one, and so  *)
(* are their audit rows left out.  granted counts the rows ever written:   *)
(* the purge also records its run and deletes audit rows after a year.     *)
(***************************************************************************)
EXTENDS Integers, Sequences, FiniteSets, Functions

CONSTANTS
    Leaks,
    Tenants,        \* the clients, each as the set of the leaks that are about it
    Procs,          \* web and worker processes
    MaxKey,         \* bound: keys 1..MaxKey are generated, in this order
    Retention,      \* BREACH_SECRET_RETENTION_DAYS of the environment
    MaxAge,         \* bound: ages are told apart up to this one
    MaxReveals      \* bound: reveal requests

ASSUME SecretAssumption ==
    /\ Leaks # {} /\ Tenants \subseteq SUBSET Leaks
    /\ IsFiniteSet(Procs)
    /\ MaxKey \in Nat \ {0}
    /\ Retention \in Nat \ {0} /\ MaxAge \in Nat /\ MaxAge > Retention
    /\ MaxReveals \in Nat

VARIABLES
    row,         \* row[f]: the secret columns of the BreachFinding
    config,      \* BREACH_SECRET_ENCRYPTION_KEYS in the environment file
    keys,        \* keys[p]: the list process p started with
    phase,       \* how far the operator is in the rotation procedure
    rot,         \* the rotation command: its keys and what it has read
    req,         \* req[p]: the reveal request process p handles
    attempts,    \* reveal requests answered or under way
    granted,     \* granted[f]: SecretRevealAudit rows of a reveal of f that succeeded
    shown,       \* shown[f]: answers that carried the secret of f
    overtaken    \* history: leaks purged while a rotation held their ciphertext

vars == <<row, config, keys, phase, rot, req, attempts, granted, shown, overtaken>>

Empty == 0
Key == 1..MaxKey
Keys == {<<k>> : k \in Key} \cup {<<k + 1, k>> : k \in 1..(MaxKey - 1)}
Unseen == [seen |-> FALSE, blob |-> Empty, has |-> FALSE, purged |-> FALSE, age |-> 0]
NoRotation == [on |-> FALSE, keys |-> <<1>>, read |-> [f \in Leaks |-> Empty], failed |-> FALSE]
Idle(f) == [pc |-> "idle", leak |-> f, blob |-> Empty, has |-> FALSE, purged |-> FALSE]
AnyLeak == CHOOSE f \in Leaks : TRUE

Init ==
    /\ row = [f \in Leaks |-> Unseen]
    /\ config = <<1>>
    /\ keys = [p \in Procs |-> <<1>>]
    /\ phase = "steady"
    /\ rot = NoRotation
    /\ req = [p \in Procs |-> Idle(AnyLeak)]
    /\ attempts = 0
    /\ granted = [f \in Leaks |-> 0]
    /\ shown = [f \in Leaks |-> 0]
    /\ overtaken = {}

Secrets == <<row, overtaken>>
Operations == <<config, keys, phase, rot>>
Reveals == <<req, attempts, granted, shown>>

-----------------------------------------------------------------------------
(* Keys: the first one encrypts, all of them decrypt                       *)

EncryptSecret(list) == Head(list)
Readable(blob, list) == blob \in Range(list)

-----------------------------------------------------------------------------
(* Ingestion                                                               *)

\* Mutant: a leak seen again gets its secret back.
IngestRestoring(p, f, secret) ==
    /\ req[p].pc = "idle"
    /\ row' = [row EXCEPT ![f] =
                  [seen |-> TRUE, has |-> secret, purged |-> @.purged, age |-> @.age,
                   blob |-> IF secret THEN EncryptSecret(keys[p]) ELSE Empty]]
    /\ UNCHANGED <<overtaken, Operations, Reveals>>

\* A leak that is known already only has its last observation moved.
Ingest(p, f, secret) ==
    /\ req[p].pc = "idle"
    /\ ~ row[f].seen
    /\ row' = [row EXCEPT ![f] =
                  [seen |-> TRUE, has |-> secret, purged |-> FALSE, age |-> 0,
                   blob |-> IF secret THEN EncryptSecret(keys[p]) ELSE Empty]]
    /\ UNCHANGED <<overtaken, Operations, Reveals>>

-----------------------------------------------------------------------------
(* Retention                                                               *)

Day ==
    /\ \E f \in Leaks : row[f].seen /\ row[f].age < MaxAge
    /\ row' = [f \in Leaks |-> IF row[f].seen /\ row[f].age < MaxAge
                               THEN [row[f] EXCEPT !.age = @ + 1] ELSE row[f]]
    /\ UNCHANGED <<overtaken, Operations, Reveals>>

Expired(f) == row[f].age > Retention

Purged(S) == [f \in Leaks |-> IF f \in S /\ row[f].has
                              THEN [row[f] EXCEPT !.blob = Empty, !.has = FALSE, !.purged = TRUE]
                              ELSE row[f]]

Purge(S) ==
    /\ row' = Purged(S)
    /\ overtaken' = overtaken \cup {f \in S : row[f].has /\ rot.read[f] # Empty}
    /\ UNCHANGED <<Operations, Reveals>>

\* Mutant: one day more than the retention.
PurgeExpiredLate == Purge({f \in Leaks : row[f].age > Retention + 1})

\* The daily task.
PurgeExpiredSecrets == Purge({f \in Leaks : Expired(f)})

PurgeTenantSecrets(t) == Purge(t)

-----------------------------------------------------------------------------
(* Rotation of the key                                                     *)

AddKey ==
    /\ phase = "steady" /\ ~ rot.on
    /\ Head(config) < MaxKey
    /\ config' = <<Head(config) + 1, Head(config)>>
    /\ phase' = "added"
    /\ UNCHANGED <<Secrets, keys, rot, Reveals>>

\* A process starts again with the list of the environment; the request it was
\* handling, if any, is lost.
Restart(p) ==
    /\ keys' = [keys EXCEPT ![p] = config]
    /\ req' = [req EXCEPT ![p] = Idle(AnyLeak)]
    /\ UNCHANGED <<Secrets, config, phase, rot, attempts, granted, shown>>

RotateStart ==
    /\ ~ rot.on
    /\ \A p \in Procs : keys[p] = config
    /\ rot' = [on |-> TRUE, keys |-> config, failed |-> FALSE,
               read |-> [f \in Leaks |-> IF row[f].has THEN row[f].blob ELSE Empty]]
    /\ UNCHANGED <<Secrets, config, keys, phase, Reveals>>

\* Mutant: the command keeps what the old key made.
RotateOldSkipped(f) ==
    /\ rot.on /\ rot.read[f] # Empty
    /\ row' = IF rot.read[f] = EncryptSecret(rot.keys)
              THEN [row EXCEPT ![f].blob = EncryptSecret(rot.keys)] ELSE row
    /\ rot' = [rot EXCEPT !.read[f] = Empty]
    /\ UNCHANGED <<overtaken, config, keys, phase, Reveals>>

\* The row is written whatever happened to it since it was read; a ciphertext no
\* key opens is left as it is.
RotateOne(f) ==
    /\ rot.on /\ rot.read[f] # Empty
    /\ IF Readable(rot.read[f], rot.keys)
       THEN /\ row' = [row EXCEPT ![f].blob = EncryptSecret(rot.keys)]
            /\ rot' = [rot EXCEPT !.read[f] = Empty]
       ELSE /\ rot' = [rot EXCEPT !.read[f] = Empty, !.failed = TRUE]
            /\ UNCHANGED row
    /\ UNCHANGED <<overtaken, config, keys, phase, Reveals>>

RotateEnd ==
    /\ rot.on /\ \A f \in Leaks : rot.read[f] = Empty
    /\ phase' = IF phase = "added" /\ ~ rot.failed THEN "rotated" ELSE phase
    /\ rot' = NoRotation
    /\ UNCHANGED <<Secrets, config, keys, Reveals>>

RotateInterrupted ==
    /\ rot.on
    /\ rot' = NoRotation
    /\ UNCHANGED <<Secrets, config, keys, phase, Reveals>>

RetireKey ==
    /\ phase = "rotated" /\ ~ rot.on
    /\ config' = <<Head(config)>>
    /\ phase' = "steady"
    /\ UNCHANGED <<Secrets, keys, rot, Reveals>>

-----------------------------------------------------------------------------
(* BreachFindingRevealView                                                 *)

Answer(p) == req' = [req EXCEPT ![p] = Idle(AnyLeak)]

\* Role, plan, unknown leak, failed authentication, or a request without
\* password and code: nothing is read that could be shown.
RevealRefused(p) ==
    /\ req[p].pc = "idle" /\ attempts < MaxReveals
    /\ attempts' = attempts + 1
    /\ UNCHANGED <<Secrets, Operations, req, granted, shown>>

RevealRead(p, f) ==
    /\ req[p].pc = "idle" /\ attempts < MaxReveals
    /\ row[f].seen
    /\ attempts' = attempts + 1
    /\ req' = [req EXCEPT ![p] = [pc |-> "read", leak |-> f, blob |-> row[f].blob,
                                  has |-> row[f].has, purged |-> row[f].purged]]
    /\ UNCHANGED <<Secrets, Operations, granted, shown>>

Revealable(r) == r.has /\ r.blob # Empty

\* After the authentication: what was read is decrypted with the keys of the process.
RevealDecrypt(p) ==
    /\ req[p].pc = "read"
    /\ IF Revealable(req[p]) /\ Readable(req[p].blob, keys[p])
       THEN req' = [req EXCEPT ![p].pc = "decrypted"]
       ELSE Answer(p)
    /\ UNCHANGED <<Secrets, Operations, attempts, granted, shown>>

\* Mutant: the secret leaves before the audit row is written.
RevealAuditAfter(p) ==
    /\ req[p].pc = "decrypted"
    /\ shown' = [shown EXCEPT ![req[p].leak] = @ + 1]
    /\ req' = [req EXCEPT ![p].pc = "audited"]
    /\ UNCHANGED <<Secrets, Operations, attempts, granted>>

RevealAudit(p) ==
    /\ req[p].pc = "decrypted"
    /\ granted' = [granted EXCEPT ![req[p].leak] = @ + 1]
    /\ req' = [req EXCEPT ![p].pc = "audited"]
    /\ UNCHANGED <<Secrets, Operations, attempts, shown>>

RevealRespond(p) ==
    /\ req[p].pc = "audited"
    /\ shown' = [shown EXCEPT ![req[p].leak] = @ + 1]
    /\ Answer(p)
    /\ UNCHANGED <<Secrets, Operations, attempts, granted>>

-----------------------------------------------------------------------------
Next ==
    \/ \E p \in Procs, f \in Leaks, s \in BOOLEAN : Ingest(p, f, s)
    \/ Day \/ PurgeExpiredSecrets
    \/ \E t \in Tenants : PurgeTenantSecrets(t)
    \/ AddKey \/ RetireKey
    \/ \E p \in Procs : Restart(p)
    \/ RotateStart \/ RotateEnd \/ RotateInterrupted
    \/ \E f \in Leaks : RotateOne(f)
    \/ \E p \in Procs, f \in Leaks : RevealRead(p, f)
    \/ \E p \in Procs : RevealRefused(p) \/ RevealDecrypt(p)
                        \/ RevealAudit(p) \/ RevealRespond(p)

Spec == Init /\ [][Next]_vars

\* Days pass, and the beat schedule starts the purge every day.
FairSpec == Spec /\ WF_vars(Day) /\ WF_vars(PurgeExpiredSecrets)

-----------------------------------------------------------------------------
(* Properties                                                              *)

Secret == [seen : BOOLEAN, blob : {Empty} \cup Key, has : BOOLEAN, purged : BOOLEAN,
           age : 0..MaxAge]

\* The domains of the columns, of the key lists and of the requests.  A row says
\* that it has a secret only when its ciphertext is there.
TypeOK ==
    /\ row \in [Leaks -> Secret]
    /\ \A f \in Leaks : row[f].has => row[f].seen /\ row[f].blob # Empty
    /\ config \in Keys /\ keys \in [Procs -> Keys]
    /\ phase \in {"steady", "added", "rotated"}
    /\ rot \in [on : BOOLEAN, keys : Keys, read : [Leaks -> {Empty} \cup Key], failed : BOOLEAN]
    /\ req \in [Procs -> [pc : {"idle", "read", "decrypted", "audited"}, leak : Leaks,
                          blob : {Empty} \cup Key, has : BOOLEAN, purged : BOOLEAN]]
    /\ attempts \in 0..MaxReveals
    /\ granted \in [Leaks -> 0..MaxReveals]
    /\ shown \in [Leaks -> 0..MaxReveals]
    /\ overtaken \in SUBSET Leaks

\* has_secret means that the ciphertext can be decrypted (BreachFinding): whoever
\* encrypts it, whenever the command is interrupted or run again, the keys of the
\* environment open every secret the platform says it has.
SecretsReadable == \A f \in Leaks : row[f].has => Readable(row[f].blob, config)

\* ADR-014: no secret leaves the platform without an audit row, even when the
\* process dies while it answers.
AuditedBeforeShown == \A f \in Leaks : shown[f] <= granted[f]

\* A request that reads a leak after its purge never decrypts its secret, although
\* a rotation may have put the ciphertext back.
PurgedNotRevealed == \A p \in Procs : req[p].pc \in {"decrypted", "audited"} => ~ req[p].purged

\* ADR-014: the secret of a purged leak does not come back, neither by ingestion nor
\* by rotation, unless the purge fell between the rotation's query and its write.
GoneUnlessOvertaken ==
    \A f \in Leaks \ overtaken : row[f].purged => row[f].blob = Empty /\ ~ row[f].has

\* The daily purge ends up taking every secret older than the retention away from
\* the client, whatever rotations and restarts go on.
SecretsExpire == \A f \in Leaks : (row[f].has /\ Expired(f)) ~> ~ row[f].has

\* A purge is final for the client: what it erased stays erased and is never shown,
\* except for the ciphertext a rotation had read before and writes back.
PurgedIsGone == TypeOK /\ PurgedNotRevealed /\ GoneUnlessOvertaken
=============================================================================
