---------------------------- MODULE SecondFactor ----------------------------
(***************************************************************************)
(* Login in one or two steps and the second factor of one account          *)
(* (accounts/views.py, accounts/services.py): enrolment, confirmation,     *)
(* recovery codes, disabling, and the challenge between the password and   *)
(* the code.  Codes, challenges and the factor itself are read, checked    *)
(* and only then saved, so two posts may hold the same one; a save of a    *)
(* row deleted meanwhile fails, and changes nothing.                       *)
(***************************************************************************)
EXTENDS Naturals, FiniteSets

CONSTANTS
    Posts,        \* requests of the account served at the same time
    Challenges,   \* challenge tokens
    Batches       \* batches of recovery codes; one code stands for its batch

VARIABLES
    active,       \* is_active
    totp,         \* "none", "pending" (confirmed = False), "on"
    unused,       \* the codes whose used_at is null
    stored,       \* the batches whose rows exist
    seen,         \* the posts that confirm the factor whose row exists
    chall,        \* chall[c]: "new", "open" or "gone" (consumed, or past its TTL)
    post,         \* post[p]: what a request has read and still has to write
    issued,       \* the batches generated so far
    sessions,     \* history: sessions[x], the token pairs given for a challenge or a code
    last,         \* history: the batch written last
    excused,      \* history: the challenges and codes two posts held together
    overlapped    \* history: the batches written while another generation had deleted

vars ==
    <<active, totp, unused, stored, seen, chall, post, issued, sessions, last, excused,
      overlapped>>

codes == <<unused, stored, issued, last, overlapped>>   \* what generations write

Free == [at |-> "free"]

Init ==
    /\ active = TRUE
    /\ totp = "none"
    /\ unused = {}
    /\ chall = [c \in Challenges |-> "new"]
    /\ post = [p \in Posts |-> Free]
    /\ issued = {}
    /\ sessions = [x \in Challenges \cup Batches |-> 0]
    /\ stored = {}
    /\ seen = {}
    /\ last = {}
    /\ excused = {}
    /\ overlapped = {}

Once(x) == IF sessions[x] = 0 THEN 1 ELSE 2

-----------------------------------------------------------------------------
(* LoginView with a good password: authenticate() knows no inactive account; *)
(* a confirmed factor is answered by a challenge, otherwise by the tokens.   *)
Login(c) ==
    /\ active
    /\ totp = "on"
    /\ chall[c] = "new"
    /\ chall' = [chall EXCEPT ![c] = "open"]
    /\ UNCHANGED <<active, totp, seen, post, sessions, excused, codes>>

(* _MFA_CHALLENGE_TTL_SECONDS *)
ChallengeExpires(c) ==
    /\ chall[c] = "open"
    /\ chall' = [chall EXCEPT ![c] = "gone"]
    /\ UNCHANGED <<active, totp, seen, post, sessions, excused, codes>>

Holding(x) == \E q \in Posts : post[q].at \in {"code", "found", "verified"} /\ x \in {post[q].c, post[q].k}

(* TwoFactorVerifyView: resolve_mfa_challenge looks neither at is_active nor at the factor *)
ResolveChallenge(p, c) ==
    /\ post[p] = Free
    /\ chall[c] = "open"
    /\ post' = [post EXCEPT ![p] = [at |-> "code", c |-> c, k |-> "none"]]
    /\ excused' = IF Holding(c) THEN excused \cup {c} ELSE excused
    /\ UNCHANGED <<active, totp, seen, chall, sessions, codes>>

(* the code of the application is good: get_confirmed_credential and verify_totp_code *)
VerifyTotpCode(p) ==
    /\ post[p].at = "code"
    /\ totp = "on"
    /\ post' = [post EXCEPT ![p].at = "verified"]
    /\ UNCHANGED <<active, totp, seen, chall, sessions, excused, codes>>

\* Mutant: the used codes are searched too.
FindAnyCode(p, k) ==
    /\ post[p].at = "code"
    /\ k \in stored
    /\ post' = [post EXCEPT ![p].at = "found", ![p].k = k]
    /\ excused' = IF Holding(k) THEN excused \cup {k} ELSE excused
    /\ UNCHANGED <<active, totp, seen, chall, sessions, codes>>

(* consume_recovery_code: the unused codes are read and compared, the one that fits is saved later *)
FindRecoveryCode(p, k) ==
    /\ post[p].at = "code"
    /\ k \in unused
    /\ post' = [post EXCEPT ![p].at = "found", ![p].k = k]
    /\ excused' = IF Holding(k) THEN excused \cup {k} ELSE excused
    /\ UNCHANGED <<active, totp, seen, chall, sessions, codes>>

(* used_at is saved, if the row is still there *)
MarkCode(p) ==
    /\ post[p].at = "found"
    /\ post[p].k \in stored
    /\ unused' = unused \ {post[p].k}
    /\ post' = [post EXCEPT ![p].at = "verified"]
    /\ UNCHANGED <<active, totp, seen, chall, sessions, excused, stored, issued, last, overlapped>>

(* clear_failed_attempts, consume_mfa_challenge, then the tokens *)
GiveTokens(p) ==
    /\ post[p].at = "verified"
    /\ chall' = [chall EXCEPT ![post[p].c] = "gone"]
    /\ sessions' = [x \in DOMAIN sessions |->
                      IF x \in {post[p].c, post[p].k} THEN Once(x) ELSE sessions[x]]
    /\ post' = [post EXCEPT ![p] = Free]
    /\ UNCHANGED <<active, totp, seen, excused, codes>>

-----------------------------------------------------------------------------
(* start_totp_enrollment: update_or_create, over a confirmed factor too *)
StartEnrollment ==
    /\ totp' = "pending"
    /\ UNCHANGED <<active, seen, chall, post, sessions, excused, codes>>

(* confirm_totp_enrollment reads the pending factor, and checks the code against its secret *)
LoadPending(p) ==
    /\ post[p] = Free
    /\ totp = "pending"
    /\ seen' = seen \cup {p}
    /\ post' = [post EXCEPT ![p] = [at |-> "pending"]]
    /\ UNCHANGED <<active, totp, chall, sessions, excused, codes>>

(* It is saved as confirmed, whatever secret the row has by then, if the row is still there. *)
ConfirmEnrollment(p) ==
    /\ post[p].at = "pending"
    /\ p \in seen
    /\ totp' = "on"
    /\ seen' = seen \ {p}
    /\ post' = [post EXCEPT ![p] = [at |-> "confirmed"]]
    /\ UNCHANGED <<active, chall, sessions, excused, codes>>

(* generate_recovery_codes: the old codes are deleted in one commit ... *)
DeleteOldCodes(p) ==
    /\ post[p].at = "confirmed"
    /\ unused' = {}
    /\ stored' = {}
    /\ post' = [post EXCEPT ![p] = [at |-> "deleted"]]
    /\ UNCHANGED <<active, totp, seen, chall, sessions, excused, issued, last, overlapped>>

(* ... and the new ones are created in another, then shown once. *)
CreateCodes(p, k) ==
    /\ post[p].at = "deleted"
    /\ k \notin issued
    /\ issued' = issued \cup {k}
    /\ unused' = unused \cup {k}
    /\ stored' = stored \cup {k}
    /\ last' = {k}
    /\ overlapped' = IF \E q \in Posts \ {p} : post[q].at = "deleted"
                     THEN overlapped \cup {k} ELSE overlapped
    /\ post' = [post EXCEPT ![p] = Free]
    /\ UNCHANGED <<active, totp, seen, chall, sessions, excused>>

(* TwoFactorDisableView, with the password: the factor, then the codes *)
DisableTotp(p) ==
    /\ post[p] = Free
    /\ totp' = "none"
    /\ seen' = {}
    /\ post' = [post EXCEPT ![p] = [at |-> "disabled"]]
    /\ UNCHANGED <<active, chall, sessions, excused, codes>>

DropCodes(p) ==
    /\ post[p].at = "disabled"
    /\ unused' = {}
    /\ stored' = {}
    /\ post' = [post EXCEPT ![p] = Free]
    /\ UNCHANGED <<active, totp, seen, chall, sessions, excused, issued, last, overlapped>>

(* a request that dies, a code that does not fit, or a save that finds no row: what was written stays *)
GiveUp(p) ==
    /\ post[p] # Free
    /\ seen' = seen \ {p}
    /\ post' = [post EXCEPT ![p] = Free]
    /\ UNCHANGED <<active, totp, chall, sessions, excused, codes>>

(* set_member_active *)
SetActive ==
    /\ active' = ~active
    /\ UNCHANGED <<totp, seen, chall, post, sessions, excused, codes>>

Next ==
    \/ \E c \in Challenges : Login(c) \/ ChallengeExpires(c)
    \/ \E p \in Posts :
         \/ \E c \in Challenges : ResolveChallenge(p, c)
         \/ \E k \in Batches : FindRecoveryCode(p, k) \/ CreateCodes(p, k)
         \/ VerifyTotpCode(p) \/ MarkCode(p) \/ GiveTokens(p)
         \/ LoadPending(p) \/ ConfirmEnrollment(p) \/ DeleteOldCodes(p)
         \/ DisableTotp(p) \/ DropCodes(p) \/ GiveUp(p)
    \/ StartEnrollment \/ SetActive

Spec == Init /\ [][Next]_vars

-----------------------------------------------------------------------------
(* Every variable keeps its type. *)
TypeOK ==
    /\ active \in BOOLEAN
    /\ totp \in {"none", "pending", "on"}
    /\ unused \subseteq stored /\ stored \subseteq issued /\ issued \subseteq Batches
    /\ seen \subseteq Posts
    /\ chall \in [Challenges -> {"new", "open", "gone"}]
    /\ \A p \in Posts :
         post[p] \in {Free} \cup [at : {"pending", "confirmed", "deleted", "disabled"}]
           \cup [at : {"code", "found", "verified"}, c : Challenges, k : Batches \cup {"none"}]
    /\ sessions \in [Challenges \cup Batches -> 0..2]
    /\ last \subseteq issued
    /\ excused \subseteq Challenges \cup Batches
    /\ overlapped \subseteq issued

(* A challenge and a recovery code open one session each; a second one is  *)
(* opened only by a post that had read the challenge or the code before    *)
(* the first was written.                                                  *)
OneSessionEach == \A x \in (Challenges \cup Batches) \ excused : sessions[x] =< 1

(* "Replaces any existing recovery codes": the codes that work are those   *)
(* of the generation that wrote last.  Two lists work together only when   *)
(* two confirmations had both deleted the old codes before either wrote.   *)
OnlyLastCodesWork == unused \subseteq last \cup overlapped
=============================================================================
