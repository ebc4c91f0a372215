------------------------------ MODULE Prospects -------------------------------
(***************************************************************************)
(* Prospects from the first message to the client they become (marketing's *)
(* services, the views of the console, seed_demo_clients): the public      *)
(* form, the follow-up, the conversion, and requests that save a whole     *)
(* copy they loaded before.                                                *)
(***************************************************************************)
EXTENDS Naturals, FiniteSets

CONSTANTS
    Sessions,       \* requests served at the same time
    StaleAfter,     \* follow_up_board's stale_after_days
    MaxDay,         \* bound: days
    MaxClients      \* bound: clients created

STATUS == {"new", "won", "lost"}   \* contacted, scheduled, proposal are as new, closed as won
TERMINAL == {"won", "lost"}

\* DEMO_PROSPECTS: status, days until the next call (0: none planned, 1: today), a reason
Demo(status, follow, reason) == [status |-> status, follow |-> follow, reason |-> reason]
DEMO_PROSPECTS == {Demo("new", 1, FALSE), Demo("new", 3, FALSE), Demo("new", 6, FALSE), Demo("new", 2, FALSE),
                   Demo("new", 0, FALSE), Demo("lost", 0, TRUE)}

\* DEMO_CLIENTS: the status each is brought to, by the services
DEMO_CLIENTS == [lambert |-> "active", vidal |-> "active", tilleuls |-> "active",
                 novae |-> "trial", peret |-> "suspended"]

\* The prospect somebody works on, and the sleeping one of the demonstration.
Contacts == {"prospect", "sleeper"}

VARIABLES
    row,        \* row[p]: the DemoRequest, or Absent
    made,       \* made[p]: clients created from it (history)
    living,     \* clients that exist
    touched,    \* touched[p]: day of the last thing done about it (history)
    demo,       \* clients of the demonstration that exist
    req,        \* req[s]: what a request has loaded
    today,
    excuse      \* history: why a property may not hold

vars == <<row, made, living, touched, demo, req, today, excuse>>

Absent == [status |-> "none"]
Idle == [kind |-> "none"]
Row(status, reason, follow, day) ==
    [status |-> status, reason |-> reason, follow |-> follow, origin |-> 0, updated |-> day]

Init ==
    /\ row = [p \in Contacts |-> Absent]
    /\ made = [p \in Contacts |-> {}] /\ living = {}
    /\ touched = [p \in Contacts |-> 0]
    /\ demo = {}
    /\ req = [s \in Sessions |-> Idle]
    /\ today = 1
    /\ excuse = {}

There(p) == row[p] # Absent
Touch(p) == touched' = [touched EXCEPT ![p] = today]
Excuse(why, holds) == excuse' = IF holds THEN excuse \cup {why} ELSE excuse

-----------------------------------------------------------------------------
(* create_demo_request: the mails are a comfort, their failure is logged.  *)
Submit(p) ==
    /\ ~ There(p)
    /\ row' = [row EXCEPT ![p] = Row("new", FALSE, 0, today)]
    /\ Touch(p)
    /\ UNCHANGED <<made, living, demo, req, today, excuse>>

\* create_prospect takes the status that was sent, "lost" too
CreateProspect(p, status, reason) ==
    /\ ~ There(p)
    /\ row' = [row EXCEPT ![p] = Row(status, reason, 0, today)]
    /\ Touch(p)
    /\ Excuse("unreasoned", status = "lost" /\ ~ reason)
    /\ UNCHANGED <<made, living, demo, req, today>>

\* DemoRequestAdminDetailView.patch: the status alone, nothing else is looked at
SetStatus(p, status) ==
    /\ There(p) /\ row[p].status # status
    /\ row' = [row EXCEPT ![p].status = status]
    /\ Touch(p)
    /\ Excuse("unreasoned", status = "lost" /\ ~ row[p].reason)
    /\ UNCHANGED <<made, living, demo, req, today>>

\* add_prospect_note: a row of its own
AddNote(p) ==
    /\ There(p) /\ touched[p] # today
    /\ Touch(p)
    /\ UNCHANGED <<row, made, living, demo, req, today, excuse>>

-----------------------------------------------------------------------------
(* The two requests of the console that load a prospect, then write.       *)
Load(s, kind, p) ==
    /\ req[s] = Idle /\ There(p)
    /\ req' = [req EXCEPT ![s] = [kind |-> kind, p |-> p, copy |-> row[p]]]
    /\ UNCHANGED <<row, made, living, touched, demo, today, excuse>>

Done(s) == req' = [req EXCEPT ![s] = Idle]

\* What may be sent: a status, with or without a reason, a reason that is
\* emptied, a day to call back.
Fields ==
    {[status |-> st] : st \in STATUS} \cup {[status |-> "lost", reason |-> TRUE], [reason |-> FALSE]}
    \cup {[follow |-> d] : d \in {2, MaxDay}}

Refused(copy, fields) ==
    /\ "status" \in DOMAIN fields /\ fields.status = "lost"
    /\ ~ copy.reason /\ "reason" \notin DOMAIN fields

\* setattr on the copy, then save(): every column goes back
With(copy, fields) ==
    [f \in DOMAIN copy |-> IF f \in DOMAIN fields THEN fields[f] ELSE IF f = "updated" THEN today ELSE copy[f]]

UpdateProspect(s, fields) ==
    LET p == req[s].p IN
    /\ req[s].kind = "patch"
    /\ ~ Refused(req[s].copy, fields)
    /\ row' = [row EXCEPT ![p] = With(req[s].copy, fields)]
    /\ Touch(p)
    /\ excuse' = excuse
         \cup (IF row[p].origin # req[s].copy.origin THEN {"overtaken"} ELSE {})
         \cup (IF row'[p].status = "lost" /\ ~ row'[p].reason THEN {"unreasoned"} ELSE {})
    /\ Done(s)
    /\ UNCHANGED <<made, living, demo, today>>

\* create_client and mark_converted, in one transaction; nothing asks whether
\* the prospect was converted before.
Convert(s) ==
    LET p == req[s].p
        used == living \cup UNION {made[q] : q \in Contacts}
        c == CHOOSE n \in 1..(MaxClients + 1) : n \notin used IN
    /\ req[s].kind = "convert" /\ c =< MaxClients
    /\ row' = [row EXCEPT ![p].origin = c, ![p].status = "won", ![p].updated = today]
    /\ made' = [made EXCEPT ![p] = @ \cup {c}]
    /\ living' = living \cup {c}
    /\ Touch(p)
    /\ excuse' = excuse \cup (IF req[s].copy.origin # 0 THEN {"again"}
                              ELSE IF made[p] \cap living # {} THEN {"overtaken"} ELSE {})
    /\ Done(s)
    /\ UNCHANGED <<demo, today>>

\* A refusal, or the request ends.
GiveUp(s) ==
    /\ req[s] # Idle
    /\ Done(s)
    /\ UNCHANGED <<row, made, living, touched, demo, today, excuse>>

\* The company is destroyed: converted_tenant becomes NULL.  A copy that points
\* to it can no longer be saved.
DestroyClient(c) ==
    /\ c \in living
    /\ living' = living \ {c}
    /\ row' = [p \in Contacts |-> IF There(p) /\ row[p].origin = c THEN [row[p] EXCEPT !.origin = 0] ELSE row[p]]
    /\ req' = [s \in Sessions |-> IF req[s] # Idle /\ req[s].copy.origin = c THEN Idle ELSE req[s]]
    /\ UNCHANGED <<made, touched, demo, today, excuse>>

-----------------------------------------------------------------------------
(* seed_demo_clients, in one transaction: what exists is left alone, and a *)
(* full platform refuses everything.  The sleeping prospect is given an    *)
(* old date; the deletion takes what bears the reserved names.             *)
SeedDemoClients(reset) ==
    /\ demo' = DOMAIN DEMO_CLIENTS
    /\ row' = [row EXCEPT !["sleeper"] = IF reset \/ ~ There("sleeper") THEN Row("new", FALSE, 0, 0) ELSE @]
    /\ touched' = [touched EXCEPT !["sleeper"] = IF reset \/ ~ There("sleeper") THEN 0 ELSE @]
    /\ made' = [made EXCEPT !["sleeper"] = IF reset THEN {} ELSE @]
    /\ req' = [s \in Sessions |-> IF reset /\ req[s] # Idle /\ req[s].p = "sleeper" THEN Idle ELSE req[s]]
    /\ UNCHANGED <<living, today, excuse>>

NextDay ==
    /\ today < MaxDay /\ today' = today + 1
    /\ UNCHANGED <<row, made, living, touched, demo, req, excuse>>

Next ==
    \/ \E p \in Contacts : SetStatus(p, "lost") \/ SetStatus(p, "new") \/ AddNote(p)
    \/ \E p \in Contacts, s \in Sessions, kind \in {"patch", "convert"} : Load(s, kind, p)
    \/ Submit("prospect")
    \/ \E status \in STATUS, reason \in BOOLEAN : CreateProspect("prospect", status, reason)
    \/ \E s \in Sessions : Convert(s) \/ GiveUp(s) \/ \E fields \in Fields : UpdateProspect(s, fields)
    \/ \E c \in 1..MaxClients : DestroyClient(c)
    \/ \E reset \in BOOLEAN : SeedDemoClients(reset)
    \/ NextDay

Spec == Init /\ [][Next]_vars

-----------------------------------------------------------------------------
(* follow_up_board *)
Open(p) == There(p) /\ row[p].status \notin TERMINAL
DueToday == {p \in Contacts : Open(p) /\ row[p].follow \in 1..today}
Stale == {p \in Contacts : Open(p) /\ row[p].follow = 0 /\ row[p].updated + StaleAfter =< today}

(* Values of the variables. *)
TypeOK ==
    /\ \A p \in Contacts : There(p) => /\ row[p].status \in STATUS
                                     /\ row[p].origin \in living \cup {0}
    /\ living \subseteq 1..MaxClients
    /\ demo \subseteq DOMAIN DEMO_CLIENTS

(* "Une affaire perdue sans motif ne s'analyse pas six mois plus tard":    *)
(* what is lost has a reason, but for the ways that do not ask for it.     *)
LostHasReason ==
    \A p \in Contacts : There(p) /\ row[p].status = "lost" /\ ~ row[p].reason => "unreasoned" \in excuse

(* "On doit pouvoir retrouver d'ou vient un compte": a client that lives   *)
(* is the one its prospect points to, and a prospect has become one client *)
(* only; but for a second conversion, or a request that had loaded the     *)
(* prospect before the first.                                              *)
OriginKept ==
    excuse \cap {"again", "overtaken"} = {} =>
        \A p \in Contacts : \A c \in made[p] \cap living : There(p) /\ row[p].origin = c

(* "Qui dois-je rappeler aujourd'hui, et qu'ai-je laisse dormir": a        *)
(* prospect about whom nothing was done for long is on the board, unless a *)
(* later day is planned.                                                   *)
NobodyIsForgotten ==
    \A p \in Contacts : Open(p) /\ touched[p] + StaleAfter =< today =>
        p \in DueToday \cup Stale \/ row[p].follow > today

(* The data of the demonstration pass the rules of the service, and show   *)
(* both columns of the board.                                              *)
DemoProspectsPass ==
    /\ \A d \in DEMO_PROSPECTS : d.status = "lost" => d.reason
    /\ \E d \in DEMO_PROSPECTS : d.status \notin TERMINAL /\ d.follow = 1
    /\ \E d \in DEMO_PROSPECTS : d.status \notin TERMINAL /\ d.follow = 0
=============================================================================
