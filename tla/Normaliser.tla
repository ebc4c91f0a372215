------------------------------ MODULE Normaliser ------------------------------
(***************************************************************************)
(* The normaliser of the provider's payloads: which keys hold a secret,    *)
(* what of an observation makes it the same from one delivery to the next, *)
(* and what is stored of it.  The provider delivers the same leak again,   *)
(* with or without its date, one of its fields or a list for a value, in   *)
(* the order it likes.                                                     *)
(***************************************************************************)
EXTENDS Naturals, Sequences, FiniteSets

CONSTANT MaxDeliveries      \* bound: deliveries of a behaviour

(* A payload is a sequence of fields, as JSON delivers them.               *)
Field(key, value) == [key |-> key, value |-> value, listed |-> FALSE]

Exact == {"val", "ccn", "ccx", "cwa"}
\* the keys of the provider's vocabulary that contain a marker
Marked == {"pwd", "password", "token", "token_type"}
IsSecretKey(key) == key \in Exact \cup Marked

SEVERITY_BY_ENDPOINT ==
    [endpoint \in {"stealer", "sessions", "nhi", "darkweb"} |-> "critical"]
SeverityOf(endpoint, payload) ==
    CASE endpoint = "asm" /\ \E i \in DOMAIN payload : payload[i] = Field("type", "pphish") -> "high"
      [] endpoint \in DOMAIN SEVERITY_BY_ENDPOINT -> SEVERITY_BY_ENDPOINT[endpoint]
      [] endpoint \in {"creds", "combo", "docs"} -> "high"
      [] OTHER -> "attention"

Known == {"stealer", "sessions", "nhi", "darkweb", "creds", "combo", "docs", "radar", "asm"}

\* ENDPOINT_SCHEMAS: the fields that identify, whom they name, what type they give
IdentityFields(endpoint) ==
    CASE endpoint \in {"stealer", "combo"} -> {"usr", "src"}
      [] endpoint = "creds" -> {"eml", "src"}
      [] endpoint = "sessions" -> {"user_name", "dom", "cookie_name"}
      [] endpoint = "nhi" -> {"usr", "platform", "src"}
      [] endpoint = "darkweb" -> {"data", "site"}
      [] endpoint = "radar" -> {"data", "src"}
      [] endpoint = "docs" -> {"doc_id", "file_hash"}
      [] endpoint = "asm" -> {"dom", "type", "cname", "ip"}
      [] OTHER -> {}

IdentifierKeys(endpoint) ==
    CASE endpoint \in {"stealer", "combo", "nhi"} -> <<"usr">>
      [] endpoint = "creds" -> <<"eml">>
      [] endpoint = "sessions" -> <<"user_name">>
      [] OTHER -> <<>>
TypeKeys(endpoint) ==
    CASE endpoint = "stealer" -> <<"mal">> [] endpoint = "nhi" -> <<"category">>
      [] endpoint = "docs" -> <<"content_type">> [] endpoint = "asm" -> <<"type">>
      [] OTHER -> <<>>
FallbackIdentifier == <<"email", "eml", "usr", "user_name", "login", "username", "user", "identifier">>
FallbackType == <<"type", "category", "mal">>

-----------------------------------------------------------------------------
(* _first_present, along an order of keys                                  *)
Holds(payload, key) == \E i \in DOMAIN payload : payload[i].key = key /\ payload[i].value # ""
ValueOf(payload, key) == payload[CHOOSE i \in DOMAIN payload : payload[i].key = key].value
FirstPresent(payload, keys, default) ==
    IF \E k \in DOMAIN keys : Holds(payload, keys[k])
    THEN ValueOf(payload, keys[CHOOSE k \in DOMAIN keys :
             /\ Holds(payload, keys[k])
             /\ \A h \in 1..(k - 1) : ~ Holds(payload, keys[h])])
    ELSE default

(* mask_payload: a list is walked, and its items have no key.              *)
IsSecret(field) == IsSecretKey(field.key) /\ ~ field.listed /\ field.value # ""
Masked(payload) == [i \in DOMAIN payload |-> IF IsSecret(payload[i]) THEN [payload[i] EXCEPT !.value = "masked"] ELSE payload[i]]
SecretPlain(payload) ==
    LET secret == {i \in DOMAIN payload : IsSecret(payload[i])} IN
    IF secret = {} THEN "" ELSE payload[CHOOSE i \in secret : \A j \in secret : i =< j].value

(* _borner: what is too long for its column is cut.                        *)
Long == {"malware of sixty characters and more"}
Borner(value) == IF value \in Long THEN "cut" ELSE value

(* _compute_identity_hash: the fields that are there, with their names.    *)
Identity(endpoint, payload) ==
    [endpoint |-> endpoint,
     present |-> {<<key, ValueOf(payload, key)>> : key \in {f \in IdentityFields(endpoint) : Holds(payload, f)}}]

normalize_finding(endpoint, payload) ==
    [source_endpoint |-> IF endpoint \in Known THEN endpoint ELSE "webhook",
     finding_type |-> Borner(FirstPresent(payload, TypeKeys(endpoint) \o FallbackType, endpoint)),
     severity |-> SeverityOf(endpoint, payload),
     identifier |-> FirstPresent(payload, IdentifierKeys(endpoint) \o FallbackIdentifier, ""),
     raw_data |-> Masked(payload),
     dedup |-> [identity |-> Identity(endpoint, payload), fingerprint |-> SecretPlain(payload)]]

-----------------------------------------------------------------------------
(* The leaks there are: their fields, and the key and value of the secret. *)
Leak(endpoint, fields, key, secret) ==
    [endpoint |-> endpoint, fields |-> fields, key |-> key, secret |-> secret]
MarieOn(site, secret) == Leak("creds", <<Field("eml", "marie"), Field("src", site)>>, "pwd", secret)
Token(secret) ==
    Leak("nhi", <<Field("usr", "svc"), Field("platform", "aws"), Field("category", "malware of sixty characters and more")>>, "token", secret)
Seen(endpoint, dom, type) == Leak(endpoint, <<Field("dom", dom), Field("type", type)>>, "", "")

Leaks == {MarieOn("shop", "winter"), MarieOn("shop", "summer"), MarieOn("forum", "winter"),
          Token("AKIA1"), Token("AKIA2"),
          Seen("asm", "d1", "pphish"), Seen("asm", "d1", "mx"), Seen("later", "d1", "x"), Seen("later", "d2", "x")}

(* How one is delivered: dated or not, without its n-th field (0: all are  *)
(* there), its secret alone, beside a field whose name looks secret, or in *)
(* a list.                                                                 *)
Forms == [dated : BOOLEAN, without : 0..2, secret : {"alone", "after type", "before type", "listed"}]
Deliveries == {d \in [leak : Leaks, form : Forms] : d.leak.secret = "" => d.form.secret = "alone"}

Payload(d) ==
    LET secret == [Field(d.leak.key, d.leak.secret) EXCEPT !.listed = (d.form.secret = "listed")]
        type == Field("token_type", "kind") IN
    (IF d.form.dated THEN <<Field("fnd", "2026-01-01")>> ELSE <<>>)
    \o [i \in DOMAIN d.leak.fields |->
           IF i = d.form.without THEN [d.leak.fields[i] EXCEPT !.value = ""] ELSE d.leak.fields[i]]
    \o CASE d.leak.secret = "" -> <<>>
         [] d.form.secret = "after type" -> <<type, secret>>
         [] d.form.secret = "before type" -> <<secret, type>>
         [] OTHER -> <<secret>>

VARIABLES
    delivered,  \* what was delivered
    stored      \* the rows, each with the leak it was created for

Init == delivered = {} /\ stored = {}

(* ingest_raw_findings: a row, unless one has this key.                    *)
Normal(d) == normalize_finding(d.leak.endpoint, Payload(d))
Deliver(d) ==
    /\ Cardinality(delivered) < MaxDeliveries /\ d \notin delivered
    /\ delivered' = delivered \cup {d}
    /\ stored' = IF \E r \in stored : r.row.dedup = Normal(d).dedup THEN stored
                 ELSE stored \cup {[row |-> Normal(d), leak |-> d.leak]}

Next == \E d \in Deliveries : Deliver(d)
Spec == Init /\ [][Next]_<<delivered, stored>>

-----------------------------------------------------------------------------
\* The deliveries after which two leaks may look alike, or one like two.
Thin(d) == d.form.without # 0
Misread(d) == d.form.secret \in {"after type", "listed"}
NoSchema(d) == d.leak.endpoint \notin Known
RowsOf(leak) == {r \in stored : r.leak = leak}
Plain(leak) == \A d \in delivered : d.leak = leak => ~ Thin(d) /\ ~ Misread(d)

(* Values of the variables. *)
TypeOK == delivered \subseteq Deliveries /\ \A r \in stored : r.leak \in Leaks

(* "Une meme fuite" delivered again with or without its date, with its     *)
(* secret before another field, is one row: it does not come back to a     *)
(* client who has treated it.  But for a delivery that lacks a field that  *)
(* identifies, or whose secret is read elsewhere.                          *)
OneLeakOneRow == \A leak \in Leaks : Plain(leak) => Cardinality(RowsOf(leak)) =< 1

(* Another secret, another site, another type is another leak, and no leak *)
(* is absorbed by the row of another: but for such deliveries, and for     *)
(* endpoints of which no field identifies.                                 *)
NoLeakAbsorbed ==
    \A d \in delivered : RowsOf(d.leak) = {} =>
        \/ NoSchema(d)
        \/ \E x \in delivered : x.leak.endpoint = d.leak.endpoint /\ (Thin(x) \/ Misread(x))

(* "Applied on the whole tree": no row holds a secret in clear, but for    *)
(* one that came in a list; every row fits its columns and has a severity  *)
(* of its endpoint.                                                        *)
RowsAreMasked ==
    \A r \in stored :
        /\ \A i \in DOMAIN r.row.raw_data :
             LET f == r.row.raw_data[i] IN f.value = r.leak.secret /\ f.value # "" => f.listed
        /\ r.row.finding_type \notin Long
        /\ r.row.source_endpoint = "webhook" => r.row.severity = "attention"
=============================================================================
