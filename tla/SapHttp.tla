------------------------------- MODULE SapHttp -------------------------------
(***************************************************************************)
(* The two HTTP clients that authenticate with a cached bearer token: the  *)
(* ADT client (sap-automate-adt/src/http.rs) and the OData client          *)
(* (sap-automate-rfc/src/odata.rs).  No lock is held across an await, so   *)
(* several requests may fetch a token or a CSRF token at the same time and *)
(* store them in any order.                                                *)
(*                                                                         *)
(* A bearer token is abstracted to what is left of its life at the issuer  *)
(* (0: expired), the CSRF token to the SAP session it belongs to.  The     *)
(* unit of time is 15 s: the OData timeout is 1, the ADT timeout 3, and a  *)
(* token is dropped from the cache Margin = 4 early.                       *)
(***************************************************************************)
EXTENDS Naturals, FiniteSets

CONSTANTS
    Requests,      \* requests made during the run, one each
    AdtTimeout,    \* HttpAdtClient::new, timeout of every exchange
    ODataTimeout,  \* BusinessHubConfig::timeout
    Margin,        \* both clients renew a token this long before it expires
    ExpiresIn,     \* lifetimes the token endpoint hands out
    MaxSession     \* bound: SAP sessions that follow one another

ASSUME SapHttpAssumption ==
    /\ AdtTimeout \in Nat \ {0} /\ ODataTimeout \in Nat \ {0}
    /\ Margin \in Nat /\ MaxSession \in Nat \ {0}
    /\ AdtTimeout <= Margin /\ 2 * ODataTimeout <= Margin
    /\ ExpiresIn \subseteq {n \in Nat : n > Margin}

VARIABLES
    backend,       \* "adt" or "odata"
    auth,          \* "token" (service key, OAuth2) or "static" (all the others)
    readOnly,      \* AdtCallContext::read_only
    token,         \* the token cache: life at the issuer, ttl in the cache
    csrf,          \* the CSRF token cached, 0 if none
    session,       \* the SAP session that is current
    hpc,           \* hpc[r]: where the request is
    op,            \* op[r]: what it asks for
    phase,         \* phase[r]: "main", or where an activation is before its POST
    bearer,        \* bearer[r]: life left of the token in hand
    grant,         \* grant[r]: expires_in of the token just issued
    held,          \* held[r]: the CSRF token the request carries, or its answer
    reply,         \* reply[r]: the status of the answer
    age,           \* age[r]: how long the exchange has been under way
    outcome,       \* outcome[r]: what the request returned
    refused        \* history: activations SAP refused for their CSRF token

configVars == <<backend, auth, readOnly>>
requestVars == <<hpc, op, phase, bearer, grant, held, reply, age, outcome>>
hvars == <<configVars, token, csrf, session, requestVars, refused>>

AdtOps == {"fetch", "package", "where_used", "preview", "preview_bad", "activate"}
ODataOps == {"business_partner"}
Statuses == {200, 401, 403, 404, 500}
Timeout == IF backend = "adt" THEN AdtTimeout ELSE ODataTimeout
NoToken == [life |-> 0, ttl |-> 0]
Errors == {"Forbidden", "NotFound", "Internal", "DestinationDown", "CsrfRefresh",
           "PermissionDenied", "InvalidObjectName", "DataPreviewBlocked",
           "Http", "Status", "Parse"}

SapHttpTypeOK ==
    /\ backend \in {"adt", "odata"}
    /\ auth \in {"static", "token"}
    /\ readOnly \in BOOLEAN
    /\ token \in [life : Nat, ttl : Nat]
    /\ csrf \in 0..MaxSession /\ session \in 1..MaxSession
    /\ hpc \in [Requests -> {"idle", "auth", "token", "store", "http", "reply", "done"}]
    /\ op \in [Requests -> AdtOps \cup ODataOps \cup {"none"}]
    /\ phase \in [Requests -> {"main", "csrf", "read"}]
    /\ bearer \in [Requests -> Nat]
    /\ grant \in [Requests -> Nat]
    /\ held \in [Requests -> 0..MaxSession]
    /\ reply \in [Requests -> Statuses \cup {0}]
    /\ age \in [Requests -> 0..Timeout]
    /\ outcome \in [Requests -> Errors \cup {"none", "ok", "empty", "not_activated"}]
    /\ refused \subseteq Requests

SapHttpInit ==
    /\ auth \in {"static", "token"}
    /\ \/ backend = "adt" /\ readOnly \in BOOLEAN
       \/ backend = "odata" /\ readOnly = TRUE
    /\ token = NoToken
    /\ csrf = 0
    /\ session = 1
    /\ hpc = [r \in Requests |-> "idle"]
    /\ op = [r \in Requests |-> "none"]
    /\ phase = [r \in Requests |-> "main"]
    /\ bearer = [r \in Requests |-> 0]
    /\ grant = [r \in Requests |-> 0]
    /\ held = [r \in Requests |-> 0]
    /\ reply = [r \in Requests |-> 0]
    /\ age = [r \in Requests |-> 0]
    /\ outcome = [r \in Requests |-> "none"]
    /\ refused = {}

-----------------------------------------------------------------------------

\* The request is over; what it still carried is dropped.
Return(r, res) ==
    /\ hpc' = [hpc EXCEPT ![r] = "done"]
    /\ outcome' = [outcome EXCEPT ![r] = res]
    /\ age' = [age EXCEPT ![r] = 0]
    /\ bearer' = [bearer EXCEPT ![r] = 0]
    /\ grant' = [grant EXCEPT ![r] = 0]
    /\ held' = [held EXCEPT ![r] = 0]
    /\ reply' = [reply EXCEPT ![r] = 0]

\* What is refused before anything is sent: a write in read-only mode, a row
\* count outside 1..MAX_TABLE_ROWS.
Precheck(o) ==
    CASE o = "activate" /\ readOnly -> "PermissionDenied"
      [] o = "preview_bad"          -> "InvalidObjectName"
      [] OTHER                      -> "none"

Begin(r, o) ==
    /\ hpc[r] = "idle"
    /\ o \in IF backend = "adt" THEN AdtOps ELSE ODataOps
    /\ op' = [op EXCEPT ![r] = o]
    /\ \/ /\ Precheck(o) # "none"
          /\ Return(r, Precheck(o))
          /\ UNCHANGED phase
       \/ /\ Precheck(o) = "none"
          /\ hpc' = [hpc EXCEPT ![r] = "auth"]
          /\ phase' = [phase EXCEPT ![r] = IF o = "activate" THEN "csrf" ELSE "main"]
          /\ UNCHANGED <<bearer, grant, held, reply, age, outcome>>
    /\ UNCHANGED <<configVars, token, csrf, session, refused>>

\* Mutant: the cached token is used as long as there is one.
ResolveAuthAnyAge(r) ==
    /\ hpc[r] = "auth"
    /\ \/ /\ auth # "token" \/ token # NoToken
          /\ hpc' = [hpc EXCEPT ![r] = "http"]
          /\ bearer' = [bearer EXCEPT ![r] = token.life]
       \/ /\ auth = "token" /\ token = NoToken
          /\ hpc' = [hpc EXCEPT ![r] = "token"]
          /\ UNCHANGED bearer
    /\ UNCHANGED <<configVars, token, csrf, session, op, phase, grant, held, reply, age,
                   outcome, refused>>

\* resolve_auth_header, apply_auth: the cached token while its ttl lasts.
ResolveAuth(r) ==
    /\ hpc[r] = "auth"
    /\ \/ /\ auth # "token" \/ token.ttl > 0
          /\ hpc' = [hpc EXCEPT ![r] = "http"]
          /\ bearer' = [bearer EXCEPT ![r] = token.life]
       \/ /\ auth = "token" /\ token.ttl = 0
          /\ hpc' = [hpc EXCEPT ![r] = "token"]
          /\ UNCHANGED bearer
    /\ UNCHANGED <<configVars, token, csrf, session, op, phase, grant, held, reply, age,
                   outcome, refused>>

\* What a token request that brings no token returns.
TokenErrors ==
    IF backend = "odata" THEN {"Status", "Parse", "Http"}
                         ELSE {"Forbidden", "Internal", "DestinationDown"}

TokenRefused(r) ==
    /\ hpc[r] = "token"
    /\ \E res \in TokenErrors : Return(r, res)
    /\ UNCHANGED <<configVars, token, csrf, session, op, phase, refused>>

TokenIssued(r, e) ==
    /\ hpc[r] = "token"
    /\ hpc' = [hpc EXCEPT ![r] = "store"]
    /\ bearer' = [bearer EXCEPT ![r] = e]
    /\ grant' = [grant EXCEPT ![r] = e]
    /\ UNCHANGED <<configVars, token, csrf, session, op, phase, held, reply, age, outcome,
                   refused>>

\* expires_in.saturating_sub(60).max(1)
Ttl(e) == IF e > Margin THEN e - Margin ELSE 1

\* Mutant: the token is kept until the moment it expires.
StoreTokenForLife(r) ==
    /\ hpc[r] = "store"
    /\ token' = [life |-> bearer[r], ttl |-> grant[r]]
    /\ hpc' = [hpc EXCEPT ![r] = "http"]
    /\ grant' = [grant EXCEPT ![r] = 0]
    /\ age' = [age EXCEPT ![r] = 0]
    /\ UNCHANGED <<configVars, csrf, session, op, phase, bearer, held, reply, outcome, refused>>

\* The answer is read and the token kept: last writer wins.  The request
\* itself is sent next.
StoreToken(r) ==
    /\ hpc[r] = "store"
    /\ token' = [life |-> bearer[r], ttl |-> Ttl(grant[r])]
    /\ hpc' = [hpc EXCEPT ![r] = "http"]
    /\ grant' = [grant EXCEPT ![r] = 0]
    /\ age' = [age EXCEPT ![r] = 0]
    /\ UNCHANGED <<configVars, csrf, session, op, phase, bearer, held, reply, outcome, refused>>

\* SAP's side: an expired bearer token is 401; a POST with the CSRF token of
\* another session fails, with 403 if for that reason.  Otherwise the status
\* is SAP's own affair, and 200 does not say that an object is active: activate
\* does not read the body.
Arrive(r, status) ==
    /\ hpc[r] = "http"
    /\ auth = "token" /\ bearer[r] = 0 => status = 401
    /\ LET stale == op[r] = "activate" /\ phase[r] = "main" /\ held[r] # session IN
       /\ stale => status # 200
       /\ refused' = IF stale /\ status = 403 THEN refused \cup {r} ELSE refused
    /\ reply' = [reply EXCEPT ![r] = status]
    \* a GET may bring a CSRF token, asked for or not and with any status
    /\ \E fresh \in {0, session} :
          /\ fresh # 0 => op[r] = "fetch" \/ phase[r] = "csrf"
          /\ held' = [held EXCEPT ![r] = fresh]
    /\ hpc' = [hpc EXCEPT ![r] = "reply"]
    /\ bearer' = [bearer EXCEPT ![r] = 0]
    /\ age' = [age EXCEPT ![r] = 0]
    /\ UNCHANGED <<configVars, token, csrf, session, op, phase, grant, outcome>>

\* The request or its answer is lost, or the timeout fires first.
Lost(r) ==
    /\ hpc[r] \in {"http", "reply"}
    /\ Return(r, IF backend = "odata" THEN "Http" ELSE "DestinationDown")
    /\ UNCHANGED <<configVars, token, csrf, session, op, phase, refused>>

\* What the status of the answer is turned into, operation by operation.
Outcome(o, status) ==
    CASE o = "activate" -> IF status = 200 THEN "ok" ELSE "not_activated"
      [] status = 200 -> "ok"
      [] o = "business_partner" -> "Status"
      [] o = "where_used" -> IF status = 404 THEN "empty" ELSE "Internal"
      [] o = "preview" -> IF status = 403 THEN "DataPreviewBlocked" ELSE "Internal"
      [] status \in {401, 403} -> "Forbidden"
      [] status = 404 -> "NotFound"
      [] OTHER -> "Internal"

\* fetch_text: keep the CSRF token if there is one, then look at the status.
ReceiveMain(r) ==
    /\ hpc[r] = "reply" /\ phase[r] = "main"
    /\ csrf' = IF held[r] # 0 THEN held[r] ELSE csrf
    /\ Return(r, Outcome(op[r], reply[r]))
    /\ UNCHANGED <<configVars, token, session, op, phase, refused>>

\* refresh_csrf: without a token in the answer the activation ends here.
ReceiveCsrf(r) ==
    /\ hpc[r] = "reply" /\ phase[r] = "csrf"
    /\ \/ /\ held[r] = 0
          /\ Return(r, "CsrfRefresh")
          /\ UNCHANGED <<csrf, phase>>
       \/ /\ held[r] # 0
          /\ csrf' = held[r]
          /\ phase' = [phase EXCEPT ![r] = "read"]
          /\ hpc' = [hpc EXCEPT ![r] = "auth"]
          /\ held' = [held EXCEPT ![r] = 0]
          /\ reply' = [reply EXCEPT ![r] = 0]
          /\ age' = [age EXCEPT ![r] = 0]
          /\ UNCHANGED <<bearer, grant, outcome>>
    /\ UNCHANGED <<configVars, token, session, op, refused>>

\* activate reads the cached CSRF token back: another request may have
\* replaced it by then.
ReadCsrf(r) ==
    /\ hpc[r] = "auth" /\ phase[r] = "read"
    /\ held' = [held EXCEPT ![r] = csrf]
    /\ phase' = [phase EXCEPT ![r] = "main"]
    /\ UNCHANGED <<configVars, token, csrf, session, hpc, op, bearer, grant, reply, age,
                   outcome, refused>>

\* The SAP session ends and a new one begins.
SessionChange ==
    /\ backend = "adt" /\ session < MaxSession
    /\ session' = session + 1
    /\ UNCHANGED <<configVars, token, csrf, requestVars, refused>>

Left(n) == IF n > 0 THEN n - 1 ELSE 0
Exchanging == {r \in Requests : hpc[r] \in {"token", "store", "http"}}

\* Time passes, which matters where a token does; no exchange outlives its
\* timeout.
Pass ==
    /\ auth = "token"
    /\ token.life > 0 \/ Exchanging # {}
    /\ \A r \in Exchanging : age[r] < Timeout
    /\ token' = [life |-> Left(token.life), ttl |-> Left(token.ttl)]
    /\ bearer' = [r \in Requests |-> Left(bearer[r])]
    /\ age' = [r \in Requests |-> IF r \in Exchanging THEN age[r] + 1 ELSE age[r]]
    /\ UNCHANGED <<configVars, csrf, session, hpc, op, phase, grant, held, reply, outcome, refused>>

RequestStep(r) ==
    \/ \E o \in AdtOps \cup ODataOps : Begin(r, o)
    \/ phase[r] # "read" /\ ResolveAuth(r)
    \/ TokenRefused(r) \/ \E e \in ExpiresIn : TokenIssued(r, e)
    \/ StoreToken(r)
    \/ \E status \in Statuses : Arrive(r, status)
    \/ Lost(r) \/ ReceiveMain(r) \/ ReceiveCsrf(r) \/ ReadCsrf(r)

SapHttpNext == SessionChange \/ Pass \/ \E r \in Requests : RequestStep(r)

SapHttpSpec == SapHttpInit /\ [][SapHttpNext]_hvars

-----------------------------------------------------------------------------

\* A token the cache still hands out is alive at its issuer, whoever stored
\* it and in whatever order the answers came: the margin of 60 s exceeds the
\* timeout of the exchange that brought it (http.rs:203-208, odata.rs:331-338).
CachedTokenIsAlive == token.ttl > 0 => token.life > 0

\* An OData request never reaches SAP with a token that has expired on the
\* way: the margin covers two timeouts of 15 s (odata.rs:278-287).  The ADT
\* client, with 45 s, has no such margin.
NoExpiredTokenArrives ==
    backend = "odata" /\ auth = "token" => \A r \in Requests : hpc[r] = "http" => bearer[r] > 0

\* An activation that SAP refuses because its CSRF token is of another session
\* is tried again with a new token, and not returned as an object that could
\* not be activated: "On a 403 with `x-csrf-token: required`, refresh and
\* retry" (docs/SAP_CORRECTNESS.md:158).  activate returns after its one POST
\* (http.rs:435-475).
StaleCsrfRetried == \A r \in refused : outcome[r] # "not_activated"
=============================================================================
