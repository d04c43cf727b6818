------------------------------ MODULE ApiClient ------------------------------
(***************************************************************************)
(* How one page of the browser (web/src/api/client.ts, api/largeFiles.ts)  *)
(* asks the service (api_app.py) to do something: every such request needs *)
(* the token of the running service, which only the answer of the health   *)
(* request brings, as a cookie; a service that was restarted refuses it.   *)
(*                                                                         *)
(* kind of a request: "plain" and "protected" go through                   *)
(* fetchStateChanging, "protected" with an expected recipient fingerprint; *)
(* "create", "start" (with such a fingerprint) and "status" are those of   *)
(* large-file jobs.  What an asynchronous function does between two awaits *)
(* is one step.  A service that does not support fingerprints, an older    *)
(* one, ignores the one in a request.  Definitions that no other one uses  *)
(* are faulty forms of the one after them.                                 *)
(***************************************************************************)
EXTENDS Naturals, Sequences

CONSTANTS
    Kinds,              \* kinds of requests the page makes
    MaxRequests,        \* bounds: requests of the page, restarts of the service
    MaxRestarts

ASSUME ApiAssumption ==
    /\ Kinds \subseteq {"plain", "protected", "create", "start", "status"}
    /\ MaxRequests \in Nat /\ MaxRestarts \in Nat

Protected == {"protected", "start"}
Replayed == {"plain", "protected", "status"}

VARIABLES
    api,        \* the page: loaded (healthLoaded), health (healthRequest), jar, req
    service,    \* the running process: gen, supports
    configured, \* the token is set in the environment, every process has the same
    wire,       \* wire[r]: the tokens of the copies of request r on their way
    handled,    \* history: handled[r], for each time a handler had r, if it supports
    elsewhere   \* history: another page renewed the cookie

apiVars == <<api, service, configured, wire, handled, elsewhere>>

NoToken == 0
Token == IF configured THEN 1 ELSE service.gen

NoHealth == [at |-> "none", supports |-> FALSE]

ApiInit ==
    /\ api = [loaded |-> FALSE, health |-> NoHealth, jar |-> NoToken, req |-> <<>>]
    /\ service \in [gen : {1}, supports : BOOLEAN]
    /\ configured \in BOOLEAN
    /\ wire = <<>> /\ handled = <<>> /\ elsewhere = FALSE

-----------------------------------------------------------------------------
\* What a page does to its state; a is the state it does it to.
Requests(a) == DOMAIN a.req
Done(req) == req.at = "done"
Awaits(req) == req.at \in {"health", "renew"}

Finished(req, outcome) == [req EXCEPT !.at = "done", !.outcome = outcome]

\* fetchHealth: the functions that ask meanwhile share one request.
AsksHealth(a) == [a EXCEPT !.health = IF @.at = "none" THEN [@ EXCEPT !.at = "sent"] ELSE @]

\* A request starts: with the health request, or at once when that is not needed.
NeedsHealth(a, kind) == kind \in Protected \cup {"create"} \/ (kind = "plain" /\ ~a.loaded)

Started(a, kind) ==
    LET new(at) == [kind |-> kind, at |-> at, aborted |-> FALSE, answer |-> "none",
                    outcome |-> "none"]
    IN IF NeedsHealth(a, kind)
       THEN AsksHealth([a EXCEPT !.req = Append(@, new("health"))])
       ELSE [a EXCEPT !.req = Append(@, new("fetch"))]

\* The copies a step of the page sends: of the requests that begin to be fetched.
Sent(a, b) ==
    [r \in Requests(b) |->
        IF /\ b.req[r].at \in {"fetch", "refetch"}
           /\ r \notin Requests(a) \/ a.req[r].at # b.req[r].at
        THEN {b.jar} ELSE IF r \in Requests(a) THEN wire[r] ELSE {}]

Page(b) ==
    /\ api' = b
    /\ wire' = Sent(api, b)
    /\ handled' = handled \o [i \in 1..(Len(b.req) - Len(handled)) |-> <<>>]
    /\ UNCHANGED <<service, configured, elsewhere>>

\* An abort ends a fetch at once, but not the wait for the health request.
Aborted(a, r) ==
    [a EXCEPT !.req[r] =
        LET aborted == [@ EXCEPT !.aborted = TRUE]
        IN IF @.at \in {"fetch", "refetch"} THEN Finished(aborted, "aborted") ELSE aborted]

\* assertRecipientFingerprintSupport
UnsupportedAtFirst(req, health) == req.at = "health" /\ req.kind \in Protected /\ ~health.supports
Unsupported(req, health) == req.kind \in Protected /\ ~health.supports

\* A function goes on when the health request it awaits has an outcome.
Continued(req, health) ==
    IF health.at = "failed" THEN Finished(req, "unreachable")
    ELSE IF req.aborted THEN Finished(req, "aborted")
    ELSE IF Unsupported(req, health) THEN Finished(req, "unsupported")
    ELSE [req EXCEPT !.at = IF @ = "health" THEN "fetch" ELSE "refetch", !.answer = "none"]

Loads(req, next) ==
    /\ req.at = "health"
    /\ req.kind = "plain" \/ (req.kind = "protected" /\ next.at = "fetch")

HealthResolves ==
    /\ api.health.at \in {"answered", "failed"}
    /\ LET next(r) == IF Awaits(api.req[r]) THEN Continued(api.req[r], api.health) ELSE api.req[r]
       IN Page([api EXCEPT !.health = NoHealth,
                           !.loaded = @ \/ /\ api.health.at = "answered"
                                           /\ \E r \in Requests(api) : Loads(api.req[r], next(r)),
                           !.req = [r \in Requests(api) |-> next(r)]])

\* rejectedApiToken: the guard refused the request, no handler had it.
ReplaysLost(req) == req.kind \in Replayed /\ req.at = "fetch" /\ req.answer \in {"rejected", "lost"}
Replays(req) == req.kind \in Replayed /\ req.at = "fetch" /\ req.answer = "rejected"

Returned == [rejected |-> "forbidden", lost |-> "unreachable", ok |-> "ok"]

FetchReturns(r) ==
    /\ api.req[r].at \in {"fetch", "refetch"}
    /\ api.req[r].answer # "none"
    /\ IF Replays(api.req[r])
       THEN Page(AsksHealth([api EXCEPT !.req[r].at = "renew"]))
       ELSE Page([api EXCEPT !.req[r] = Finished(@, Returned[@.answer])])

-----------------------------------------------------------------------------
\* The service.  _validate_request_authorities: whether the Origin header proves the
\* page to be one of the service's own, or what refuses the request.
Authorities(host, origins) ==
    IF host # "own" THEN [origin |-> FALSE, refused |-> "forbidden_host"]
    ELSE IF origins = <<>> THEN [origin |-> FALSE, refused |-> "none"]
    ELSE IF origins = <<"own">> THEN [origin |-> TRUE, refused |-> "none"]
    ELSE [origin |-> FALSE, refused |-> "forbidden_origin"]

\* LocalApiGuardMiddleware: a header is believed alone, also if it is wrong; a cookie
\* only with a proven origin.  headers and cookies are what the request has of each.
Guard(host, origins, headers, cookies) ==
    LET authorities == Authorities(host, origins)
        believed == IF headers # <<>> THEN headers
                    ELSE IF authorities.origin THEN cookies ELSE <<>>
    IN IF authorities.refused # "none" THEN authorities.refused
       ELSE IF believed # <<Token>> THEN "missing_api_token"
       ELSE "none"

\* A page's request has one Host, its Origin, no header token and at most one cookie.
FromPage(token) ==
    Guard("own", <<"own">>, <<>>, IF token = NoToken THEN <<>> ELSE <<token>>)

\* Nobody waits for the answer of an aborted request.
Answered(r, answer) ==
    api' = IF Done(api.req[r]) THEN api
           ELSE [api EXCEPT !.req[r].answer = answer]

\* The answer, or the end of it, may be lost.
Handle(r) ==
    \E token \in wire[r] :
        /\ wire' = [wire EXCEPT ![r] = {}]
        /\ IF FromPage(token) = "none"
           THEN /\ handled' = [handled EXCEPT ![r] = Append(@, service.supports)]
                /\ Answered(r, "ok") \/ Answered(r, "lost")
           ELSE Answered(r, "rejected") /\ UNCHANGED handled
        /\ UNCHANGED <<service, configured, elsewhere>>

\* The connection ends before the request is through, or before its refusal is.
LoseRequest(r) ==
    /\ wire[r] # {}
    /\ wire' = [wire EXCEPT ![r] = {}]
    /\ Answered(r, "lost")
    /\ UNCHANGED <<service, configured, handled, elsewhere>>

\* health: the cookie comes with the headers, the flag with the body, which may be lost.
AnswerHealth ==
    /\ api.health.at = "sent"
    /\ \E at \in {"answered", "failed"} :
          api' = [api EXCEPT !.jar = Token,
                    !.health = [at |-> at, supports |-> at = "answered" /\ service.supports]]
    /\ UNCHANGED <<service, configured, wire, handled, elsewhere>>

LoseHealth ==
    /\ api.health.at = "sent"
    /\ api' = [api EXCEPT !.health = [at |-> "failed", supports |-> FALSE]]
    /\ UNCHANGED <<service, configured, wire, handled, elsewhere>>

\* Another process takes over, of a newer or an older version.
Restart ==
    /\ service.gen <= MaxRestarts
    /\ service' \in [gen : {service.gen + 1}, supports : BOOLEAN]
    /\ UNCHANGED <<api, configured, wire, handled, elsewhere>>

\* Another page of the browser asks for the service's health, once.
OtherPage ==
    /\ ~elsewhere /\ api.jar # Token
    /\ api' = [api EXCEPT !.jar = Token]
    /\ elsewhere' = TRUE
    /\ UNCHANGED <<service, configured, wire, handled>>

ApiNext ==
    \/ HealthResolves \/ AnswerHealth \/ LoseHealth \/ Restart \/ OtherPage
    \/ \E r \in Requests(api) : FetchReturns(r) \/ Handle(r) \/ LoseRequest(r)

-----------------------------------------------------------------------------
\* However often the service restarts and connections break, a handler has a request at
\* most once: what is sent again was refused before (client.ts:58-67, largeFiles.ts:115).
HandledOnce == \A r \in Requests(api) : Len(handled[r]) <= 1

\* A request that expects a recipient's fingerprint comes only to a handler that checks
\* it, whatever version the service is restarted with: the process that answered the
\* health request is the one that accepts its cookie (client.ts:50-65, largeFiles.ts:
\* 102-107, docs/API.md:70).  This rests on tokens that differ, and on no other page
\* fetching the cookie of a later process.
ExpectationEnforced ==
    configured \/ elsewhere \/
    \A r \in Requests(api) : api.req[r].kind \in Protected => FALSE \notin {handled[r][i] : i \in DOMAIN handled[r]}
=============================================================================
