---------------------------- MODULE HealthServer ----------------------------
(***************************************************************************)
(* The daemon of apps/cli: createBootstrap with the enterprise gate,       *)
(* startDaemon, the health server's request handler (body, authentication, *)
(* permission, route), and the two shutdowns that one signal starts:       *)
(* cleanup of bootstrap.ts and gracefulStop of serve.ts.  Neither waits    *)
(* for the other, and the first to finish ends the process.                *)
(* A request moves from await to await.  Of an audit event is kept only    *)
(* whether it was recorded before the first signal; the sink's buffer is   *)
(* below its flush size (AuditChain models the sinks).  The rate limit     *)
(* answers 429 at will (RateLimits models it).                             *)
(***************************************************************************)
EXTENDS Rbac, Naturals

CONSTANTS
    Requests,      \* requests that may arrive
    Inputs,        \* what each may ask for: [url, token]; url.exact is FALSE of
                   \* a URL with a query or a trailing slash
    Environments   \* environments the process is started in

Signals  == {"SIGTERM", "SIGINT"}
Flushers == Signals \cup {"cleanup"}

Environment ==
    [enterprise : BOOLEAN, auth : SUBSET {"oidc", "key"}, audience : BOOLEAN,
     audit : {"file", "http", "memory", "syslog"}, collector : {"up", "hangs"},
     policy : {"none", "bad", "good", "service"}, sqlite : BOOLEAN,
     requireAuth : BOOLEAN,   \* FALSE also where it is not set
     fallback : BOOLEAN,      \* set by an embedding host only, never by startDaemon
     healthy : BOOLEAN]

ASSUME DaemonAssumption ==
    /\ \A r \in Requests : \A i \in Inputs[r] : i.url.exact \in BOOLEAN /\ i.token \in Tokens
    /\ Environments \subseteq Environment

VARIABLES
    env,           \* the environment and flags of the process
    proc,          \* where the process is
    listening,     \* the server accepts connections
    ready,         \* _ready
    shuttingDown,  \* HealthServer.shuttingDown
    drainResolve,  \* the gracefulStop whose promise drainResolve resolves
    req,           \* the requests and where they are
    at,            \* where each gracefulStop, and cleanup, is
    buffered,      \* the sink's buffer has events of before, of after the signal
    sending,       \* those of a flush that waits for its answer
    auditFailed,   \* history: a flush has failed
    served         \* history: the last answer 200, as {<<token, handler>>}

daemonVars == <<env, proc, listening, ready, shuttingDown, drainResolve, req,
                at, buffered, sending, auditFailed, served>>
serverVars == <<listening, ready, shuttingDown, drainResolve>>
sinkVars   == <<buffered, sending, auditFailed>>

Booting == {"gate", "policy", "audit", "model", "memory"}
Alive   == Booting \cup {"bootstrapped", "serving"}

NoStop   == "none"
Idle     == [at |-> "idle"]
Done     == [at |-> "done"]
InFlight == {r \in Requests : req[r].at \in {"body", "auth"}}

DaemonInit ==
    /\ env \in Environments
    /\ proc = "gate"
    /\ listening = FALSE
    /\ ready = FALSE
    /\ shuttingDown = FALSE
    /\ drainResolve = NoStop
    /\ req = [r \in Requests |-> Idle]
    /\ at = [f \in Flushers |-> "idle"]
    /\ buffered = {}
    /\ sending = [f \in Flushers |-> {}]
    /\ auditFailed = FALSE
    /\ served = {}
-----------------------------------------------------------------------------
(* The audit sink *)

Signalled == \E f \in Flushers : at[f] # "idle"

Recording ==
    /\ buffered' = buffered \cup {IF Signalled THEN "late" ELSE "early"}
    /\ UNCHANGED <<sending, auditFailed>>

\* What flush makes of the buffer b over http: nothing to do, or a POST that
\* is awaited.
Post(f, b, await, next) ==
    /\ at' = [at EXCEPT ![f] = IF b = {} THEN next ELSE await]
    /\ sending' = [sending EXCEPT ![f] = b]
    /\ buffered' = {}

\* flush and close, which flushes again; where no POST is awaited no other
\* step comes in between.  A file takes the buffer or fails, and close tries
\* again; memory has nothing to do.
FlushAndClose_WhenFull(f, next) ==
    /\ at[f] = "flush"
    /\ at' = [at EXCEPT ![f] = next]
    /\ UNCHANGED sinkVars

FlushAndClose(f, next) ==
    /\ at[f] = "flush"
    /\ \/ /\ env.audit = "file"
          /\ at' = [at EXCEPT ![f] = next]
          /\ \/ buffered' = {} /\ UNCHANGED auditFailed
             \/ buffered' \in {buffered, {}} /\ auditFailed' = TRUE
          /\ UNCHANGED sending
       \/ /\ env.audit = "http"
          /\ Post(f, buffered, "flushing", next)
          /\ UNCHANGED auditFailed
       \/ /\ env.audit \in {"memory", "syslog"}
          /\ at' = [at EXCEPT ![f] = next]
          /\ UNCHANGED sinkVars

\* The end of a POST: accepted, answered with an error (the batch is gone), or
\* given up by AbortSignal.timeout and back in the buffer.  After flush comes
\* close with a POST of its own, after close the next step.
Answered_NoTimeout(f, next) ==
    /\ at[f] \in {"flushing", "closing"}
    /\ env.collector = "up"
    /\ auditFailed' \in {auditFailed, TRUE}
    /\ Post(f, buffered, "closing", next)

Answered(f, next) ==
    LET rest == IF env.collector = "up" THEN buffered ELSE buffered \cup sending[f] IN
    /\ at[f] \in {"flushing", "closing"}
    /\ auditFailed' \in (IF env.collector = "up" THEN {auditFailed, TRUE} ELSE {TRUE})
    /\ IF at[f] = "flushing" THEN Post(f, rest, "closing", next)
       ELSE /\ at' = [at EXCEPT ![f] = next]
            /\ sending' = [sending EXCEPT ![f] = {}]
            /\ buffered' = rest
-----------------------------------------------------------------------------
(* createBootstrap *)

Untouched == UNCHANGED <<env, serverVars, req, at, served>>

\* validateEnterpriseMode: the critical controls.  Syslog counts as an audit
\* sink, a policy service as a policy, an issuer without audience as auth.
validateEnterpriseMode ==
    /\ env.auth # {}
    /\ env.audit # "memory"
    /\ env.policy # "none"
    /\ env.sqlite

\* requireEnterpriseOrDev: nothing is required in developer mode.
requireEnterpriseOrDev ==
    /\ proc = "gate"
    /\ proc' = IF env.enterprise /\ ~validateEnterpriseMode THEN "refused" ELSE "policy"
    /\ UNCHANGED sinkVars /\ Untouched

\* The policy file: required and valid in enterprise mode, else default-deny.
LoadPolicy ==
    /\ proc = "policy"
    /\ proc' = IF env.enterprise /\ env.policy # "good" THEN "refused" ELSE "audit"
    /\ UNCHANGED sinkVars /\ Untouched

\* A sink bootstrap does not know is refused in enterprise mode and replaced
\* by the memory sink in developer mode.
OpenAudit ==
    /\ proc = "audit"
    /\ IF env.enterprise /\ env.audit = "syslog"
       THEN proc' = "refused" /\ UNCHANGED sinkVars
       ELSE proc' = "model" /\ Recording
    /\ Untouched

\* The model configuration may be missing.
ConfigureModel ==
    /\ proc = "model"
    /\ proc' \in {"refused", "memory"}
    /\ UNCHANGED sinkVars /\ Untouched

\* The tenant's memory store may fail to open.  The last step registers
\* cleanup for both signals.
OpenMemory ==
    /\ proc = "memory"
    /\ proc' \in {"refused", "bootstrapped"}
    /\ UNCHANGED sinkVars /\ Untouched

\* startDaemon: the server listens or cannot, the startup checks decide
\* whether it is ready, gracefulStop is registered for both signals.
startDaemon ==
    /\ proc = "bootstrapped"
    /\ Recording
    /\ \/ proc' = "refused" /\ UNCHANGED <<listening, ready>>
       \/ proc' = "serving" /\ listening' = TRUE /\ ready' = env.healthy
    /\ UNCHANGED <<env, shuttingDown, drainResolve, req, at, served>>
-----------------------------------------------------------------------------
(* The request handler *)

\* The end of request r and its finally block: the last request of a draining
\* server resolves drainResolve, and that stop closes the server.
Ends(r) ==
    LET last == /\ shuttingDown /\ InFlight = {r}
                /\ drainResolve # NoStop /\ at[drainResolve] = "draining" IN
    /\ req' = [req EXCEPT ![r] = Done]
    /\ at' = IF last THEN [at EXCEPT ![drainResolve] = "closing server"] ELSE at
    /\ listening' = (listening /\ ~last)
    /\ UNCHANGED <<env, proc, ready, shuttingDown, drainResolve>>

Refused(r) == Ends(r) /\ UNCHANGED <<sinkVars, served>>
Denied(r)  == Ends(r) /\ Recording /\ UNCHANGED served

\* A new request, up to the first await.  OPTIONS (204) and other methods
\* (405) are answered before the server looks whether it is shutting down
\* (503); none of these is in flight.
Arrive(r, input, method) ==
    /\ proc = "serving" /\ listening
    /\ req[r].at = "idle"
    /\ req' = [req EXCEPT ![r] =
                 IF method \in {"GET", "HEAD"} /\ ~shuttingDown
                 THEN [at |-> "body", url |-> input.url, token |-> input.token]
                 ELSE Done]
    /\ UNCHANGED <<env, proc, serverVars, at, sinkVars, served>>

\* consumeAndLimitBody: the body ends, or is too large (413), or its stream
\* fails: a client that is gone, or the server's own request timeout.
BodyEnds(r) ==
    /\ proc = "serving"
    /\ req[r].at = "body"
    /\ req' = [req EXCEPT ![r].at = "auth"]
    /\ UNCHANGED <<env, proc, serverVars, at, sinkVars, served>>

BodyTooLarge(r) ==
    /\ proc = "serving"
    /\ req[r].at = "body"
    /\ Refused(r)

RequestTimesOut(r) ==
    /\ proc = "serving"
    /\ req[r].at = "body"
    /\ Refused(r)
-----------------------------------------------------------------------------
(* resolveActor *)

\* The key is read in every mode.  The issuer comes from the enterprise
\* configuration, which developer mode leaves empty whatever the environment
\* says, and startDaemon needs its audience too.
HasKey  == "key" \in env.auth
HasOidc == env.enterprise /\ "oidc" \in env.auth /\ env.audience

\* What a step of resolveActor may give: an actor, a denial that is audited,
\* or one that is not.  keys: the issuer's keys could be fetched.
NoActor == Actor("none", "denied")
Nobody  == Actor("none", "unknown")

ByKey(token) == IF apiKeyMatches(token) THEN actorFromApiKey ELSE NoActor

\* Without any provider everyone is the internal admin, unless auth is
\* required.  A JWT comes first; the static key is tried where it is the only
\* provider, or after a JWT that failed if the fallback is allowed.
resolveActor_AlwaysFallback(token, keys) ==
    CASE ~HasKey /\ ~HasOidc -> IF env.requireAuth THEN NoActor ELSE Actor("admin", "internal")
      [] OTHER ->
           CASE token = NoToken                    -> Nobody
             [] HasOidc /\ verifyJwt(token, keys) -> actorFromJwt(token)
             [] OTHER                              -> IF HasKey THEN ByKey(token) ELSE Nobody

resolveActor(token, keys) ==
    CASE ~HasKey /\ ~HasOidc -> IF env.requireAuth THEN NoActor ELSE Actor("admin", "internal")
      [] OTHER ->
           CASE token = NoToken                    -> Nobody
             [] HasOidc /\ verifyJwt(token, keys) -> actorFromJwt(token)
             [] token # NoToken /\ HasOidc /\ ~verifyJwt(token, keys) /\ ~env.fallback -> NoActor
             [] OTHER                              -> IF HasKey THEN ByKey(token) ELSE Nobody
-----------------------------------------------------------------------------
(* checkPermission and the routes *)

Probes  == {"/healthz", "/readyz", "/v1/healthz", "/v1/readyz"}
Metrics == {"/metrics", "/metrics/prometheus", "/v1/metrics", "/v1/metrics/json"}
V1      == {"/v1/healthz", "/v1/readyz", "/v1/metrics", "/v1/metrics/json", "/v1/openapi",
            "/v1/policy", "/v1/audit", "/v1/tenants", "/v1/quotas", "/v1/other"}

ENDPOINT_PERMISSIONS ==
    [p \in (Probes \cup Metrics \cup V1 \cup {"/metrics/json"}) \ {"/v1/other"} |->
        CASE p \in Probes                       -> "operator:health"
          [] p = "/v1/policy"                   -> "admin:policy"
          [] p = "/v1/audit"                    -> "admin:audit_export"
          [] p \in {"/v1/tenants", "/v1/quotas"} -> "admin:tenant"
          [] OTHER                              -> "viewer:metrics"]

\* The permission is looked up for the path without query and trailing slash;
\* the route is chosen by the URL as it came.
normalizeUrl(url) == url.path

Route(url) ==
    CASE ~url.exact                                           -> "none"
      [] url.path \in {"/healthz", "/v1/healthz"}             -> "healthz"
      [] url.path \in {"/readyz", "/v1/readyz"}               -> "readyz"
      [] url.path \in Metrics                                 -> "metrics"
      [] url.path = "/v1/policy"                              -> "policy"
      [] url.path = "/v1/audit"                               -> "audit"
      [] url.path = "/v1/tenants"                             -> "tenants"
      [] url.path = "/v1/quotas"                              -> "quotas"
      [] url.path = "/v1/openapi"                             -> "openapi"
      [] OTHER                                                -> "none"

\* A /v1 path without an entry is denied, any other one passes.
checkPermission(actor, path) ==
    IF path \in DOMAIN ENDPOINT_PERMISSIONS
    THEN authorize(actor, ENDPOINT_PERMISSIONS[path])
    ELSE path \notin V1

\* handleReadyz answers 503 unless ready; an unknown path gives 404.
Answers200(handler) ==
    /\ handler # "none"
    /\ handler = "readyz" => ready

\* From the answer about the keys to the end of the request, through the rate
\* limit (429): no await in between.  A success of auth is audited unless the
\* actor is internal.
Handle(r, keys) ==
    LET url     == req[r].url
        actor   == resolveActor(req[r].token, keys)
        audited == IF actor.authMethod = "internal" THEN UNCHANGED sinkVars ELSE Recording IN
    /\ proc = "serving"
    /\ req[r].at = "auth"
    /\ \/ actor = Nobody /\ Refused(r)
       \/ actor = NoActor /\ Denied(r)
       \/ actor \notin {Nobody, NoActor} /\ Ends(r) /\ audited /\ UNCHANGED served
       \/ actor \notin {Nobody, NoActor} /\ ~checkPermission(actor, normalizeUrl(url)) /\ Denied(r)
       \/ /\ actor \notin {Nobody, NoActor} /\ checkPermission(actor, normalizeUrl(url))
          /\ Ends(r)
          /\ audited
          /\ served' = IF Answers200(Route(url))
                       THEN {<<req[r].token, Route(url)>>} ELSE served
-----------------------------------------------------------------------------
(* Shutdown *)

\* A signal: the default action kills a process without handlers; cleanup is
\* registered first and does nothing the second time; gracefulStop is there
\* once the daemon serves.
Signal(s) ==
    /\ at[s] = "idle"
    /\ proc \in Alive
    /\ \/ /\ proc \in Booting
          /\ proc' = "killed"
          /\ UNCHANGED <<ready, at, buffered>>
       \/ /\ proc \in {"bootstrapped", "serving"}
          /\ at' = [f \in Flushers |->
                       IF (f = "cleanup" /\ at[f] = "idle") \/ (f = s /\ proc = "serving")
                       THEN "flush" ELSE at[f]]
          /\ buffered' = IF at["cleanup"] = "idle" \/ proc = "serving"
                         THEN buffered \cup {"late"} ELSE buffered
          /\ ready' = IF proc = "serving" THEN FALSE ELSE ready
          /\ UNCHANGED proc
    /\ UNCHANGED <<env, listening, shuttingDown, drainResolve, req, sending, auditFailed, served>>

\* The handlers of one signal take the same number of steps to their flush, so
\* that cleanup's, registered first, is also the first to flush.
FlushStep(f) ==
    LET next == IF f = "cleanup" THEN "persist" ELSE "stop" IN
    /\ proc \in Alive
    /\ at["cleanup"] = "flush" => f = "cleanup"
    /\ FlushAndClose(f, next) \/ Answered(f, next)
    /\ UNCHANGED <<env, proc, serverVars, req, served>>

\* HealthServer.stop: wait for the requests in flight, or the drain timeout,
\* then server.close.  A second stop takes drainResolve over.
Stop(s) ==
    /\ proc \in Alive
    /\ at[s] = "stop"
    /\ shuttingDown' = TRUE
    /\ IF InFlight = {}
       THEN /\ at' = [at EXCEPT ![s] = "closing server"]
            /\ listening' = FALSE
            /\ UNCHANGED drainResolve
       ELSE /\ at' = [at EXCEPT ![s] = "draining"]
            /\ drainResolve' = s
            /\ UNCHANGED listening
    /\ UNCHANGED <<env, proc, ready, req, sinkVars, served>>

DrainTimesOut(s) ==
    /\ proc \in Alive
    /\ at[s] = "draining"
    /\ at' = [at EXCEPT ![s] = "closing server"]
    /\ listening' = FALSE
    /\ UNCHANGED <<env, proc, ready, shuttingDown, drainResolve, req, sinkVars, served>>

\* The callback of server.close, once every connection is gone.
ServerClosed(s) ==
    /\ proc \in Alive
    /\ at[s] = "closing server"
    /\ InFlight = {}
    /\ shuttingDown' = FALSE
    /\ drainResolve' = NoStop
    /\ at' = [at EXCEPT ![s] = "bus"]
    /\ UNCHANGED <<env, proc, listening, ready, req, sinkVars, served>>

\* gracefulShutdown of the bus, or cleanup's telemetry and memory: each ends
\* (EventBus shows the first).  Then process.exit, which ends a POST of the
\* other procedure that is still under way: what is in sending is lost.
Exit(f) ==
    /\ proc \in Alive
    /\ at[f] \in {"bus", "persist"}
    /\ proc' = "exited"
    /\ UNCHANGED <<env, serverVars, req, at, sinkVars, served>>
-----------------------------------------------------------------------------
Boot == \/ requireEnterpriseOrDev \/ LoadPolicy \/ OpenAudit
        \/ ConfigureModel \/ OpenMemory \/ startDaemon

Shutdown(f) ==
    FlushStep(f) \/ Stop(f) \/ DrainTimesOut(f) \/ ServerClosed(f)
        \/ Exit(f)

DaemonNext ==
    \/ Boot
    \/ \E s \in Signals : Signal(s)
    \/ \E f \in Flushers : Shutdown(f)
    \/ \E r \in Requests :
          \/ \E i \in Inputs[r], method \in {"GET", "OPTIONS", "POST"} : Arrive(r, i, method)
          \/ BodyEnds(r) \/ BodyTooLarge(r) \/ RequestTimesOut(r)
          \/ \E keys \in BOOLEAN : Handle(r, keys)

DaemonSpec == DaemonInit /\ [][DaemonNext]_daemonVars

\* Timers and answers come; a client need not send anything.
DaemonFairness ==
    /\ \A f \in Flushers : WF_daemonVars(Shutdown(f))
    /\ \A r \in Requests :
          /\ WF_daemonVars(RequestTimesOut(r))
          /\ WF_daemonVars(\E keys \in BOOLEAN : Handle(r, keys))
-----------------------------------------------------------------------------
DaemonTypeOK ==
    /\ env \in Environments
    /\ proc \in Alive \cup {"refused", "killed", "exited"}
    /\ listening \in BOOLEAN /\ ready \in BOOLEAN /\ shuttingDown \in BOOLEAN
    /\ drainResolve \in Signals \cup {NoStop}
    /\ \A f \in Flushers : sending[f] # {} => at[f] \in {"flushing", "closing"}
    /\ drainResolve # NoStop => shuttingDown
    /\ proc \notin {"serving", "exited"} => InFlight = {} /\ ~listening

\* A daemon without any provider answers everybody as the internal admin.
Open == ~HasKey /\ ~HasOidc /\ ~env.requireAuth

\* Who may have an answer 200 of which handler, told from the token alone.
Entitled(token, handler) ==
    LET keyHolds == token = KeyToken /\ HasKey /\ (HasOidc => env.fallback)
        groups   == IF HasOidc /\ token.kind = "jwt" THEN token.groups ELSE {}
        member   == HasOidc /\ token.kind = "jwt"
    IN  \/ /\ handler \in {"policy", "audit", "tenants", "quotas"}
           /\ "admins" \in groups
        \/ /\ handler \in {"healthz", "readyz"}
           /\ keyHolds \/ groups \cap {"admins", "operators"} # {}
        \/ /\ handler \in {"metrics", "openapi"}
           /\ keyHolds \/ member

\* A daemon with a provider, or one that requires authentication, gave an
\* answer 200 only to a request whose token entitles it to that handler, across
\* the environments the gate lets through, the awaits of the handler and the
\* two ways a URL is read.  An enterprise daemon that answers anything runs a
\* valid policy and a durable audit sink, and it is open to everybody only when
\* it was given an issuer without audience and neither key nor requireAuth:
\* requireAuth is false by default in enterprise mode too (health-server.ts:88),
\* although health-server-shared.ts:35 says true.
ServedIsPermitted ==
    /\ ~Open => \A x \in served : Entitled(x[1], x[2])
    /\ served # {} /\ env.enterprise =>
           /\ env.policy = "good"
           /\ env.audit \in {"file", "http"}
           /\ Open => env.auth = {"oidc"} /\ ~env.audience

\* When the handlers have ended the process and no flush has failed, no audit
\* event recorded before the first signal is left in the buffer: it is in the
\* file, or the collector has answered the POST it went with.  The one event
\* that may be missing is one cleanup was still posting when a gracefulStop,
\* which does not wait for cleanup, came to its process.exit.
ShutdownKeepsAudit ==
    proc = "exited" /\ ~auditFailed /\ env.audit \in {"file", "http"} =>
        /\ "early" \notin buffered
        /\ \A f \in Flushers : "early" \in sending[f] =>
               f = "cleanup" /\ env.audit = "http" /\ \E s \in Signals : at[s] = "bus"

\* apps/cli/src/bootstrap.ts:67, of shutdown: "Call to gracefully shut down
\* telemetry and flush audit."  What was recorded before the signal is flushed
\* when the process ends, unless a flush has failed.
ShutdownFlushesAudit ==
    proc = "exited" /\ ~auditFailed /\ env.audit \in {"file", "http"} =>
        "early" \notin buffered /\ \A f \in Flushers : "early" \notin sending[f]

\* A signal ends the daemon, whatever requests and audit posts are pending
\* and however the two shutdowns and a second signal interleave.
ShutdownEnds == Signalled ~> proc \in {"exited", "refused"}
=============================================================================
