----------------------------- MODULE MCService ------------------------------
(***************************************************************************)
(* The service for TLC.  Its parts share no state, so a behaviour is one   *)
(* of a single part: focus, chosen at the start.                           *)
(***************************************************************************)
EXTENDS Service, TLC

CONSTANTS r1, r2,      \* requests
          burst, slow  \* keys of RateLimiter, slow with a window over the hour

VARIABLE focus         \* the part that takes steps

mcVars == <<focus, serviceVars>>

Url(p) == [path |-> p, exact |-> TRUE]
Odd(p) == [path |-> p, exact |-> FALSE]
MCInputs == r1 :> {[url |-> Url("/v1/policy"), token |-> Jwt({"developers", "admins"})],
                   [url |-> Url("/v1/policy"), token |-> KeyToken],
                   [url |-> Odd("/v1/metrics"), token |-> Jwt({"other"})],
                   [url |-> Url("/readyz"), token |-> NoToken]}
         @@ r2 :> {[url |-> Url("/readyz"), token |-> KeyToken]}

Dev == [enterprise |-> FALSE, auth |-> {}, audience |-> FALSE, audit |-> "memory",
        collector |-> "up", policy |-> "none", sqlite |-> FALSE, requireAuth |-> FALSE,
        fallback |-> FALSE, healthy |-> TRUE]
Enterprise ==
    [Dev EXCEPT !.enterprise = TRUE, !.auth = {"oidc", "key"}, !.audience = TRUE,
                !.audit = "file", !.policy = "good", !.sqlite = TRUE]
MCEnvironments ==
    {[Dev EXCEPT !.enterprise = TRUE],
     [Dev EXCEPT !.requireAuth = TRUE],
     [Dev EXCEPT !.auth = {"oidc"}, !.audience = TRUE],
     [Dev EXCEPT !.auth = {"oidc", "key"}, !.audience = TRUE, !.fallback = TRUE],
     [Dev EXCEPT !.auth = {"key"}, !.audit = "http", !.collector = "hangs"],
     [Enterprise EXCEPT !.audit = "http"],
     [Enterprise EXCEPT !.auth = {"oidc"}, !.fallback = TRUE, !.healthy = FALSE],
     [Enterprise EXCEPT !.auth = {"oidc"}, !.audience = FALSE],
     [Enterprise EXCEPT !.fallback = TRUE, !.policy = "bad"],
     [Enterprise EXCEPT !.audit = "syslog"]}

MCMaxRequests == burst :> 2 @@ slow :> 1
MCWindow      == burst :> 2 @@ slow :> 4
MCAmounts     == {-1, 2}

MCInit ==
    /\ focus \in {"daemon", "buckets", "limiter", "quotas"}
    /\ ServiceInit
    /\ focus # "daemon" => env.requireAuth

MCDaemon  == focus = "daemon"  /\ DaemonNext  /\ UNCHANGED <<focus, rateVars, quotaVars>>
MCBuckets == focus = "buckets" /\ BucketNext  /\ UNCHANGED <<focus, daemonVars, quotaVars>>
MCLimiter == focus = "limiter" /\ LimiterNext /\ UNCHANGED <<focus, daemonVars, quotaVars>>
MCQuotas  == focus = "quotas"  /\ QuotaNext   /\ UNCHANGED <<focus, daemonVars, rateVars>>

MCNext == MCDaemon \/ MCBuckets \/ MCLimiter \/ MCQuotas

MCSpec == MCInit /\ [][MCNext]_mcVars /\ DaemonFairness
=============================================================================
