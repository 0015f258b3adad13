-------------------------------- MODULE Rbac --------------------------------
(***************************************************************************)
(* core-rbac: roles, permissions and how a bearer token becomes an actor.  *)
(* A group stands for every group name mapped to one role, "other" for     *)
(* those mapped to none.                                                   *)
(***************************************************************************)
EXTENDS FiniteSets

Roles  == {"admin", "operator", "developer", "viewer"}
Groups == {"admins", "operators", "developers", "viewers", "other"}

AdminPermissions    == {"admin:config", "admin:policy", "admin:tenant", "admin:keys",
                        "admin:audit_export"}
OperatorPermissions == {"operator:health", "operator:restart", "operator:view_audit"}
DevPermissions      == {"dev:verify", "dev:correct", "dev:observe", "dev:memory_read",
                        "dev:memory_write"}
ViewerPermissions   == {"viewer:status", "viewer:results", "viewer:metrics"}

ROLE_PERMISSIONS ==
    [admin     |-> AdminPermissions \cup OperatorPermissions \cup DevPermissions
                   \cup ViewerPermissions,
     operator  |-> OperatorPermissions \cup ViewerPermissions,
     developer |-> DevPermissions \cup ViewerPermissions,
     viewer    |-> ViewerPermissions]

hasPermission(actor, p) == p \in ROLE_PERMISSIONS[actor.role]

\* authorize, without the audit hook that no caller passes.
authorize(actor, p) == hasPermission(actor, p)

DEFAULT_GROUP_ROLE_MAPPING ==
    [g \in Groups \ {"other"} |->
        CASE g = "admins" -> "admin" [] g = "operators" -> "operator"
          [] g = "developers" -> "developer" [] g = "viewers" -> "viewer"]

\* resolveRole: the highest role of the groups that are mapped, else viewer.
resolveRole(groups) ==
    LET matched == {DEFAULT_GROUP_ROLE_MAPPING[g] : g \in groups \ {"other"}}
    IN  CASE "admin" \in matched     -> "admin"
          [] "operator" \in matched  -> "operator"
          [] "developer" \in matched -> "developer"
          [] OTHER                   -> "viewer"

Actor(role, method) == [role |-> role, authMethod |-> method]

\* The tokens of a request: none, the static key, a JWT of the issuer with its
\* groups, anything else.
NoToken     == [kind |-> "none"]
KeyToken    == [kind |-> "key"]
BadToken    == [kind |-> "bad"]
Jwt(groups) == [kind |-> "jwt", groups |-> groups]
Tokens      == {NoToken, KeyToken, BadToken} \cup {Jwt(g) : g \in SUBSET Groups}

\* verifyJwt: a token the issuer signed, for this audience, within the clock
\* tolerance.  keys: the JWKS could be fetched.
verifyJwt(token, keys) == token.kind = "jwt" /\ keys

actorFromJwt(token) == Actor(resolveRole(token.groups), "oidc")

\* actorFromApiKey, of the role operator by default.
apiKeyMatches(token) == token.kind = "key"
actorFromApiKey      == Actor("operator", "api_key")
=============================================================================
