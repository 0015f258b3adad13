------------------------------- MODULE Policy -------------------------------
(***************************************************************************)
(* The decisions of PolicyEngine (core-policy) that the orchestrator asks  *)
(* for.  A policy is a record of the lists of the policy file; the lists   *)
(* are sets.  Reasons, hashes and timestamps are left out.                 *)
(***************************************************************************)
EXTENDS Naturals, FiniteSets

\* The policy of an engine that no file was loaded into denies everything.
DEFAULT_POLICY ==
    [tools  |-> [allowed |-> {}, denied |-> {}],
     models |-> [allowed |-> {}, allowedProviders |-> {}]]

\* checkTool: the denied list first, then an allowlist that must not be empty.
checkTool(policy, tool) ==
    /\ tool \notin policy.tools.denied
    /\ tool \in policy.tools.allowed

\* checkModel: the provider is looked at only if one is given and listed.
checkModel(policy, model, providers) ==
    /\ model \in policy.models.allowed
    /\ \A p \in providers :
          policy.models.allowedProviders = {} \/ p \in policy.models.allowedProviders

\* validatePolicy: an object with a version and the four sections.
validatePolicy(file) ==
    /\ file.version >= 1
    /\ {"tools", "models", "workspaces", "execution"} \subseteq file.sections

\* loadFromFile into an engine with the policy current: a file that is
\* missing, is no JSON or does not validate leaves what there was.
loadFromFile(current, file) ==
    IF file.readable /\ validatePolicy(file) THEN file.policy ELSE current
=============================================================================
