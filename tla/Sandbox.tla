------------------------------ MODULE Sandbox -------------------------------
(***************************************************************************)
(* core-sandbox: mergeConstraints, the gates of runSandboxed and of        *)
(* runDockerSandboxed, and the life of one run: the child in its process   *)
(* group, what it forks, the pipes, the timer and the events close and     *)
(* error.  Memory is only measured there and is left out.                  *)
(***************************************************************************)
EXTENDS Naturals, FiniteSets

CONSTANTS
    Invocations,  \* what a host may ask for
    MaxOutput     \* maxOutputBytes

\* A call is made for one tenant at most.
ASSUME SandboxAssumption ==
    /\ MaxOutput \in Nat
    /\ \A i \in Invocations : \A t, u \in i.tenant : t = u

VARIABLES
    invocation,   \* the call, {} before it
    constraints,  \* the constraints it runs under
    run,          \* "idle", "running", "refused", "ok" or "error"
    child,        \* "none", "alive", "exited", "killed" or "failed"
    secrets,      \* where the secrets in the child's environment come from
    exitCode,
    kid,          \* what the child forked, {} if nothing
    timer,        \* "off", "set" or "rang"
    output,       \* bytes seen on stdout and on stderr
    truncated,
    violations    \* types of the violations reported

sandboxVars == <<invocation, constraints, run, child, secrets, exitCode, kid, timer, output,
                 truncated, violations>>

Streams == {"stdout", "stderr"}

SandboxInit ==
    /\ invocation = {}
    /\ constraints = {}
    /\ run = "idle"
    /\ child = "none"
    /\ secrets = {}
    /\ exitCode = 0
    /\ kid = {}
    /\ timer = "off"
    /\ output = [s \in Streams |-> 0]
    /\ truncated = FALSE
    /\ violations = {}
-----------------------------------------------------------------------------
(* Constraints *)

\* mergeConstraints: the smaller limit, and what both allow.  A tenant's lists
\* are cut to the base's, except where the base's list is empty.
Cut(base, tenant) == IF base = {} THEN tenant ELSE tenant \cap base
mergeConstraints(base, tenant) ==
    [maxTime           |-> IF tenant.maxTime < base.maxTime THEN tenant.maxTime ELSE base.maxTime,
     networkAllowed    |-> base.networkAllowed /\ tenant.networkAllowed,
     networkAllowlist  |-> Cut(base.networkAllowlist, tenant.networkAllowlist),
     networkDenylist   |-> base.networkDenylist \cup tenant.networkDenylist,
     shellAllowed      |-> base.shellAllowed /\ tenant.shellAllowed,
     allowedCommands   |-> Cut(base.allowedCommands, tenant.allowedCommands),
     allowedReadPaths  |-> Cut(base.allowedReadPaths, tenant.allowedReadPaths),
     allowedWritePaths |-> Cut(base.allowedWritePaths, tenant.allowedWritePaths)]

\* The constraints of a call: a host merges a tenant's into its own.
Merged(i) == IF i.tenant = {} THEN i.base
             ELSE mergeConstraints(i.base, CHOOSE t \in i.tenant : TRUE)

\* validateConstraints: the limits, of which maxTimeMs stands for all, have a
\* least value, a list needs its switch, and no destination is on both lists.
validateConstraints(c) ==
    /\ c.maxTime >= 1
    /\ c.networkAllowed \/ c.networkAllowlist = {}
    /\ c.shellAllowed \/ c.allowedCommands = {}
    /\ c.networkAllowlist \cap c.networkDenylist = {}

isCommandAllowed(command, c) == c.shellAllowed /\ command \in c.allowedCommands

\* isReadPathAllowed or isWritePathAllowed of every argument that is a path.
scanArgsForPathViolations(paths, c) == paths \ (c.allowedReadPaths \cup c.allowedWritePaths)

\* The gates of runSandboxed before anything is spawned.  Of the environment
\* only what the call itself brings is scanned for secrets.
runSandboxed(i, command, paths, c) ==
    /\ validateConstraints(c)
    /\ i.enterprise => i.unsafeHostSandbox
    /\ isCommandAllowed(command, c)
    /\ scanArgsForPathViolations(paths, c) = {}
    /\ i.secretEnv => i.unsafeHostSandbox /\ ~i.enterprise
    /\ i.beforeHook # "refuses"

\* runDockerSandboxed has gates of its own, and then runs docker: as the only
\* command allowed, without a look at its arguments.
runDockerSandboxed(i, c) ==
    /\ validateConstraints(c)
    /\ isCommandAllowed(i.command, c)
    /\ runSandboxed(i, "docker", {}, [c EXCEPT !.allowedCommands = {"docker"},
                                               !.allowedReadPaths = {},
                                               !.allowedWritePaths = {}])

\* The child inherits process.env, unscanned, when the caller asks for it (what
\* runDockerSandboxed does not pass on) or the operator allows unsafe runs.
inheritParent(i) == (i.inheritParentEnv /\ ~i.docker) \/ i.unsafeHostSandbox
childEnv(i) ==
    (IF i.secretEnv THEN {"config"} ELSE {})
    \cup (IF inheritParent(i) /\ i.parentSecrets THEN {"parent"} ELSE {})
-----------------------------------------------------------------------------
(* A run *)

\* The call: refused, or the child is spawned and the timer set.
Invoke(i) ==
    LET limits == Merged(i)
        go     == IF i.docker THEN runDockerSandboxed(i, limits)
                  ELSE runSandboxed(i, i.command, i.paths, limits)
    IN /\ run = "idle"
       /\ invocation' = {i}
       /\ constraints' = {limits}
       /\ IF go
          THEN /\ run' = "running"
               /\ child' = "alive"
               /\ secrets' = childEnv(i)
               /\ timer' = "set"
               /\ violations' = IF i.secretEnv THEN {"secret"} ELSE {}
          ELSE run' = "refused" /\ UNCHANGED <<child, secrets, timer, violations>>
       /\ UNCHANGED <<exitCode, kid, output, truncated>>

\* spawn fails: the event error answers.
SpawnError ==
    /\ run = "running"
    /\ child = "alive"
    /\ kid = {} /\ \A s \in Streams : output[s] = 0
    /\ child' = "failed"
    /\ timer' = "off"
    /\ violations' = {"command"}
    /\ run' = "error"
    /\ UNCHANGED <<invocation, constraints, secrets, exitCode, kid, output, truncated>>

\* The child forks: into its process group or out of it (setsid), with the
\* pipes or without them.  What a docker run starts is a container, which is
\* in no process group of ours.
Fork(group, pipes) ==
    /\ child = "alive"
    /\ kid = {}
    /\ \A i \in invocation : i.docker => ~group /\ ~pipes
    /\ kid' = {[group |-> group, pipes |-> pipes]}
    /\ UNCHANGED <<invocation, constraints, run, child, secrets, exitCode, timer, output,
                   truncated, violations>>

\* A chunk of output: one that leads past the limit is dropped and reported,
\* once for both streams.
Data(s) ==
    /\ run = "running"
    /\ child = "alive" \/ \E k \in kid : k.pipes
    /\ output[s] <= MaxOutput
    /\ output' = [output EXCEPT ![s] = @ + 1]
    /\ IF output'[s] > MaxOutput /\ ~truncated
       THEN truncated' = TRUE /\ violations' = violations \cup {"output_size"}
       ELSE UNCHANGED <<truncated, violations>>
    /\ UNCHANGED <<invocation, constraints, run, child, secrets, exitCode, kid, timer>>

ChildExits(code) ==
    /\ child = "alive"
    /\ child' = "exited"
    /\ exitCode' = code
    /\ UNCHANGED <<invocation, constraints, run, secrets, kid, timer, output, truncated,
                   violations>>

KidEnds ==
    /\ kid # {}
    /\ kid' = {}
    /\ UNCHANGED <<invocation, constraints, run, child, secrets, exitCode, timer, output,
                   truncated, violations>>

\* maxTimeMs is over: SIGKILL to the process group.
TimeOut_ChildOnly ==
    /\ timer = "set"
    /\ timer' = "rang"
    /\ violations' = violations \cup {"time"}
    /\ child' = IF child = "alive" THEN "killed" ELSE child
    /\ UNCHANGED <<invocation, constraints, run, secrets, exitCode, kid, output, truncated>>

TimeOut ==
    /\ timer = "set"
    /\ timer' = "rang"
    /\ violations' = violations \cup {"time"}
    /\ child' = IF child = "alive" THEN "killed" ELSE child
    /\ kid' = {k \in kid : ~k.group}
    /\ UNCHANGED <<invocation, constraints, run, secrets, exitCode, output, truncated>>

\* The event close, once the child is gone and nobody holds its pipes.
Close_IgnoresKill ==
    /\ run = "running"
    /\ child \in {"exited", "killed"}
    /\ \A k \in kid : ~k.pipes
    /\ timer' = "off"
    /\ run' = IF "secret" \in violations THEN "error" ELSE "ok"
    /\ UNCHANGED <<invocation, constraints, child, secrets, exitCode, kid, output, truncated,
                   violations>>

Close ==
    /\ run = "running"
    /\ child \in {"exited", "killed"}
    /\ \A k \in kid : ~k.pipes
    /\ timer' = IF timer = "set" THEN "off" ELSE timer
    /\ run' = IF violations \subseteq {"output_size"} THEN "ok" ELSE "error"
    /\ UNCHANGED <<invocation, constraints, child, secrets, exitCode, kid, output, truncated,
                   violations>>

SandboxNext ==
    \/ \E i \in Invocations : Invoke(i)
    \/ SpawnError
    \/ \E g, h \in BOOLEAN : Fork(g, h)
    \/ \E s \in Streams : Data(s)
    \/ \E code \in {0, 1} : ChildExits(code)
    \/ KidEnds \/ TimeOut \/ Close

SandboxSpec == SandboxInit /\ [][SandboxNext]_sandboxVars

\* The timer rings and an event that is due is delivered.
SandboxFairness == WF_sandboxVars(TimeOut) /\ WF_sandboxVars(Close)
-----------------------------------------------------------------------------
Succeeded == run = "ok" /\ child = "exited" /\ exitCode = 0

SandboxTypeOK ==
    /\ Cardinality(invocation) <= 1 /\ Cardinality(kid) <= 1
    /\ run \in {"idle", "running", "refused", "ok", "error"}
    /\ child \in {"none", "alive", "exited", "killed", "failed"}
    /\ secrets \subseteq {"config", "parent"}
    /\ timer \in {"off", "set", "rang"}
    /\ output \in [Streams -> 0..MaxOutput + 1]
    /\ violations \subseteq {"secret", "command", "output_size", "time"}

\* What the host is told is what happened.  Ok: the child ended by itself
\* before the timer, none of the secrets it was given came with the call, and
\* lost output is reported.  An error: nothing was started, or the timer rang
\* and nothing of the process group is left, or a secret of the call was handed
\* over on the operator's own risk.  Secrets of the parent reach a child only
\* where the caller or the operator asked for it, in enterprise mode too and
\* whatever is reported, although runner.ts:68 says that it is forced off there.
\* A command runs only if the base lists it or, the base listing none, a tenant
\* does, which loosens the base, although index.ts:232 says that it never does.
SandboxHonest ==
    /\ run = "ok" =>
          /\ child = "exited" /\ timer # "rang"
          /\ "config" \notin secrets
          /\ (\E s \in Streams : output[s] > MaxOutput) => truncated
    /\ run = "error" =>
          \/ child = "failed"
          \/ timer = "rang" /\ \A k \in kid : ~k.group
          \/ \E i \in invocation : i.secretEnv /\ i.unsafeHostSandbox /\ ~i.enterprise
    /\ \A i \in invocation : child # "none" =>
          /\ i.base.shellAllowed /\ \A t \in i.tenant : t.shellAllowed
          /\ \/ i.command \in i.base.allowedCommands
             \/ i.base.allowedCommands = {} /\ \E t \in i.tenant : i.command \in t.allowedCommands
          /\ i.enterprise => i.unsafeHostSandbox
          /\ "parent" \in secrets =>
                 i.parentSecrets /\ (i.unsafeHostSandbox \/ (i.inheritParentEnv /\ ~i.docker))

\* A run ends, also when the child hangs or leaves processes behind, as long
\* as none that left the process group keeps the pipes.
SandboxReturns ==
    (run = "running" /\ [](\A k \in kid : k.group \/ ~k.pipes)) ~> run # "running"
=============================================================================
