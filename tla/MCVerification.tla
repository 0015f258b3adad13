--------------------------- MODULE MCVerification ---------------------------
(* Small worlds for Verification: each varies a few tools around a clean run. *)
EXTENDS Verification

PolicyOf(required, advisory) ==
    [given |-> TRUE, required |-> required, advisory |-> advisory]
Typescript == PolicyOf({"lint", "types", "security"}, {"graph"})
Javascript == PolicyOf({"lint", "security"}, {"types", "graph"})
Native     == PolicyOf({}, {"lint", "types", "security", "graph"})
Undefined  == [given |-> FALSE, required |-> {}, advisory |-> {}]

CleanWorld(policy, mode) ==
    [lint |-> "clean", security |-> "clean", tie |-> FALSE, types |-> "clean",
     checker |-> "tsc", checkFails |-> FALSE, graph |-> "clean", imports |-> "clean",
     changes |-> "some", artifacts |-> {"artifact.emitted"},
     policy |-> policy, mode |-> mode, owner |-> "quiet"]

\* What the tools find.
ToolWorlds ==
    {[CleanWorld(policy, "artifact") EXCEPT !.types = types, !.checker = checker] :
         policy \in {Typescript, Javascript}, types \in TypesOutcomes \ {"clean"},
         checker \in {"tsc", "pyright"}}
    \cup {[CleanWorld(Javascript, "artifact") EXCEPT !.checkFails = TRUE, !.types = types] :
             types \in {"nothing", "clean"}}
    \cup {[CleanWorld(Typescript, "artifact") EXCEPT !.lint = lint, !.security = security, !.tie = (lint = security)] :
             lint \in {"warnings", "high", "crash"}, security \in {"clean", "warnings", "high", "crash"}}
    \cup {[CleanWorld(policy, "artifact") EXCEPT !.graph = graph] :
             policy \in {Typescript, Undefined}, graph \in {"nothing", "broken", "unreadable"}}
    \cup {[CleanWorld(Typescript, "artifact") EXCEPT !.imports = "crash"]}

\* What the delegation did.
DelegationWorlds ==
    {[CleanWorld(policy, mode) EXCEPT !.artifacts = artifacts, !.changes = changes] :
         policy \in {Typescript, Native}, mode \in {"artifact", "schema-contract"},
         artifacts \in {{}, {"artifact.emitted"}, {"artifact.unterminated", "artifact.truncated"}},
         changes \in {"none", "fails"}}

\* A bus that its owner fills and shuts down.
BusWorlds ==
    {[CleanWorld(Typescript, "artifact") EXCEPT !.artifacts = artifacts, !.owner = "active"] :
         artifacts \in {{"artifact.emitted"}, {"artifact.truncated"}, {"artifact.blocked"}}}

MCWorlds == ToolWorlds \cup DelegationWorlds \cup BusWorlds
=============================================================================
