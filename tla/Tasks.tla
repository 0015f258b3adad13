------------------------------- MODULE Tasks --------------------------------
(***************************************************************************)
(* Plans, the files that delegations write, the store of runs and the      *)
(* sandbox, side by side.  They share no state: a step of one leaves the   *)
(* others alone.                                                           *)
(***************************************************************************)
EXTENDS Decomposition, ArtifactWrites, RunStore, Sandbox

tasksVars == <<planVars, artifactVars, storeVars, sandboxVars>>

TasksInit == PlanInit /\ ArtifactInit /\ StoreInit /\ SandboxInit

TasksNext ==
    \/ PlanNext /\ UNCHANGED <<artifactVars, storeVars, sandboxVars>>
    \/ ArtifactNext /\ UNCHANGED <<planVars, storeVars, sandboxVars>>
    \/ StoreNext /\ UNCHANGED <<planVars, artifactVars, sandboxVars>>
    \/ SandboxNext /\ UNCHANGED <<planVars, artifactVars, storeVars>>

TasksSpec == TasksInit /\ [][TasksNext]_tasksVars

\* The state of plans, files, store and sandbox has its types: a plan in the store is
\* within the limit of subtasks, the loop is at a node of its plan, and the
\* bytes counted of an output stay next to their limit.
TasksTypeOK == PlanTypeOK /\ ArtifactTypeOK /\ StoreTypeOK /\ SandboxTypeOK
=============================================================================
