---------------------------- MODULE VerdictRules ----------------------------
(***************************************************************************)
(* The deterministic decision rules of the orchestrator, as operators: how *)
(* the reducer folds the verifier signals of one task into a packet, how   *)
(* the correction loop decides on a packet, how the final verdict is       *)
(* computed and what the routing memory is told.  Counts are kept, wording *)
(* (rationales, reasons, details) is not.                                  *)
(***************************************************************************)
EXTENDS Integers, Sequences

Slots    == {"lint", "types", "security", "graph", "imports"}
Statuses == {"pass", "fail", "error", "skipped"}
Overalls == {"pass", "warn", "fail"}
Weights  == {"required", "advisory", "absent"}
Modes    == {"hard-prompt", "schema-contract", "artifact", "task-decompose"}
Actions  == {"accept", "correct", "escalate"}

\* One event of a verifier slot.  A slot uses the counts that concern it; a
\* count of another slot is never read by the reducer.
Signal == [status : Statuses, errors : Nat, warnings : Nat,
           critical : Nat, high : Nat, broken : Nat]

\* What the delegation itself reported through artifact.* and state.changes.
Artifacts == [blocked : BOOLEAN, unterminated : BOOLEAN, truncated : BOOLEAN,
              emitted : BOOLEAN, changed : Nat]

\* A verifier policy; given = FALSE stands for an undefined one.
Policy == [given : BOOLEAN, required : SUBSET Slots, advisory : SUBSET Slots]

\* What later steps read of a ReducedStatePacket.
Packet == [overall : Overalls, critical : Nat, broken : Nat,
           security : Weights, graph : Weights,
           enforcement : BOOLEAN, protocolBroken : BOOLEAN]
-----------------------------------------------------------------------------
(* StateReducer.reduce *)

\* perTask: every signal of a kind is kept, and reduce reads the last one.
Arrived(sigs, slot) == sigs[slot] # << >>
Latest(sigs, slot)  == sigs[slot][Len(sigs[slot])]

NotApplicable(sigs, policy, slot) ==
    /\ policy.given
    /\ ~Arrived(sigs, slot)
    /\ slot \notin policy.required \/ slot \in policy.advisory

SlotStatus(sigs, policy, slot) ==
    IF Arrived(sigs, slot) THEN Latest(sigs, slot).status
    ELSE IF NotApplicable(sigs, policy, slot) THEN "skipped" ELSE "error"

MissingCount_Sentinel(sigs, policy, slot) ==
    IF NotApplicable(sigs, policy, slot) THEN 0 ELSE -1

\* The default of a count whose signal is missing is one, that is a failure,
\* unless the policy makes the slot not applicable.
MissingCount(sigs, policy, slot) ==
    IF NotApplicable(sigs, policy, slot) THEN 0 ELSE 1

ErrorCount(sigs, policy, slot) ==
    IF Arrived(sigs, slot) THEN Latest(sigs, slot).errors
    ELSE MissingCount(sigs, policy, slot)

CriticalCount(sigs) ==
    IF Arrived(sigs, "security") THEN Latest(sigs, "security").critical ELSE 0

HighCount(sigs, policy) ==
    IF Arrived(sigs, "security") THEN Latest(sigs, "security").high
    ELSE MissingCount(sigs, policy, "security")

LintWarnings(sigs) ==
    IF Arrived(sigs, "lint") THEN Latest(sigs, "lint").warnings ELSE 0

BrokenEdges(sigs, policy) ==
    IF Arrived(sigs, "graph")
    THEN IF Latest(sigs, "graph").status = "skipped" THEN 0
         ELSE Latest(sigs, "graph").broken
    ELSE MissingCount(sigs, policy, "graph")

SlotWeight(policy, slot) ==
    IF ~policy.given \/ slot \in policy.required THEN "required"
    ELSE IF slot \in policy.advisory THEN "advisory" ELSE "absent"

\* The imports slot is not one of them.
VerifierError(sigs, policy) ==
    \E slot \in {"lint", "types", "security", "graph"} :
        SlotStatus(sigs, policy, slot) = "error"

EnforcementFails(art) == art.blocked \/ art.unterminated \/ art.truncated

RequiredUnmet_ForgivesSkipped(sigs, policy) ==
    /\ policy.given
    /\ \E slot \in policy.required : ~Arrived(sigs, slot)

RequiredUnmet(sigs, policy) ==
    /\ policy.given
    /\ \E slot \in policy.required :
           ~Arrived(sigs, slot) \/ Latest(sigs, slot).status = "skipped"

HardFailure(sigs, art, policy) ==
    \/ VerifierError(sigs, policy)
    \/ ErrorCount(sigs, policy, "types") > 0
    \/ ErrorCount(sigs, policy, "lint") > 0
    \/ CriticalCount(sigs) > 0
    \/ SlotWeight(policy, "graph") = "required" /\ BrokenEdges(sigs, policy) > 0
    \/ EnforcementFails(art)
    \/ RequiredUnmet(sigs, policy)

SoftFailure(sigs, policy) ==
    \/ LintWarnings(sigs) > 0
    \/ HighCount(sigs, policy) > 0
    \/ SlotWeight(policy, "graph") = "advisory" /\ BrokenEdges(sigs, policy) > 0

Reduce(sigs, art, policy) ==
    [overall        |-> IF HardFailure(sigs, art, policy) THEN "fail"
                        ELSE IF SoftFailure(sigs, policy) THEN "warn" ELSE "pass",
     critical       |-> CriticalCount(sigs),
     broken         |-> BrokenEdges(sigs, policy),
     security       |-> SlotWeight(policy, "security"),
     graph          |-> SlotWeight(policy, "graph"),
     enforcement    |-> EnforcementFails(art),
     protocolBroken |-> art.unterminated \/ art.truncated]

\* finalizeDelegation: an artifact run that changed nothing, or a
\* schema-contract run that changed and emitted nothing, is failed whatever
\* the verifiers said.
FinalizePacket(packet, art, mode) ==
    IF \/ mode = "artifact" /\ art.changed = 0 /\ ~packet.enforcement
       \/ mode = "schema-contract" /\ art.changed = 0 /\ ~art.emitted
    THEN [packet EXCEPT !.overall = "fail", !.enforcement = TRUE,
                        !.protocolBroken = IF mode = "schema-contract" THEN FALSE ELSE @]
    ELSE packet

\* A task about which the bus delivered nothing, as after a failed delegation.
NoSignals   == [slot \in Slots |-> << >>]
NoArtifacts == [blocked |-> FALSE, unterminated |-> FALSE, truncated |-> FALSE,
                emitted |-> FALSE, changed |-> 0]
EmptyPacket(policy) == Reduce(NoSignals, NoArtifacts, policy)
-----------------------------------------------------------------------------
(* decideCorrection: taskPass is "true", "false" or "null". *)

OverBudget(cost, maxCost) == maxCost > 0 /\ cost >= maxCost

decideCorrection_OneTurnMore(packet, count, maxCorrections, cost, maxCost, taskPass) ==
    CASE taskPass = "true" -> "accept"
      [] taskPass = "false" -> IF count > maxCorrections THEN "escalate" ELSE "correct"
      [] taskPass = "null" -> IF packet.overall = "pass" THEN "accept" ELSE "escalate"

decideCorrection_PassFirst(packet, count, maxCorrections, cost, maxCost, taskPass) ==
    CASE taskPass = "true" \/ (taskPass = "null" /\ packet.overall = "pass") -> "accept"
      [] OTHER -> IF count >= maxCorrections \/ OverBudget(cost, maxCost)
                  THEN "escalate" ELSE "correct"

decideCorrection_IgnoresCost(packet, count, maxCorrections, cost, maxCost, taskPass) ==
    CASE taskPass = "true" -> "accept"
      [] taskPass = "false" -> IF count >= maxCorrections THEN "escalate" ELSE "correct"
      [] taskPass = "null" -> IF packet.overall = "pass" THEN "accept" ELSE "escalate"

decideCorrection(packet, count, maxCorrections, cost, maxCost, taskPass) ==
    CASE taskPass = "true" -> "accept"
      [] taskPass = "false" ->
            IF count >= maxCorrections \/ OverBudget(cost, maxCost)
            THEN "escalate" ELSE "correct"
      [] taskPass = "null" ->
            IF \/ packet.critical > 0 /\ packet.security = "required"
               \/ packet.broken > 0 /\ packet.graph = "required"
               \/ count >= maxCorrections
               \/ OverBudget(cost, maxCost)
            THEN "escalate"
            ELSE IF packet.overall = "pass" THEN "accept" ELSE "correct"

\* A validator's status as the loop hands it to decideCorrection.
TaskPassOf(status) ==
    CASE status = "pass" -> "true" [] status = "fail" -> "false" [] OTHER -> "null"
-----------------------------------------------------------------------------
(* truth-model: computeFinalVerdict *)

finalVerdictFromValidation(status) ==
    IF status \in {"pass", "fail"} THEN status ELSE "unknown"

finalVerdictFromVerifier(finalAction, overall) ==
    IF finalAction = "accept" /\ overall = "pass" THEN "pass"
    ELSE IF finalAction = "escalate" /\ overall # "fail" THEN "unknown"
    ELSE "fail"

computeFinalVerdict_ValidatorFirst(status, hasValidator, finalAction, packet, validatorRequired, mode) ==
    IF hasValidator THEN finalVerdictFromValidation(status)
    ELSE IF packet.protocolBroken THEN "fail"
    ELSE IF validatorRequired THEN "unknown"
    ELSE IF mode = "schema-contract" /\ packet.overall = "pass" THEN "unknown"
    ELSE finalVerdictFromVerifier(finalAction, packet.overall)

computeFinalVerdict(status, hasValidator, finalAction, packet, validatorRequired, mode) ==
    IF packet.protocolBroken THEN "fail"
    ELSE IF hasValidator THEN finalVerdictFromValidation(status)
    ELSE IF validatorRequired THEN "unknown"
    ELSE IF mode = "schema-contract" /\ packet.overall = "pass" THEN "unknown"
    ELSE finalVerdictFromVerifier(finalAction, packet.overall)
-----------------------------------------------------------------------------
(* What memory is told: writeCorrectionMemoryObservation *)

ObservedOutcome_SkippedIsPass(taskPass, status) ==
    CASE taskPass = "true" -> "pass"
      [] taskPass = "false" -> "fail"
      [] taskPass = "null" -> IF status = "error" THEN "error" ELSE "pass"

ObservedOutcome(taskPass, status) ==
    CASE taskPass = "true" -> "pass"
      [] taskPass = "false" -> "fail"
      [] taskPass = "null" -> IF status \in {"pass", "fail"} THEN status ELSE "error"

OutcomeClass(taskPass, status, finalAction, verdict) ==
    IF ObservedOutcome(taskPass, status) = "pass" THEN "pass"
    ELSE IF taskPass = "false" THEN "task_fail"
    ELSE IF status = "error" THEN "validator_error"
    ELSE IF finalAction = "escalate" THEN "escalated"
    ELSE IF verdict = "unknown" THEN "unknown" ELSE "tool_error"
=============================================================================
