-------------------------- MODULE MCCorrectionLoop --------------------------
(***************************************************************************)
(* Instances of CorrectionLoop.  Each packet is what Reduce makes of some  *)
(* signals: one of each kind that the decision rules tell apart.           *)
(***************************************************************************)
EXTENDS CorrectionLoop

CONSTANTS c1, c2, c3

TypescriptPolicy == [given |-> TRUE, required |-> {"lint", "types", "security"},
                     advisory |-> {"graph"}]
NativePolicy     == [given |-> TRUE, required |-> {},
                     advisory |-> {"lint", "types", "security", "graph"}]
MCPolicies       == {TypescriptPolicy, NativePolicy}

PacketOf(overall, critical, broken, graph, enforcement, protocolBroken) ==
    [overall |-> overall, critical |-> critical, broken |-> broken,
     security |-> "required", graph |-> graph,
     enforcement |-> enforcement, protocolBroken |-> protocolBroken]

Clean     == PacketOf("pass", 0, 0, "advisory", FALSE, FALSE)
Warned    == PacketOf("warn", 0, 1, "advisory", FALSE, FALSE)
Failed    == PacketOf("fail", 0, 0, "advisory", FALSE, FALSE)
Insecure  == PacketOf("fail", 1, 0, "advisory", FALSE, FALSE)
Broken    == PacketOf("fail", 0, 1, "required", FALSE, FALSE)
Truncated == PacketOf("fail", 0, 0, "advisory", TRUE, TRUE)

ConfigOf(validator, taskPass, required, policy) ==
    [validator |-> validator, taskPass |-> taskPass,
     validatorRequired |-> required, policy |-> policy]

\* One caller, all the data.
RulesPackets == {Clean, Warned, Failed, Insecure, Broken, Truncated}
RulesConfigs == [validator : Validators, taskPass : TaskPasses,
                 validatorRequired : BOOLEAN, policy : MCPolicies]
RulesModes   == {"artifact", "schema-contract"}

\* Two callers that both have a validator: its answers alone decide.
SharedPackets == {Failed}
SharedConfigs == {ConfigOf("structured", "null", FALSE, TypescriptPolicy)}
SharedModes   == {"artifact"}
=============================================================================
