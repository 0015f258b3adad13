----------------------------- MODULE MCEventBus -----------------------------
(* An event with two handlers, one with one and one that nobody handles. *)
EXTENDS EventBus

CONSTANTS twice, once, unhandled

MCIds        == {twice, once, unhandled}
MCHandlersOf == [id \in MCIds |-> IF id = twice THEN 2 ELSE IF id = once THEN 1 ELSE 0]
=============================================================================
