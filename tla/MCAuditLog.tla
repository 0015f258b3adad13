----------------------------- MODULE MCAuditLog -----------------------------
(* Four events, flushed by twos: segments fill up, rotate and are refused.   *)
EXTENDS AuditChain
=============================================================================
