------------------------------ MODULE Service -------------------------------
(***************************************************************************)
(* The daemon and the parts that meter its use, side by side.  They share  *)
(* no state: a step of one leaves the others alone.                        *)
(***************************************************************************)
EXTENDS HealthServer, RateLimits, Quotas

serviceVars == <<daemonVars, rateVars, quotaVars>>

ServiceInit == DaemonInit /\ RateInit /\ QuotaInit

ServiceNext ==
    \/ DaemonNext /\ UNCHANGED <<rateVars, quotaVars>>
    \/ (BucketNext \/ LimiterNext) /\ UNCHANGED <<daemonVars, quotaVars>>
    \/ QuotaNext /\ UNCHANGED <<daemonVars, rateVars>>

ServiceSpec == ServiceInit /\ [][ServiceNext]_serviceVars

\* The state of the daemon, the rate limiters and the quotas has its types,
\* and a stop that waits to be resolved, a POST that waits for its answer and
\* the sockets that are open belong to a process in that phase.
ServiceTypeOK == DaemonTypeOK /\ RateTypeOK /\ QuotaTypeOK
=============================================================================
