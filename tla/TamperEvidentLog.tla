-------------------------- MODULE TamperEvidentLog --------------------------
(***************************************************************************)
(* What a tamper-evident log promises: the events are accepted in order,   *)
(* those not yet stored may be lost together when the process dies or the  *)
(* medium refuses them, and what is stored is never taken back and is      *)
(* chained from the first entry on.  Once the medium has damaged the log   *)
(* nothing is promised of it; a medium may be damaged from the start.      *)
(* A hash is modelled by what it commits to: the events chained under it.  *)
(***************************************************************************)
EXTENDS Naturals, Sequences

VARIABLES
    accepted,  \* how many events were accepted: they are 1..accepted
    pending,   \* accepted events that are not stored yet
    trail,     \* the stored entries: an event and the hash that seals it
    intact     \* the medium has kept every byte it was given

vars == <<accepted, pending, trail, intact>>

HashOf(t) == IF t = << >> THEN << >> ELSE t[Len(t)].hash

\* The entries that seal the events es after the hash h.
Chain(h, es) ==
    [i \in 1..Len(es) |-> [ev |-> es[i], hash |-> h \o SubSeq(es, 1, i)]]

Init ==
    /\ accepted = 0
    /\ pending = << >>
    /\ trail = << >>
    /\ intact \in BOOLEAN

Accept ==
    /\ accepted' = accepted + 1
    /\ pending' = Append(pending, accepted')
    /\ UNCHANGED <<trail, intact>>

\* Every pending event is stored, in one append.
Store ==
    /\ trail' = trail \o Chain(HashOf(trail), pending)
    /\ pending' = << >>
    /\ UNCHANGED <<accepted, intact>>

AcceptAndStore ==
    /\ accepted' = accepted + 1
    /\ trail' = trail \o Chain(HashOf(trail), Append(pending, accepted'))
    /\ pending' = << >>
    /\ UNCHANGED intact

\* The pending events are gone: the process died, or the append failed.
Lose ==
    /\ accepted' \in {accepted, accepted + 1}
    /\ pending' = << >>
    /\ UNCHANGED <<trail, intact>>

Damage == intact' = FALSE

Next ==
    \/ intact /\ (Accept \/ Store \/ AcceptAndStore \/ Lose)
    \/ Damage

Spec == Init /\ [][Next]_vars
=============================================================================
