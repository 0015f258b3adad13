------------------------------ MODULE EventBus ------------------------------
(***************************************************************************)
(* core-events' EventBus: handlers per kind, a buffer of the events being  *)
(* processed, an idempotency cache, and shutdowns that drain.  An event is *)
(* known by its identity (the hash of kind, stream, sequence, payload and  *)
(* timestamp); the calls of emit are numbered, since two events of the     *)
(* same identity are different objects to the buffer.  Handlers are        *)
(* subscribed before the first event, and every one of them answers.       *)
(***************************************************************************)
EXTENDS Integers, Sequences, FiniteSets, Functions

CONSTANTS
    Ids,              \* event identities
    HandlersOf,       \* number of handlers of the kind of each identity
    OverflowHandlers, \* number of handlers of event.bus.overflowed
    Capacity,         \* bufferCapacity (1000)
    Keep,             \* what the trim in _process leaves of the buffer (500)
    CacheSize,        \* idempotencyCacheSize (10000)
    Stoppers,         \* the callers of gracefulShutdown
    NoStopper,
    MaxEmits          \* bound: calls of emit that do something

ASSUME BusAssumption ==
    /\ HandlersOf \in [Ids -> Nat]
    /\ OverflowHandlers \in Nat
    /\ Capacity \in Nat \ {0}
    /\ Keep \in Nat
    /\ CacheSize \in Nat \ {0}
    /\ NoStopper \notin Stoppers
    /\ MaxEmits \in Nat

VARIABLES
    running,       \* _running
    shuttingDown,  \* _shuttingDown
    buffer,        \* _buffer: the numbers of the calls of emit
    cache,         \* _idempotency: identities in the order of insertion
    aged,          \* how many of them, the first, are older than idempotencyTtlMs
    left,          \* calls in flight: how many handlers have still to answer
    drainResolve,  \* _drainResolve: the shutdown whose promise it resolves
    stopper,       \* per shutdown: where its call is
    emitted,       \* the identities of the calls that did something
    accepted,      \* history: the calls that were accepted
    forgotten      \* history: the identities the cache has dropped, once per drop

vars == <<running, shuttingDown, buffer, cache, aged, left, drainResolve, stopper,
          emitted, accepted, forgotten>>

Calls    == 1..MaxEmits
InFlight == DOMAIN left
Pending  == {"idle", "waiting", "drained", "returned", "timed-out"}

Init ==
    /\ running = TRUE
    /\ shuttingDown = FALSE
    /\ buffer = << >>
    /\ cache = << >>
    /\ aged = 0
    /\ left = << >>
    /\ drainResolve = NoStopper
    /\ stopper = [s \in Stoppers |-> "idle"]
    /\ emitted = << >>
    /\ accepted = {}
    /\ forgotten = [id \in Ids |-> 0]
-----------------------------------------------------------------------------
(* emit *)

Drop(s, n) == SubSeq(s, n + 1, Len(s))

Cached(id) == \E i \in 1..Len(cache) : cache[i] = id
Full       == Len(buffer) >= Capacity

\* _process up to its first await: without a handler it returns at once and
\* never takes the event out of the buffer.
Process(n, handlers) ==
    left' = IF handlers = 0 THEN left
            ELSE [m \in InFlight \cup {n} |-> IF m = n THEN handlers ELSE left[m]]

\* _trimIdempotency: every aged entry goes, and the oldest above the size.
TrimIdempotency(c) ==
    LET above == Len(c) - CacheSize
    IN  Drop(c, IF aged > above THEN aged ELSE above)

\* An event of a full bus is lost; event.bus.overflowed, which tells of it,
\* is processed without entering the buffer.  An emit on a bus that is down,
\* or of a cached identity, is answered with an error and changes nothing.
EmitOverflows(id) ==
    /\ running /\ ~shuttingDown
    /\ Full
    /\ Process(Len(emitted) + 1, OverflowHandlers)
    /\ UNCHANGED <<buffer, cache, aged, accepted, forgotten>>

Accept(id) ==
    /\ buffer' = Append(buffer, Len(emitted) + 1)
    /\ cache' = TrimIdempotency(Append(cache, id))
    /\ aged' = 0
    /\ forgotten' = [i \in Ids |-> forgotten[i] +
           IF Cached(i) /\ ~\E k \in 1..Len(cache') : cache'[k] = i THEN 1 ELSE 0]
    /\ accepted' = accepted \cup {Len(emitted) + 1}
    /\ Process(Len(emitted) + 1, HandlersOf[id])

EmitAccepted_WhenFull(id) ==
    /\ running /\ ~shuttingDown
    /\ ~Cached(id)
    /\ Accept(id)

EmitAccepted_Again(id) ==
    /\ running /\ ~shuttingDown
    /\ ~Full
    /\ Accept(id)

EmitAccepted(id) ==
    /\ running /\ ~shuttingDown
    /\ ~Full
    /\ ~Cached(id)
    /\ Accept(id)

emit(id) ==
    /\ Len(emitted) < MaxEmits
    /\ emitted' = Append(emitted, id)
    /\ EmitOverflows(id) \/ EmitAccepted(id)
    /\ UNCHANGED <<running, shuttingDown, drainResolve, stopper>>

\* Time passes: the next entry of the cache outlives idempotencyTtlMs.
EntryAges ==
    /\ aged < Len(cache)
    /\ aged' = aged + 1
    /\ UNCHANGED <<running, shuttingDown, buffer, cache, left, drainResolve, stopper,
                   emitted, accepted, forgotten>>
-----------------------------------------------------------------------------
(* _process *)

HandlerAnswers(n) ==
    /\ left[n] > 1
    /\ left' = [left EXCEPT ![n] = @ - 1]
    /\ UNCHANGED <<running, shuttingDown, buffer, cache, aged, drainResolve, stopper,
                   emitted, accepted, forgotten>>

\* splice(i - 1, 1).
Spliced(s, i) == SubSeq(s, 1, i - 1) \o Drop(s, i)

\* The finally block's last two statements.  Each call is once in the buffer.
Settled(n) ==
    LET found == {i \in 1..Len(buffer) : buffer[i] = n}
        rest  == IF found = {} THEN buffer ELSE Spliced(buffer, CHOOSE i \in found : TRUE)
    IN  IF Len(rest) > Keep THEN Drop(rest, Len(rest) - Keep) ELSE rest

Wakes(n) == shuttingDown /\ InFlight = {n} /\ drainResolve # NoStopper

\* A promise that is already resolved stays so.
Wake(s) == IF stopper[s] = "waiting" THEN [stopper EXCEPT ![s] = "drained"] ELSE stopper

LastHandlerAnswers_WhileRunning(n) ==
    /\ left[n] = 1
    /\ running
    /\ left' = Restrict(left, InFlight \ {n})
    /\ stopper' = IF Wakes(n) THEN Wake(drainResolve) ELSE stopper
    /\ buffer' = Settled(n)
    /\ UNCHANGED <<running, shuttingDown, cache, aged, drainResolve, emitted, accepted, forgotten>>

LastHandlerAnswers(n) ==
    /\ left[n] = 1
    /\ left' = Restrict(left, InFlight \ {n})
    /\ stopper' = IF Wakes(n) THEN Wake(drainResolve) ELSE stopper
    /\ buffer' = Settled(n)
    /\ UNCHANGED <<running, shuttingDown, cache, aged, drainResolve, emitted, accepted, forgotten>>
-----------------------------------------------------------------------------
(* Shutdown *)

shutdown ==
    /\ running' = FALSE
    /\ shuttingDown' = TRUE
    /\ UNCHANGED <<buffer, cache, aged, left, drainResolve, stopper, emitted, accepted, forgotten>>

\* gracefulShutdown up to its await.  A second call takes _drainResolve over.
gracefulShutdown_Abrupt(s) ==
    /\ stopper[s] = "idle"
    /\ shuttingDown' = TRUE
    /\ running' = FALSE
    /\ stopper' = [stopper EXCEPT ![s] = "returned"]
    /\ UNCHANGED <<drainResolve, buffer, cache, aged, left, emitted, accepted, forgotten>>

gracefulShutdown(s) ==
    /\ stopper[s] = "idle"
    /\ shuttingDown' = TRUE
    /\ IF InFlight = {}
       THEN /\ running' = FALSE
            /\ stopper' = [stopper EXCEPT ![s] = "returned"]
            /\ UNCHANGED drainResolve
       ELSE /\ drainResolve' = s
            /\ stopper' = [stopper EXCEPT ![s] = "waiting"]
            /\ UNCHANGED running
    /\ UNCHANGED <<buffer, cache, aged, left, emitted, accepted, forgotten>>

Returns(s, from, to) ==
    /\ stopper[s] = from
    /\ running' = FALSE
    /\ stopper' = [stopper EXCEPT ![s] = to]
    /\ UNCHANGED <<shuttingDown, buffer, cache, aged, left, drainResolve, emitted, accepted, forgotten>>

DrainReturns(s) == Returns(s, "drained", "returned")
DrainTimeout(s) == Returns(s, "waiting", "timed-out")

drainBuffer ==
    /\ buffer # << >>
    /\ buffer' = << >>
    /\ UNCHANGED <<running, shuttingDown, cache, aged, left, drainResolve, stopper,
                   emitted, accepted, forgotten>>

HandlerStep(n)  == HandlerAnswers(n) \/ LastHandlerAnswers(n)
StopperStep(s)  == DrainReturns(s) \/ DrainTimeout(s)

Next ==
    \/ \E id \in Ids : emit(id)
    \/ EntryAges
    \/ \E n \in InFlight : HandlerStep(n)
    \/ shutdown
    \/ \E s \in Stoppers : gracefulShutdown(s) \/ StopperStep(s)
    \/ drainBuffer

Spec == Init /\ [][Next]_vars

\* Handlers are asynchronous functions that answer (the reducer's and the
\* loggers' do not wait for anyone), and a shutdown has a timer.
FairSpec ==
    /\ Spec
    /\ \A n \in Calls : WF_vars(n \in InFlight /\ HandlerStep(n))
    /\ \A s \in Stoppers : WF_vars(StopperStep(s))
-----------------------------------------------------------------------------
(* Properties *)

\* Types, and the two limits of the bus: neither the buffer nor the idempotency
\* cache ever outgrows its capacity.
TypeOK ==
    /\ running \in BOOLEAN
    /\ shuttingDown \in BOOLEAN
    /\ buffer \in Seq(Calls) /\ Len(buffer) <= Capacity
    /\ cache \in Seq(Ids) /\ Len(cache) <= CacheSize /\ aged \in 0..Len(cache)
    /\ InFlight \subseteq Calls
    /\ \A n \in InFlight : left[n] \in Nat \ {0}
    /\ drainResolve \in Stoppers \cup {NoStopper}
    /\ stopper \in [Stoppers -> Pending]
    /\ emitted \in Seq(Ids) /\ Len(emitted) <= MaxEmits
    /\ accepted \subseteq 1..Len(emitted)
    /\ forgotten \in [Ids -> Nat]

\* An event is handled once: of two accepted calls of emit with the same
\* identity, the cache must have dropped that identity in between, by age or
\* by size.
IdempotentWhileCached ==
    \A id \in Ids :
        Cardinality({n \in accepted : emitted[n] = id}) <= forgotten[id] + 1

\* A graceful shutdown that returns before its timeout has drained the bus,
\* and nothing is accepted afterwards.  No wakeup is lost: a drained bus has
\* told the shutdown that waits last, whatever order the handlers answered and
\* the shutdowns were called in.
ShutdownDrains ==
    /\ \A s \in Stoppers : stopper[s] = "returned" => InFlight = {} /\ ~running
    /\ InFlight = {} /\ drainResolve # NoStopper => stopper[drainResolve] # "waiting"

\* Every event in flight is settled, even across a shutdown or its timeout.
EventsSettle == \A n \in Calls : n \in InFlight ~> n \notin InFlight
=============================================================================
