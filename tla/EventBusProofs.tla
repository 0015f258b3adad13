--------------------------- MODULE EventBusProofs ---------------------------
(***************************************************************************)
(* The safety of EventBus for any number of identities, handlers, calls of *)
(* emit and shutdowns, and for any sizes of buffer and cache.              *)
(***************************************************************************)
EXTENDS EventBus, FiniteSetTheorems, SequenceTheorems, TLAPS

\* A shutdown that was told the bus has drained, or has returned, sees a bus
\* that stays empty, since emit refuses from the moment a shutdown begins.  The
\* last shutdown that waits is not left waiting for an empty bus.
StopOK ==
    /\ \A s \in Stoppers : /\ stopper[s] \in {"drained", "returned"} => InFlight = {} /\ shuttingDown
                           /\ stopper[s] = "returned" => ~running
    /\ drainResolve # NoStopper => shuttingDown
    /\ InFlight = {} /\ drainResolve # NoStopper => stopper[drainResolve] # "waiting"

\* The calls accepted so far with one identity: one for each time the cache
\* dropped it, and one more while it is cached.
AcceptedOf(id) == {n \in accepted : emitted[n] = id}
CountOK ==
    \A id \in Ids :
        Cardinality(AcceptedOf(id)) = forgotten[id] + IF Cached(id) THEN 1 ELSE 0

Inv == TypeOK /\ StopOK /\ CountOK

USE BusAssumption
-----------------------------------------------------------------------------
(* The operators on sequences *)

\* Drop leaves the rest of a sequence.
LEMMA DropProperties ==
    ASSUME NEW S, NEW s \in Seq(S), NEW n \in 0..Len(s)
    PROVE  /\ Drop(s, n) \in Seq(S)
           /\ Len(Drop(s, n)) = Len(s) - n
           /\ \A i \in 1..(Len(s) - n) : Drop(s, n)[i] = s[n + i]
<1>1. \A i \in (n + 1)..Len(s) : s[i] \in S
  BY ElementOfSeq
<1>2. n + 1 \in Int /\ Len(s) \in Int
  BY LenProperties
<1>3. /\ SubSeq(s, n + 1, Len(s)) \in Seq(S)
      /\ Len(SubSeq(s, n + 1, Len(s))) = IF n + 1 <= Len(s) THEN Len(s) - (n + 1) + 1 ELSE 0
      /\ \A i \in 1..(Len(s) - (n + 1) + 1) : SubSeq(s, n + 1, Len(s))[i] = s[n + 1 + i - 1]
  BY <1>1, <1>2, SubSeqProperties
<1> QED
  BY <1>2, <1>3 DEF Drop

\* Spliced takes one element out.
LEMMA SplicedProperties ==
    ASSUME NEW S, NEW s \in Seq(S), NEW n \in 1..Len(s)
    PROVE  Spliced(s, n) \in Seq(S) /\ Len(Spliced(s, n)) = Len(s) - 1
<1>1. Drop(s, n) \in Seq(S) /\ Len(Drop(s, n)) = Len(s) - n
  BY DropProperties
<1>2. \A i \in 1..(n - 1) : s[i] \in S
  BY ElementOfSeq
<1>3. SubSeq(s, 1, n - 1) \in Seq(S) /\ Len(SubSeq(s, 1, n - 1)) = n - 1
  BY <1>2, SubSeqProperties
<1> QED
  BY <1>1, <1>3, ConcatProperties DEF Spliced

\* What the finally block leaves is no longer than the buffer was.
LEMMA SettledProperties ==
    ASSUME TypeOK, NEW n
    PROVE  Settled(n) \in Seq(Calls) /\ Len(Settled(n)) <= Capacity
<1> DEFINE found == {i \in 1..Len(buffer) : buffer[i] = n}
           rest  == IF found = {} THEN buffer ELSE Spliced(buffer, CHOOSE i \in found : TRUE)
<1>1. rest \in Seq(Calls) /\ Len(rest) <= Len(buffer) /\ Len(buffer) <= Capacity
  <2>1. CASE found = {}
    BY <2>1 DEF TypeOK
  <2>2. CASE found # {}
    <3>1. (CHOOSE i \in found : TRUE) \in 1..Len(buffer)
      BY <2>2
    <3> QED
      BY <2>2, <3>1, SplicedProperties DEF TypeOK
  <2> QED
    BY <2>1, <2>2
<1>2. Settled(n) = IF Len(rest) > Keep THEN Drop(rest, Len(rest) - Keep) ELSE rest
  BY DEF Settled
<1> HIDE DEF rest
<1>3. CASE Len(rest) > Keep
  <2>1. Len(rest) - Keep \in 0..Len(rest)
    BY <1>1, <1>3
  <2>2. Drop(rest, Len(rest) - Keep) \in Seq(Calls) /\ Len(Drop(rest, Len(rest) - Keep)) = Keep
    BY <1>1, <2>1, DropProperties
  <2> QED
    BY <1>1, <1>2, <1>3, <2>2
<1>4. CASE ~(Len(rest) > Keep)
  BY <1>1, <1>2, <1>4
<1> QED
  BY <1>3, <1>4

\* What _trimIdempotency leaves fits, keeps the entry just inserted, and holds
\* nothing that was not there.
LEMMA TrimProperties ==
    ASSUME TypeOK, NEW id \in Ids
    PROVE  LET c == TrimIdempotency(Append(cache, id))
           IN  /\ c \in Seq(Ids) /\ Len(c) \in 1..CacheSize
               /\ \E i \in 1..Len(c) : c[i] = id
               /\ \A i \in 1..Len(c) : c[i] = id \/ Cached(c[i])
<1> DEFINE a     == Append(cache, id)
           above == Len(a) - CacheSize
           n     == IF aged > above THEN aged ELSE above
           c     == Drop(a, n)
<1>1. /\ a \in Seq(Ids) /\ Len(a) = Len(cache) + 1 /\ a[Len(a)] = id
      /\ \A i \in 1..Len(cache) : a[i] = cache[i]
      /\ Len(cache) \in Nat /\ Len(cache) <= CacheSize /\ aged \in 0..Len(cache)
  BY AppendProperties, LenProperties DEF TypeOK
<1> HIDE DEF a
<1>2. n \in 0..Len(cache) /\ Len(a) - n \in 1..CacheSize
  BY <1>1
<1>3. n \in 0..Len(a)
  BY <1>1, <1>2
<1> HIDE DEF n
<1>4. /\ c \in Seq(Ids) /\ Len(c) = Len(a) - n
      /\ \A i \in 1..(Len(a) - n) : c[i] = a[n + i]
  BY <1>1, <1>3, DropProperties
<1>5. c = TrimIdempotency(Append(cache, id))
  BY DEF TrimIdempotency, n, a
<1> HIDE DEF c
<1>6. c[Len(c)] = id /\ Len(c) \in 1..Len(c)
  <2>1. Len(c) \in 1..(Len(a) - n) /\ n + Len(c) = Len(a)
    BY <1>1, <1>2, <1>4
  <2>2. c[Len(c)] = a[n + Len(c)]
    BY <1>4, <2>1
  <2> QED
    BY <1>1, <1>4, <2>1, <2>2
<1>7. ASSUME NEW i \in 1..Len(c) PROVE c[i] = id \/ Cached(c[i])
  <2>1. c[i] = a[n + i] /\ n + i \in 1..(Len(cache) + 1)
    BY <1>1, <1>2, <1>4
  <2> QED
    BY <1>1, <2>1 DEF Cached
<1> QED
  BY <1>2, <1>4, <1>5, <1>6, <1>7
-----------------------------------------------------------------------------
(* emit *)

\* _process starts with the handlers of the event, or does not start.
LEMMA ProcessTypes ==
    ASSUME TypeOK, NEW n \in Calls, NEW h \in Nat, Process(n, h)
    PROVE  DOMAIN left' \subseteq Calls /\ \A m \in DOMAIN left' : left'[m] \in Nat \ {0}
BY DEF TypeOK, InFlight, Process

\* An emit keeps the types and the limits, whether the bus is full or not.
LEMMA EmitTypes ==
    ASSUME TypeOK, NEW id \in Ids, emit(id)
    PROVE  TypeOK'
<1> DEFINE n == Len(emitted) + 1
<1>1. /\ n \in Calls /\ n \in Nat /\ emitted \in Seq(Ids) /\ Len(emitted) \in Nat
      /\ HandlersOf[id] \in Nat
  BY LenProperties DEF TypeOK, emit, Calls
<1>2. /\ emitted' \in Seq(Ids) /\ Len(emitted') = n /\ n <= MaxEmits
  BY <1>1, AppendProperties DEF emit, Calls
<1>3. 1..Len(emitted) \subseteq 1..Len(emitted') /\ n \in 1..Len(emitted')
  BY <1>1, <1>2
<1>4. UNCHANGED <<running, shuttingDown, drainResolve, stopper>>
  BY DEF emit
<1>5. CASE EmitOverflows(id)
  <2>1. DOMAIN left' \subseteq Calls /\ \A m \in DOMAIN left' : left'[m] \in Nat \ {0}
    BY <1>1, <1>5, ProcessTypes DEF EmitOverflows
  <2> QED
    BY <1>2, <1>3, <1>4, <1>5, <2>1 DEF TypeOK, EmitOverflows, InFlight
<1>6. CASE EmitAccepted(id)
  <2>1. DOMAIN left' \subseteq Calls /\ \A m \in DOMAIN left' : left'[m] \in Nat \ {0}
    BY <1>1, <1>6, ProcessTypes DEF EmitAccepted, Accept
  <2>2. buffer' \in Seq(Calls) /\ Len(buffer') <= Capacity
    BY <1>1, <1>6, AppendProperties, LenProperties DEF EmitAccepted, Accept, Full, TypeOK
  <2>3. cache' \in Seq(Ids) /\ Len(cache') <= CacheSize /\ aged' \in 0..Len(cache')
    <3>1. cache' \in Seq(Ids) /\ Len(cache') \in 1..CacheSize
      BY <1>6, TrimProperties DEF EmitAccepted, Accept
    <3> QED
      BY <1>6, <3>1 DEF EmitAccepted, Accept
  <2>4. accepted' \subseteq 1..Len(emitted') /\ forgotten' \in [Ids -> Nat]
    <3>1. accepted' = accepted \cup {n} /\ accepted \subseteq 1..Len(emitted)
      BY <1>6 DEF EmitAccepted, Accept, TypeOK
    <3>2. ASSUME NEW i \in Ids PROVE forgotten'[i] \in Nat
      BY <1>6, <3>2 DEF EmitAccepted, Accept, TypeOK
    <3>3. forgotten' = [i \in Ids |-> forgotten'[i]]
      BY <1>6 DEF EmitAccepted, Accept
    <3> QED
      BY <1>3, <3>1, <3>2, <3>3
  <2> QED
    BY <1>2, <1>4, <2>1, <2>2, <2>3, <2>4 DEF TypeOK, InFlight
<1> QED
  BY <1>5, <1>6 DEF emit

\* An emit that does something finds no shutdown: none has drained or returned.
LEMMA EmitStops ==
    ASSUME Inv, NEW id \in Ids, emit(id)
    PROVE  StopOK'
<1>1. ~shuttingDown /\ UNCHANGED <<running, shuttingDown, drainResolve, stopper>>
  BY DEF emit, EmitOverflows, EmitAccepted
<1> QED
  BY <1>1 DEF Inv, StopOK

\* A call that is accepted was not cached, and is cached then; what the trim
\* drops is counted.
LEMMA EmitCounts ==
    ASSUME Inv, NEW id \in Ids, emit(id)
    PROVE  CountOK'
<1> DEFINE n == Len(emitted) + 1
<1>1. /\ emitted \in Seq(Ids) /\ Len(emitted) \in Nat /\ emitted' = Append(emitted, id)
      /\ accepted \subseteq 1..Len(emitted) /\ IsFiniteSet(accepted) /\ n \notin accepted
      /\ forgotten \in [Ids -> Nat]
  <2>1. emitted \in Seq(Ids) /\ Len(emitted) \in Nat /\ accepted \subseteq 1..Len(emitted)
    BY LenProperties DEF Inv, TypeOK
  <2>2. IsFiniteSet(accepted)
    <3>1. IsFiniteSet(1..Len(emitted))
      BY <2>1, FS_Interval
    <3> QED
      BY <2>1, <3>1, FS_Subset
  <2> QED
    BY <2>1, <2>2 DEF emit, Inv, TypeOK
<1>2. emitted'[n] = id /\ \A m \in accepted : emitted'[m] = emitted[m]
  BY <1>1, AppendProperties
<1> SUFFICES ASSUME NEW i \in Ids
             PROVE  Cardinality(AcceptedOf(i)') = forgotten'[i] + IF Cached(i)' THEN 1 ELSE 0
  BY DEF CountOK
<1>3. /\ Cardinality(AcceptedOf(i)) = forgotten[i] + IF Cached(i) THEN 1 ELSE 0
      /\ IsFiniteSet(AcceptedOf(i)) /\ n \notin AcceptedOf(i)
  BY <1>1, FS_Subset DEF Inv, CountOK, AcceptedOf
<1>4. CASE EmitOverflows(id)
  BY <1>2, <1>3, <1>4 DEF EmitOverflows, AcceptedOf, Cached
<1>5. CASE EmitAccepted(id)
  <2>1. /\ ~Cached(id) /\ accepted' = accepted \cup {n} /\ Cached(id)'
        /\ \A j \in Ids : Cached(j)' => j = id \/ Cached(j)
    <3>1. /\ cache' = TrimIdempotency(Append(cache, id)) /\ TypeOK
          /\ ~Cached(id) /\ accepted' = accepted \cup {n}
      BY <1>5 DEF EmitAccepted, Accept, Inv
    <3>2. /\ \E k \in 1..Len(cache') : cache'[k] = id
          /\ \A k \in 1..Len(cache') : cache'[k] = id \/ Cached(cache'[k])
      BY <3>1, TrimProperties
    <3>3. \A j : Cached(j)' <=> \E k \in 1..Len(cache') : cache'[k] = j
      BY DEF Cached
    <3> QED
      BY <3>1, <3>2, <3>3
  <2>2. forgotten'[i] = forgotten[i] + IF Cached(i) /\ ~Cached(i)' THEN 1 ELSE 0
    BY <1>5 DEF EmitAccepted, Accept, Cached
  <2>3. CASE i = id
    <3>1. AcceptedOf(i)' = AcceptedOf(i) \cup {n}
      BY <1>2, <2>1, <2>3 DEF AcceptedOf
    <3>2. Cardinality(AcceptedOf(i)') = Cardinality(AcceptedOf(i)) + 1
      BY <1>3, <3>1, FS_AddElement
    <3> QED
      BY <1>1, <1>3, <2>1, <2>2, <2>3, <3>2
  <2>4. CASE i # id
    <3>1. AcceptedOf(i)' = AcceptedOf(i)
      BY <1>2, <2>1, <2>4 DEF AcceptedOf
    <3> QED
      BY <1>1, <1>3, <2>1, <2>2, <2>4, <3>1
  <2> QED
    BY <2>3, <2>4
<1> QED
  BY <1>4, <1>5 DEF emit
-----------------------------------------------------------------------------
(* Handlers, shutdowns and the invariant *)

\* What no step but an emit changes: the calls of emit and the cache.
LEMMA OtherCounts ==
    ASSUME CountOK, UNCHANGED <<cache, emitted, accepted, forgotten>>
    PROVE  CountOK'
BY DEF CountOK, AcceptedOf, Cached

\* An answer keeps the invariant: the last one of the last call in flight tells
\* the shutdown that waits.
LEMMA HandlerInv ==
    ASSUME Inv, NEW n \in InFlight, HandlerStep(n)
    PROVE  Inv'
<1>1. CASE HandlerAnswers(n)
  <2>1. InFlight' = InFlight /\ \A m \in InFlight : left'[m] \in Nat \ {0}
    BY <1>1 DEF HandlerAnswers, InFlight, Inv, TypeOK
  <2>2. TypeOK' /\ StopOK'
    BY <1>1, <2>1 DEF HandlerAnswers, Inv, TypeOK, StopOK
  <2> QED
    BY <1>1, <2>2, OtherCounts DEF HandlerAnswers, Inv
<1>2. CASE LastHandlerAnswers(n)
  <2>1. InFlight' = InFlight \ {n} /\ \A m \in InFlight' : left'[m] \in Nat \ {0}
    BY <1>2 DEF LastHandlerAnswers, InFlight, Restrict, Inv, TypeOK
  <2>2. stopper' \in [Stoppers -> Pending]
    BY <1>2 DEF LastHandlerAnswers, Wakes, Wake, Inv, TypeOK, Pending
  <2>3. buffer' \in Seq(Calls) /\ Len(buffer') <= Capacity
    BY <1>2, SettledProperties DEF LastHandlerAnswers, Inv
  <2>4. TypeOK'
    BY <1>2, <2>1, <2>2, <2>3 DEF LastHandlerAnswers, Inv, TypeOK
  <2>5. StopOK'
    <3>1. /\ UNCHANGED <<running, shuttingDown, drainResolve>>
          /\ stopper' = IF Wakes(n) THEN Wake(drainResolve) ELSE stopper
          /\ stopper \in [Stoppers -> Pending] /\ drainResolve \in Stoppers \cup {NoStopper}
      BY <1>2 DEF LastHandlerAnswers, Inv, TypeOK
    <3>2. CASE Wakes(n)
      BY <2>1, <3>1, <3>2 DEF Wakes, Wake, Inv, StopOK
    <3>3. CASE ~Wakes(n)
      BY <2>1, <3>1, <3>3 DEF Wakes, Inv, StopOK
    <3> QED
      BY <3>2, <3>3
  <2> QED
    BY <1>2, <2>4, <2>5, OtherCounts DEF LastHandlerAnswers, Inv
<1> QED
  BY <1>1, <1>2 DEF HandlerStep

\* shutdown and every step of a graceful shutdown keep the invariant.
LEMMA StopperInv ==
    ASSUME Inv, shutdown \/ \E s \in Stoppers : gracefulShutdown(s) \/ StopperStep(s)
    PROVE  Inv'
<1>1. CASE shutdown
  <2>1. TypeOK' /\ StopOK'
    BY <1>1 DEF shutdown, Inv, TypeOK, StopOK, InFlight
  <2> QED
    BY <1>1, <2>1, OtherCounts DEF shutdown, Inv
<1>2. ASSUME NEW s \in Stoppers, gracefulShutdown(s)
      PROVE  Inv'
  <2>1. TypeOK'
    BY <1>2 DEF gracefulShutdown, Inv, TypeOK, InFlight, Pending
  <2>2. StopOK'
    BY <1>2 DEF gracefulShutdown, Inv, TypeOK, StopOK, InFlight
  <2> QED
    BY <1>2, <2>1, <2>2, OtherCounts DEF gracefulShutdown, Inv
<1>3. ASSUME NEW s \in Stoppers, StopperStep(s)
      PROVE  Inv'
  <2>1. TypeOK'
    BY <1>3 DEF StopperStep, DrainReturns, DrainTimeout, Returns, Inv, TypeOK, InFlight, Pending
  <2>2. StopOK'
    BY <1>3 DEF StopperStep, DrainReturns, DrainTimeout, Returns, Inv, TypeOK, StopOK, InFlight
  <2> QED
    BY <1>3, <2>1, <2>2, OtherCounts DEF StopperStep, DrainReturns, DrainTimeout, Returns, Inv
<1> QED
  BY <1>1, <1>2, <1>3

\* A new bus satisfies the invariant.
LEMMA InitInv == Init => Inv
<1> SUFFICES ASSUME Init PROVE Inv
  OBVIOUS
<1>1. /\ Len(<< >>) = 0 /\ << >> \in Seq(Calls) /\ << >> \in Seq(Ids) /\ DOMAIN << >> = {}
  BY EmptySeq
<1>2. TypeOK
  <2>1. stopper \in [Stoppers -> Pending] /\ forgotten \in [Ids -> Nat] /\ InFlight = {}
    BY <1>1 DEF Init, InFlight, Pending
  <2>2. /\ buffer \in Seq(Calls) /\ Len(buffer) <= Capacity
        /\ cache \in Seq(Ids) /\ Len(cache) <= CacheSize /\ aged \in 0..Len(cache)
        /\ emitted \in Seq(Ids) /\ Len(emitted) <= MaxEmits
    BY <1>1 DEF Init
  <2> QED
    BY <2>1, <2>2 DEF Init, TypeOK
<1>3. StopOK
  BY DEF Init, StopOK
<1>4. CountOK
  <2> SUFFICES ASSUME NEW id \in Ids
               PROVE  Cardinality(AcceptedOf(id)) = forgotten[id] + IF Cached(id) THEN 1 ELSE 0
    BY DEF CountOK
  <2>1. AcceptedOf(id) = {} /\ forgotten[id] = 0
    BY DEF Init, AcceptedOf
  <2>2. ~Cached(id)
    BY <1>1 DEF Init, Cached
  <2>3. Cardinality({}) = 0
    BY FS_EmptySet
  <2> QED
    BY <2>1, <2>2, <2>3
<1> QED
  BY <1>2, <1>3, <1>4 DEF Inv

\* Every step keeps the invariant.
LEMMA NextInv == Inv /\ [Next]_vars => Inv'
<1> SUFFICES ASSUME Inv, [Next]_vars PROVE Inv'
  OBVIOUS
<1>1. ASSUME NEW id \in Ids, emit(id) PROVE Inv'
  BY <1>1, EmitTypes, EmitStops, EmitCounts DEF Inv
<1>2. CASE EntryAges
  <2>1. TypeOK'
    <3>1. Len(cache) \in Nat
      BY LenProperties DEF Inv, TypeOK
    <3>2. aged' \in 0..Len(cache)
      BY <1>2, <3>1 DEF EntryAges, Inv, TypeOK
    <3> QED
      BY <1>2, <3>2 DEF EntryAges, Inv, TypeOK, InFlight
  <2>2. StopOK'
    BY <1>2 DEF EntryAges, Inv, StopOK, InFlight
  <2> QED
    BY <1>2, <2>1, <2>2, OtherCounts DEF EntryAges, Inv
<1>3. ASSUME NEW n \in InFlight, HandlerStep(n) PROVE Inv'
  BY <1>3, HandlerInv
<1>4. CASE shutdown \/ \E s \in Stoppers : gracefulShutdown(s) \/ StopperStep(s)
  BY <1>4, StopperInv
<1>5. CASE drainBuffer
  <2>1. buffer' \in Seq(Calls) /\ Len(buffer') <= Capacity
    BY <1>5, EmptySeq DEF drainBuffer
  <2>2. TypeOK' /\ StopOK'
    BY <1>5, <2>1 DEF drainBuffer, Inv, TypeOK, StopOK, InFlight
  <2> QED
    BY <1>5, <2>2, OtherCounts DEF drainBuffer, Inv
<1>6. CASE UNCHANGED vars
  BY <1>6 DEF vars, Inv, TypeOK, StopOK, CountOK, AcceptedOf, Cached, InFlight
<1> QED
  BY <1>1, <1>2, <1>3, <1>4, <1>5, <1>6 DEF Next

\* The specification keeps the invariant.
LEMMA Invariant == Spec => []Inv
BY InitInv, NextInv, PTL DEF Spec
-----------------------------------------------------------------------------
(* Theorems *)

\* The bus keeps its types, and neither its buffer nor its idempotency cache
\* outgrows its capacity.
THEOREM BusTypeCorrect == Spec => []TypeOK
<1>1. Inv => TypeOK
  BY DEF Inv
<1> QED
  BY <1>1, Invariant, PTL

\* A graceful shutdown that returns in time has drained the bus for good, and
\* an empty bus leaves no shutdown that took _drainResolve waiting.
THEOREM ShutdownComplete == Spec => []ShutdownDrains
<1>1. Inv => ShutdownDrains
  BY DEF Inv, StopOK, ShutdownDrains
<1> QED
  BY <1>1, Invariant, PTL

\* emit accepts an identity a second time only after the cache dropped it.
THEOREM HandledOnce == Spec => []IdempotentWhileCached
<1>1. Inv => IdempotentWhileCached
  <2> SUFFICES ASSUME Inv, NEW id \in Ids
               PROVE  Cardinality({n \in accepted : emitted[n] = id}) <= forgotten[id] + 1
    BY DEF IdempotentWhileCached
  <2>1. forgotten[id] \in Nat
    BY DEF Inv, TypeOK
  <2>2. Cardinality(AcceptedOf(id)) = forgotten[id] + IF Cached(id) THEN 1 ELSE 0
    BY DEF Inv, CountOK
  <2> QED
    BY <2>1, <2>2 DEF AcceptedOf
<1> QED
  BY <1>1, Invariant, PTL
=============================================================================
