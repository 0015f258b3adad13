-------------------------- MODULE FileMemoryProofs --------------------------
(***************************************************************************)
(* The safety of FileAdapter for any number of processes, observations and *)
(* process ends.                                                           *)
(***************************************************************************)
EXTENDS FileMemory, TLAPS

\* The cache of a process that has read the file is what it read and what it
\* acknowledged; one that has not, or could not, holds nothing to flush.
CacheOK(p) ==
    /\ mem[p].objects = mem[p].base \cup mem[p].acked
    /\ ~mem[p].loaded \/ mem[p].loadError => mem[p].objects = {} /\ ~mem[p].dirty
    /\ mem[p].loaded /\ ~mem[p].loadError => file.state # "corrupt"
    /\ mem[p].loadError => mem[p].loaded

\* A persist that has begun has a dirty cache; from the moment it is turned
\* into JSON that JSON is the cache, since a write would need the lock.
PersistOK(p) ==
    /\ pc[<<p, "persist">>] # "idle" => mem[p].dirty
    /\ pc[<<p, "persist">>] \in {"renaming", "renamed"} => data[p] = mem[p].objects

\* A write under way has an observation.
WriteOK(p) == pc[<<p, "write">>] # "idle" => item[p] \in Observations

\* As long as no two processes had the file loaded at once: only one has it
\* now, its cache covers what persist promised, and while it is clean, or just
\* renamed, the file covers the cache.
AloneOK ==
    ~overlap =>
        /\ \A p, q \in Procs : mem[p].loaded /\ mem[q].loaded => p = q
        /\ durable \subseteq file.holds
        /\ \A p \in Procs : mem[p].loaded /\ ~mem[p].loadError =>
              /\ durable \subseteq mem[p].objects
              /\ ~mem[p].dirty \/ pc[<<p, "persist">>] = "renamed" =>
                    mem[p].objects \subseteq file.holds

Inv ==
    /\ TypeOK
    /\ LockHeld
    /\ \A p \in Procs : CacheOK(p) /\ PersistOK(p) /\ WriteOK(p)
    /\ AloneOK

\* A step of one process.
Step(p) ==
    \/ WriteBegins(p) \/ WriteStep(p) \/ QueryBegins(p) \/ QueryReturns(p)
    \/ PersistBegins(p) \/ PersistStep(p) \/ load(p) \/ Ends(p)

USE FileAssumption
-----------------------------------------------------------------------------
(* Operations and the lock *)

\* The operations of a process are different ones, and none is the lock file's
\* two other states.
LEMMA OpsDiffer ==
    /\ \A p \in Procs, k \in Kinds : <<p, k>> \in Ops
    /\ Free \notin Ops /\ Behind \notin Ops /\ Free # Behind
    /\ \A o \in Ops : o[1] \in Procs /\ o[2] \in Kinds /\ o = <<o[1], o[2]>>
    /\ Kinds = {"write", "query", "persist"}
BY DEF Ops, Free, Behind, Kinds

\* What a load makes of an adapter's fields.
LEMMA HoldingFields ==
    ASSUME NEW m \in Memory, NEW S \in SUBSET Observations
    PROVE  LET k == Holding(m, S)
           IN  /\ k \in Memory /\ k.loaded = TRUE /\ k.loadError = m.loadError
               /\ k.dirty = m.dirty /\ k.objects = S /\ k.base = S /\ k.acked = m.acked
BY DEF Memory, Holding

\* What a load that failed makes of them.
LEMMA LoadFailedFields ==
    ASSUME NEW m \in Memory
    PROVE  LET k == LoadFailed(m)
           IN  /\ k \in Memory /\ k.loaded = TRUE /\ k.loadError = TRUE /\ k.dirty = m.dirty
               /\ k.objects = m.objects /\ k.base = m.base /\ k.acked = m.acked
BY DEF Memory, LoadFailed

\* What a write makes of them.
LEMMA AcknowledgedFields ==
    ASSUME NEW m \in Memory, NEW o \in Observations
    PROVE  LET k == Acknowledged(m, o)
           IN  /\ k \in Memory /\ k.loaded = m.loaded /\ k.loadError = m.loadError
               /\ k.dirty = TRUE /\ k.objects = m.objects \cup {o} /\ k.base = m.base
               /\ k.acked = m.acked \cup {o}
BY DEF Memory, Acknowledged

\* What an assignment to the dirty flag makes of them.
LEMMA FlaggedFields ==
    ASSUME NEW m \in Memory, NEW b \in BOOLEAN
    PROVE  LET k == Flagged(m, b)
           IN  /\ k \in Memory /\ k.loaded = m.loaded /\ k.loadError = m.loadError
               /\ k.dirty = b /\ k.objects = m.objects /\ k.base = m.base
               /\ k.acked = m.acked
BY DEF Memory, Flagged
-----------------------------------------------------------------------------
(* Every step keeps the types and the lock *)

\* Every step keeps the types.
LEMMA TypeStep ==
    ASSUME Inv, NEW p \in Procs, Step(p)
    PROVE  TypeOK'
<1>1. CASE WriteBegins(p)
  <2>1. writes + 1 \in 0..MaxWrites
    BY <1>1 DEF Inv, TypeOK, WriteBegins
  <2> QED
    BY <1>1, <2>1, OpsDiffer DEF Inv, TypeOK, WriteBegins
<1>2. CASE WriteLocks(p)
  BY <1>2, OpsDiffer DEF Inv, TypeOK, WriteLocks, acquireLock
<1>3. CASE WriteTimesOut(p)
  BY <1>3, OpsDiffer DEF Inv, TypeOK, WriteTimesOut, LockTimeout
<1>4. CASE WriteApplies(p)
  <2>1. item[p] \in Observations /\ Acknowledged(mem[p], item[p]) \in Memory
    BY <1>4, AcknowledgedFields DEF Inv, TypeOK, WriteApplies, WriteOK
  <2> QED
    BY <1>4, <2>1, OpsDiffer DEF Inv, TypeOK, WriteApplies, releaseLock
<1>5. CASE QueryBegins(p)
  BY <1>5, OpsDiffer DEF Inv, TypeOK, QueryBegins
<1>6. CASE QueryReturns(p)
  BY <1>6, OpsDiffer DEF Inv, TypeOK, QueryReturns
<1>7. CASE PersistBegins(p)
  <2>1. mem[p].acked \in SUBSET Observations
    BY DEF Inv, TypeOK, Memory
  <2> QED
    BY <1>7, <2>1, OpsDiffer DEF Inv, TypeOK, PersistBegins
<1>8. CASE PersistLocks(p)
  BY <1>8, OpsDiffer DEF Inv, TypeOK, PersistLocks, acquireLock
<1>9. CASE PersistTimesOut(p)
  <2>1. Flagged(mem[p], TRUE) \in Memory
    BY FlaggedFields DEF Inv, TypeOK
  <2> QED
    BY <1>9, <2>1, OpsDiffer DEF Inv, TypeOK, PersistTimesOut, LockTimeout
<1>10. CASE FlushWrites(p)
  <2>1. mem[p].objects \in SUBSET Observations
    BY DEF Inv, TypeOK, Memory
  <2> QED
    BY <1>10, <2>1, OpsDiffer DEF Inv, TypeOK, FlushWrites
<1>11. CASE FlushRenames(p)
  BY <1>11, OpsDiffer DEF Inv, TypeOK, FlushRenames, File
<1>12. CASE FlushReturns(p)
  <2>1. Flagged(mem[p], FALSE) \in Memory
    BY FlaggedFields DEF Inv, TypeOK
  <2> QED
    BY <1>12, <2>1, OpsDiffer DEF Inv, TypeOK, FlushReturns, releaseLock
<1>13. CASE FlushFails(p)
  <2>1. Flagged(mem[p], TRUE) \in Memory
    BY FlaggedFields DEF Inv, TypeOK
  <2> QED
    BY <1>13, <2>1, OpsDiffer DEF Inv, TypeOK, FlushFails, releaseLock
<1>14. CASE load(p)
  <2>1. LoadFailed(mem[p]) \in Memory
    BY LoadFailedFields DEF Inv, TypeOK
  <2>2. Holding(mem[p], file.holds) \in Memory
    BY HoldingFields DEF Inv, TypeOK, File
  <2> QED
    BY <1>14, <2>1, <2>2, OpsDiffer DEF Inv, TypeOK, load
<1>15. CASE Ends(p)
  BY <1>15, OpsDiffer DEF Inv, TypeOK, Ends, Memory, NewMemory
<1> QED
  BY <1>1, <1>2, <1>3, <1>4, <1>5, <1>6, <1>7, <1>8, <1>9, <1>10, <1>11, <1>12, <1>13, <1>14, <1>15 DEF Step, WriteStep, PersistStep

\* An operation gets the lock only while it is free, and it alone gives it up.
LEMMA LockStep ==
    ASSUME Inv, NEW p \in Procs, Step(p)
    PROVE  LockHeld'
<1>1. CASE WriteBegins(p)
  BY <1>1, OpsDiffer DEF Inv, TypeOK, LockHeld, WriteBegins
<1>2. CASE WriteLocks(p)
  BY <1>2, OpsDiffer DEF Inv, TypeOK, LockHeld, WriteLocks, acquireLock
<1>3. CASE WriteTimesOut(p)
  BY <1>3, OpsDiffer DEF Inv, TypeOK, LockHeld, WriteTimesOut, LockTimeout
<1>4. CASE WriteApplies(p)
  <2>1. lock = <<p, "write">> /\ <<p, "write">> \in Ops
    BY <1>4, OpsDiffer DEF Inv, LockHeld, WriteApplies
  <2>2. pc' = [pc EXCEPT ![<<p, "write">>] = "idle"]
    BY <1>4 DEF WriteApplies
  <2> QED
    BY <2>1, <2>2 DEF Inv, TypeOK, LockHeld
<1>5. CASE QueryBegins(p)
  BY <1>5, OpsDiffer DEF Inv, TypeOK, LockHeld, QueryBegins
<1>6. CASE QueryReturns(p)
  BY <1>6, OpsDiffer DEF Inv, TypeOK, LockHeld, QueryReturns
<1>7. CASE PersistBegins(p)
  BY <1>7, OpsDiffer DEF Inv, TypeOK, LockHeld, PersistBegins
<1>8. CASE PersistLocks(p)
  BY <1>8, OpsDiffer DEF Inv, TypeOK, LockHeld, PersistLocks, acquireLock
<1>9. CASE PersistTimesOut(p)
  BY <1>9, OpsDiffer DEF Inv, TypeOK, LockHeld, PersistTimesOut, LockTimeout
<1>10. CASE FlushWrites(p)
  BY <1>10, OpsDiffer DEF Inv, TypeOK, LockHeld, FlushWrites
<1>11. CASE FlushRenames(p)
  BY <1>11, OpsDiffer DEF Inv, TypeOK, LockHeld, FlushRenames
<1>12. CASE FlushReturns(p)
  BY <1>12, OpsDiffer DEF Inv, TypeOK, LockHeld, FlushReturns, releaseLock
<1>13. CASE FlushFails(p)
  BY <1>13, OpsDiffer DEF Inv, TypeOK, LockHeld, FlushFails, releaseLock
<1>14. CASE load(p)
  BY <1>14, OpsDiffer DEF Inv, TypeOK, LockHeld, load
<1>15. CASE Ends(p)
  BY <1>15, OpsDiffer DEF Inv, TypeOK, LockHeld, Ends
<1> QED
  BY <1>1, <1>2, <1>3, <1>4, <1>5, <1>6, <1>7, <1>8, <1>9, <1>10, <1>11, <1>12, <1>13, <1>14, <1>15 DEF Step, WriteStep, PersistStep
-----------------------------------------------------------------------------
(* What each process knows *)

\* Every step keeps what a process knows of its cache, its flush and its write,
\* whichever process takes it.
LEMMA LocalStep ==
    ASSUME Inv, NEW p \in Procs, Step(p),
           NEW q \in Procs
    PROVE  CacheOK(q)' /\ PersistOK(q)' /\ WriteOK(q)'
<1>0. /\ CacheOK(q) /\ PersistOK(q) /\ WriteOK(q) /\ CacheOK(p) /\ PersistOK(p) /\ WriteOK(p)
      /\ mem \in [Procs -> Memory] /\ mem[p] \in Memory
      /\ pc \in [Ops -> {"idle", "locking", "loading", "making", "renaming", "renamed"}]
      /\ <<q, "write">> \in Ops /\ <<q, "persist">> \in Ops /\ <<q, "query">> \in Ops
      /\ item \in [Procs -> 0..MaxWrites] /\ data \in [Procs -> SUBSET Observations]
      /\ file \in File
  BY OpsDiffer DEF Inv, TypeOK
<1> USE <1>0 DEF CacheOK, PersistOK, WriteOK
<1>1. CASE WriteBegins(p)
  <2>1. writes + 1 \in Observations
    BY <1>1 DEF Inv, TypeOK, WriteBegins, Observations
  <2> QED
    BY <1>1, <2>1 DEF WriteBegins
<1>2. CASE WriteLocks(p)
  BY <1>2 DEF WriteLocks, acquireLock
<1>3. CASE WriteTimesOut(p)
  BY <1>3 DEF WriteTimesOut, LockTimeout
<1>4. CASE WriteApplies(p)
  <2>1. pc[<<p, "persist">>] \notin {"renaming", "renamed"}
    <3>1. lock = <<p, "write">>
      BY <1>4, OpsDiffer DEF Inv, LockHeld, WriteApplies
    <3>2. <<p, "write">> # <<p, "persist">>
      OBVIOUS
    <3> QED
      BY <3>1, <3>2, OpsDiffer DEF Inv, LockHeld
  <2>2. item[p] \in Observations
    BY <1>4 DEF WriteApplies
  <2>3. CASE mem[p].loadError
    BY <1>4, <2>3 DEF WriteApplies
  <2>4. CASE ~mem[p].loadError
    <3> DEFINE k == Acknowledged(mem[p], item[p])
    <3>1. /\ k.loaded = mem[p].loaded /\ k.loadError = mem[p].loadError /\ k.dirty = TRUE
          /\ k.objects = mem[p].objects \cup {item[p]} /\ k.base = mem[p].base
          /\ k.acked = mem[p].acked \cup {item[p]}
      BY <2>2, AcknowledgedFields
    <3>2. mem' = [mem EXCEPT ![p] = k]
      BY <1>4, <2>4 DEF WriteApplies
    <3> HIDE DEF k
    <3> QED
      BY <1>4, <2>1, <2>4, <3>1, <3>2 DEF WriteApplies
  <2> QED
    BY <2>3, <2>4
<1>5. CASE QueryBegins(p)
  BY <1>5 DEF QueryBegins
<1>6. CASE QueryReturns(p)
  BY <1>6 DEF QueryReturns
<1>7. CASE PersistBegins(p)
  BY <1>7 DEF PersistBegins
<1>8. CASE PersistLocks(p)
  BY <1>8 DEF PersistLocks, acquireLock
<1>9. CASE PersistTimesOut(p)
  BY <1>9, FlaggedFields DEF PersistTimesOut, LockTimeout
<1>10. CASE FlushWrites(p)
  BY <1>10 DEF FlushWrites
<1>11. CASE FlushRenames(p)
  BY <1>11 DEF FlushRenames
<1>12. CASE FlushReturns(p)
  BY <1>12, FlaggedFields DEF FlushReturns, releaseLock
<1>13. CASE FlushFails(p)
  BY <1>13, FlaggedFields DEF FlushFails, releaseLock
<1>14. CASE load(p)
  <2>1. file.holds \in SUBSET Observations
    BY DEF File
  <2>2. CASE mem' = [mem EXCEPT ![p] = Holding(mem[p], file.holds)] /\ file.state # "corrupt"
    <3> DEFINE k == Holding(mem[p], file.holds)
    <3>1. /\ k.loaded = TRUE /\ k.loadError = mem[p].loadError /\ k.dirty = mem[p].dirty
          /\ k.objects = file.holds /\ k.base = file.holds /\ k.acked = mem[p].acked
      BY <2>1, HoldingFields
    <3>2. ~mem[p].loadError /\ ~mem[p].dirty /\ mem[p].acked = {}
      BY <1>14 DEF load
    <3>3. mem' = [mem EXCEPT ![p] = k] /\ UNCHANGED <<file, pc, data, item>>
      BY <1>14, <2>2 DEF load
    <3>4. pc[<<p, "persist">>] = "idle"
      BY <3>2
    <3>5. k.objects = k.base \cup k.acked
      BY <3>1, <3>2
    <3> HIDE DEF k
    <3>6. CASE q = p
      BY <2>2, <3>1, <3>2, <3>3, <3>4, <3>5, <3>6
    <3>7. CASE q # p
      BY <3>3, <3>7
    <3> QED
      BY <3>6, <3>7
  <2>3. CASE mem' = [mem EXCEPT ![p] = LoadFailed(mem[p])]
    BY <1>14, <2>3, LoadFailedFields DEF load
  <2> QED
    BY <1>14, <2>2, <2>3 DEF load
<1>15. CASE Ends(p)
  BY <1>15 DEF Ends, NewMemory
<1> QED
  BY <1>1, <1>2, <1>3, <1>4, <1>5, <1>6, <1>7, <1>8, <1>9, <1>10, <1>11, <1>12, <1>13, <1>14, <1>15 DEF Step, WriteStep, PersistStep
-----------------------------------------------------------------------------
(* One process at a time *)

\* The facts about a process that is about to write or to flush: its cache is
\* good, and no write joins the cache of a process between rename and return.
LEMMA Exclusive ==
    ASSUME Inv, NEW p \in Procs
    PROVE  /\ pc[<<p, "write">>] = "loading" => pc[<<p, "persist">>] # "renamed"
           /\ pc[<<p, "persist">>] # "idle" => mem[p].loaded /\ ~mem[p].loadError /\ mem[p].dirty
           /\ pc[<<p, "persist">>] \in {"renaming", "renamed"} => data[p] = mem[p].objects
           /\ mem[p].acked \subseteq mem[p].objects
           /\ ~mem[p].loaded \/ mem[p].loadError => mem[p].acked = {}
<1>1. <<p, "write">> \in Ops /\ <<p, "persist">> \in Ops /\ <<p, "write">> # <<p, "persist">>
  BY OpsDiffer
<1>2. pc[<<p, "write">>] = "loading" => pc[<<p, "persist">>] # "renamed"
  BY <1>1 DEF Inv, LockHeld
<1>3. CacheOK(p) /\ PersistOK(p)
  BY DEF Inv
<1> QED
  BY <1>2, <1>3 DEF CacheOK, PersistOK

\* Every step keeps what is known as long as no two processes had the file
\* loaded at once.
LEMMA AloneStep ==
    ASSUME Inv, NEW p \in Procs, Step(p)
    PROVE  AloneOK'
<1> SUFFICES ASSUME ~overlap'
             PROVE  /\ \A r, q \in Procs : mem'[r].loaded /\ mem'[q].loaded => r = q
                    /\ durable' \subseteq file'.holds
                    /\ \A q \in Procs : mem'[q].loaded /\ ~mem'[q].loadError =>
                          /\ durable' \subseteq mem'[q].objects
                          /\ ~mem'[q].dirty \/ pc'[<<q, "persist">>] = "renamed" =>
                                mem'[q].objects \subseteq file'.holds
  BY DEF AloneOK
<1>0. /\ ~overlap => AloneOK
      /\ mem \in [Procs -> Memory] /\ mem[p] \in Memory /\ file \in File
      /\ pc \in [Ops -> {"idle", "locking", "loading", "making", "renaming", "renamed"}]
      /\ \A q \in Procs : <<q, "write">> \in Ops /\ <<q, "persist">> \in Ops /\ <<q, "query">> \in Ops
  BY OpsDiffer DEF Inv, TypeOK
<1> USE <1>0 DEF AloneOK
<1>1. CASE WriteBegins(p)
  BY <1>1 DEF WriteBegins
<1>2. CASE WriteLocks(p)
  BY <1>2 DEF WriteLocks, acquireLock
<1>3. CASE WriteTimesOut(p)
  BY <1>3 DEF WriteTimesOut, LockTimeout
<1>4. CASE WriteApplies(p)
  <2>1. item[p] \in Observations
    BY <1>4 DEF Inv, WriteOK, WriteApplies
  <2>2. CASE mem[p].loadError
    BY <1>4, <2>2 DEF WriteApplies
  <2>3. CASE ~mem[p].loadError
    <3> DEFINE k == Acknowledged(mem[p], item[p])
    <3>1. /\ k.loaded = mem[p].loaded /\ k.loadError = mem[p].loadError /\ k.dirty = TRUE
          /\ k.objects = mem[p].objects \cup {item[p]}
      BY <2>1, AcknowledgedFields
    <3>2. mem' = [mem EXCEPT ![p] = k]
      BY <1>4, <2>3 DEF WriteApplies
    <3> HIDE DEF k
    <3> QED
      BY <1>4, <3>1, <3>2, Exclusive DEF WriteApplies
  <2> QED
    BY <2>2, <2>3
<1>5. CASE QueryBegins(p)
  BY <1>5 DEF QueryBegins
<1>6. CASE QueryReturns(p)
  BY <1>6 DEF QueryReturns
<1>7. CASE PersistBegins(p)
  <2>1. UNCHANGED <<file, mem, overlap>> /\ \A q \in Procs : pc'[<<q, "persist">>] = "renamed" =>
                                                        pc[<<q, "persist">>] = "renamed"
    BY <1>7 DEF PersistBegins
  <2>2. CASE mem[p].dirty
    BY <1>7, <2>1, <2>2 DEF PersistBegins
  <2>3. CASE ~mem[p].dirty
    <3>1. durable' = durable \cup mem[p].acked
      BY <1>7, <2>3 DEF PersistBegins
    <3>2. CASE mem[p].loaded /\ ~mem[p].loadError
      <4>1. mem[p].acked \subseteq mem[p].objects /\ mem[p].objects \subseteq file.holds
        BY <2>1, <2>3, <3>2, Exclusive
      <4> QED
        BY <2>1, <3>1, <3>2, <4>1
    <3>3. CASE ~mem[p].loaded \/ mem[p].loadError
      <4>1. durable' = durable
        BY <3>1, <3>3, Exclusive
      <4> QED
        BY <2>1, <4>1
    <3> QED
      BY <3>2, <3>3
  <2> QED
    BY <2>2, <2>3
<1>8. CASE PersistLocks(p)
  BY <1>8 DEF PersistLocks, acquireLock
<1>9. CASE PersistTimesOut(p)
  <2> DEFINE k == Flagged(mem[p], TRUE)
  <2>1. /\ k.loaded = mem[p].loaded /\ k.loadError = mem[p].loadError /\ k.dirty = TRUE
        /\ k.objects = mem[p].objects
    BY FlaggedFields
  <2>2. mem' = [mem EXCEPT ![p] = k]
    BY <1>9 DEF PersistTimesOut
  <2> HIDE DEF k
  <2>3. /\ \A q \in Procs : /\ mem'[q].loaded = mem[q].loaded
                            /\ mem'[q].loadError = mem[q].loadError
                            /\ mem'[q].objects = mem[q].objects
                            /\ q # p => mem'[q].dirty = mem[q].dirty
        /\ mem'[p].dirty = TRUE
    BY <2>1, <2>2
  <2>4. /\ pc'[<<p, "persist">>] = "idle" /\ UNCHANGED <<file, durable, overlap>>
        /\ \A q \in Procs \ {p} : pc'[<<q, "persist">>] = pc[<<q, "persist">>]
    BY <1>9 DEF PersistTimesOut, LockTimeout
  <2> QED
    BY <2>3, <2>4
<1>10. CASE FlushWrites(p)
  BY <1>10 DEF FlushWrites
<1>11. CASE FlushRenames(p)
  BY <1>11, Exclusive DEF FlushRenames
<1>12. CASE FlushReturns(p)
  <2> DEFINE k == Flagged(mem[p], FALSE)
  <2>1. /\ k.loaded = mem[p].loaded /\ k.loadError = mem[p].loadError /\ k.dirty = FALSE
        /\ k.objects = mem[p].objects
    BY FlaggedFields
  <2>2. mem' = [mem EXCEPT ![p] = k]
    BY <1>12 DEF FlushReturns
  <2> HIDE DEF k
  <2>3. /\ \A q \in Procs : /\ mem'[q].loaded = mem[q].loaded
                            /\ mem'[q].loadError = mem[q].loadError
                            /\ mem'[q].objects = mem[q].objects
                            /\ q # p => mem'[q].dirty = mem[q].dirty
        /\ mem'[p].dirty = FALSE
    BY <2>1, <2>2
  <2>4. /\ pc'[<<p, "persist">>] = "idle" /\ UNCHANGED <<file, overlap>>
        /\ \A q \in Procs \ {p} : pc'[<<q, "persist">>] = pc[<<q, "persist">>]
    BY <1>12 DEF FlushReturns
  <2>5. /\ mem[p].loaded /\ ~mem[p].loadError /\ mem[p].objects \subseteq file.holds
        /\ durable' = durable \cup mem[p].objects
    <3>1. pc[<<p, "persist">>] = "renamed" /\ durable' = durable \cup data[p]
      BY <1>12 DEF FlushReturns
    <3>2. mem[p].loaded /\ ~mem[p].loadError /\ data[p] = mem[p].objects
      BY <3>1, Exclusive
    <3> QED
      BY <2>4, <3>1, <3>2
  <2> QED
    BY <2>3, <2>4, <2>5
<1>13. CASE FlushFails(p)
  <2> DEFINE k == Flagged(mem[p], TRUE)
  <2>1. /\ k.loaded = mem[p].loaded /\ k.loadError = mem[p].loadError /\ k.dirty = TRUE
        /\ k.objects = mem[p].objects
    BY FlaggedFields
  <2>2. mem' = [mem EXCEPT ![p] = k]
    BY <1>13 DEF FlushFails
  <2> HIDE DEF k
  <2>3. /\ \A q \in Procs : /\ mem'[q].loaded = mem[q].loaded
                            /\ mem'[q].loadError = mem[q].loadError
                            /\ mem'[q].objects = mem[q].objects
                            /\ q # p => mem'[q].dirty = mem[q].dirty
        /\ mem'[p].dirty = TRUE
    BY <2>1, <2>2
  <2>4. /\ pc'[<<p, "persist">>] = "idle" /\ UNCHANGED <<file, durable, overlap>>
        /\ \A q \in Procs \ {p} : pc'[<<q, "persist">>] = pc[<<q, "persist">>]
    BY <1>13 DEF FlushFails
  <2> QED
    BY <2>3, <2>4
<1>14. CASE load(p)
  <2>1. /\ \A q \in Procs \ {p} : ~mem[q].loaded
        /\ ~mem[p].loaded /\ ~overlap
        /\ UNCHANGED <<file, pc, durable>>
    BY <1>14 DEF load
  <2>2. pc[<<p, "persist">>] = "idle"
    BY <2>1, Exclusive
  <2>3. CASE mem' = [mem EXCEPT ![p] = Holding(mem[p], file.holds)]
    <3>1. Holding(mem[p], file.holds).objects = file.holds
      BY HoldingFields DEF File
    <3> QED
      BY <2>1, <2>2, <2>3, <3>1
  <2>4. CASE mem' = [mem EXCEPT ![p] = LoadFailed(mem[p])]
    BY <2>1, <2>4, LoadFailedFields
  <2> QED
    BY <1>14, <2>3, <2>4 DEF load
<1>15. CASE Ends(p)
  BY <1>15 DEF Ends, NewMemory
<1> QED
  BY <1>1, <1>2, <1>3, <1>4, <1>5, <1>6, <1>7, <1>8, <1>9, <1>10, <1>11, <1>12, <1>13, <1>14, <1>15 DEF Step, WriteStep, PersistStep
-----------------------------------------------------------------------------
(* The invariant *)

\* Every initial file, read or not, satisfies the invariant.
LEMMA InitInv == Init => Inv
<1> SUFFICES ASSUME Init PROVE Inv
  OBVIOUS
<1>1. TypeOK
  <2>1. NewMemory \in Memory
    BY DEF Memory, NewMemory
  <2>2. file \in File
    BY DEF Init
  <2>3. writes \in 0..MaxWrites /\ ends \in 0..MaxEnds /\ 0 \in 0..MaxWrites
    BY DEF Init
  <2> QED
    BY <2>1, <2>2, <2>3 DEF Init, TypeOK
<1>2. LockHeld
  BY DEF Init, LockHeld
<1>3. \A p \in Procs : CacheOK(p) /\ PersistOK(p) /\ WriteOK(p)
  BY OpsDiffer DEF Init, CacheOK, PersistOK, WriteOK, NewMemory
<1>4. AloneOK
  BY DEF Init, AloneOK, NewMemory
<1> QED
  BY <1>1, <1>2, <1>3, <1>4 DEF Inv

\* Every step keeps the invariant.
LEMMA NextInv == Inv /\ [Next]_vars => Inv'
<1> SUFFICES ASSUME Inv, [Next]_vars PROVE Inv'
  OBVIOUS
<1>1. CASE Next
  <2> PICK p \in Procs : Step(p)
    BY <1>1 DEF Next, Step
  <2>1. TypeOK' /\ LockHeld' /\ AloneOK'
    BY TypeStep, LockStep, AloneStep
  <2>2. \A q \in Procs : CacheOK(q)' /\ PersistOK(q)' /\ WriteOK(q)'
    BY LocalStep
  <2> QED
    BY <2>1, <2>2 DEF Inv
<1>2. CASE UNCHANGED vars
  BY <1>2 DEF vars, Inv, TypeOK, LockHeld, CacheOK, PersistOK, WriteOK, AloneOK
<1> QED
  BY <1>1, <1>2

\* The specification keeps the invariant.
LEMMA Invariant == Spec => []Inv
BY InitInv, NextInv, PTL DEF Spec
-----------------------------------------------------------------------------
(* Theorems *)

\* FileAdapter's fields, its lock file and its data file keep their types.
THEOREM TypeCorrect == Spec => []TypeOK
<1>1. Inv => TypeOK
  BY DEF Inv
<1> QED
  BY <1>1, Invariant, PTL

\* The lock of acquireLock and releaseLock excludes flushes and writes from
\* each other, across any number of processes and of their ends.
THEOREM LockExcludes == Spec => []LockHeld
<1>1. Inv => LockHeld
  BY DEF Inv
<1> QED
  BY <1>1, Invariant, PTL

\* A flush writes all a process has read and acknowledged, and what a persist
\* covered stays in the file while one process at a time has it loaded.
THEOREM Durable == Spec => []DurableWhenAlone
<1>1. Inv => DurableWhenAlone
  BY OpsDiffer DEF Inv, DurableWhenAlone, CacheOK, PersistOK, AloneOK
<1> QED
  BY <1>1, Invariant, PTL

\* No flush overwrites a file that could not be read: a persist under way has
\* a dirty cache, and only a cache that was read from the file gets dirty.
THEOREM CorruptFileKept == Spec => CorruptStays
<1>1. Inv /\ [Next]_vars => [file.state = "corrupt" => file' = file]_vars
  <2> SUFFICES ASSUME Inv, Next, file.state = "corrupt" PROVE file' = file
    BY DEF vars
  <2> PICK p \in Procs : Step(p)
    BY DEF Next, Step
  <2>1. ~FlushRenames(p)
    BY Exclusive DEF FlushRenames, Inv, CacheOK
  <2> QED
    BY <2>1 DEF Step, WriteBegins, WriteStep, WriteLocks, WriteTimesOut, WriteApplies, QueryBegins,
                QueryReturns, PersistBegins, PersistStep, PersistLocks, PersistTimesOut,
                FlushWrites, FlushReturns, FlushFails, load, Ends
<1> QED
  BY <1>1, Invariant, PTL DEF CorruptStays, Spec
=============================================================================
