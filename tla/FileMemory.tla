----------------------------- MODULE FileMemory -----------------------------
(***************************************************************************)
(* memory-palace's FileAdapter: processes that keep their observations in  *)
(* one JSON file, each through one adapter with a cache in memory, guarded *)
(* by a lock file.  In a process a write, a query and a persist may be     *)
(* under way at the same time; everything between two awaits is one        *)
(* action.  A process may end at any point and start again.  clear() is    *)
(* left out: nothing in the repository calls it.                           *)
(***************************************************************************)
EXTENDS Integers, FiniteSets

CONSTANTS
    Procs,       \* processes that use the file
    FirstFiles,  \* what the file may be before the first of them, see File
    MaxWrites,   \* bound: observations written
    MaxEnds      \* bound: how often a process ends

Observations == 1..MaxWrites

\* The file: a state and what it holds.  Only a readable one holds anything.
File == [state : {"absent", "readable", "corrupt"}, holds : SUBSET Observations]

ASSUME FileAssumption ==
    /\ FirstFiles \subseteq {f \in File : f.holds = {}}
    /\ MaxWrites \in Nat
    /\ MaxEnds \in Nat

Kinds == {"write", "query", "persist"}
Ops   == Procs \X Kinds

\* The lock file: absent, or there because of an operation, or left behind by
\* one that could not remove it or whose process ended.
Free   == <<"free", "free">>
Behind == <<"behind", "behind">>

VARIABLES
    file,      \* the data file
    lock,      \* the lock file
    mem,       \* per process: the adapter's fields
    pc,        \* per operation: where it is
    data,      \* per process: the JSON its flush is writing
    item,      \* per process: the observation its write is given
    writes,    \* observations given to a write so far
    ends,      \* how often a process has ended
    durable,   \* history: what a persist that reported no error covered
    overlap    \* history: two live processes had loaded the file

vars == <<file, lock, mem, pc, data, item, writes, ends, durable, overlap>>

\* acked and base are history: the writes this process has acknowledged, and
\* what the file held when it was loaded.
Memory == [objects : SUBSET Observations, dirty : BOOLEAN, loaded : BOOLEAN,
           loadError : BOOLEAN, acked : SUBSET Observations, base : SUBSET Observations]
NewMemory == [objects |-> {}, dirty |-> FALSE, loaded |-> FALSE,
              loadError |-> FALSE, acked |-> {}, base |-> {}]

\* The assignments to the fields: load, one that failed, a write, the flag.
Holding(m, objects)  == [m EXCEPT !.loaded = TRUE, !.objects = objects, !.base = objects]
LoadFailed(m)        == [m EXCEPT !.loaded = TRUE, !.loadError = TRUE]
Acknowledged(m, new) == [m EXCEPT !.objects = @ \cup {new}, !.dirty = TRUE, !.acked = @ \cup {new}]
Flagged(m, dirty)    == [m EXCEPT !.dirty = dirty]

Init ==
    /\ file \in FirstFiles
    /\ lock = Free
    /\ mem = [p \in Procs |-> NewMemory]
    /\ pc = [o \in Ops |-> "idle"]
    /\ data = [p \in Procs |-> {}]
    /\ item = [p \in Procs |-> 0]
    /\ writes = 0
    /\ ends = 0
    /\ durable = {}
    /\ overlap = FALSE
-----------------------------------------------------------------------------
(* The lock *)

\* releaseLock swallows a failed fsync, and then leaves the file.
releaseLock == lock' \in {Free, Behind}

acquireLock_Steals(o, to) ==
    /\ pc[o] = "locking"
    /\ lock' = o
    /\ pc' = [pc EXCEPT ![o] = to]

acquireLock(o, to) ==
    /\ pc[o] = "locking"
    /\ lock = Free
    /\ lock' = o
    /\ pc' = [pc EXCEPT ![o] = to]

\* The retry loop gives up after three or five seconds, or at once on an error
\* other than EEXIST and ENOENT.  Such an error in the write of the process id
\* leaves the lock file it has just made.
LockTimeout_WhenFree(o) ==
    /\ pc[o] = "locking"
    /\ lock = Free
    /\ lock' \in {Free, Behind}
    /\ pc' = [pc EXCEPT ![o] = "idle"]

LockTimeout(o) ==
    /\ pc[o] = "locking"
    /\ lock' \in IF lock = Free THEN {Free, Behind} ELSE {lock}
    /\ pc' = [pc EXCEPT ![o] = "idle"]
-----------------------------------------------------------------------------
(* load *)

load_AnyObjects(p) ==
    /\ \E kind \in {"write", "query"} : pc[<<p, kind>>] = "loading"
    /\ ~mem[p].loaded
    /\ mem' = [mem EXCEPT ![p].loaded = TRUE,
                          ![p].objects = IF file.state = "corrupt" THEN {0} ELSE file.holds,
                          ![p].base = file.holds]
    /\ overlap' = (overlap \/ \E q \in Procs \ {p} : mem[q].loaded)
    /\ UNCHANGED <<file, lock, pc, data, item, writes, ends, durable>>

\* A shared promise keeps the loads of one process together.  A file that is
\* not there is empty; one that cannot be read or parsed sets loadError, for
\* good.
load(p) ==
    /\ \E kind \in {"write", "query"} : pc[<<p, kind>>] = "loading"
    /\ ~mem[p].loaded
    /\ \/ /\ file.state # "corrupt"
          /\ mem' = [mem EXCEPT ![p] = Holding(mem[p], file.holds)]
       \/ /\ file.state # "absent"
          /\ mem' = [mem EXCEPT ![p] = LoadFailed(mem[p])]
    /\ overlap' = (overlap \/ \E q \in Procs \ {p} : mem[q].loaded)
    /\ UNCHANGED <<file, lock, pc, data, item, writes, ends, durable>>
-----------------------------------------------------------------------------
(* write *)

WriteBegins(p) ==
    /\ pc[<<p, "write">>] = "idle"
    /\ writes < MaxWrites
    /\ pc' = [pc EXCEPT ![<<p, "write">>] = "locking"]
    /\ writes' = writes + 1
    /\ item' = [item EXCEPT ![p] = writes + 1]
    /\ UNCHANGED <<file, lock, mem, data, ends, durable, overlap>>

WriteLocks(p) ==
    /\ acquireLock(<<p, "write">>, "loading")
    /\ UNCHANGED <<file, mem, data, item, writes, ends, durable, overlap>>

WriteTimesOut(p) ==
    /\ LockTimeout(<<p, "write">>)
    /\ UNCHANGED <<file, mem, data, item, writes, ends, durable, overlap>>

WriteApplies_IgnoresError(p) ==
    /\ pc[<<p, "write">>] = "loading"
    /\ mem[p].loaded
    /\ mem' = [mem EXCEPT ![p] = Acknowledged(mem[p], item[p])]
    /\ releaseLock
    /\ pc' = [pc EXCEPT ![<<p, "write">>] = "idle"]
    /\ UNCHANGED <<file, data, item, writes, ends, durable, overlap>>

\* The observation joins the cache, or the write answers with loadError.
WriteApplies(p) ==
    /\ pc[<<p, "write">>] = "loading"
    /\ mem[p].loaded
    /\ mem' = IF mem[p].loadError THEN mem
              ELSE [mem EXCEPT ![p] = Acknowledged(mem[p], item[p])]
    /\ releaseLock
    /\ pc' = [pc EXCEPT ![<<p, "write">>] = "idle"]
    /\ UNCHANGED <<file, data, item, writes, ends, durable, overlap>>
-----------------------------------------------------------------------------
(* read, query and stats *)

QueryBegins(p) ==
    /\ pc[<<p, "query">>] = "idle"
    /\ ~mem[p].loaded
    /\ pc' = [pc EXCEPT ![<<p, "query">>] = "loading"]
    /\ UNCHANGED <<file, lock, mem, data, item, writes, ends, durable, overlap>>

QueryReturns(p) ==
    /\ pc[<<p, "query">>] = "loading"
    /\ mem[p].loaded
    /\ pc' = [pc EXCEPT ![<<p, "query">>] = "idle"]
    /\ UNCHANGED <<file, lock, mem, data, item, writes, ends, durable, overlap>>
-----------------------------------------------------------------------------
(* persist, and the flush in it *)

\* A clean cache has nothing to flush: persist returns at once.
PersistBegins(p) ==
    /\ pc[<<p, "persist">>] = "idle"
    /\ IF mem[p].dirty
       THEN pc' = [pc EXCEPT ![<<p, "persist">>] = "locking"] /\ UNCHANGED durable
       ELSE durable' = durable \cup mem[p].acked /\ UNCHANGED pc
    /\ UNCHANGED <<file, lock, mem, data, item, writes, ends, overlap>>

PersistLocks(p) ==
    /\ acquireLock(<<p, "persist">>, "making")
    /\ UNCHANGED <<file, mem, data, item, writes, ends, durable, overlap>>

PersistTimesOut(p) ==
    /\ LockTimeout(<<p, "persist">>)
    /\ mem' = [mem EXCEPT ![p] = Flagged(mem[p], TRUE)]
    /\ UNCHANGED <<file, data, item, writes, ends, durable, overlap>>

\* After mkdir: the cache is turned into JSON, the temporary file is written.
FlushWrites(p) ==
    /\ pc[<<p, "persist">>] = "making"
    /\ data' = [data EXCEPT ![p] = mem[p].objects]
    /\ pc' = [pc EXCEPT ![<<p, "persist">>] = "renaming"]
    /\ UNCHANGED <<file, lock, mem, item, writes, ends, durable, overlap>>

FlushRenames(p) ==
    /\ pc[<<p, "persist">>] = "renaming"
    /\ file' = [state |-> "readable", holds |-> data[p]]
    /\ pc' = [pc EXCEPT ![<<p, "persist">>] = "renamed"]
    /\ UNCHANGED <<lock, mem, data, item, writes, ends, durable, overlap>>

FlushReturns(p) ==
    /\ pc[<<p, "persist">>] = "renamed"
    /\ mem' = [mem EXCEPT ![p] = Flagged(mem[p], FALSE)]
    /\ releaseLock
    /\ durable' = durable \cup data[p]
    /\ pc' = [pc EXCEPT ![<<p, "persist">>] = "idle"]
    /\ UNCHANGED <<file, data, item, writes, ends, overlap>>

FlushFails_Clean(p) ==
    /\ pc[<<p, "persist">>] \in {"making", "renaming"}
    /\ mem' = [mem EXCEPT ![p] = Flagged(mem[p], FALSE)]
    /\ releaseLock
    /\ pc' = [pc EXCEPT ![<<p, "persist">>] = "idle"]
    /\ UNCHANGED <<file, data, item, writes, ends, durable, overlap>>

FlushFails(p) ==
    /\ pc[<<p, "persist">>] \in {"making", "renaming"}
    /\ mem' = [mem EXCEPT ![p] = Flagged(mem[p], TRUE)]
    /\ releaseLock
    /\ pc' = [pc EXCEPT ![<<p, "persist">>] = "idle"]
    /\ UNCHANGED <<file, data, item, writes, ends, durable, overlap>>
-----------------------------------------------------------------------------
\* A process ends, by itself or killed, and a new one takes its place.
Ends(p) ==
    /\ ends < MaxEnds
    /\ ends' = ends + 1
    /\ mem' = [mem EXCEPT ![p] = NewMemory]
    /\ pc' = [o \in Ops |-> IF o[1] = p THEN "idle" ELSE pc[o]]
    /\ lock' = IF lock[1] = p THEN Behind ELSE lock
    /\ UNCHANGED <<file, data, item, writes, durable, overlap>>

WriteStep(p)   == WriteLocks(p) \/ WriteTimesOut(p) \/ WriteApplies(p)
PersistStep(p) == PersistLocks(p) \/ PersistTimesOut(p) \/ FlushWrites(p)
                  \/ FlushRenames(p) \/ FlushReturns(p) \/ FlushFails(p)

Next == \E p \in Procs :
    \/ WriteBegins(p) \/ WriteStep(p)
    \/ QueryBegins(p) \/ QueryReturns(p)
    \/ PersistBegins(p) \/ PersistStep(p)
    \/ load(p)
    \/ Ends(p)

Spec == Init /\ [][Next]_vars

\* File operations complete and the retry loops look at the clock, each
\* operation's in its own time.
FairSpec ==
    /\ Spec
    /\ \A p \in Procs : /\ WF_vars(WriteStep(p)) /\ WF_vars(PersistStep(p))
                        /\ WF_vars(load(p)) /\ WF_vars(QueryReturns(p))
-----------------------------------------------------------------------------
(* Properties *)

\* Types: a cache only ever holds observations that some write was given.
TypeOK ==
    /\ file \in File
    /\ lock \in Ops \cup {Free, Behind}
    /\ mem \in [Procs -> Memory]
    /\ pc \in [Ops -> {"idle", "locking", "loading", "making", "renaming", "renamed"}]
    /\ data \in [Procs -> SUBSET Observations]
    /\ item \in [Procs -> 0..MaxWrites]
    /\ writes \in 0..MaxWrites
    /\ ends \in 0..MaxEnds
    /\ durable \subseteq Observations
    /\ overlap \in BOOLEAN

\* Two flushes never write at once, nor does a write join the cache while a
\* flush of any process is under way: each holds the lock from acquireLock to
\* releaseLock, also across awaits, errors and the end of other processes.
LockHeld ==
    \A o \in Ops : pc[o] \in {"making", "renaming", "renamed"} \/
                   (pc[o] = "loading" /\ o[2] = "write") => lock = o

\* A flush writes everything its process has read from the file and every
\* write it has acknowledged by then.  What persist covered stays in the file
\* for as long as no two processes had the file loaded at the same time,
\* whatever failed or ended in between.
DurableWhenAlone ==
    /\ \A p \in Procs : pc[<<p, "persist">>] \in {"renaming", "renamed"} =>
           mem[p].base \cup mem[p].acked \subseteq data[p]
    /\ ~overlap => durable \subseteq file.holds

\* A corrupt file is never overwritten with what an adapter made of it: "a
\* corrupted memory file does not become empty memory silently".
CorruptStays == [][file.state = "corrupt" => file' = file]_vars

\* Every operation ends, even behind a lock that will never be removed.
OperationsEnd == \A o \in Ops : pc[o] # "idle" ~> pc[o] = "idle"
=============================================================================
