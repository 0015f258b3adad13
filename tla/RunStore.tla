------------------------------ MODULE RunStore ------------------------------
(***************************************************************************)
(* MemoryStore.create and its two adapters, as several processes use them: *)
(* each opens the SQLite database of a workspace (tables, seed version,    *)
(* migrations), or falls back to a JSON file of its own when the           *)
(* constructor throws.  Runs are stored with the files they emitted, the   *)
(* database is backed up and restored, and processes crash.  SQLite makes  *)
(* a statement or a transaction atomic between processes (external).       *)
(***************************************************************************)
EXTENDS Naturals, FiniteSets

CONSTANTS
    Processes,
    Runs,          \* ids of runs
    Files,         \* files a run may have emitted
    MaxWrites,     \* bound: runs written
    MaxCrashes     \* bound: crashes

ASSUME StoreAssumption ==
    /\ Processes # {} /\ IsFiniteSet(Processes) /\ IsFiniteSet(Files)
    /\ MaxWrites \in Nat /\ MaxCrashes \in Nat

SCHEMA_VERSION == 3
MIGRATIONS     == 2..SCHEMA_VERSION
Nobody         == {}      \* no run is being written

VARIABLES
    db,        \* the database file
    backup,    \* the backup files that exist
    process,   \* how far each process is with its store
    seen,      \* currentVersion as each process read it
    job,       \* the run each file adapter is writing
    cache,     \* objects of each file adapter
    disk,      \* what it wrote to its file
    writes,    \* runs written so far
    crashes

storeVars == <<db, backup, process, seen, job, cache, disk, writes, crashes>>

\* runs and emissions are tables: a run names its emissions (emission_ids).
Nothing == [runs |-> {}, emissions |-> {}]
Fresh   == [torn |-> FALSE, tables |-> FALSE, versions |-> {}, columns |-> {}, data |-> Nothing]

\* A database that is new, or that an older release left behind.
StoreInit ==
    /\ db \in {Fresh} \cup {[Fresh EXCEPT !.tables = TRUE, !.versions = 1..v, !.columns = 2..v] :
                              v \in 1..SCHEMA_VERSION}
    /\ backup = {}
    /\ process = [p \in Processes |-> "new"]
    /\ seen = [p \in Processes |-> 0]
    /\ job = [p \in Processes |-> Nobody]
    /\ cache = [p \in Processes |-> Nothing]
    /\ disk = [p \in Processes |-> Nothing]
    /\ writes = 0
    /\ crashes = 0

Max2(a, b)   == IF a > b THEN a ELSE b
MaxOf(S)     == IF S = {} THEN 0 ELSE CHOOSE v \in S : \A w \in S : w <= v
Becomes(p, phase) == process' = [process EXCEPT ![p] = phase]
-----------------------------------------------------------------------------
(* The constructor.  An exception makes MemoryStore.create use a file;     *)
(* "lost" is that fallback after another process was faster.               *)

\* The statements CREATE TABLE IF NOT EXISTS, and the two ALTER TABLEs whose
\* failure is ignored.  A file that is no database throws, and so do a full
\* disk and a lock that is held too long.
CreateTables(p) ==
    /\ process[p] = "new"
    /\ \/ ~db.torn /\ db' = [db EXCEPT !.tables = TRUE] /\ Becomes(p, "tables")
       \/ UNCHANGED db /\ Becomes(p, "file")
    /\ UNCHANGED <<backup, seen, job, cache, disk, writes, crashes>>

ReadVersion(p) ==
    /\ process[p] = "tables"
    /\ seen' = [seen EXCEPT ![p] = MaxOf(db.versions)]
    /\ Becomes(p, "version")
    /\ UNCHANGED <<db, backup, job, cache, disk, writes, crashes>>

\* The seed row of a database without version; version is the primary key.
SeedVersion(p) ==
    /\ process[p] = "version"
    /\ IF seen[p] # 0 THEN Becomes(p, "seeded") /\ UNCHANGED db
       ELSE IF 1 \in db.versions THEN Becomes(p, "lost") /\ UNCHANGED db
       ELSE db' = [db EXCEPT !.versions = @ \cup {1}] /\ Becomes(p, "seeded")
    /\ UNCHANGED <<backup, seen, job, cache, disk, writes, crashes>>

\* _runMigrations: the pending migrations in one transaction, which a version
\* that is already there rolls back.
_runMigrations_NoTransaction(p) ==
    LET pending == {v \in MIGRATIONS : v > Max2(seen[p], 1)} IN
    /\ process[p] = "seeded"
    /\ \/ /\ db' = [db EXCEPT !.versions = @ \cup pending] /\ Becomes(p, "file")
       \/ /\ db' = [db EXCEPT !.versions = @ \cup pending, !.columns = @ \cup pending]
          /\ Becomes(p, "open")
    /\ UNCHANGED <<backup, seen, job, cache, disk, writes, crashes>>

_runMigrations(p) ==
    LET pending == {v \in MIGRATIONS : v > Max2(seen[p], 1)} IN
    /\ process[p] = "seeded"
    /\ IF pending \cap db.versions # {} THEN Becomes(p, "lost") /\ UNCHANGED db
       ELSE /\ db' = [db EXCEPT !.versions = @ \cup pending, !.columns = @ \cup pending]
            /\ Becomes(p, "open")
    /\ UNCHANGED <<backup, seen, job, cache, disk, writes, crashes>>
-----------------------------------------------------------------------------
(* Writing runs *)

Named(r, E)     == [id |-> r, emissionIds |-> E]
Rows(r, E)      == {[run |-> r, file |-> e] : e \in E}
Without(S, r)   == {x \in S : x.run # r}
Replaced(S, n)  == {x \in S : x.id # n.id} \cup {n}
Rewritten(d, r, E) ==
    [runs |-> Replaced(d.runs, Named(r, E)), emissions |-> Without(d.emissions, r) \cup Rows(r, E)]
WithRows(d, rows) == [runs |-> d.runs, emissions |-> d.emissions \cup rows]
WithRun(d, n)     == [runs |-> Replaced(d.runs, n), emissions |-> d.emissions]

\* writeRunAndEmissions of the adapter: the run replaces the one with its id,
\* the emissions of an earlier write go, the new ones come, all or nothing.
writeRunAndEmissions(p, r, E) ==
    /\ process[p] = "open"
    /\ writes < MaxWrites
    /\ writes' = writes + 1
    /\ \/ ~db.torn
          /\ db' = [db EXCEPT !.data = Rewritten(@, r, E)]
       \/ UNCHANGED db                                        \* ROLLBACK, and an error
    /\ UNCHANGED <<backup, process, seen, job, cache, disk, crashes>>

\* The fallback of MemoryStore.writeRunAndEmissions for a file adapter: the
\* emissions one by one, each awaited, then the run with their ids.
FileWriteBegins(p, r, E) ==
    /\ process[p] \in {"file", "lost"}
    /\ job[p] = Nobody
    /\ writes < MaxWrites
    /\ writes' = writes + 1
    /\ job' = [job EXCEPT ![p] = {[run |-> r, todo |-> E, done |-> {}]}]
    /\ UNCHANGED <<db, backup, process, seen, cache, disk, crashes>>

writeEmissionRecords(p) ==
    \E j \in job[p] : \E e \in j.todo :
        /\ \/ /\ cache' = [cache EXCEPT ![p] = WithRows(@, Rows(j.run, {e}))]
              /\ job' = [job EXCEPT ![p] = {[j EXCEPT !.todo = @ \ {e}, !.done = @ \cup {e}]}]
           \/ job' = [job EXCEPT ![p] = Nobody] /\ UNCHANGED cache    \* no lock in 3 s: an error
        /\ UNCHANGED <<db, backup, process, seen, disk, writes, crashes>>

writeRunRecord(p) ==
    \E j \in job[p] :
        /\ j.todo = {}
        /\ cache' = [cache EXCEPT ![p] = WithRun(@, Named(j.run, j.done))]
        /\ job' = [job EXCEPT ![p] = Nobody]
        /\ UNCHANGED <<db, backup, process, seen, disk, writes, crashes>>

\* persist of the file adapter.
persist(p) ==
    /\ process[p] \in {"file", "lost"}
    /\ disk[p] # cache[p]
    /\ disk' = [disk EXCEPT ![p] = cache[p]]
    /\ UNCHANGED <<db, backup, process, seen, job, cache, writes, crashes>>
-----------------------------------------------------------------------------
(* Backup, restore and crashes *)

\* backup: SQLite makes a snapshot; one that fails may leave part of a file.
BackUp(p) ==
    /\ process[p] = "open"
    /\ ~db.torn
    /\ backup' \in {{db}, {[db EXCEPT !.torn = TRUE]}}
    /\ backup' # backup
    /\ UNCHANGED <<db, process, seen, job, cache, disk, writes, crashes>>

\* restore: the handle is closed, the backup copied over the database and
\* opened again.  A copy that fails half way, or a backup that is no database,
\* leaves the handle closed for good.  Nobody else has the database open: an
\* operator's duty, what SQLite does otherwise is not modelled.
restore(p) ==
    /\ process[p] = "open"
    /\ \A q \in Processes \ {p} : process[q] \in {"new", "file", "lost", "closed"}
    /\ \E b \in backup :
          \/ db' = b /\ Becomes(p, IF b.torn THEN "closed" ELSE "open")
          \/ db' \in {db, [db EXCEPT !.torn = TRUE]} /\ Becomes(p, "closed")
    /\ UNCHANGED <<backup, seen, job, cache, disk, writes, crashes>>

\* A crash at any point, and a new process in its place: a transaction that
\* was not committed is gone, and what the file adapter did not flush.
Crash(p) ==
    /\ process[p] # "new"
    /\ crashes < MaxCrashes
    /\ crashes' = crashes + 1
    /\ Becomes(p, "new")
    /\ job' = [job EXCEPT ![p] = Nobody]
    /\ cache' = [cache EXCEPT ![p] = disk[p]]
    /\ UNCHANGED <<db, backup, seen, disk, writes>>

StoreNext ==
    \E p \in Processes :
        \/ CreateTables(p) \/ ReadVersion(p) \/ SeedVersion(p) \/ _runMigrations(p)
        \/ \E r \in Runs, E \in SUBSET Files :
              writeRunAndEmissions(p, r, E) \/ FileWriteBegins(p, r, E)
        \/ writeEmissionRecords(p) \/ writeRunRecord(p) \/ persist(p)
        \/ BackUp(p) \/ restore(p) \/ Crash(p)

StoreSpec == StoreInit /\ [][StoreNext]_storeVars
-----------------------------------------------------------------------------
StoreTypeOK ==
    /\ db.versions \subseteq 1..SCHEMA_VERSION /\ db.columns \subseteq MIGRATIONS
    /\ Cardinality(backup) <= 1
    /\ process \in [Processes -> {"new", "tables", "version", "seeded", "open", "closed",
                                  "file", "lost"}]
    /\ \A p \in Processes : Cardinality(job[p]) <= 1 /\ seen[p] \in 0..SCHEMA_VERSION
    /\ writes \in 0..MaxWrites /\ crashes \in 0..MaxCrashes

\* A database that some process has open has the whole schema, whoever else
\* opens it at the same time and wherever a process crashed before; its runs
\* name exactly the emissions that are stored for them, over rewrites, restores
\* and crashes.  The file adapter may keep emissions without run after an
\* error, never a run without its emissions.  Processes that open a new
\* database together do not all fall back because of each other: a process
\* lost only to one that still works on the database, has it or crashed.
StoreWhole ==
    /\ \E p \in Processes : process[p] # "lost"
    /\ (\E p \in Processes : process[p] = "open") /\ ~db.torn =>
          db.tables /\ db.versions = 1..SCHEMA_VERSION /\ db.columns = MIGRATIONS
    /\ db.data.emissions = UNION {Rows(r.id, r.emissionIds) : r \in db.data.runs}
    /\ \A p \in Processes : \A d \in {cache[p], disk[p]} :
          \A r \in d.runs : Rows(r.id, r.emissionIds) \subseteq d.emissions

=============================================================================
