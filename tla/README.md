# A TLA+ model of KirkForge

KirkForge delegates a coding task to a language model, verifies what the model
did with deterministic tools, and repeats with corrections until the task is
accepted or escalated. These modules model the part of it that decides what is
accepted, how tasks are planned and their files written, the stores, logs and
limits these rest on, and the service that exposes them. Paths below are relative
to the repository's root.

Contents: [inventory](#inventory) · [modules](#modules-and-how-they-correspond-to-the-code) ·
[runs](#runs) · [fairness](#fairness) · [proofs](#proofs) ·
[findings](#where-the-code-and-its-documentation-disagree) ·
[observations](#observations-without-a-run) · [limits](#what-is-not-modelled) ·
[plan](#plan)

Checking: `tlc -config <run>.cfg <module>` for a run, `tlapm <module>.tla` for each of
the modules whose name ends in `Proofs`. `PROJECT.json` lists the runs and the theorems,
and maps every definition to its lines.

## Inventory

| Component | State | Operations | Hard behaviour | What makes it correct |
|---|---|---|---|---|
| Correction loop (`orchestrator/src/orchestrator-correction.ts`, `-workspace.ts`, `-validators.ts`, `index.ts`) | the instance's `busy`, `cwd`, `activeTurnWorkspace`, `isolatedWorkspaceDirs`, `baselineSnapshotDir`, `shuttingDown`; per call: turn, cost, packet, decision, validation | `runCorrectionLoop`, `gracefulShutdown` | callers share one instance across awaits; copies that throw; a catch block that awaits; a user who edits the project | each turn works in its own copy; only earned results are accepted; `busy` is exclusive and is released; nothing but temporary directories is removed |
| Decision rules (`correction-loop.ts`, `truth-model.ts`) | none | `decideCorrection`, `computeFinalVerdict` | precedence of many conditions, budgets at their limits | no pass without its evidence |
| Reducer and finalization (`reducer.ts`, `orchestrator-finalize.ts`, `orchestrator-verifiers.ts`) | signals per task and kind | `_store`, `reduce`, `finalizeDelegation`, `runCheckCommand` | six emitters at once, several writers of one slot, lost signals | fail closed |
| Verifier tools (`tool-*`) | none | `emit` | missing binaries, timeouts, crashes, which some tools know only by what is on their output | a pass only of a run that found nothing |
| Event bus (`core-events/src/index.ts`) | handlers, buffer, idempotency cache, in-flight count, drain promise | `emit`, `shutdown`, `gracefulShutdown`, `drainBuffer` | full buffer and cache, duplicates, two shutdowns, timeout against last answer | limits kept, one acceptance per cached identity, drained when it says so |
| File memory (`memory-palace/src/adapters/file.ts`) | cache, dirty flag, load error; data file and lock file | `write`, `query`, `persist` | several processes, failing writes, a process that ends with the lock | lock exclusive, flush complete, persisted means durable, a corrupt file is kept |
| Memory record (`orchestrator-memory.ts`) | observations | `writeCorrectionMemoryObservation` | failed writes, mixed sources of truth | only reported outcomes are rewarded or punished |
| Decomposition (`orchestrator-decompose.ts`) | stored plans; per execution the results and what was completed | `decomposeTask`, `recallDecomposition`, `executeDecomposition` | malformed and cyclic answers, dependency failures, timers, a retry beside what timed out | stored plans can be executed, no node before its dependencies, every node accounted for, every call answered |
| Files of a delegation (`artifact-mode.ts`, `modes.ts`, `path-safety.ts`) | the working directory, the report | `executeArtifact`, `persistCodeBlocks`, `writeArtifacts` | truncated, contradictory and unsafe answers, failing writes, delegations and a user in one directory | nothing overwritten unasked, the report is what was written, nothing dropped without a signal |
| Run store (`memory-palace/src/store.ts`, `sqlite-adapter.ts`) | the database and its schema version; a JSON file as fallback | opening with migrations, `writeRunAndEmissions`, backup, restore | processes that open a new database at once, crashes between migrations | whole schema, no run without its emissions |
| Audit sinks, event log (`core-events/src/audit-sinks`, `orchestrator/src/event-log.ts`) | hash chain, buffer, segments | `write`, `flush`, `makeSegmentImmutable`, `verifyIntegrity`, `verifyLog` | crash between chain and file, refused segments, late and lost batches | what is on disk verifies, and what verifies has no hole |
| Service (`apps/cli` serve and bootstrap, `health-server/`, `core-enterprise` gate) | readiness, requests in flight, drain promise, audit buffer | start, request handler, `gracefulStop`, `cleanup` | two shutdowns at one signal, a second signal, hanging bodies and collectors | only entitled requests are served where there is a provider, the audit of before the signal is flushed, a signal ends the process |
| RBAC (`core-rbac`) | role and permission tables | `authenticate`, `authorize` | groups of several roles, keys beside tokens | no permission without its role |
| Quotas, rate limits (`core-enterprise/src/quotas.ts`, `health-server/`) | usage, windows, buckets | `checkQuota`, `recordUsage`, `load`, `save`, `check`, `cleanup` | check-then-act, restarts, window boundaries, clean-ups that forget | bounded overrun, rates kept |
| Sandbox (`core-sandbox`) | one child with its group, timer and output | `runSandboxed`, `runDockerSandboxed` | timer against exit, forked processes, lost output | the answer says what happened |
| Policy (`core-policy`) | the policy in force | loading with fallback, `checkTool`, `checkModel` | bad files | no subtask in a denied language |
| Routing engine, encrypted adapter (`memory-palace`) | scores | recommendations | histories that bias routing | advice follows evidence |
| Classifier, task profiles | learned modes | classification of text | text | – |
| Plugin, MCP server, Rust plugin host | sessions, processes | front ends of the above | – | – |
| Secrets, tenancy, config, logging, schemas, telemetry, SLO monitor, model client | caches, configuration | wrappers and reports | expiry, external services | – |

How they interact. `runCorrectionLoop` calls `delegate` inside a copy of the
project; `delegate` calls the model, then `finalizeDelegation`, which puts signals
on the event bus; the reducer's handlers store them, and `reduce` turns them into
the packet on which `decideCorrection` decides. A validator's answer, where there
is one, overrides the packet. The outcome goes to the memory store, whose adapter
may be the file adapter; it biases the routing of later tasks. `executeDecomposition`
asks the policy and calls `delegate` once per subtask, against a timer; `delegate`
parses the model's answer and writes its files. The service, started by the CLI,
answers questions about all this behind authentication and rate limits, records what
it did with the audit logger, and flushes the audit, twice over, when a signal ends it.

## Modules and how they correspond to the code

| Module | Models | State | Actions |
|---|---|---|---|
| `VerdictRules` | `reduce`, the packet rules of `finalizeDelegation`, `decideCorrection`, `computeFinalVerdict`, outcome classes of the memory | – (operators only) | – |
| `CorrectionLoop` (EXTENDS `VerdictRules`) | `runCorrectionLoop` on one instance | `busy`, `shuttingDown`, `classifierLoaded`, `ws` (the workspace fields and the directories on disk), `loop` (per call its place and its local variables), `edits` | one per stretch between two awaits: `Enter`, `Loaded`, `Dispatch`, `StartVerifiers`, `DelegateReturns`, `StartValidator`, `ValidatorReturns`, `Record`, `Flushed`, ... |
| `Verification` (EXTENDS `VerdictRules`) | `finalizeDelegation`: check command, emitters, bus, reducer | `perTask`, `pending` events by process, `bus`, `packet` | `Emit`, `runVerifiers`, `reduce`, and what the bus's other users do to it |
| `EventBus` | the bus itself | its fields, the calls of `emit` in flight, the shutdowns | `emit`, `HandlerAnswers`, `LastHandlerAnswers`, `EntryAges`, `shutdown`, `gracefulShutdown`, `DrainReturns`, `DrainTimeout`, `drainBuffer` |
| `FileMemory` | `FileAdapter` in several processes | data file, lock file, per process the cache, per operation its place | lock, load, write, flush in three steps, failure of each, end of a process |
| `TamperEvidentLog` | what a tamper-evident log promises (abstract) | accepted events, pending ones, the trail, whether the medium is intact | `Accept`, `Store`, loss of what is pending, damage |
| `AuditChain` | `AuditLogger` over the memory, file, http, syslog and WORM sinks, and `EventLogger` | `kind`, `buffer`, `lastHash`, the `lines` of all files and where each file `starts`, `segment`, `frozen`, `flights` | `record`, `flush`, rotation and archiving, arrival, answer or silence of the network, `Restart` |
| `Rbac` | roles, permissions, how a token becomes an actor | – (operators only) | – |
| `HealthServer` (EXTENDS `Rbac`) | bootstrap and its gate, the request handler, `gracefulStop` and `cleanup` | process, readiness, requests, both shutdowns, the audit buffer | `Boot`, `Signal`, `Shutdown`, `Arrive`, `BodyEnds`, `Handle`, ... |
| `RateLimits` | token buckets of the health server, `RateLimiter` of `core-enterprise` | clock, buckets, windows | `checkRateLimit`, `CleanupTimer`, `check`, `reset`, `cleanup` |
| `Quotas` | `QuotaManager`, `QuotaPersistence` | usage, boundaries, the saved state, the callers and what each holds | `checkQuota`, `recordUsage` of any amount, `Release`, `setQuota`, `removeTenant`, saving, `CrashAndLoad` |
| `Policy` | the decisions of `PolicyEngine` the orchestrator asks for | – (operators only) | – |
| `Decomposition` (EXTENDS `Policy`) | `orchestrator-decompose.ts` | plans being asked for, written, stored; the execution; attempts in flight | `decomposeTask`, `ModelAnswers`, `writeDecomposition`, `executeDecomposition`, `NextSubtask`, `AwaitedEnds` |
| `ArtifactWrites` | what `delegate` does with an answer | the directory, the delegations, which of them writes | `Delegate`, `Answered`, `CheckNext`, `WriteTmp`, `Rename`, `WriteFails`, `Report`, `UserSaves`, `ProcessDies` |
| `RunStore` | `MemoryStore.create`, the SQLite adapter and its fallback | database, backups, how far each process is | table creation, seeding, migrations, writes, `BackUp`, `restore`, `Crash` |
| `Sandbox` | one sandboxed run | constraints, child, the secrets in its environment, what it forked, timer, output | `Invoke`, `Fork`, `Data`, `ChildExits`, `TimeOut`, `Close` |
| `Service` (EXTENDS `HealthServer`, `RateLimits`, `Quotas`) | the daemon and what meters its use, side by side | that of its parts | a step of one part |
| `Tasks` (EXTENDS `Decomposition`, `ArtifactWrites`, `RunStore`, `Sandbox`) | plans, files, store and sandbox, side by side | that of its parts | a step of one part |
| `CorrectionLoopProofs`, `LoopWorkspaceProofs` | – | – | theorems about `CorrectionLoop`: its decisions; its directories and turns |
| `EventBusProofs`, `FileMemoryProofs`, `VerificationProofs` | – | – | theorems about the module each is named after |
| `TasksProofs` | – | – | theorems about `Tasks` and each of its parts |
| `ServiceProofs` | – | – | theorems about `Service` and each of its parts, `HealthServer` with `Rbac` |
| `AuditChainProofs` | – | – | theorems about `AuditChain`, and that it implements `TamperEvidentLog` |
| `MC*` | – | – | constants for the runs |

The parts that `Service` and `Tasks` put together share no state in the program either.
In `MCService` and `MCTasks` the variable `focus` picks the part that moves, so a run costs
the sum of the parts, not their product; the theorems are about every interleaving.

Refinement. `AuditChain` implements `TamperEvidentLog`: the buffer is what is pending,
the lines of all files are the trail, and the medium counts as intact until an
append is torn, a segment refused or left blank, or a start cannot read the last hash. The WORM sink and the event log are the
sinks that make this promise (`Durable`); of the others the abstract log promises
nothing, and `ChainBreaksExcused` and `LossExcused` say what each of them loses when.

Conventions. JavaScript runs one task at a time, so everything between two awaits
is one action. Variables marked *history* in a module are not in the code: they
record what a property needs to look back on. An operator whose name ends in
`_Something` is a faulty variant of the operator it is named after; no
specification uses it. It documents what the property that refers to it detects.

The abstractions that matter:

- In `CorrectionLoop` a delegation ends with any packet of `Packets`; that packets
  really are what the tools make them is the subject of `Verification`. A directory
  is known by who made it, its content by the version of the project it was copied
  from. Every copy may throw, before or after the directory was made. Removals
  succeed. `cleanupBaselineDirs` in `index.ts` calls `require`, which an ES module
  lacks: the model allows both outcomes.
- In `Verification` of the bus only "open", "full" and "down" are kept. The
  reducer's handlers run synchronously inside `emit`, so an accepted event is
  stored in the same step. A type checker that is missing, dies or is killed by its timeout
  is known by what it leaves behind (`TypesOutcomes`): nothing, something on stderr, or
  something on stdout that is no diagnostic; the tools tell these apart, and not always
  from a clean run (`TakenForClean`).
- In `EventBus` an event is its identity (`makeEventId`), and time is an action
  that ages the oldest fresh cache entry.
- In `FileMemory` an observation is a number, the file a set of them.
- In `AuditChain` only the newest file is ever appended to, so the lines of all files
  are one sequence and a file is the place where it begins. A hash is the sequence of
  events it commits to, so two hashes are equal exactly when no collision makes them so;
  a line may lack its newline, and an append to such a line makes garbage of both. A start
  that cannot read the last file begins at genesis again (`Restart`); one that cannot list
  the WORM directory also begins at the first segment again, which is left out, as is a
  second logger on the same file.
- In `HealthServer` a token is what it proves; signatures and expiry are inputs. OIDC is
  configured in enterprise mode only, and only with an audience. The rate limit answers 429
  at will, `RateLimits` models when. A POST of the audit that the collector has not
  answered when the process exits is not a delivered one.
- In `RateLimits` tokens are counted in parts of a second's worth, so a refill is whole.
  The timestamps of a key only grow, so the ones that a filter keeps are the end of their
  list (`Newer`).
- `Quotas` counts in four ways (by running task, hour, day, for ever), one action of the
  tenant for each. A use records any of `Amounts`, negative ones included; a caller gives
  back what it recorded for a task. `resetHourly` and `resetDaily` happen through the
  automatic reset; nothing else calls them.
- In `Decomposition` a model's answer is one of a set of answers: not JSON, empty, with
  duplicates, cycles, missing dependencies, too many subtasks, unknown languages. The queue
  of the sort is stated by its order: a node stands before those that became free later, and
  before those after it in the input that became free together with it (`Front`). Results
  are a set; `after` tells apart the several that one skipped node gets. `PlanFollowed`
  speaks of the language of the node, which `executeDecomposition` asks the policy about.
  `delegate` is not told it (`orchestrator-decompose.ts:380-385`): it infers one from the
  description and asks the policy about that itself (`index.ts:151-167`), and its refusal
  is one of the errors an attempt may end with.
- In `ArtifactWrites` how a path resolves (inside, absolute, hidden, through a link) and
  whether a content is too large or binary are attributes of the input; the checks and
  their order are modelled. Writing is synchronous in the code: only a crash, a failing
  system call or the user comes between its steps.
- In `RunStore` a SQL statement or transaction is atomic, which is SQLite's part. Each
  process has a fallback file of its own, though processes with one working directory share
  `.kirkforge-memory.json` (`store.ts:113`), and a run written again replaces the earlier
  one where `file.ts:160` appends; `StoreWhole` asks only that what is there is whole.
- In `Sandbox` memory is only measured and left out; a process that leaves the group is
  kept, because it holds the pipes. Of an environment only the secrets matter: whether the
  call's own holds one, whether the parent's does, and which of the two reach the child.

## Runs

| Run | Instance | Shows |
|---|---|---|
| `LoopRules` | one caller; 2 corrections, budget 2, turns that cost 0 or 2; six kinds of packet; every validator, host verdict and policy | `TypeOK`, `PassVerdictEarned`, `AcceptanceEarned`, `MemoryRecordsHostOutcome`, `NewTurnJustified`; liveness `LoopReturns`: a call returns and `busy` is released |
| `LoopShared` | two callers, one correction, one edit of the project, failing copies, a shutdown | `WorkStaysInTurn`, `FrozenBaseline`, `HomeNeverRemoved`, `QuietIsClean`, `ExclusiveUntilCrash` |
| `EventBus` | capacity 2, trim to 1, cache of 1, three emits of events with 2, 1 and 0 handlers, two graceful shutdowns and an abrupt one | limits (`TypeOK`), `IdempotentWhileCached`, `ShutdownDrains`: a shutdown that reports a drained bus is right and none misses the last answer; liveness `EventsSettle` |
| `Verification` | 72 worlds: each tool's outcomes around a clean run, artifact signals and change reports, a bus that fills, empties and closes | `TypeOK`, `PassMeansVerified`: a packet passes only if no required check was skipped, lost or reported a finding, and the artifact is not empty; a type checker may have died with words its tool takes for a clean run |
| `FileMemory` | two processes, two observations, one process end; a file that is new or corrupt | `TypeOK`, `LockHeld`, `DurableWhenAlone`, `CorruptStays`, liveness `OperationsEnd` |
| `AuditLog` | six kinds of log; 4 events, 2 faults, buffer of 2, 2 segments of 1 entry, 1 rotated file, 2 flushes under way | `AuditTypeOK`; `ChainBreaksExcused`: what alone may break a stored chain; `LossExcused`: what alone may lose an acknowledged event; `VerifiedMeansNoHole`: what a verification proves; `RefinesTamperEvidentLog` |
| `Service` | ten environments, two requests, two signals; 2 addresses and a tenant with rate 1, two keys, 5 ticks; 2 quota callers, default limit 0 and an override of 1, amounts -1 and 2, 2 uses, 2 hours of a 2-hour day, a crash or removal | `ServiceTypeOK`; `ServedIsPermitted`: who is answered, and which daemons are open to all; `ShutdownKeepsAudit`: what the exit may cut off; `AdmittedWithinRate`; `QuotaOverrunBounded`: the overrun is less than the largest amount for each caller, and the usage is what was really used; liveness `ShutdownEnds` |
| `Tasks` | ten answers for plans of up to 3 subtasks, 2 tasks; 2 delegations, 2 files, 1 edit; 2 processes, 2 runs, 1 crash; 13 sandboxed calls | `TasksTypeOK`; `PlanFollowed`, `PlanAccounted`; `WritesAccounted`; `StoreWhole`; `SandboxHonest`; liveness `TasksEnd` |
| `OneLoopAtATime`, `CheckerDeathFails`, `FailSignalFails`, `ShutdownFlushesAudit` | as above; three callers for the first | violated, see [below](#where-the-code-and-its-documentation-disagree) |

Bounds and why they are enough. Two corrections give a first, a middle and a last
turn, and with cost 2 of 2 the budget is met exactly, after a free turn or at once.
Two callers are enough for a step of one to hit any stretch of the other; the third
caller of `OneLoopAtATime` is needed because the first must crash, the second enter
and lose its flag. One edit tells a stale snapshot from a fresh one. A bus of
capacity 2 that is trimmed to 1 has every order of full, trimmed and empty; two
stoppers give the replaced `_drainResolve`. Two observations and one end let a
process lose a dirty cache while another holds the lock. The project's own limits
(1000, 500, 10000) only enter through comparisons.

Four events and two faults give a log an event before, between and after two faults, and
with a buffer of two a flush that holds more than one event; two segments make the
second one the limit. Two signals are what it takes to start two `gracefulStop`s beside
`cleanup`. One key of the limiter has a window within the hour after which the clean-up
forgets (`StaleAfter`), one a longer window; a day of two hours has both an hour boundary
within it and at its end. Two callers with amounts of 2 pass a limit of 1 together and
use 4, the most the bound allows; a removal or a crash falls before, between and after their
grants and records. Plans of three subtasks have a chain, a fork and a node with
two failed dependencies. Two delegations are an attempt that timed out and its retry. Two
processes are an opener and its rival, and one crash falls between any two of its
statements. Every limit is a named constant of its module.

Deadlock checking is off in all runs: every system here comes to rest when its
callers have no more calls to make.

## Fairness

- `CorrectionLoop`: weak fairness of each call's steps. Every await has an end: the
  model client aborts its request (`model-client`, `AbortController`), validators are
  killed after 120 s, check commands and tools after 30 s, and the file adapter's lock
  is given up after 3 or 5 s. No fairness for new calls, edits or shutdowns.
- `EventBus`: handlers answer (the reducer's return a resolved promise), and the timer
  of a shutdown fires.
- `Verification`: some emitter goes on, for the same timeouts.
- `FileMemory`: file operations complete and a retry loop looks at the clock. An
  operation of one process is fair apart from those of others. Processes need not end.
- `HealthServer`: each shutdown goes on (both have timers), a request's timer fires and
  its handler goes on. Clients and collectors owe nothing: a body that never ends and a
  collector that hangs are covered by those timers.
- `Decomposition`: the loop goes on, and an attempt that is waited for ends or its timer
  rings. `Sandbox`: the timer rings, and an event that is due is delivered.
- `AuditChain`, `RateLimits`, `Quotas`, `ArtifactWrites`, `RunStore`: only safety.

## Proofs

The theorems hold for every value of the constants that satisfies the named assumption of
the module: any number of callers, processes, requests, events, and every limit. "States"
names the invariant, action property or type invariant whose `[]` follows from the
specification.

| Module | Theorem | States | Assumes |
|---|---|---|---|
| `CorrectionLoopProofs` | `TypeCorrect` | `TypeOK` | `LoopAssumption`: the constants have their types |
| | `ProjectSafe` | `HomeNeverRemoved` | |
| | `VerdictSound` | `PassVerdictEarned` | |
| | `AcceptanceSound` | `AcceptanceEarned` | |
| | `MemorySound` | `MemoryRecordsHostOutcome` | |
| | `Exclusive` | `ExclusiveUntilCrash` | |
| `LoopWorkspaceProofs` | `BaselineFrozen` | `FrozenBaseline` | the same |
| | `WorkInOwnTurn` | `WorkStaysInTurn` | |
| | `QuietInstanceClean` | `QuietIsClean` | |
| | `TurnsJustified` | `NewTurnJustified`, an action property | |
| `VerificationProofs` | `VerificationTypeCorrect` | `TypeOK` | `WorldAssumption`: a world without a policy requires nothing |
| | `PassEarned` | `PassMeansVerified` | |
| `EventBusProofs` | `BusTypeCorrect` | `TypeOK`: the limits of buffer and cache | `BusAssumption`: types, a buffer and a cache of at least 1 |
| | `ShutdownComplete` | `ShutdownDrains` | |
| | `HandledOnce` | `IdempotentWhileCached` | |
| `FileMemoryProofs` | `TypeCorrect` | `TypeOK` | `FileAssumption`: the file is empty or unreadable at first |
| | `LockExcludes` | `LockHeld` | |
| | `Durable` | `DurableWhenAlone` | |
| | `CorruptFileKept` | `CorruptStays`, an action property | |
| `TasksProofs` | `SandboxTypeCorrect` | `SandboxTypeOK` | `SandboxAssumption`: a call has at most one tenant |
| | `SandboxIsHonest` | `SandboxHonest` | |
| | `StoreTypeCorrect` | `StoreTypeOK` | `StoreAssumption`: some process, finitely many; finitely many files |
| | `StoreIsWhole` | `StoreWhole` | |
| | `ArtifactTypeCorrect` | `ArtifactTypeOK` | `ArtifactAssumption`: answers have their types; no profile allows overwriting, as none of `PROFILES` does |
| | `WritesSound` | `WritesAccounted` | |
| | `PlanTypeCorrect` | `PlanTypeOK` | `PlanAssumption`: answers, ids and policies have their types, an id contains itself |
| | `SortIsExact` | `topologicalSort` succeeds exactly on nodes without a cycle, and sorts them | |
| | `PlanIsFollowed` | `PlanFollowed` | |
| | `PlanIsAccounted` | `PlanAccounted` | |
| | `TasksTypeCorrect` | `TasksTypeOK`, of the composition `TasksSpec` | all of the above |
| `ServiceProofs` | `DaemonTypeCorrect` | `DaemonTypeOK` | `DaemonAssumption`: inputs have their types |
| | `ServesPermitted` | `ServedIsPermitted` | |
| | `AuditSurvives` | `ShutdownKeepsAudit` | |
| | `QuotaTypeCorrect` | `QuotaTypeOK` | `QuotaAssumption`: types; finitely many callers; a use records at most `MaxAmount` |
| | `QuotaBounded` | `QuotaOverrunBounded` | |
| | `RateTypeCorrect` | `RateTypeOK` | `RateAssumption`: types; a bucket is dropped as idle after a second at the earliest (60 s in the code); a subject has one kind |
| | `RateBounded` | `AdmittedWithinRate` | |
| | `ServiceTypeCorrect` | `ServiceTypeOK`, of the composition `ServiceSpec` | all of the above |
| `AuditChainProofs` | `AuditTypeCorrect` | `AuditTypeOK` | `AuditAssumption`: sizes and bounds are numbers, flushes and files hold at least one |
| | `ChainBreaks` | `ChainBreaksExcused` | |
| | `NoLoss` | `LossExcused` | |
| | `NoHole` | `VerifiedMeansNoHole` | |
| | `ImplementsLog` | `RefinesTamperEvidentLog` | |

Where a run composes components (`Service`, `Tasks`), the theorems about one of them are
about its own specification (`DaemonSpec`, `RateSpec`, `PlanSpec`, `StoreSpec`, ...), whose
steps are the steps that the composition lets it take; the two theorems about the
compositions combine their invariants. None of the invariants is inductive alone. What each
proof adds, and why:

**The decisions of the correction loop.** `Inv` adds to the types:

- `WorkspaceOK`: the project is on disk, and the fields that name directories to be
  removed name temporary ones. Without it `cleanupTurnWorkspace` might be handed the
  project.
- `LoopOK` for each call: what it has been told so far explains its `taskPass`
  (`ReportOK`); before the decision of its last turn it has neither verdict nor class
  (`Undecided`); afterwards the decision, the verdict and the class are those the
  evidence of that turn allows (`AcceptOK`, `VerdictOK`, `MemoryOK`). That the decision
  belongs to the same turn as the validation is what the properties alone do not say.

`ExclusiveUntilCrash` is inductive relative to `Inv`. Each piece of the loop (`Crash`,
`BeginTurn`, `Settle`, `Decide`, ...) has a lemma that it moves one call and leaves the
others as they were (`Moves`); `StepMoves` combines them per action, and `NextInv`
combines the actions.

**Its directories.** `WorkInv` adds where `cwd`, the active workspace and the directories
on disk are at each place of a call that no other has overlapped (`Placed`), that an
instance without a call in flight is clean (`AloneOK`), and that all turns of a call
copied the one version the snapshot holds (`SnapshotOK`). `QuietIsClean` alone says
nothing while a call is under way. Each piece of the loop is shown to make `Progress`,
which contains what a further turn needs (`Justified`), so the action property comes out
of the same lemmas.

**The verdict.** `PassMeansVerified` speaks of packets. The invariant speaks of every
event from the moment a tool makes it: an event that reports nothing bad is true of the
world (`Sound`), in the queues as in the reducer; of a type checker it says that the tool
took its output for clean, which is all a pass means there. What makes a signal of the delegation
impossible to forget is an order: until the bus has overflowed, everything a verifier
emits comes after all signals of the delegation itself (`OrderOK`).

**The event bus.** `StopOK`: once a shutdown was told that the bus has drained, nothing is
in flight any more and nothing can be, and the resolver that is kept belongs to a
shutdown that still gets its answer. `CountOK`: calls accepted with an identity are as
many as the cache dropped it, plus one while it is cached; the property is the inequality
that follows.

**The file adapter.** `CacheOK`, `PersistOK`, `WriteOK` tie each process's cache to what it
read and acknowledged, and the text it is about to rename to its cache, which is where the
lock is needed. `AloneOK`: while only one process at a time has the file loaded, its cache
covers what `persist` promised, and when it is clean so does the file.

**The sandbox.** `RunOK` relates the child, the timer, the reported violations and the
result at every moment; `Permitted` says what the gates asserted of a call that spawned
anything, `Listed` by which of the lists its command was. `SecretsOK` follows the two
environments: a secret of the call's own is given to a child exactly when it was reported,
so an ok answer excludes it, while one of the parent is reported by nobody.

**The run store.** The versions in the schema are always a prefix 1..v, and a process that
opens the database has seen at most v (`OpenerOK`); some process is a `Winner`, one that
nobody was faster than, which is what "not every opener loses" needs; backups were made
of open databases; runs and emissions agree exactly in the database, and the file adapter's
cache and file have the emissions of every run they have.

**The files of a delegation.** `ArtifactInv` follows a file from the answer to the report.
Before the rename: what is left to write comes from a whole answer, and what was checked is
still absent unless the user has saved it since (`WorkOK`). After it: each rename is
remembered by a result until its delegation reports it, and by the report afterwards
(`PutOK`, `ResultsOK`, `FilesOK`). `NothingSilent` speaks only of finished delegations; the
invariant says of every line of the answer that it is still to be written or has its result
(`LinesOK`). A process that dies loses its report, not what it renamed, and the property
exempts just that.

**Plans.** Three arguments:

- The sort. `SortIsExact`: Kahn's algorithm refuses exactly the nodes that cannot be ranked,
  those with a cycle or a missing dependency, and otherwise returns each node once, after
  its dependencies. Both directions are inductions over the rounds of the loop, written as
  the least round that fails (`Smallest`), with `AcyclicHasFree`: while a node is left, one
  of the lowest rank is free. A plan that was sorted before it was stored is ranked by its
  positions, so the second sort, in `executeDecomposition`, never fails.
- The execution. `OrderOK` and `CompletedOK`: the plan under way is in such an order and
  what is completed are its first nodes, one entry each, so every dependency of the next node
  is among them (`DependenciesMet`). `Accounted`: the results of a completed node are the one
  of a node that ran or those of one that was skipped. The counts in `PlanAccounted` follow
  from bijections (`SameNumber`).
- What runs. `InFlightOK`: at most one attempt is not late, the one waited for, and the
  dependencies of everything that runs are completed and ok; completing a further node
  changes neither, since ids are distinct.

**The daemon.** What each stage of the bootstrap has passed (`GateOK`), that only a flush
which failed or a late event leaves something in the buffer once a shutdown has flushed it
(`AuditOK`), that cleanup is the first to flush, so that early events are in no other POST
than its own, and that one of the procedures has come to its end when the process exits
(`HandoverOK`), and a lemma per actor and route that the permission tables entitle exactly
those whom `ServedIsPermitted` names (`PermittedIsEntitled`).

**The quotas.** `BoundOK`: usage, plus `MaxAmount` for each use that was granted and is not
recorded, is below the highest limit plus `MaxAmount` for each caller, since a check is
passed below the limit and each caller holds one grant. Nothing is said from below: after a
removal a task that ends is subtracted from a usage that no longer contains it. `SavedOK`
says the same of the file, `FreshOK` that a manager without boundaries has used nothing,
`Unused` that a limit of nothing grants nothing.

**The rate limits.** A bucket has a potential: for each admitted request, the requests since
it plus the tokens that are left are at most the burst plus the refill since then
(`BucketOK`). It survives that an idle bucket is dropped because by then a second has passed,
so the refill alone covers the requests: this is where `IdleAfter >= Second` is needed. A
key's window is the end of the list of its admitted requests, and those cut off are out of
the window, by the filter or, up to `StaleAfter`, by the clean-up (`KeyOK`).

**The audit sinks and the event log.** `BaseInv` gives every sequence its type, says which
part of the state belongs to which sink (`SinkOK`), and that without a torn append every
line is an entry and ends with a newline (`FilesOK`). Three invariants stand on it:

- `ChainOK`: while nothing has broken the chain, each line is sealed from the one before,
  and the WORM buffer is what sealing its events after the last line gives. It is stated
  as a closed form (`buffer = Sealed(HashOf(lines), EventsOf(buffer))`), so no induction
  over the buffer is needed: an append that goes through is then one more link
  (`LinkedConcat`). The same form is what a step of `TamperEvidentLog` asks for, so
  `ImplementsLog` uses the invariant as it is, with a lemma for each kind of step.
- `LossOK`: beside the acknowledged events it speaks of those about to be: the event of
  a write that waits for a flush is in that flush's batch or stored (`FlightsOK`).
- `HoleOK`: the event log whose appends all went through has event i on line i
  (`LogOK`). Until the WORM sink restarts, every hash commits to all events up to its own
  (`FirstLifeOK`), so the first entry stored after a missing event would be sealed from a
  hash that no stored entry has; without a torn or refused append what is neither stored
  nor lost in a crash is in the buffer, and newer than all that is stored (`NoGapOK`).

What stays with TLC, and why:

- Liveness (`LoopReturns`, `EventsSettle`, `OperationsEnd`, `ShutdownEnds`, `TasksEnd`):
  outside what the prover handles.

Every invariant and action property of the passing runs is stated by a theorem.

## Where the code and its documentation disagree

| Run | Code | Says |
|---|---|---|
| `OneLoopAtATime` | `orchestrator-correction.ts:292` clears `busy` before the catch block's await and finally clears it again: after a crash of A, B enters, A's finally takes B's flag, C enters beside B | `orchestrator-correction.ts:57` "only one correction loop may run concurrently" |
| `CheckerDeathFails` | `tool-pyright/src/index.ts:33` resolves a call that died or was killed as soon as there is a word on stderr, and line 107 passes an empty stdout; `tool-tsc/src/index.ts:49` does so with any output, that of npx where tsc is missing included | `docs/PLUGIN_STRATEGY.md:95` "individual emitter errors become `"error"` status in their slot, which the reducer treats as fail" |
| `FailSignalFails` | `orchestrator-verifiers.ts:70` reports a failed check command in the types slot, where the types emitter's later signal replaces it | `docs/STABILITY_MATRIX.md:120` "`status: "fail"` with `errors > 0` → `overall: "fail"`" |
| `ShutdownFlushesAudit` | one signal starts two flushes; the first takes the buffer into a POST, the second finds it empty and returns (`audit-sinks/http.ts:40`), and `serve.ts:258` exits, which ends the POST | `bootstrap.ts:67` "Call to gracefully shut down telemetry and flush audit." |

The passing properties are stated beside them so that they say what still holds:
`ExclusiveUntilCrash`; `PassMeansVerified`, which exempts type checkers whose end is taken
for a clean run (`TakenForClean`) and says nothing of the check command;
`ShutdownKeepsAudit`, which names the one POST that an exit may cut off. Four
disagreements of the same kind have no run of their own, because the passing property says
exactly what the code does:

- `ServedIsPermitted`: an enterprise daemon with an issuer, no audience and no key passes the
  gate, configures no OIDC (`serve.ts:93`) and answers everybody as internal admin, since
  `health-server.ts:88` has `?? false` in every mode; `health-server-shared.ts:35` says
  "Default: true in enterprise mode, false in dev mode."
- `SandboxHonest`: `runner.ts:274` looks at `inheritParentEnv` in every mode and nothing
  scans what is inherited; `runner.ts:70` says of enterprise mode "this is forced to false
  regardless of what the caller passes". And `core-sandbox/src/index.ts:268` takes the
  tenant's list over when the base list is empty, which alone permits nothing; line 232 says
  that tenants "can only tighten" the base.
- `QuotaOverrunBounded`: `quotas.ts:118` is told no amount, so even a single caller that
  always checks uses more than its limit; the comment above it says "Check whether a tenant
  can perform an action without exceeding quota."
- `FrozenBaseline`: the snapshot is of the instance's first loop (`orchestrator-workspace.ts:138`),
  not, as line 134 says, taken "once per correction loop"; a later loop works without the
  edits since.

## Observations without a run

Reading the code for the model also showed the following. Each is either modelled as it
is, so that the properties are stated around it, or outside the model; none is claimed
as a violated property.

Plans and files
- `recallDecomposition` finds a plan by a part of its id: the plan of `t10` may answer for
  `t1`. `decomposeTask` answers before the plan is stored.
- A node with two failed dependencies gets two results, since the `continue` leaves only
  the inner loop; `PlanAccounted` counts them so. A retry drops the actor of the first
  attempt.
- `parseJsonlArtifacts` forgets its warnings when no line is usable, so a stream of bad
  lines counts as an empty strict one (`NothingSilent` exempts it).
- A single empty code block overwrites a pinned target with an empty file. No profile
  enables `allowOverwrite`, so artifact mode never replaces an existing file.
- `Agent.execute` keeps the first answer's `finishReason` after the contract's retry.
- A failed write leaves its temporary file. Where a parent of the working directory is a
  symbolic link, every artifact write is blocked.

Stores and logs
- The loser of a race for a new database silently uses a JSON file in the working
  directory, which tenants share. The hash of a backup is never compared at restore, and
  a failed restore leaves the handle closed.
- `EncryptedAdapter.write` always throws; `encryptionKey` and `evict` of `MemoryStore` do
  nothing.
- `audit-sinks/http.ts:5-7` speaks of re-buffering; an answer that is not ok drops the
  batch. `audit-sinks/file.ts:22-23` promises a complete chain from genesis, which a
  rotation that overwrites a file ends.
- A restart after a refused or torn append hides the hole it left: `lastHash`, which alone
  remembers it, is read back from the file (`VerifiedMeansNoHole` exempts it). Segments
  that were shipped elsewhere must be put back before a verification succeeds.

Service and limits
- `serve.ts` passes the contents of PEM files where `HealthServer` expects paths. The help
  of `commands/serve.ts:75` ranks configuration over flags; flags win.
- In developer mode `requireEnterpriseOrDev` reports no authentication whatever is
  configured, so OIDC variables have no effect there: without a key or `requireAuth` such a
  daemon answers everybody as internal admin (`Open`). The gate accepts the audit sink
  `syslog`, which bootstrap does not know.
- One signal starts `gracefulStop` and `cleanup`; neither waits for the other, and the
  first to finish ends the process. Events recorded after the signal may be lost. A second
  signal replaces the resolver the first `gracefulStop` waits on; `ShutdownEnds` shows that
  the process ends all the same, not that each procedure does.
- `RateLimiter.cleanup` forgets entries that a window of over an hour still needs
  (`AdmittedWithinRate` exempts such windows). Idle tenant buckets are never removed.
- Nothing calls `markDirty` of the quota persistence, so the auto-save saves nothing
  unless a host does; `load` carries counts of an earlier hour or day.

Sandbox
- `runDockerSandboxed` is refused in enterprise mode unless the flag for unsafe host runs
  is set, and its timer kills the docker client, not the container.
- With the flag for unsafe host runs the child inherits the parent's environment, which
  nobody scans; a run with a secret in the call's own environment is executed and then
  answered with an error.
- `close` may never come while a process that left the group holds the pipes
  (`SandboxReturns` exempts it).

## What is not modelled

- Text: prompts, rationales, classification, lint rules, wire formats, command-line
  options. Their results are inputs of the models.
- `delegate()` and `verify()` called directly beside a running correction loop; they
  would read the swapped `cwd`.
- What the classifier learns, and how memory biases routing: arithmetic over histories.
- Subscribing and unsubscribing handlers while events are in flight; `clear()` of the
  file adapter; workspace and execution checks of the policy, its signed bundles;
  `authorizeTenant` and `validateJwtClaims`; `decompose.ts`. Nothing calls these.
- Queries, statistics and eviction of the SQLite adapter; cryptography.
- The SLO monitor, telemetry and cost (reports), secrets, tenancy, the model client
  (wrappers of external services), the plugin, the MCP server and the Rust crates.
  `PROJECT.json` gives the reason for each.

## Plan

1. Done: `VerdictRules`, `CorrectionLoop`, `Verification`, `EventBus`, `FileMemory`, and
   the first theorems.
2. Done: `Decomposition` with `Policy`; `ArtifactWrites`; `RunStore`; `Sandbox`.
3. Done: `TamperEvidentLog`, and `AuditChain` which implements it.
4. Done: `Quotas`, `RateLimits`, and the service around them, `HealthServer` with `Rbac`.
5. Done: theorems about every invariant and action property of the passing runs, the
   refinement of `TamperEvidentLog`, and the types of both compositions.
6. An abstract specification of a correction loop (turns that are judged, then settled),
   with `CorrectionLoop` shown to implement it.
7. Candidates for modules: sessions of the plugin and the MCP server, the Rust plugin
   host, the SLO monitor's burn rates.
