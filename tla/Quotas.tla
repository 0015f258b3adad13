------------------------------- MODULE Quotas -------------------------------
(***************************************************************************)
(* QuotaManager and QuotaPersistence of core-enterprise for one tenant.    *)
(* An embedding host's callers check a quota, await, do the work and       *)
(* record it; hours and days pass, the state is saved and loaded, and the  *)
(* process crashes and starts again.  One action stands for each way of    *)
(* counting: "task" up and down, "tool" by the hour (tool invocations,     *)
(* verify runs, corrections), "token" by the day, "storage" for ever       *)
(* (storage, observations); the limits of a quota are one number.          *)
(***************************************************************************)
EXTENDS Integers, FiniteSets

CONSTANTS
    Callers,       \* concurrent callers of the host
    DefaultQuota,  \* the limits a tenant without override has
    Overrides,     \* the limits setQuota may set
    Amounts,       \* what a use may record, less than nothing when it frees
    MaxAmount,     \* the most a use records
    HoursPerDay,
    MaxHours,      \* bound: hours
    MaxLosses,     \* bound: crashes and removals
    MaxUses        \* bound: uses granted

ASSUME QuotaAssumption ==
    /\ IsFiniteSet(Callers)
    /\ DefaultQuota \in Nat /\ Overrides \subseteq Nat
    /\ Amounts \subseteq Int /\ MaxAmount \in Nat /\ \A n \in Amounts : n <= MaxAmount
    /\ HoursPerDay \in Nat \ {0} /\ MaxHours \in Nat /\ MaxLosses \in Nat /\ MaxUses \in Nat

QuotaAction == {"task", "tool", "token", "storage"}
Undefined   == MaxHours + 1
Zero        == [a \in QuotaAction |-> 0]
NoFile      == [stored |-> FALSE]

VARIABLES
    hour,       \* the time, in hours
    override,   \* quotas.get(tenant), {} or a singleton
    usage,      \* usage of the tenant
    lastHour,   \* lastHourBoundary
    lastDay,    \* lastDayBoundary
    file,       \* the persisted state
    dirty,      \* QuotaPersistence.dirty
    saving,     \* the auto-save timer runs
    caller,      \* what each caller is about
    held,        \* what it recorded for the task it runs
    actual,      \* history: what was used this hour, this day, ever, by running tasks
    forgottenAt, \* history: the hour counts were last lost, by a crash or a removal
    losses,      \* how many there were
    highest,     \* history: the highest limit that was in force
    uses         \* how many uses were granted

quotaVars == <<hour, override, usage, lastHour, lastDay, file, dirty, saving,
               caller, held, actual, forgottenAt, losses, highest, uses>>

Day(h)   == h \div HoursPerDay
getQuota == IF override = {} THEN DefaultQuota ELSE CHOOSE q \in override : TRUE

QuotaInit ==
    /\ hour = 0
    /\ override = {}
    /\ usage = Zero
    /\ lastHour = Undefined
    /\ lastDay = Undefined
    /\ file = NoFile
    /\ dirty = FALSE
    /\ saving = TRUE
    /\ caller = [c \in Callers |-> "idle"]
    /\ held = [c \in Callers |-> 0]
    /\ actual = Zero
    /\ forgottenAt = Undefined
    /\ losses = 0
    /\ highest = DefaultQuota
    /\ uses = 0
-----------------------------------------------------------------------------
(* QuotaManager *)

\* _autoResetIfStale, which every operation begins with: the usage it leaves.
AutoReset(u) ==
    [a \in QuotaAction |->
        CASE a = "tool" /\ lastHour # Undefined /\ hour > lastHour   -> 0
          [] a = "token" /\ lastDay # Undefined /\ Day(hour) > lastDay -> 0
          [] OTHER -> u[a]]

Boundaries == lastHour' = hour /\ lastDay' = Day(hour)

\* checkQuota; the caller then awaits before it uses what it was granted.
checkQuota_OneMore(c, a) ==
    /\ caller[c] = "idle"
    /\ uses < MaxUses
    /\ usage' = AutoReset(usage)
    /\ Boundaries
    /\ IF usage'[a] > getQuota THEN UNCHANGED <<caller, uses>>
       ELSE caller' = [caller EXCEPT ![c] = a] /\ uses' = uses + 1
    /\ UNCHANGED <<hour, override, file, dirty, saving, held, actual, forgottenAt, losses, highest>>

checkQuota(c, a) ==
    /\ caller[c] = "idle"
    /\ uses < MaxUses
    /\ usage' = AutoReset(usage)
    /\ Boundaries
    /\ IF usage'[a] >= getQuota THEN UNCHANGED <<caller, uses>>
       ELSE caller' = [caller EXCEPT ![c] = a] /\ uses' = uses + 1
    /\ UNCHANGED <<hour, override, file, dirty, saving, held, actual, forgottenAt, losses, highest>>

\* recordUsage of what the use came to, which checkQuota was not told.  Tasks
\* are a number of them, given back when they end.
recordUsage(c, n) ==
    /\ caller[c] \in QuotaAction
    /\ caller[c] = "task" => n >= 0
    /\ usage' = [AutoReset(usage) EXCEPT ![caller[c]] = @ + n]
    /\ actual' = [actual EXCEPT ![caller[c]] = @ + n]
    /\ Boundaries
    /\ held' = [held EXCEPT ![c] = IF caller[c] = "task" THEN n ELSE 0]
    /\ caller' = [caller EXCEPT ![c] = IF @ = "task" THEN "running" ELSE "idle"]
    /\ UNCHANGED <<hour, override, file, dirty, saving, forgottenAt, losses, highest, uses>>

\* recordUsage of the negative at the end of a task.
Release(c) ==
    /\ caller[c] = "running"
    /\ usage' = [AutoReset(usage) EXCEPT !["task"] = @ - held[c]]
    /\ actual' = [actual EXCEPT !["task"] = @ - held[c]]
    /\ Boundaries
    /\ held' = [held EXCEPT ![c] = 0]
    /\ caller' = [caller EXCEPT ![c] = "idle"]
    /\ UNCHANGED <<hour, override, file, dirty, saving, forgottenAt, losses, highest, uses>>

setQuota(q) ==
    /\ override # {q}
    /\ override' = {q}
    /\ highest' = IF q > highest THEN q ELSE highest
    /\ UNCHANGED <<hour, usage, lastHour, lastDay, file, dirty, saving, caller, held, actual,
                   forgottenAt, losses, uses>>

LoseCounts == losses < MaxLosses /\ losses' = losses + 1 /\ forgottenAt' = hour

\* removeTenant forgets the tenant, whatever its callers are about.
removeTenant ==
    /\ override' = {}
    /\ usage' = Zero
    /\ lastHour' = Undefined
    /\ lastDay' = Undefined
    /\ LoseCounts
    /\ UNCHANGED <<hour, file, dirty, saving, caller, held, actual, highest, uses>>

HourPasses ==
    /\ hour < MaxHours
    /\ hour' = hour + 1
    /\ actual' = [actual EXCEPT !["tool"] = 0,
                                !["token"] = IF Day(hour + 1) > Day(hour) THEN 0 ELSE @]
    /\ UNCHANGED <<override, usage, lastHour, lastDay, file, dirty, saving, caller, held,
                   forgottenAt, losses, highest, uses>>
-----------------------------------------------------------------------------
(* QuotaPersistence *)

markDirty ==
    /\ ~dirty
    /\ dirty' = TRUE
    /\ UNCHANGED <<hour, override, usage, lastHour, lastDay, file, saving, caller, held, actual,
                   forgottenAt, losses, highest, uses>>

\* save: the limits in force are stored as an override; a tenant there is
\* nothing known of is left out, and loads as the defaults and no usage do.  A
\* write or a rename that fails leaves the file there was.
save ==
    /\ usage' = AutoReset(usage)
    /\ Boundaries
    /\ \/ /\ file' = [stored |-> TRUE, quota |-> getQuota, usage |-> usage']
          /\ dirty' = FALSE
       \/ UNCHANGED <<file, dirty>>
    /\ UNCHANGED <<hour, override, caller, held, actual, forgottenAt, losses, highest, uses>>

AutoSave     == saving /\ dirty /\ save /\ UNCHANGED saving
stopAutoSave == saving /\ saving' = FALSE /\ save

\* A crash, and the start of a new process: load adds what the file says to a
\* fresh manager, whose boundaries are those of now.  A file that fails its
\* hash is not loaded, and there is no auto-save then.
CrashAndLoad ==
    /\ LoseCounts
    /\ caller' = [c \in Callers |-> "idle"]
    /\ held' = [c \in Callers |-> 0]
    /\ actual' = [actual EXCEPT !["task"] = 0]
    /\ dirty' = FALSE
    /\ \/ /\ file.stored
          /\ override' = {file.quota}
          /\ usage' = file.usage
          /\ Boundaries
          /\ saving' = TRUE
       \/ /\ override' = {}
          /\ usage' = Zero
          /\ lastHour' = Undefined
          /\ lastDay' = Undefined
          /\ saving' = ~file.stored
    /\ UNCHANGED <<hour, file, highest, uses>>

QuotaNext ==
    \/ \E c \in Callers :
          \/ \E a \in QuotaAction : checkQuota(c, a)
          \/ \E n \in Amounts : recordUsage(c, n)
          \/ Release(c)
    \/ \E q \in Overrides : setQuota(q)
    \/ removeTenant \/ HourPasses \/ markDirty \/ AutoSave \/ stopAutoSave \/ CrashAndLoad

QuotaSpec == QuotaInit /\ [][QuotaNext]_quotaVars
-----------------------------------------------------------------------------
QuotaTypeOK ==
    /\ hour \in 0..MaxHours
    /\ override \subseteq {DefaultQuota} \cup Overrides /\ Cardinality(override) <= 1
    /\ usage \in [QuotaAction -> Int] /\ actual \in [QuotaAction -> Int]
    /\ lastHour \in 0..hour \cup {Undefined} /\ lastDay \in 0..Day(hour) \cup {Undefined}
    /\ caller \in [Callers -> QuotaAction \cup {"idle", "running"}]
    /\ held \in [Callers -> Nat] /\ uses \in 0..MaxUses

\* The usage a check sees is what was really used: for tasks and storage as
\* long as no crash and no removal lost the counts, and for the hourly and the
\* daily count again as soon as an hour, a day, has begun after that.
UsageExact ==
    LET seen == AutoReset(usage) IN
    /\ forgottenAt = Undefined => seen["task"] = actual["task"] /\ seen["storage"] = actual["storage"]
    /\ forgottenAt # hour => seen["tool"] = actual["tool"]
    /\ forgottenAt = Undefined \/ Day(forgottenAt) # Day(hour) => seen["token"] = actual["token"]

\* A check is passed below the limit and is told no amount, and between check
\* and record other callers may pass it too.  So a limit is overrun, but by
\* less than the most a use records for each caller, also over resets,
\* crashes, removals and changes of the quota.  Where there never was a limit
\* above nothing, nothing is used.  And the usage the limit is compared with is
\* the real one (quotas.ts checkQuota, recordUsage, _autoResetIfStale).
QuotaOverrunBounded ==
    /\ \A a \in QuotaAction :
          \/ usage[a] < highest + MaxAmount * Cardinality(Callers)
          \/ highest = 0 /\ usage[a] = 0
    /\ UsageExact
=============================================================================
