--------------------------- MODULE CorrectionLoop ---------------------------
(***************************************************************************)
(* runCorrectionLoop on one Orchestrator instance.  Several callers may    *)
(* call it; everything between two awaits is one action.  The instance's   *)
(* fields (busy, cwd, activeTurnWorkspace, the lists of temporary          *)
(* directories) are shared by all of them, the loop's local variables are  *)
(* the record loop[c].  A removal of a temporary directory is taken to     *)
(* succeed; every copy into one may fail and throw.                        *)
(***************************************************************************)
EXTENDS VerdictRules

CONSTANTS
    Callers,         \* the calls of runCorrectionLoop the host makes
    NoCaller,
    MaxCorrections,  \* config.maxCorrections
    MaxCost,         \* config.maxCost, 0 when the host gives none
    TurnCosts,       \* what one delegation may cost
    Policies,        \* verifier policies of the task profiles
    Packets,         \* packets a successful delegation may return
    LoopModes,       \* modes a delegation may run in
    Configs,         \* what a host may ask for, see Config
    MaxEdits         \* bound: edits of the project by its user

Validators == {"none", "structured", "shell", "shell-disabled"}
TaskPasses == {"true", "false", "null"}
Config == [validator : Validators, taskPass : TaskPasses,
           validatorRequired : BOOLEAN, policy : Policies]

ASSUME LoopAssumption ==
    /\ NoCaller \notin Callers
    /\ MaxCorrections \in Nat
    /\ MaxCost \in Nat
    /\ TurnCosts \subseteq Nat
    /\ Policies \subseteq Policy
    /\ Packets \subseteq Packet
    /\ LoopModes \subseteq Modes
    /\ Configs \subseteq Config
    /\ MaxEdits \in Nat

VARIABLES
    busy,              \* Orchestrator.busy
    shuttingDown,      \* Orchestrator.shuttingDown
    classifierLoaded,  \* Orchestrator.classifierLoaded
    ws,                \* the workspace fields and the directories on disk
    loop,              \* per call: where it is and its local variables
    edits,             \* version of the user's project
    overlapped         \* history: two loops were once in flight together

vars == <<busy, shuttingDown, classifierLoaded, ws, loop, edits, overlapped>>
-----------------------------------------------------------------------------
(* Directories.  mkdtemp never returns the same name twice: a directory is *)
(* named by the call and the turn that made it.                            *)

Dir(kind, c, n)    == [kind |-> kind, of |-> c, turn |-> n]
Home               == Dir("home", NoCaller, 0)
NoDir              == Dir("none", NoCaller, 0)
TurnDir(c, n)      == Dir("turn", c, n)
ValidatorDir(c, n) == Dir("validator", c, n)
BaselineDir(c)     == Dir("baseline", c, 0)

TurnDirs      == [kind : {"turn"}, of : Callers, turn : 0..MaxCorrections]
ValidatorDirs == [kind : {"validator"}, of : Callers, turn : 0..MaxCorrections]
BaselineDirs  == [kind : {"baseline"}, of : Callers, turn : {0}]
TempDirs      == TurnDirs \cup ValidatorDirs \cup BaselineDirs

Workspace == [cwd : {Home} \cup TurnDirs, active : {NoDir} \cup TurnDirs,
              isolated : SUBSET ValidatorDirs, snapshot : {NoDir} \cup BaselineDirs,
              baselines : SUBSET BaselineDirs, disk : SUBSET ({Home} \cup TempDirs),
              version : 0..MaxEdits]

cleanupTurnWorkspace_RemovesCwd(w) ==
    [w EXCEPT !.disk = @ \ {w.cwd}, !.active = NoDir]

cleanupTurnWorkspace(w) ==
    [w EXCEPT !.disk = @ \ {w.active}, !.active = NoDir]

cleanupIsolatedWorkspace(w) ==
    [w EXCEPT !.disk = @ \ w.isolated, !.isolated = {}]

\* The cleanupBaselineDirs that gracefulShutdown calls removes through
\* require(), which an ES module does not have: the list is emptied, the
\* directories go only where a loader supplies require.
cleanupBaselineDirs(w) ==
    {[w EXCEPT !.baselines = {}],
     [w EXCEPT !.baselines = {}, !.disk = @ \ w.baselines]}

\* The outcomes of a step that copies a tree: ok, or thrown from a copy that
\* left the new directory behind, or thrown before it was made.  As long as
\* there is no snapshot no turn has begun, so cwd is the project.
ensureBaselineSnapshot(w, c) ==
    LET made == [w EXCEPT !.disk = @ \cup {BaselineDir(c)}]
    IN  IF w.snapshot # NoDir THEN {[ok |-> TRUE, ws |-> w]}
        ELSE {[ok |-> TRUE,
               ws |-> [made EXCEPT !.snapshot = BaselineDir(c),
                                   !.baselines = @ \cup {BaselineDir(c)},
                                   !.version = edits]],
              [ok |-> FALSE, ws |-> made], [ok |-> FALSE, ws |-> w]}

createIsolatedWorkspace(w, base, c, n) ==
    LET made == [w EXCEPT !.disk = @ \cup {ValidatorDir(c, n)}]
    IN  {[ok |-> FALSE, ws |-> made], [ok |-> FALSE, ws |-> w]} \cup
        (IF base \in w.disk
         THEN {[ok |-> TRUE, ws |-> [made EXCEPT !.isolated = @ \cup {ValidatorDir(c, n)}]]}
         ELSE {})
-----------------------------------------------------------------------------
(* Local state of a call *)

InFlight == {"loading", "refused", "dispatching", "working", "verifying", "failed",
             "threw", "delegated", "validating", "recording", "flushing", "crashed"}
PCs == InFlight \cup {"idle", "rejected", "done"}

LoopState ==
    [pc : PCs, cfg : Configs,
     turn : 0..MaxCorrections, cost : Nat, mode : Modes,
     packet : Packet,                     \* last of allPackets
     action : Actions \cup {"none"},      \* last of turns, then finalAction
     taskPass : TaskPasses,               \* task.taskPass
     validation : {"skipped", "pass", "fail", "error"},
     validatedTurn : -1..MaxCorrections,  \* history: the turn validation is of
     savedCwd : {Home} \cup TurnDirs,
     places : SUBSET ({Home} \cup TurnDirs),  \* history: where this turn's worker,
                                              \* verifiers and validator looked
     versions : SUBSET (0..MaxEdits),     \* history: projects its turns copied
     crashed : BOOLEAN,                   \* history: went through the catch block
     verdict : {"none", "pass", "fail", "unknown"},
     class : {"none", "pass", "task_fail", "validator_error", "tool_error",
              "escalated", "unknown"}]    \* outcomeClass of its observation

IdleLoop(cfg, mode) ==
    [pc |-> "idle", cfg |-> cfg, turn |-> 0, cost |-> 0, mode |-> mode,
     packet |-> EmptyPacket(cfg.policy), action |-> "none",
     taskPass |-> cfg.taskPass, validation |-> "skipped", validatedTurn |-> -1,
     savedCwd |-> Home, places |-> {}, versions |-> {},
     crashed |-> FALSE, verdict |-> "none", class |-> "none"]

HasValidator(l) == l.cfg.validator # "none"

\* The fields of the instance and the local variables of every call have their
\* types; in particular no call starts a turn beyond maxCorrections.
TypeOK ==
    /\ busy \in BOOLEAN
    /\ shuttingDown \in BOOLEAN
    /\ classifierLoaded \in BOOLEAN
    /\ ws \in Workspace
    /\ loop \in [Callers -> LoopState]
    /\ edits \in 0..MaxEdits
    /\ overlapped \in BOOLEAN

Init ==
    /\ busy = FALSE
    /\ shuttingDown = FALSE
    /\ classifierLoaded = FALSE
    /\ ws = [cwd |-> Home, active |-> NoDir, isolated |-> {}, snapshot |-> NoDir,
             baselines |-> {}, disk |-> {Home}, version |-> 0]
    /\ \E cfg \in [Callers -> Configs], mode \in [Callers -> LoopModes] :
           loop = [c \in Callers |-> IdleLoop(cfg[c], mode[c])]
    /\ edits = 0
    /\ overlapped = FALSE
-----------------------------------------------------------------------------
(* Pieces of the loop.  w is the workspace and l the local state as the    *)
(* earlier statements of the same action have left them.                   *)

\* The catch block up to its await: busy is already cleared here.  The packet
\* it reduces once more goes to the caller and is not decided on.
Crash(c, w, l) ==
    /\ busy' = FALSE
    /\ ws' = w
    /\ loop' = [loop EXCEPT ![c] =
                   [l EXCEPT !.pc = "crashed", !.crashed = TRUE,
                             !.action = "escalate", !.verdict = "unknown"]]

\* The state of the project that copying the snapshot gives a turn.
TurnSource_LiveProject(w) == edits

TurnSource(w) == w.version

\* runIsolatedTurn up to its await: copy the snapshot, swap cwd, delegate.
\* held is the value of busy that the action leaves unless it crashes.
BeginTurn(c, w, l, n, held) ==
    LET made   == [w EXCEPT !.disk = @ \cup {TurnDir(c, n)}]
        inTurn == [l EXCEPT !.turn = n, !.places = {}]
    IN  \/ /\ w.snapshot \in w.disk
           /\ ws' = [made EXCEPT !.cwd = TurnDir(c, n)]
           /\ loop' = [loop EXCEPT ![c] =
                  [inTurn EXCEPT !.pc = IF shuttingDown THEN "refused" ELSE "dispatching",
                                 !.savedCwd = w.cwd,
                                 !.versions = l.versions \cup {TurnSource(w)}]]
           /\ busy' = held
        \/ Crash(c, [made EXCEPT !.active = TurnDir(c, n)], inTurn)
        \/ Crash(c, w, inTurn)

FirstTurn(c, l, held) ==
    \E s \in ensureBaselineSnapshot(ws, c) :
        IF s.ok THEN BeginTurn(c, s.ws, l, 0, held) ELSE Crash(c, s.ws, l)

\* After the loop: finalAction and the final verdict.
Settle(c, w, l) ==
    LET finalAction == IF HasValidator(l) /\ l.validation # "pass"
                       THEN "escalate" ELSE l.action
        verdict == computeFinalVerdict(l.validation, HasValidator(l), finalAction,
                                       l.packet, l.cfg.validatorRequired, l.mode)
    IN  /\ ws' = w
        /\ loop' = [loop EXCEPT ![c] = [l EXCEPT !.pc = "recording",
                                                 !.action = finalAction,
                                                 !.verdict = verdict]]
        /\ busy' = busy

Decide(c, w, l) ==
    LET action == decideCorrection(l.packet, l.turn, MaxCorrections,
                                   l.cost, MaxCost, l.taskPass)
        next   == [l EXCEPT !.action = action]
    IN  IF action = "correct" THEN BeginTurn(c, w, next, l.turn + 1, busy)
        ELSE Settle(c, w, next)

\* The finally block.
Finish(c) ==
    /\ busy' = FALSE
    /\ ws' = cleanupTurnWorkspace(cleanupIsolatedWorkspace(ws))
    /\ loop' = [loop EXCEPT ![c].pc = "done"]
-----------------------------------------------------------------------------
(* Actions *)

Reject(c) ==
    /\ loop[c].pc = "idle"
    /\ busy
    /\ loop' = [loop EXCEPT ![c].pc = "rejected"]
    /\ UNCHANGED <<busy, shuttingDown, classifierLoaded, ws, edits, overlapped>>

Enters_Unguarded(c) ==
    /\ loop[c].pc = "idle"
    /\ overlapped' = (overlapped \/ \E d \in Callers : loop[d].pc \in InFlight)
    /\ UNCHANGED <<shuttingDown, edits>>

Enters(c) ==
    /\ loop[c].pc = "idle"
    /\ ~busy
    /\ overlapped' = (overlapped \/ \E d \in Callers : loop[d].pc \in InFlight)
    /\ UNCHANGED <<shuttingDown, edits>>

\* The first loop of an instance awaits the classifier's history; later ones
\* run up to their first delegation at once.
Enter(c) ==
    /\ Enters(c)
    /\ ~classifierLoaded
    /\ busy' = TRUE
    /\ loop' = [loop EXCEPT ![c] = [@ EXCEPT !.pc = "loading"]]
    /\ UNCHANGED <<classifierLoaded, ws>>

EnterLoaded(c) ==
    /\ Enters(c)
    /\ classifierLoaded
    /\ FirstTurn(c, loop[c], TRUE)
    /\ UNCHANGED classifierLoaded

Loaded(c) ==
    /\ loop[c].pc = "loading"
    /\ classifierLoaded' = TRUE
    /\ FirstTurn(c, loop[c], busy)
    /\ UNCHANGED <<shuttingDown, edits, overlapped>>

\* What every later step of a loop leaves alone.
Elsewhere == UNCHANGED <<shuttingDown, classifierLoaded, edits, overlapped>>

\* delegate reads this.cwd for the worker after it has awaited the memory's
\* recommendation, and runVerifiers reads it again after the model answered.
LooksAtCwd(c, from, to) ==
    /\ loop[c].pc = from
    /\ loop' = [loop EXCEPT ![c] =
                   [loop[c] EXCEPT !.pc = to, !.places = loop[c].places \cup {ws.cwd}]]
    /\ UNCHANGED <<busy, ws>>
    /\ Elsewhere

Dispatch(c)       == LooksAtCwd(c, "dispatching", "working")
StartVerifiers(c) == LooksAtCwd(c, "working", "verifying")

\* The finally blocks of runIsolatedTurn.
EndTurn_ForgetsCwd(c, l) ==
    /\ ws' = [ws EXCEPT !.active = TurnDir(c, l.turn)]
    /\ loop' = [loop EXCEPT ![c] = l]
    /\ UNCHANGED busy
    /\ Elsewhere

EndTurn_ForgetsWorkspace(c, l) ==
    /\ ws' = [ws EXCEPT !.cwd = l.savedCwd]
    /\ loop' = [loop EXCEPT ![c] = l]
    /\ UNCHANGED busy
    /\ Elsewhere

EndTurn(c, l) ==
    /\ ws' = [ws EXCEPT !.cwd = l.savedCwd, !.active = TurnDir(c, l.turn)]
    /\ loop' = [loop EXCEPT ![c] = l]
    /\ UNCHANGED busy
    /\ Elsewhere

\* delegate answers with an error (shutting down, denied, no model) or throws.
DelegateFails(c) ==
    /\ loop[c].pc \in {"refused", "dispatching", "working"}
    /\ EndTurn(c, [loop[c] EXCEPT !.pc = "failed"])

DelegateThrows(c) ==
    /\ loop[c].pc \in {"dispatching", "working", "verifying"}
    /\ EndTurn(c, [loop[c] EXCEPT !.pc = "threw"])

DelegateReturns(c) ==
    /\ loop[c].pc = "verifying"
    /\ \E packet \in Packets, mode \in LoopModes, cost \in TurnCosts :
           EndTurn(c, [loop[c] EXCEPT !.pc = "delegated", !.packet = packet,
                                      !.mode = mode, !.cost = @ + cost])

\* The continuations of the loop after the turn's promise settled.
AfterFailure(c) ==
    /\ loop[c].pc = "failed"
    /\ Settle(c, cleanupTurnWorkspace(ws),
              [loop[c] EXCEPT !.action = "escalate",
                              !.packet = EmptyPacket(loop[c].cfg.policy)])
    /\ Elsewhere

AfterThrow(c) ==
    /\ loop[c].pc = "threw"
    /\ Crash(c, ws, loop[c])
    /\ Elsewhere

SkipValidator(c) ==
    /\ loop[c].pc = "delegated"
    /\ loop[c].cfg.validator = "none"
    /\ Decide(c, cleanupTurnWorkspace(ws), loop[c])
    /\ Elsewhere

\* The validator judges a copy of the turn's workspace, or of cwd when the
\* instance no longer names one.
StartValidator(c) ==
    /\ loop[c].pc = "delegated"
    /\ loop[c].cfg.validator \in {"structured", "shell"}
    /\ LET base == IF ws.active = NoDir THEN ws.cwd ELSE ws.active
       IN  \E s \in createIsolatedWorkspace(ws, base, c, loop[c].turn) :
              IF s.ok
              THEN /\ ws' = s.ws
                   /\ loop' = [loop EXCEPT ![c] =
                          [loop[c] EXCEPT !.pc = "validating",
                                          !.places = loop[c].places \cup {base}]]
                   /\ busy' = busy
              ELSE Crash(c, s.ws, loop[c])
    /\ Elsewhere

\* A validator status arrives: pass and fail are decided on, error escalates.
Validated(c, status) ==
    LET l == [loop[c] EXCEPT !.validation = status, !.validatedTurn = loop[c].turn,
                             !.taskPass = TaskPassOf(status)]
        w == cleanupTurnWorkspace(ws)
    IN  IF status = "error" THEN Settle(c, w, [l EXCEPT !.action = "escalate"])
        ELSE Decide(c, w, l)

ValidatorReturns(c) ==
    /\ loop[c].pc = "validating"
    /\ \E status \in {"pass", "fail", "error"} : Validated(c, status)
    /\ Elsewhere

ValidatorDisabled(c) ==
    /\ loop[c].pc = "delegated"
    /\ loop[c].cfg.validator = "shell-disabled"
    /\ Validated(c, "error")
    /\ Elsewhere

\* The observation is written, or the write fails and is only logged.
Record(c) ==
    /\ loop[c].pc = "recording"
    /\ \E class \in {"none", OutcomeClass(loop[c].taskPass, loop[c].validation,
                                          loop[c].action, loop[c].verdict)} :
           loop' = [loop EXCEPT ![c] = [@ EXCEPT !.pc = "flushing", !.class = class]]
    /\ UNCHANGED <<busy, ws>>
    /\ Elsewhere

Flushed_OnlyOnSuccess(c) ==
    /\ loop[c].pc = "flushing"
    /\ Finish(c)
    /\ Elsewhere

Flushed(c) ==
    /\ loop[c].pc \in {"flushing", "crashed"}
    /\ Finish(c)
    /\ Elsewhere

FlushThrows(c) ==
    /\ loop[c].pc = "flushing"
    /\ Crash(c, ws, loop[c])
    /\ Elsewhere

gracefulShutdown ==
    /\ ~shuttingDown
    /\ shuttingDown' = TRUE
    /\ \E w \in cleanupBaselineDirs(ws) :
           ws' = cleanupTurnWorkspace(cleanupIsolatedWorkspace(w))
    /\ UNCHANGED <<busy, classifierLoaded, loop, edits, overlapped>>

UserEdits ==
    /\ edits < MaxEdits
    /\ edits' = edits + 1
    /\ UNCHANGED <<busy, shuttingDown, classifierLoaded, ws, loop, overlapped>>

Step(c) ==
    \/ Loaded(c) \/ Dispatch(c) \/ StartVerifiers(c)
    \/ DelegateFails(c) \/ DelegateThrows(c) \/ DelegateReturns(c)
    \/ AfterFailure(c) \/ AfterThrow(c) \/ SkipValidator(c) \/ StartValidator(c)
    \/ ValidatorReturns(c) \/ ValidatorDisabled(c)
    \/ Record(c) \/ Flushed(c) \/ FlushThrows(c)

Next ==
    \/ \E c \in Callers : Reject(c) \/ Enter(c) \/ EnterLoaded(c) \/ Step(c)
    \/ gracefulShutdown
    \/ UserEdits

Spec == Init /\ [][Next]_vars

\* Every await of a loop ends: the model client, the validators, the memory's
\* lock and the check commands all have timeouts.
FairSpec == Spec /\ \A c \in Callers : WF_vars(Step(c))
-----------------------------------------------------------------------------
(* Properties *)

\* A final verdict "pass" is never based on a broken artifact protocol, on an
\* earlier turn's validation, or, without a validator, on anything but a
\* passing packet of a profile and mode for which verifiers are enough
\* (computeFinalVerdict and the variables runCorrectionLoop feeds it).
PassVerdictEarned ==
    \A c \in Callers : loop[c].verdict = "pass" =>
        /\ ~loop[c].packet.protocolBroken
        /\ IF HasValidator(loop[c])
           THEN /\ loop[c].validation = "pass"
                /\ loop[c].validatedTurn = loop[c].turn
           ELSE /\ loop[c].packet.overall = "pass"
                /\ loop[c].action = "accept"
                /\ ~loop[c].cfg.validatorRequired
                /\ loop[c].mode # "schema-contract"

\* The loop accepts only a turn that its validator passed; without one, only
\* a turn the host vouched for or a clean packet within both budgets.
AcceptanceEarned ==
    \A c \in Callers : loop[c].action = "accept" =>
        \/ /\ HasValidator(loop[c])
           /\ loop[c].validation = "pass"
           /\ loop[c].validatedTurn = loop[c].turn
        \/ /\ ~HasValidator(loop[c])
           /\ \/ loop[c].cfg.taskPass = "true"
              \/ /\ loop[c].packet.overall = "pass"
                 /\ loop[c].turn < MaxCorrections
                 /\ ~OverBudget(loop[c].cost, MaxCost)

\* Routing memory stores what the host or its validator reported, never what
\* the verifiers said: an observation of class "pass" (routing lesson reward)
\* or "task_fail" (punish) has such a report behind it.
MemoryRecordsHostOutcome ==
    \A c \in Callers :
        /\ loop[c].class = "pass" =>
               \/ loop[c].cfg.taskPass = "true"
               \/ loop[c].validation = "pass" /\ loop[c].validatedTurn = loop[c].turn
        /\ loop[c].class = "task_fail" =>
               loop[c].cfg.taskPass = "false" \/ loop[c].validation = "fail"

\* A further turn is started only while the correction count and the cost
\* budget allow one, never after a turn that the validator passed or that
\* broke a required security or graph check with nobody to judge the task.
NewTurnJustified ==
    [][\A c \in Callers : loop'[c].turn # loop[c].turn =>
           /\ loop'[c].turn = loop[c].turn + 1
           /\ ~OverBudget(loop[c].cost, MaxCost)
           /\ loop'[c].taskPass # "true"
           /\ loop'[c].taskPass = "null" =>
                  /\ loop[c].packet.overall # "pass"
                  /\ loop[c].packet.critical = 0 \/ loop[c].packet.security # "required"]_vars

\* As long as no two loops overlapped and nobody shut the instance down, the
\* worker, the verifiers and the validator of a turn all look at that turn's
\* own workspace, although each of them finds it through a field of the
\* shared instance after an await.
WorkStaysInTurn ==
    ~overlapped /\ ~shuttingDown =>
        \A c \in Callers : loop[c].places \subseteq {TurnDir(c, loop[c].turn)}

\* Every turn of one loop starts from the same frozen copy of the project,
\* whatever the user edits meanwhile (ensureBaselineSnapshot).
FrozenBaseline ==
    \A c \in Callers : \A v, w \in loop[c].versions : v = w

\* No cleanup ever removes the user's own project, not even one that runs
\* for a loop that another one has overtaken.
HomeNeverRemoved == Home \in ws.disk

\* Once every loop has returned, and if no two overlapped, cwd is the project
\* again and no turn or registered validator workspace is left behind.
QuietIsClean ==
    ~overlapped /\ (\A c \in Callers : loop[c].pc \notin InFlight) =>
        /\ ws.cwd = Home
        /\ ws.active = NoDir
        /\ ws.isolated = {}
        /\ ws.disk \cap TurnDirs = {}

\* While no loop has crashed, at most one is in flight and it holds busy.
ExclusiveUntilCrash ==
    (\A c \in Callers : ~loop[c].crashed) =>
        /\ ~overlapped
        /\ \A c \in Callers : loop[c].pc \in InFlight => busy
        /\ \A c, d \in Callers :
               loop[c].pc \in InFlight /\ loop[d].pc \in InFlight => c = d

\* A loop that was entered returns, and busy is always released again.
LoopReturns ==
    /\ \A c \in Callers : loop[c].pc \in InFlight ~> loop[c].pc = "done"
    /\ busy ~> ~busy

\* orchestrator-correction.ts:57: "only one correction loop may run
\* concurrently"; a loop that is already in its catch block is not counted.
OneLoopAtATime ==
    \A c, d \in Callers :
        loop[c].pc \in InFlight \ {"crashed"} /\ loop[d].pc \in InFlight \ {"crashed"}
            => c = d
=============================================================================
