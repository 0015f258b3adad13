------------------------ MODULE CorrectionLoopProofs ------------------------
(***************************************************************************)
(* The safety of runCorrectionLoop for any number of callers, corrections, *)
(* costs, packets and configurations.                                      *)
(***************************************************************************)
EXTENDS CorrectionLoop, TLAPS

\* The workspace fields are well formed and the user's project is on disk.
WorkspaceOK(w) == w \in Workspace /\ Home \in w.disk

\* Where taskPass comes from, and that a validator's pass is of this turn.
ReportOK(l) ==
    /\ ~HasValidator(l) => l.validation = "skipped"
    /\ l.taskPass = IF l.validation = "skipped" THEN l.cfg.taskPass
                    ELSE TaskPassOf(l.validation)
    /\ l.validation = "pass" => l.validatedTurn = l.turn

\* A call that has not yet left its loop has decided nothing final.
Undecided(l) ==
    /\ l.verdict = "none"
    /\ l.class = "none"
    /\ l.action \in {"none", "correct"}

Early == {"idle", "rejected", "loading", "refused", "dispatching", "working",
          "verifying", "failed", "threw", "delegated", "validating"}

VerdictOK(l) == l.verdict = "pass" =>
    /\ ~l.packet.protocolBroken
    /\ IF HasValidator(l)
       THEN /\ l.validation = "pass"
            /\ l.validatedTurn = l.turn
       ELSE /\ l.packet.overall = "pass"
            /\ l.action = "accept"
            /\ ~l.cfg.validatorRequired
            /\ l.mode # "schema-contract"

AcceptOK(l) == l.action = "accept" =>
    \/ /\ HasValidator(l)
       /\ l.validation = "pass"
       /\ l.validatedTurn = l.turn
    \/ /\ ~HasValidator(l)
       /\ \/ l.cfg.taskPass = "true"
          \/ /\ l.packet.overall = "pass"
             /\ l.turn < MaxCorrections
             /\ ~OverBudget(l.cost, MaxCost)

MemoryOK(l) ==
    /\ l.class = "pass" =>
           \/ l.cfg.taskPass = "true"
           \/ l.validation = "pass" /\ l.validatedTurn = l.turn
    /\ l.class = "task_fail" => l.cfg.taskPass = "false" \/ l.validation = "fail"

LoopOK(l) ==
    /\ l \in LoopState
    /\ ReportOK(l)
    /\ l.pc \in Early => Undecided(l)
    /\ l.pc = "recording" => l.class = "none"
    /\ l.pc = "validating" => HasValidator(l)
    /\ l.pc \in {"idle", "loading"} => l.turn = 0 /\ l.validation = "skipped"
    /\ VerdictOK(l)
    /\ AcceptOK(l)
    /\ MemoryOK(l)

Inv ==
    /\ busy \in BOOLEAN
    /\ shuttingDown \in BOOLEAN
    /\ classifierLoaded \in BOOLEAN
    /\ WorkspaceOK(ws)
    /\ loop \in [Callers -> LoopState]
    /\ \A c \in Callers : LoopOK(loop[c])
    /\ edits \in 0..MaxEdits
    /\ overlapped \in BOOLEAN

USE LoopAssumption
-----------------------------------------------------------------------------
(* The rules *)

\* A task without signals still gets a packet.
LEMMA EmptyPacketType ==
    ASSUME NEW policy \in Policy
    PROVE  EmptyPacket(policy) \in Packet
<1>1. NoSignals = [slot \in Slots |-> << >>]
  BY DEF NoSignals
<1>2. \A slot \in Slots : ~Arrived(NoSignals, slot)
  BY <1>1 DEF Arrived
<1>3. CriticalCount(NoSignals) \in Nat
  BY <1>2 DEF CriticalCount, Slots
<1>4. BrokenEdges(NoSignals, policy) \in Nat
  BY <1>2 DEF BrokenEdges, MissingCount, Slots
<1>5. \A slot \in Slots : SlotWeight(policy, slot) \in Weights
  BY DEF SlotWeight, Weights
<1>6. EnforcementFails(NoArtifacts) \in BOOLEAN
  BY DEF EnforcementFails, NoArtifacts
<1>7. (NoArtifacts.unterminated \/ NoArtifacts.truncated) \in BOOLEAN
  OBVIOUS
<1> QED
  BY <1>3, <1>4, <1>5, <1>6, <1>7 DEF EmptyPacket, Reduce, Packet, Overalls, Slots

\* The loop is told to correct only while a further turn is within bounds,
\* and never when the task is known to have passed.
LEMMA DecisionType ==
    ASSUME NEW packet \in Packet, NEW count \in Nat, NEW cost \in Nat,
           NEW taskPass \in TaskPasses
    PROVE  LET d == decideCorrection(packet, count, MaxCorrections, cost, MaxCost, taskPass)
           IN  /\ d \in Actions
               /\ d = "correct" => count < MaxCorrections /\ taskPass # "true"
               /\ d = "accept" /\ taskPass # "true" =>
                      /\ taskPass = "null"
                      /\ packet.overall = "pass"
                      /\ count < MaxCorrections
                      /\ ~OverBudget(cost, MaxCost)
BY DEF decideCorrection, TaskPasses, Actions
-----------------------------------------------------------------------------
(* The workspace *)

\* The project is none of the temporary directories, and no two kinds of them
\* share a name: mkdtemp made each one.
LEMMA DirsDiffer ==
    /\ Home \notin TempDirs
    /\ NoDir # Home
    /\ \A c \in Callers, n \in 0..MaxCorrections :
           TurnDir(c, n) \in TurnDirs /\ ValidatorDir(c, n) \in ValidatorDirs
    /\ \A c \in Callers : BaselineDir(c) \in BaselineDirs
    /\ NoDir \notin TempDirs
BY DEF Home, NoDir, Dir, TempDirs, TurnDirs, ValidatorDirs, BaselineDirs,
       TurnDir, ValidatorDir, BaselineDir

\* cleanupTurnWorkspace removes a turn's directory at most.
LEMMA CleanupTurn ==
    ASSUME NEW w, WorkspaceOK(w)
    PROVE  WorkspaceOK(cleanupTurnWorkspace(w))
BY DirsDiffer DEF WorkspaceOK, Workspace, cleanupTurnWorkspace, TempDirs

\* cleanupIsolatedWorkspace removes validator workspaces only.
LEMMA CleanupIsolated ==
    ASSUME NEW w, WorkspaceOK(w)
    PROVE  WorkspaceOK(cleanupIsolatedWorkspace(w))
BY DirsDiffer DEF WorkspaceOK, Workspace, cleanupIsolatedWorkspace, TempDirs

\* cleanupBaselineDirs removes baseline snapshots only.
LEMMA CleanupBaselines ==
    ASSUME NEW w, WorkspaceOK(w), NEW v \in cleanupBaselineDirs(w)
    PROVE  WorkspaceOK(v)
BY DirsDiffer DEF WorkspaceOK, Workspace, cleanupBaselineDirs, TempDirs

\* ensureBaselineSnapshot adds a directory and removes none, whether its copy
\* succeeds or throws.
LEMMA BaselineSnapshot ==
    ASSUME NEW w, WorkspaceOK(w), edits \in 0..MaxEdits, NEW c \in Callers,
           NEW s \in ensureBaselineSnapshot(w, c)
    PROVE  WorkspaceOK(s.ws)
<1> DEFINE made  == [w EXCEPT !.disk = @ \cup {BaselineDir(c)}]
           taken == [made EXCEPT !.snapshot = BaselineDir(c),
                                 !.baselines = @ \cup {BaselineDir(c)},
                                 !.version = edits]
<1>1. WorkspaceOK(made)
  BY DirsDiffer DEF WorkspaceOK, Workspace, TempDirs
<1>2. s.ws \in {w, made, taken}
  BY DEF ensureBaselineSnapshot
<1> HIDE DEF made
<1>3. WorkspaceOK(taken)
  BY <1>1, DirsDiffer DEF WorkspaceOK, Workspace
<1> QED
  BY <1>1, <1>2, <1>3

\* createIsolatedWorkspace adds a directory and removes none, whether its copy
\* succeeds or throws.
LEMMA IsolatedWorkspace ==
    ASSUME NEW w, WorkspaceOK(w), NEW base, NEW c \in Callers,
           NEW n \in 0..MaxCorrections, NEW s \in createIsolatedWorkspace(w, base, c, n)
    PROVE  WorkspaceOK(s.ws)
<1> DEFINE made == [w EXCEPT !.disk = @ \cup {ValidatorDir(c, n)}]
           kept == [made EXCEPT !.isolated = @ \cup {ValidatorDir(c, n)}]
<1>1. WorkspaceOK(made)
  BY DirsDiffer DEF WorkspaceOK, Workspace, TempDirs
<1>2. s.ws \in {w, made, kept}
  BY DEF createIsolatedWorkspace
<1> HIDE DEF made
<1>3. WorkspaceOK(kept)
  BY <1>1, DirsDiffer DEF WorkspaceOK, Workspace
<1> QED
  BY <1>1, <1>2, <1>3
-----------------------------------------------------------------------------
(* The pieces of the loop *)

\* What a step of call c makes of the state: it gives c a local state that is
\* in order and leaves the others alone, and busy is held unless c crashed or
\* is done.
Moves(c, held) ==
    /\ WorkspaceOK(ws')
    /\ \E l \in LoopState :
          /\ LoopOK(l)
          /\ loop' = [loop EXCEPT ![c] = l]
          /\ loop[c].crashed => l.crashed
          /\ l.pc \in InFlight \cup {"done"}
          /\ \/ busy' = held
             \/ busy' = FALSE /\ (l.crashed \/ l.pc = "done")

\* What the pieces need of the local state they are given.
Ready(l) == l \in LoopState /\ ReportOK(l) /\ Undecided(l)

\* The catch block: the call is neither accepted nor passed, and marked crashed.
LEMMA CrashMoves ==
    ASSUME Inv, NEW c \in Callers, NEW w, WorkspaceOK(w), NEW l \in LoopState,
           ReportOK(l), MemoryOK(l), NEW held, Crash(c, w, l)
    PROVE  Moves(c, held)
<1> DEFINE k == [l EXCEPT !.pc = "crashed", !.crashed = TRUE,
                          !.action = "escalate", !.verdict = "unknown"]
<1>1. k \in LoopState
  <2>1. "crashed" \in PCs /\ "escalate" \in Actions \cup {"none"}
    BY DEF PCs, InFlight, Actions
  <2> QED
    BY <2>1 DEF LoopState
<1>2. /\ k.pc = "crashed" /\ k.crashed = TRUE
      /\ k.action = "escalate" /\ k.verdict = "unknown"
      /\ k.cfg = l.cfg /\ k.taskPass = l.taskPass /\ k.validation = l.validation
      /\ k.validatedTurn = l.validatedTurn /\ k.turn = l.turn /\ k.class = l.class
  BY DEF LoopState
<1>3. LoopOK(k)
  BY <1>1, <1>2 DEF LoopOK, ReportOK, MemoryOK, VerdictOK, AcceptOK, Early, HasValidator
<1> QED
  BY <1>1, <1>2, <1>3 DEF Crash, Moves, InFlight

\* runIsolatedTurn up to its await, or a crash in one of its copies.
LEMMA BeginTurnMoves ==
    ASSUME Inv, NEW c \in Callers, NEW w, WorkspaceOK(w), NEW l, Ready(l),
           l.validation # "pass", NEW n \in 0..MaxCorrections, NEW held,
           loop[c].crashed => l.crashed, BeginTurn(c, w, l, n, held)
    PROVE  Moves(c, held)
<1> DEFINE made   == [w EXCEPT !.disk = @ \cup {TurnDir(c, n)}]
           inTurn == [l EXCEPT !.turn = n, !.places = {}]
           k      == [inTurn EXCEPT
                        !.pc = IF shuttingDown THEN "refused" ELSE "dispatching",
                        !.savedCwd = w.cwd, !.versions = l.versions \cup {TurnSource(w)}]
<1>1. inTurn \in LoopState
  BY DEF LoopState, Ready
<1>2. /\ inTurn.cfg = l.cfg /\ inTurn.taskPass = l.taskPass
      /\ inTurn.validation = l.validation /\ inTurn.class = l.class
      /\ inTurn.verdict = l.verdict /\ inTurn.action = l.action
      /\ inTurn.crashed = l.crashed
  BY DEF LoopState, Ready
<1>3. ReportOK(inTurn) /\ MemoryOK(inTurn) /\ Undecided(inTurn)
  BY <1>1, <1>2 DEF Ready, ReportOK, MemoryOK, Undecided, HasValidator
<1>4. /\ WorkspaceOK([made EXCEPT !.active = TurnDir(c, n)])
      /\ WorkspaceOK([made EXCEPT !.cwd = TurnDir(c, n)])
  <2>1. WorkspaceOK(made)
    BY DirsDiffer DEF WorkspaceOK, Workspace, TempDirs
  <2> HIDE DEF made
  <2> QED
    BY <2>1, DirsDiffer DEF WorkspaceOK, Workspace
<1>5. CASE Crash(c, [made EXCEPT !.active = TurnDir(c, n)], inTurn)
  BY <1>1, <1>3, <1>4, <1>5, CrashMoves
<1>6. CASE Crash(c, w, inTurn)
  BY <1>1, <1>3, <1>6, CrashMoves
<1>7. CASE /\ ws' = [made EXCEPT !.cwd = TurnDir(c, n)]
           /\ loop' = [loop EXCEPT ![c] = k]
           /\ busy' = held
  <2>1. w.cwd \in {Home} \cup TurnDirs /\ TurnSource(w) \in 0..MaxEdits
    BY DEF WorkspaceOK, Workspace, TurnSource
  <2>2. k \in LoopState
    <3> HIDE DEF inTurn
    <3>1. l.versions \cup {TurnSource(w)} \in SUBSET (0..MaxEdits)
      BY <2>1 DEF LoopState, Ready
    <3>2. (IF shuttingDown THEN "refused" ELSE "dispatching") \in PCs
      BY DEF PCs, InFlight
    <3> QED
      BY <1>1, <2>1, <3>1, <3>2 DEF LoopState
  <2>3. /\ k.pc \in {"refused", "dispatching"}
        /\ k.cfg = l.cfg /\ k.taskPass = l.taskPass
        /\ k.validation = l.validation /\ k.class = l.class
        /\ k.verdict = l.verdict /\ k.action = l.action /\ k.crashed = l.crashed
    BY <1>1, <1>2 DEF LoopState
  <2>4. LoopOK(k)
    BY <2>2, <2>3 DEF LoopOK, Ready, ReportOK, Undecided, HasValidator, VerdictOK,
                      AcceptOK, MemoryOK, Early
  <2> QED
    BY <1>4, <1>7, <2>2, <2>3, <2>4 DEF Moves, InFlight
<1> QED
  BY <1>5, <1>6, <1>7 DEF BeginTurn

\* The way to the first turn: the snapshot, then runIsolatedTurn.
LEMMA FirstTurnMoves ==
    ASSUME Inv, NEW c \in Callers, NEW l, Ready(l), l.validation = "skipped",
           NEW held, loop[c].crashed => l.crashed, FirstTurn(c, l, held)
    PROVE  Moves(c, held)
<1>1. PICK s \in ensureBaselineSnapshot(ws, c) :
          IF s.ok THEN BeginTurn(c, s.ws, l, 0, held) ELSE Crash(c, s.ws, l)
  BY DEF FirstTurn
<1>2. WorkspaceOK(s.ws)
  BY BaselineSnapshot DEF Inv
<1>3. MemoryOK(l) /\ ReportOK(l) /\ l \in LoopState
  BY DEF Ready, Undecided, MemoryOK
<1>4. 0 \in 0..MaxCorrections
  OBVIOUS
<1> QED
  BY <1>1, <1>2, <1>3, <1>4, BeginTurnMoves, CrashMoves

\* computeFinalVerdict answers with a verdict, and with "pass" only for a
\* passing validation or, without a validator, for an accepted passing packet.
LEMMA VerdictType ==
    ASSUME NEW l \in LoopState, NEW finalAction,
           NEW verdict, verdict = computeFinalVerdict(l.validation, HasValidator(l),
               finalAction, l.packet, l.cfg.validatorRequired, l.mode)
    PROVE  /\ verdict \in {"pass", "fail", "unknown"}
           /\ verdict = "pass" =>
                 /\ ~l.packet.protocolBroken
                 /\ HasValidator(l) => l.validation = "pass"
                 /\ ~HasValidator(l) => /\ l.packet.overall = "pass"
                                        /\ finalAction = "accept"
                                        /\ ~l.cfg.validatorRequired
                                        /\ l.mode # "schema-contract"
BY DEF computeFinalVerdict, finalVerdictFromValidation, finalVerdictFromVerifier

\* A loop may settle on a decision that its packet and its validator bear out.
LEMMA SettleMoves ==
    ASSUME Inv, NEW c \in Callers, NEW w, WorkspaceOK(w), NEW l \in LoopState,
           ReportOK(l), l.class = "none", l.action \in Actions,
           l.action = "accept" /\ ~HasValidator(l) => AcceptOK(l),
           loop[c].crashed => l.crashed, Settle(c, w, l)
    PROVE  Moves(c, busy)
<1> DEFINE finalAction == IF HasValidator(l) /\ l.validation # "pass"
                          THEN "escalate" ELSE l.action
           verdict == computeFinalVerdict(l.validation, HasValidator(l), finalAction,
                          l.packet, l.cfg.validatorRequired, l.mode)
           k == [l EXCEPT !.pc = "recording", !.action = finalAction, !.verdict = verdict]
<1>1. /\ verdict \in {"pass", "fail", "unknown"}
      /\ verdict = "pass" =>
             /\ ~l.packet.protocolBroken
             /\ HasValidator(l) => l.validation = "pass"
             /\ ~HasValidator(l) => /\ l.packet.overall = "pass"
                                    /\ finalAction = "accept"
                                    /\ ~l.cfg.validatorRequired
                                    /\ l.mode # "schema-contract"
  BY VerdictType
<1>2. finalAction \in Actions
  BY DEF Actions
<1> HIDE DEF finalAction, verdict
<1>3. k \in LoopState
  BY <1>1, <1>2 DEF LoopState, PCs, InFlight
<1>4. /\ k.pc = "recording" /\ k.action = finalAction /\ k.verdict = verdict
      /\ k.cfg = l.cfg /\ k.taskPass = l.taskPass /\ k.validation = l.validation
      /\ k.validatedTurn = l.validatedTurn /\ k.turn = l.turn /\ k.class = l.class
      /\ k.crashed = l.crashed /\ k.packet = l.packet /\ k.mode = l.mode
      /\ k.cost = l.cost
  BY DEF LoopState
<1>5. ReportOK(k) /\ MemoryOK(k) /\ (HasValidator(k) <=> HasValidator(l))
  BY <1>4 DEF ReportOK, MemoryOK, HasValidator
<1>6. VerdictOK(k)
  BY <1>1, <1>4, <1>5 DEF VerdictOK, ReportOK
<1>7. AcceptOK(k)
  BY <1>4, <1>5 DEF AcceptOK, ReportOK, finalAction
<1>8. LoopOK(k)
  BY <1>3, <1>4, <1>5, <1>6, <1>7 DEF LoopOK, Early
<1> QED
  BY <1>3, <1>4, <1>8 DEF Settle, Moves, InFlight, finalAction, verdict

\* decideCorrection on a delegated turn: a further turn, or the settlement.
LEMMA DecideMoves ==
    ASSUME Inv, NEW c \in Callers, NEW w, WorkspaceOK(w), NEW l, Ready(l),
           HasValidator(l) => l.validation \in {"pass", "fail"},
           loop[c].crashed => l.crashed, Decide(c, w, l)
    PROVE  Moves(c, busy)
<1> DEFINE action == decideCorrection(l.packet, l.turn, MaxCorrections,
                                      l.cost, MaxCost, l.taskPass)
           next   == [l EXCEPT !.action = action]
<1>1. /\ l \in LoopState /\ l.packet \in Packet /\ l.turn \in 0..MaxCorrections
      /\ l.cost \in Nat /\ l.taskPass \in TaskPasses
  BY DEF Ready, LoopState
<1>2. /\ action \in Actions
      /\ action = "correct" => l.turn < MaxCorrections /\ l.taskPass # "true"
      /\ action = "accept" /\ l.taskPass # "true" =>
            /\ l.taskPass = "null"
            /\ l.packet.overall = "pass"
            /\ l.turn < MaxCorrections
            /\ ~OverBudget(l.cost, MaxCost)
  BY <1>1, DecisionType
<1>3. Decide(c, w, l) <=> IF action = "correct" THEN BeginTurn(c, w, next, l.turn + 1, busy)
                          ELSE Settle(c, w, next)
  BY DEF Decide
<1> HIDE DEF action
<1>4. /\ next \in LoopState /\ next.action = action /\ next.cfg = l.cfg
      /\ next.taskPass = l.taskPass /\ next.validation = l.validation
      /\ next.validatedTurn = l.validatedTurn /\ next.turn = l.turn
      /\ next.class = l.class /\ next.verdict = l.verdict /\ next.crashed = l.crashed
      /\ next.packet = l.packet /\ next.cost = l.cost
  BY <1>1, <1>2 DEF LoopState
<1>5. ReportOK(next) /\ (HasValidator(next) <=> HasValidator(l))
  BY <1>4 DEF Ready, ReportOK, HasValidator
<1>6. CASE action = "correct"
  <2>1. Ready(next)
    BY <1>4, <1>5, <1>6 DEF Ready, Undecided
  <2>2. l.turn + 1 \in 0..MaxCorrections
    BY <1>1, <1>2, <1>6
  <2>3. next.validation # "pass"
    BY <1>2, <1>4, <1>6 DEF Ready, ReportOK, TaskPassOf
  <2> HIDE DEF next
  <2> QED
    BY <1>3, <1>4, <1>6, <2>1, <2>2, <2>3, BeginTurnMoves
<1>7. CASE action # "correct"
  <2>1. action = "accept" /\ ~HasValidator(next) => AcceptOK(next)
    BY <1>2, <1>4, <1>5 DEF AcceptOK, ReportOK
  <2>2. next.class = "none"
    BY <1>4 DEF Ready, Undecided
  <2> HIDE DEF next
  <2> QED
    BY <1>2, <1>3, <1>4, <1>5, <1>7, <2>1, <2>2, SettleMoves
<1> QED
  BY <1>6, <1>7

\* A call goes on to another place before its decision; nothing that was
\* established about it depends on the place.
LEMMA Onward ==
    ASSUME NEW l, LoopOK(l), l.pc \in Early, NEW p \in (Early \cap InFlight) \ {"loading"},
           p = "validating" => HasValidator(l)
    PROVE  LET k == [l EXCEPT !.pc = p]
           IN  /\ LoopOK(k) /\ k \in LoopState
               /\ k.pc = p /\ k.crashed = l.crashed
<1> DEFINE k == [l EXCEPT !.pc = p]
<1>1. k \in LoopState
  <2>1. p \in PCs
    BY DEF PCs
  <2> QED
    BY <2>1 DEF LoopState, LoopOK
<1>2. /\ k.pc = p /\ k.crashed = l.crashed /\ k.verdict = l.verdict /\ k.class = l.class
      /\ k.action = l.action /\ k.cfg = l.cfg /\ k.validation = l.validation
      /\ k.taskPass = l.taskPass /\ k.validatedTurn = l.validatedTurn /\ k.turn = l.turn
  BY DEF LoopState, LoopOK
<1>3. p \notin {"idle", "loading", "recording"}
  BY DEF Early, InFlight
<1> HIDE DEF k
<1>4. LoopOK(k)
  BY <1>1, <1>2, <1>3 DEF LoopOK, ReportOK, Undecided, VerdictOK, AcceptOK, MemoryOK,
                          HasValidator
<1> QED
  BY <1>1, <1>2, <1>4 DEF k

\* A look at the instance's cwd changes nothing that was decided.
LEMMA LooksAtCwdMoves ==
    ASSUME Inv, NEW c \in Callers, NEW from \in Early,
           NEW to \in (Early \cap InFlight) \ {"loading", "validating"}, LooksAtCwd(c, from, to)
    PROVE  Moves(c, busy)
<1> DEFINE l == loop[c]
           k == [l EXCEPT !.pc = to]
           m == [l EXCEPT !.pc = to, !.places = l.places \cup {ws.cwd}]
<1>1. LoopOK(l) /\ l \in LoopState /\ l.pc \in Early
  BY DEF Inv, LooksAtCwd
<1>2. LoopOK(k) /\ k \in LoopState /\ k.pc = to /\ k.crashed = l.crashed
  BY <1>1, Onward
<1>3. loop' = [loop EXCEPT ![c] = m] /\ ws' = ws /\ busy' = busy
  BY DEF LooksAtCwd
<1>4. ws.cwd \in {Home} \cup TurnDirs
  BY DEF Inv, WorkspaceOK, Workspace
<1> HIDE DEF l
<1>5. l.places \cup {ws.cwd} \in SUBSET ({Home} \cup TurnDirs)
  BY <1>1, <1>4 DEF LoopState
<1>6. m = [k EXCEPT !.places = l.places \cup {ws.cwd}]
  BY <1>1 DEF LoopState
<1> HIDE DEF k, m
<1>7. /\ m \in LoopState
      /\ m.pc = k.pc /\ m.crashed = k.crashed /\ m.verdict = k.verdict /\ m.class = k.class
      /\ m.action = k.action /\ m.cfg = k.cfg /\ m.validation = k.validation
      /\ m.taskPass = k.taskPass /\ m.validatedTurn = k.validatedTurn /\ m.turn = k.turn
      /\ m.packet = k.packet /\ m.mode = k.mode /\ m.cost = k.cost
  BY <1>2, <1>5, <1>6 DEF LoopState
<1>8. LoopOK(m)
  BY <1>2, <1>7 DEF LoopOK, ReportOK, Undecided, VerdictOK, AcceptOK, MemoryOK, HasValidator
<1> QED
  BY <1>2, <1>3, <1>7, <1>8 DEF Moves, Inv, l

\* The finally blocks of runIsolatedTurn put back a cwd that was once there.
LEMMA EndTurnMoves ==
    ASSUME Inv, NEW c \in Callers, NEW l \in LoopState, LoopOK(l), l.pc \in InFlight,
           loop[c].crashed => l.crashed, EndTurn(c, l)
    PROVE  Moves(c, busy)
<1>1. l.savedCwd \in {Home} \cup TurnDirs /\ l.turn \in 0..MaxCorrections
  BY DEF LoopState
<1>2. WorkspaceOK([ws EXCEPT !.cwd = l.savedCwd, !.active = TurnDir(c, l.turn)])
  BY <1>1, DirsDiffer DEF Inv, WorkspaceOK, Workspace
<1> QED
  BY <1>2 DEF EndTurn, Moves

\* A delegation that succeeded hands the loop one of the packets.
LEMMA DelegateReturnsMoves ==
    ASSUME Inv, NEW c \in Callers, DelegateReturns(c)
    PROVE  Moves(c, busy)
<1> DEFINE l == loop[c]
           k == [l EXCEPT !.pc = "delegated"]
<1>1. PICK packet \in Packets, mode \in LoopModes, cost \in TurnCosts :
          EndTurn(c, [l EXCEPT !.pc = "delegated", !.packet = packet,
                               !.mode = mode, !.cost = @ + cost])
  BY DEF DelegateReturns
<1> DEFINE m == [l EXCEPT !.pc = "delegated", !.packet = packet,
                          !.mode = mode, !.cost = @ + cost]
<1>2. LoopOK(l) /\ l \in LoopState /\ l.pc = "verifying"
  BY DEF Inv, DelegateReturns
<1>3. LoopOK(k) /\ k \in LoopState /\ k.pc = "delegated" /\ k.crashed = l.crashed
  BY <1>2, Onward DEF Early, InFlight
<1>4. EndTurn(c, m)
  BY <1>1
<1> HIDE DEF l
<1>5. packet \in Packet /\ mode \in Modes /\ l.cost + cost \in Nat
  BY <1>2 DEF LoopState
<1>6. m = [k EXCEPT !.packet = packet, !.mode = mode, !.cost = l.cost + cost]
  BY <1>2 DEF LoopState
<1> HIDE DEF k, m
<1>7. /\ m \in LoopState
      /\ m.pc = k.pc /\ m.crashed = k.crashed /\ m.verdict = k.verdict /\ m.class = k.class
      /\ m.action = k.action /\ m.cfg = k.cfg /\ m.validation = k.validation
      /\ m.taskPass = k.taskPass /\ m.validatedTurn = k.validatedTurn /\ m.turn = k.turn
  BY <1>3, <1>5, <1>6 DEF LoopState
<1>8. LoopOK(m)
  BY <1>3, <1>7 DEF LoopOK, ReportOK, Undecided, VerdictOK, AcceptOK, MemoryOK,
                    HasValidator, Early
<1> QED
  BY <1>3, <1>4, <1>7, <1>8, EndTurnMoves DEF l, InFlight

\* A validator's status is of the turn it judged, and is decided on at once.
LEMMA ValidatedMoves ==
    ASSUME Inv, NEW c \in Callers, loop[c].pc \in Early, HasValidator(loop[c]),
           NEW status \in {"pass", "fail", "error"}, Validated(c, status)
    PROVE  Moves(c, busy)
<1> DEFINE o == loop[c]
           l == [o EXCEPT !.validation = status, !.validatedTurn = o.turn,
                          !.taskPass = TaskPassOf(status)]
           w == cleanupTurnWorkspace(ws)
           m == [l EXCEPT !.action = "escalate"]
<1>1. LoopOK(o) /\ o \in LoopState /\ Undecided(o)
  BY DEF Inv, LoopOK
<1>2. WorkspaceOK(w)
  BY CleanupTurn DEF Inv
<1>3. IF status = "error" THEN Settle(c, w, m) ELSE Decide(c, w, l)
  BY DEF Validated
<1> HIDE DEF o, w
<1>4. TaskPassOf(status) \in TaskPasses
  BY DEF TaskPassOf, TaskPasses
<1>5. o.turn \in -1..MaxCorrections
  BY <1>1 DEF LoopState
<1>6. /\ l \in LoopState
      /\ l.validation = status /\ l.validatedTurn = l.turn /\ l.taskPass = TaskPassOf(status)
      /\ l.cfg = o.cfg /\ l.verdict = o.verdict /\ l.class = o.class /\ l.action = o.action
      /\ l.crashed = o.crashed
  BY <1>1, <1>4, <1>5 DEF LoopState
<1>7. HasValidator(l)
  BY <1>6 DEF HasValidator, o
<1>8. ReportOK(l) /\ Ready(l)
  BY <1>1, <1>6, <1>7 DEF ReportOK, Ready, Undecided
<1> HIDE DEF l
<1>9. CASE status = "error"
  <2>1. /\ m \in LoopState /\ m.action = "escalate" /\ m.class = l.class
        /\ m.crashed = l.crashed /\ m.cfg = l.cfg /\ m.validation = l.validation
        /\ m.taskPass = l.taskPass /\ m.validatedTurn = l.validatedTurn /\ m.turn = l.turn
    BY <1>6 DEF LoopState, Actions
  <2>2. ReportOK(m) /\ m.class = "none" /\ m.action \in Actions
    BY <1>8, <2>1 DEF ReportOK, HasValidator, Ready, Undecided, Actions
  <2>3. m.action # "accept"
    BY <2>1
  <2>4. loop[c].crashed => m.crashed
    BY <1>6, <2>1 DEF o
  <2>5. Settle(c, w, m)
    BY <1>3, <1>9
  <2> HIDE DEF m
  <2> QED
    BY <1>2, <2>1, <2>2, <2>3, <2>4, <2>5, SettleMoves
<1>10. CASE status # "error"
  <2>1. loop[c].crashed => l.crashed
    BY <1>6 DEF o
  <2>2. Decide(c, w, l)
    BY <1>3, <1>10
  <2> QED
    BY <1>2, <1>6, <1>8, <1>10, <2>1, <2>2, DecideMoves
<1> QED
  BY <1>9, <1>10
-----------------------------------------------------------------------------
(* The steps *)

\* The finally block of the loop: the call is over, whoever holds busy.
LEMMA FinishMoves ==
    ASSUME Inv, NEW c \in Callers, loop[c].pc \in {"flushing", "crashed"}, Finish(c)
    PROVE  Moves(c, busy)
<1> DEFINE l == loop[c]
           k == [l EXCEPT !.pc = "done"]
<1>1. LoopOK(l) /\ l \in LoopState
  BY DEF Inv
<1>2. loop' = [loop EXCEPT ![c] = k] /\ busy' = FALSE
  BY DEF Finish, Inv
<1>3. WorkspaceOK(ws')
  BY CleanupTurn, CleanupIsolated DEF Finish, Inv
<1> HIDE DEF l
<1>4. "done" \in PCs
  BY DEF PCs
<1>5. /\ k \in LoopState
      /\ k.pc = "done" /\ k.crashed = l.crashed /\ k.verdict = l.verdict /\ k.class = l.class
      /\ k.action = l.action /\ k.cfg = l.cfg /\ k.validation = l.validation
      /\ k.taskPass = l.taskPass /\ k.validatedTurn = l.validatedTurn /\ k.turn = l.turn
      /\ k.packet = l.packet /\ k.mode = l.mode /\ k.cost = l.cost
  BY <1>1, <1>4 DEF LoopState
<1> HIDE DEF k
<1>6. LoopOK(k)
  BY <1>1, <1>5 DEF LoopOK, ReportOK, VerdictOK, AcceptOK, MemoryOK, HasValidator, Early
<1> QED
  BY <1>2, <1>3, <1>5, <1>6 DEF Moves, l

\* The observation written to memory is of the class the reports allow.
LEMMA RecordMoves ==
    ASSUME Inv, NEW c \in Callers, Record(c)
    PROVE  Moves(c, busy)
<1> DEFINE l == loop[c]
<1>1. PICK class \in {"none", OutcomeClass(l.taskPass, l.validation, l.action, l.verdict)} :
          loop' = [loop EXCEPT ![c] = [l EXCEPT !.pc = "flushing", !.class = class]]
  BY Zenon DEF Record
<1> DEFINE k == [l EXCEPT !.pc = "flushing", !.class = class]
<1>2. LoopOK(l) /\ l \in LoopState /\ ws' = ws /\ busy' = busy
  BY DEF Inv, Record
<1>3. l.taskPass \in TaskPasses /\ l.validation \in {"skipped", "pass", "fail", "error"}
  BY <1>2 DEF LoopState
<1>4. /\ class \in {"none", "pass", "task_fail", "validator_error", "tool_error",
                    "escalated", "unknown"}
      /\ class = "pass" =>
            l.taskPass = "true" \/ (l.taskPass = "null" /\ l.validation = "pass")
      /\ class = "task_fail" => l.taskPass = "false"
  BY <1>3 DEF OutcomeClass, ObservedOutcome, TaskPasses
<1> HIDE DEF l
<1>5. "flushing" \in PCs
  BY DEF PCs, InFlight
<1>6. /\ k \in LoopState
      /\ k.pc = "flushing" /\ k.crashed = l.crashed /\ k.verdict = l.verdict
      /\ k.class = class /\ k.action = l.action /\ k.cfg = l.cfg
      /\ k.validation = l.validation /\ k.taskPass = l.taskPass
      /\ k.validatedTurn = l.validatedTurn /\ k.turn = l.turn
      /\ k.packet = l.packet /\ k.mode = l.mode /\ k.cost = l.cost
  BY <1>2, <1>4, <1>5 DEF LoopState
<1>7. loop' = [loop EXCEPT ![c] = k]
  BY <1>1
<1> HIDE DEF k
<1>8. MemoryOK(k)
  BY <1>2, <1>3, <1>4, <1>6 DEF LoopOK, ReportOK, MemoryOK, TaskPassOf
<1>9. LoopOK(k)
  BY <1>2, <1>6, <1>8 DEF LoopOK, ReportOK, VerdictOK, AcceptOK, HasValidator, Early
<1> QED
  BY <1>2, <1>6, <1>7, <1>9 DEF Moves, Inv, InFlight, l

\* Every step of a call that was entered preserves the invariant.
LEMMA StepMoves ==
    ASSUME Inv, NEW c \in Callers, Step(c)
    PROVE  /\ Moves(c, busy)
           /\ loop[c].pc \in InFlight
           /\ UNCHANGED <<shuttingDown, edits, overlapped>>
           /\ classifierLoaded' \in BOOLEAN
<1> DEFINE l == loop[c]
<1>1. LoopOK(l) /\ l \in LoopState /\ ReportOK(l) /\ MemoryOK(l) /\ WorkspaceOK(ws)
  BY DEF Inv, LoopOK
<1>2. l.pc \in Early => Ready(l)
  BY <1>1 DEF LoopOK, Ready
<1>3. CASE Loaded(c)
  <2>1. FirstTurn(c, l, busy) /\ l.pc = "loading"
    BY <1>3 DEF Loaded
  <2>2. Ready(l) /\ l.validation = "skipped"
    BY <1>1, <1>2, <2>1 DEF LoopOK, Early
  <2>3. Moves(c, busy)
    BY <2>1, <2>2, FirstTurnMoves
  <2> QED
    BY <1>3, <2>1, <2>3 DEF Loaded, InFlight
<1>4. CASE Dispatch(c)
  BY <1>4, LooksAtCwdMoves DEF Dispatch, LooksAtCwd, Elsewhere, Early, InFlight, Inv
<1>5. CASE StartVerifiers(c)
  BY <1>5, LooksAtCwdMoves DEF StartVerifiers, LooksAtCwd, Elsewhere, Early, InFlight, Inv
<1>6. CASE DelegateFails(c)
  <2> DEFINE k == [l EXCEPT !.pc = "failed"]
  <2>1. l.pc \in Early /\ l.pc \in InFlight /\ EndTurn(c, k)
    BY <1>6 DEF DelegateFails, Early, InFlight
  <2>2. LoopOK(k) /\ k \in LoopState /\ k.pc = "failed" /\ k.crashed = l.crashed
    BY <1>1, <2>1, Onward DEF Early, InFlight
  <2> HIDE DEF k
  <2>3. Moves(c, busy)
    BY <2>1, <2>2, EndTurnMoves DEF InFlight
  <2> QED
    BY <2>1, <2>3 DEF EndTurn, Elsewhere, Inv
<1>7. CASE DelegateThrows(c)
  <2> DEFINE k == [l EXCEPT !.pc = "threw"]
  <2>1. l.pc \in Early /\ l.pc \in InFlight /\ EndTurn(c, k)
    BY <1>7 DEF DelegateThrows, Early, InFlight
  <2>2. LoopOK(k) /\ k \in LoopState /\ k.pc = "threw" /\ k.crashed = l.crashed
    BY <1>1, <2>1, Onward DEF Early, InFlight
  <2> HIDE DEF k
  <2>3. Moves(c, busy)
    BY <2>1, <2>2, EndTurnMoves DEF InFlight
  <2> QED
    BY <2>1, <2>3 DEF EndTurn, Elsewhere, Inv
<1>8. CASE DelegateReturns(c)
  BY <1>8, DelegateReturnsMoves DEF DelegateReturns, EndTurn, Elsewhere, InFlight, Inv
<1>9. CASE AfterFailure(c)
  <2> DEFINE k == [l EXCEPT !.action = "escalate", !.packet = EmptyPacket(l.cfg.policy)]
             w == cleanupTurnWorkspace(ws)
  <2>1. l.pc = "failed" /\ Settle(c, w, k)
    BY <1>9 DEF AfterFailure
  <2>2. Ready(l) /\ WorkspaceOK(w)
    BY <1>1, <1>2, <2>1, CleanupTurn DEF Early
  <2>3. EmptyPacket(l.cfg.policy) \in Packet
    BY <1>1, EmptyPacketType DEF LoopState, Config
  <2> HIDE DEF l
  <2>4. /\ k \in LoopState /\ k.action = "escalate" /\ k.class = l.class
        /\ k.crashed = l.crashed /\ k.cfg = l.cfg /\ k.validation = l.validation
        /\ k.taskPass = l.taskPass /\ k.validatedTurn = l.validatedTurn /\ k.turn = l.turn
    BY <1>1, <2>3 DEF LoopState, Actions
  <2> HIDE DEF k, w
  <2>5. ReportOK(k) /\ k.class = "none" /\ k.action \in Actions /\ k.action # "accept"
    BY <2>2, <2>4 DEF ReportOK, HasValidator, Ready, Undecided, Actions
  <2>6. Moves(c, busy)
    BY <2>1, <2>2, <2>4, <2>5, SettleMoves DEF l
  <2> QED
    BY <1>9, <2>6 DEF AfterFailure, Elsewhere, InFlight, Inv
<1>10. CASE AfterThrow(c)
  <2>1. Crash(c, ws, l)
    BY <1>10 DEF AfterThrow
  <2>2. Moves(c, busy)
    BY <1>1, <2>1, CrashMoves
  <2> QED
    BY <1>10, <2>2 DEF AfterThrow, Elsewhere, InFlight, Inv
<1>11. CASE SkipValidator(c)
  <2>1. l.pc = "delegated" /\ ~HasValidator(l) /\ Decide(c, cleanupTurnWorkspace(ws), l)
    BY <1>11 DEF SkipValidator, HasValidator
  <2>2. Ready(l) /\ WorkspaceOK(cleanupTurnWorkspace(ws))
    BY <1>1, <1>2, <2>1, CleanupTurn DEF Early
  <2>3. Moves(c, busy)
    BY <2>1, <2>2, DecideMoves
  <2> QED
    BY <1>11, <2>3 DEF SkipValidator, Elsewhere, InFlight, Inv
<1>12. CASE StartValidator(c)
  <2> DEFINE base == IF ws.active = NoDir THEN ws.cwd ELSE ws.active
             m == [l EXCEPT !.pc = "validating", !.places = l.places \cup {base}]
             k == [l EXCEPT !.pc = "validating"]
  <2>1. PICK s \in createIsolatedWorkspace(ws, base, c, l.turn) :
            IF s.ok THEN ws' = s.ws /\ loop' = [loop EXCEPT ![c] = m] /\ busy' = busy
            ELSE Crash(c, s.ws, l)
    BY <1>12, Zenon DEF StartValidator
  <2>2. l.pc = "delegated" /\ HasValidator(l) /\ l.turn \in 0..MaxCorrections
    BY <1>1, <1>12 DEF StartValidator, LoopState, HasValidator
  <2>3. WorkspaceOK(s.ws)
    BY <1>1, <2>2, IsolatedWorkspace
  <2>4. base \in {Home} \cup TurnDirs
    BY <1>1 DEF WorkspaceOK, Workspace
  <2>5. ASSUME ~s.ok PROVE Moves(c, busy)
    <3>1. Crash(c, s.ws, l)
      BY <2>1, <2>5
    <3> HIDE DEF l, base
    <3> QED
      BY <1>1, <2>3, <3>1, CrashMoves
  <2>6. ASSUME s.ok PROVE Moves(c, busy)
    <3>1. LoopOK(k) /\ k \in LoopState /\ k.pc = "validating" /\ k.crashed = l.crashed
      BY <1>1, <2>2, Onward DEF Early, InFlight
    <3> HIDE DEF l, base
    <3>2. l.places \cup {base} \in SUBSET ({Home} \cup TurnDirs)
      BY <1>1, <2>4 DEF LoopState
    <3>3. m = [k EXCEPT !.places = l.places \cup {base}]
      BY <1>1 DEF LoopState
    <3>4. loop' = [loop EXCEPT ![c] = m] /\ ws' = s.ws /\ busy' = busy
      BY <2>1, <2>6
    <3> HIDE DEF k, m
    <3>5. /\ m \in LoopState
          /\ m.pc = k.pc /\ m.crashed = k.crashed /\ m.verdict = k.verdict
          /\ m.class = k.class /\ m.action = k.action /\ m.cfg = k.cfg
          /\ m.validation = k.validation /\ m.taskPass = k.taskPass
          /\ m.validatedTurn = k.validatedTurn /\ m.turn = k.turn
      BY <3>1, <3>2, <3>3 DEF LoopState
    <3>6. LoopOK(m)
      BY <3>1, <3>5 DEF LoopOK, ReportOK, Undecided, VerdictOK, AcceptOK, MemoryOK,
                        HasValidator, Early
    <3>7. m.pc \in InFlight /\ (loop[c].crashed => m.crashed) /\ WorkspaceOK(ws')
      BY <2>3, <3>1, <3>4, <3>5 DEF InFlight, l
    <3> QED
      BY <3>4, <3>5, <3>6, <3>7 DEF Moves
  <2>7. Moves(c, busy)
    BY <2>5, <2>6
  <2> QED
    BY <1>12, <2>7 DEF StartValidator, Elsewhere, InFlight, Inv
<1>13. CASE ValidatorReturns(c)
  <2>1. PICK status \in {"pass", "fail", "error"} : Validated(c, status)
    BY <1>13 DEF ValidatorReturns
  <2>2. l.pc = "validating" /\ l.pc \in Early
    BY <1>13 DEF ValidatorReturns, Early
  <2>3. HasValidator(l)
    BY <1>1, <2>2 DEF LoopOK
  <2>4. Moves(c, busy)
    BY <2>1, <2>2, <2>3, ValidatedMoves
  <2> QED
    BY <1>13, <2>4 DEF ValidatorReturns, Elsewhere, InFlight, Inv
<1>14. CASE ValidatorDisabled(c)
  <2>1. l.pc = "delegated" /\ l.pc \in Early /\ HasValidator(l) /\ Validated(c, "error")
    BY <1>14 DEF ValidatorDisabled, Early, HasValidator
  <2>2. Moves(c, busy)
    BY <2>1, ValidatedMoves
  <2> QED
    BY <1>14, <2>2 DEF ValidatorDisabled, Elsewhere, InFlight, Inv
<1>15. CASE Record(c)
  BY <1>15, RecordMoves DEF Record, Elsewhere, InFlight, Inv
<1>16. CASE Flushed(c)
  BY <1>16, FinishMoves DEF Flushed, Elsewhere, InFlight, Inv
<1>17. CASE FlushThrows(c)
  <2>1. Crash(c, ws, l)
    BY <1>17 DEF FlushThrows
  <2>2. Moves(c, busy)
    BY <1>1, <2>1, CrashMoves
  <2> QED
    BY <1>17, <2>2 DEF FlushThrows, Elsewhere, InFlight, Inv
<1> QED
  BY <1>3, <1>4, <1>5, <1>6, <1>7, <1>8, <1>9, <1>10, <1>11, <1>12, <1>13, <1>14,
     <1>15, <1>16, <1>17 DEF Step

\* A call that is turned away because another holds busy.
LEMMA RejectMoves ==
    ASSUME Inv, NEW c \in Callers, Reject(c)
    PROVE  \E l \in LoopState :
               /\ LoopOK(l)
               /\ loop' = [loop EXCEPT ![c] = l]
               /\ l.crashed = loop[c].crashed /\ l.pc = "rejected"
<1> DEFINE l == loop[c]
           k == [l EXCEPT !.pc = "rejected"]
<1>1. LoopOK(l) /\ l \in LoopState /\ l.pc = "idle" /\ loop' = [loop EXCEPT ![c] = k]
  BY DEF Inv, Reject
<1> HIDE DEF l
<1>2. "rejected" \in PCs
  BY DEF PCs
<1>3. /\ k \in LoopState /\ k.pc = "rejected" /\ k.crashed = l.crashed
      /\ k.verdict = l.verdict /\ k.class = l.class /\ k.action = l.action /\ k.cfg = l.cfg
      /\ k.validation = l.validation /\ k.taskPass = l.taskPass
      /\ k.validatedTurn = l.validatedTurn /\ k.turn = l.turn
  BY <1>1, <1>2 DEF LoopState
<1> HIDE DEF k
<1>4. LoopOK(k)
  BY <1>1, <1>3 DEF LoopOK, ReportOK, Undecided, VerdictOK, AcceptOK, MemoryOK,
                    HasValidator, Early
<1> QED
  BY <1>1, <1>3, <1>4 DEF l

\* A call that gets in holds busy, whether it has to wait for the classifier
\* or runs to its first delegation at once.
LEMMA EnterMoves ==
    ASSUME Inv, NEW c \in Callers, Enter(c) \/ EnterLoaded(c)
    PROVE  Moves(c, TRUE)
<1> DEFINE l == loop[c]
           k == [l EXCEPT !.pc = "loading"]
<1>1. LoopOK(l) /\ l \in LoopState /\ edits \in 0..MaxEdits
  BY DEF Inv
<1>2. l.pc = "idle"
  BY DEF Enter, EnterLoaded, Enters
<1>3. CASE EnterLoaded(c)
  <2>1. FirstTurn(c, l, TRUE)
    BY <1>3 DEF EnterLoaded
  <2>2. Ready(l) /\ l.validation = "skipped"
    <3> HIDE DEF l
    <3> QED
      BY <1>1, <1>2 DEF LoopOK, Ready, ReportOK, Undecided, HasValidator, Early
  <2> QED
    BY <2>1, <2>2, FirstTurnMoves
<1>4. CASE Enter(c)
  <2>1. loop' = [loop EXCEPT ![c] = k] /\ busy' = TRUE /\ ws' = ws
    BY <1>4 DEF Enter
  <2> HIDE DEF l
  <2>2. "loading" \in PCs
    BY DEF PCs, InFlight
  <2>3. /\ k \in LoopState /\ k.pc = "loading" /\ k.crashed = l.crashed
        /\ k.verdict = l.verdict /\ k.class = l.class /\ k.action = l.action
        /\ k.cfg = l.cfg /\ k.validation = l.validation /\ k.taskPass = l.taskPass
        /\ k.validatedTurn = l.validatedTurn /\ k.turn = l.turn
    BY <1>1, <2>2 DEF LoopState
  <2> HIDE DEF k
  <2>4. LoopOK(k)
    BY <1>1, <1>2, <2>3 DEF LoopOK, ReportOK, Undecided, VerdictOK, AcceptOK, MemoryOK,
                            HasValidator, Early
  <2> QED
    BY <2>1, <2>3, <2>4 DEF Moves, Inv, InFlight, l
<1> QED
  BY <1>3, <1>4
-----------------------------------------------------------------------------
(* The theorems *)

\* A new instance, before any call of runCorrectionLoop.
LEMMA InitInv == Init => Inv
<1> SUFFICES ASSUME Init PROVE Inv
  OBVIOUS
<1>1. WorkspaceOK(ws)
  BY DEF Init, WorkspaceOK, Workspace
<1>2. PICK cfg \in [Callers -> Configs], mode \in [Callers -> LoopModes] :
          loop = [c \in Callers |-> IdleLoop(cfg[c], mode[c])]
  BY DEF Init
<1>3. ASSUME NEW c \in Callers PROVE LoopOK(IdleLoop(cfg[c], mode[c]))
  <2> DEFINE l == IdleLoop(cfg[c], mode[c])
  <2>1. cfg[c] \in Config /\ cfg[c] \in Configs /\ mode[c] \in Modes
    OBVIOUS
  <2>2. EmptyPacket(cfg[c].policy) \in Packet /\ cfg[c].taskPass \in TaskPasses
    BY <2>1, EmptyPacketType DEF Config
  <2>3. "idle" \in PCs /\ 0 \in 0..MaxCorrections /\ -1 \in -1..MaxCorrections
        /\ 0 \in 0..MaxEdits
    BY DEF PCs
  <2>4. l \in LoopState
    BY <2>1, <2>2, <2>3 DEF IdleLoop, LoopState
  <2>5. /\ l.pc = "idle" /\ l.cfg = cfg[c] /\ l.validation = "skipped" /\ l.turn = 0
        /\ l.taskPass = cfg[c].taskPass /\ l.verdict = "none" /\ l.class = "none"
        /\ l.action = "none"
    BY DEF IdleLoop
  <2> HIDE DEF l
  <2>6. LoopOK(l)
    BY <2>4, <2>5 DEF LoopOK, ReportOK, Undecided, VerdictOK, AcceptOK, MemoryOK, Early
  <2> QED
    BY <2>6 DEF l
<1>4. /\ loop \in [Callers -> LoopState]
      /\ \A c \in Callers : LoopOK(loop[c])
  BY <1>2, <1>3 DEF LoopOK
<1>5. /\ busy \in BOOLEAN /\ shuttingDown \in BOOLEAN /\ classifierLoaded \in BOOLEAN
      /\ edits \in 0..MaxEdits /\ overlapped \in BOOLEAN
  <2>1. 0 \in 0..MaxEdits
    OBVIOUS
  <2> QED
    BY <2>1, Zenon DEF Init
<1> QED
  BY <1>1, <1>4, <1>5 DEF Inv

\* Every action preserves the invariant.
LEMMA NextInv == Inv /\ [Next]_vars => Inv'
<1> SUFFICES ASSUME Inv, [Next]_vars PROVE Inv'
  OBVIOUS
<1>1. ASSUME NEW c \in Callers, NEW held \in BOOLEAN, Moves(c, held)
      PROVE  /\ WorkspaceOK(ws') /\ busy' \in BOOLEAN
             /\ loop' \in [Callers -> LoopState]
             /\ \A d \in Callers : LoopOK(loop'[d])
  BY <1>1 DEF Moves, Inv
<1>2. ASSUME NEW c \in Callers, Reject(c) PROVE Inv'
  <2>1. PICK l \in LoopState : LoopOK(l) /\ loop' = [loop EXCEPT ![c] = l]
    BY <1>2, RejectMoves
  <2>2. loop' \in [Callers -> LoopState] /\ \A d \in Callers : LoopOK(loop'[d])
    BY <2>1 DEF Inv
  <2>3. UNCHANGED <<busy, shuttingDown, classifierLoaded, ws, edits, overlapped>>
    BY <1>2 DEF Reject
  <2> QED
    BY <2>2, <2>3 DEF Inv
<1>3. ASSUME NEW c \in Callers, Enter(c) \/ EnterLoaded(c) PROVE Inv'
  <2>1. /\ UNCHANGED <<shuttingDown, edits, classifierLoaded>>
        /\ overlapped' \in BOOLEAN
    BY <1>3 DEF Enter, EnterLoaded, Enters
  <2>2. Moves(c, TRUE)
    BY <1>3, EnterMoves
  <2> QED
    BY <1>1, <2>1, <2>2 DEF Inv
<1>4. ASSUME NEW c \in Callers, Step(c) PROVE Inv'
  <2>1. Moves(c, busy) /\ busy \in BOOLEAN
    BY <1>4, StepMoves DEF Inv
  <2>2. UNCHANGED <<shuttingDown, edits, overlapped>> /\ classifierLoaded' \in BOOLEAN
    BY <1>4, StepMoves
  <2> QED
    BY <1>1, <2>1, <2>2 DEF Inv
<1>5. CASE gracefulShutdown
  <2>1. WorkspaceOK(ws')
    BY <1>5, CleanupBaselines, CleanupIsolated, CleanupTurn DEF gracefulShutdown, Inv
  <2> QED
    BY <1>5, <2>1 DEF gracefulShutdown, Inv
<1>6. CASE UserEdits
  BY <1>6 DEF UserEdits, Inv
<1>7. CASE UNCHANGED vars
  BY <1>7 DEF vars, Inv
<1> QED
  BY <1>2, <1>3, <1>4, <1>5, <1>6, <1>7 DEF Next

\* The inductive invariant that the theorems below are read off from.
LEMMA Invariance == Spec => []Inv
BY InitInv, NextInv, PTL DEF Spec

\* The fields of the Orchestrator instance and the local variables of every
\* runCorrectionLoop call keep their types, turn and cost within the bounds.
THEOREM TypeCorrect == Spec => []TypeOK
<1>1. Inv => TypeOK
  BY DEF Inv, TypeOK, WorkspaceOK
<1> QED
  BY <1>1, Invariance, PTL

\* No cleanup of a temporary directory removes the user's project.
THEOREM ProjectSafe == Spec => []HomeNeverRemoved
<1>1. Inv => HomeNeverRemoved
  BY DEF Inv, HomeNeverRemoved, WorkspaceOK
<1> QED
  BY <1>1, Invariance, PTL

\* A final verdict "pass" has a validator's pass of the last turn behind it,
\* or a passing packet where verifiers are enough; never a broken protocol.
THEOREM VerdictSound == Spec => []PassVerdictEarned
<1>1. Inv => PassVerdictEarned
  BY DEF Inv, LoopOK, VerdictOK, PassVerdictEarned
<1> QED
  BY <1>1, Invariance, PTL

\* The loop accepts only what its validator, its host or a clean packet within
\* both budgets vouches for.
THEOREM AcceptanceSound == Spec => []AcceptanceEarned
<1>1. Inv => AcceptanceEarned
  BY DEF Inv, LoopOK, AcceptOK, AcceptanceEarned
<1> QED
  BY <1>1, Invariance, PTL

\* A rewarded or punished observation of the routing memory has a report of
\* the host or of its validator behind it.
THEOREM MemorySound == Spec => []MemoryRecordsHostOutcome
<1>1. Inv => MemoryRecordsHostOutcome
  BY DEF Inv, LoopOK, MemoryOK, MemoryRecordsHostOutcome
<1> QED
  BY <1>1, Invariance, PTL

\* Until the first call goes through its catch block, the flag busy keeps the
\* calls apart: a second one finds it set, and it is cleared only by the call
\* that holds it.
THEOREM Exclusive == Spec => []ExclusiveUntilCrash
<1>1. Init => ExclusiveUntilCrash
  <2> SUFFICES ASSUME Init PROVE ExclusiveUntilCrash
    OBVIOUS
  <2>1. \A c \in Callers : loop[c].pc = "idle"
    BY DEF Init, IdleLoop
  <2>2. overlapped = FALSE
    BY DEF Init
  <2> QED
    BY <2>1, <2>2 DEF ExclusiveUntilCrash, InFlight
<1>2. Inv /\ ExclusiveUntilCrash /\ [Next]_vars => ExclusiveUntilCrash'
  <2> SUFFICES ASSUME Inv, ExclusiveUntilCrash, [Next]_vars,
                      \A c \in Callers : ~loop'[c].crashed
               PROVE  /\ ~overlapped'
                      /\ \A c \in Callers : loop'[c].pc \in InFlight => busy'
                      /\ \A c, d \in Callers :
                            loop'[c].pc \in InFlight /\ loop'[d].pc \in InFlight => c = d
    BY DEF ExclusiveUntilCrash
  <2>1. ASSUME NEW c \in Callers, NEW l \in LoopState, loop' = [loop EXCEPT ![c] = l],
               loop[c].crashed => l.crashed
        PROVE  /\ ~overlapped /\ ~l.crashed
               /\ loop'[c] = l
               /\ \A d \in Callers \ {c} : loop'[d] = loop[d]
               /\ \A d \in Callers : loop[d].pc \in InFlight => busy
               /\ \A d, e \in Callers :
                     loop[d].pc \in InFlight /\ loop[e].pc \in InFlight => d = e
    <3>1. loop'[c] = l /\ \A d \in Callers \ {c} : loop'[d] = loop[d]
      BY <2>1 DEF Inv
    <3>2. \A d \in Callers : ~loop[d].crashed
      BY <2>1, <3>1
    <3> QED
      BY <3>1, <3>2 DEF ExclusiveUntilCrash
  <2>2. CASE \E c \in Callers : Reject(c)
    <3>1. PICK c \in Callers : Reject(c)
      BY <2>2
    <3>2. PICK l \in LoopState : /\ loop' = [loop EXCEPT ![c] = l]
                                 /\ l.crashed = loop[c].crashed /\ l.pc = "rejected"
      BY <3>1, RejectMoves
    <3>3. UNCHANGED <<busy, overlapped>>
      BY <3>1 DEF Reject
    <3>4. /\ ~overlapped /\ ~l.crashed
          /\ loop'[c] = l
          /\ \A d \in Callers \ {c} : loop'[d] = loop[d]
          /\ \A d \in Callers : loop[d].pc \in InFlight => busy
          /\ \A d, e \in Callers :
                loop[d].pc \in InFlight /\ loop[e].pc \in InFlight => d = e
      BY <2>1, <3>2
    <3>5. "rejected" \notin InFlight
      BY DEF InFlight
    <3> QED
      BY <3>2, <3>3, <3>4, <3>5
  <2>3. CASE \E c \in Callers : Enter(c) \/ EnterLoaded(c)
    <3>1. PICK c \in Callers : Enter(c) \/ EnterLoaded(c)
      BY <2>3
    <3>2. PICK l \in LoopState :
              /\ loop' = [loop EXCEPT ![c] = l]
              /\ loop[c].crashed => l.crashed
              /\ busy' = TRUE \/ (busy' = FALSE /\ (l.crashed \/ l.pc = "done"))
      BY <3>1, EnterMoves DEF Moves
    <3>3. ~busy /\ overlapped' = (overlapped \/ \E d \in Callers : loop[d].pc \in InFlight)
      BY <3>1 DEF Enter, EnterLoaded, Enters
    <3>4. /\ ~overlapped /\ ~l.crashed
          /\ loop'[c] = l
          /\ \A d \in Callers \ {c} : loop'[d] = loop[d]
          /\ \A d \in Callers : loop[d].pc \in InFlight => busy
          /\ \A d, e \in Callers :
                loop[d].pc \in InFlight /\ loop[e].pc \in InFlight => d = e
      BY <2>1, <3>2
    <3>5. \A d \in Callers : loop[d].pc \notin InFlight
      BY <3>3, <3>4
    <3>6. "done" \notin InFlight
      BY DEF InFlight
    <3>7. \A d \in Callers : loop'[d].pc \in InFlight => d = c /\ busy'
      BY <3>2, <3>4, <3>5, <3>6
    <3> QED
      BY <3>3, <3>4, <3>5, <3>7
  <2>4. CASE \E c \in Callers : Step(c)
    <3>1. PICK c \in Callers : Step(c)
      BY <2>4
    <3>2. PICK l \in LoopState :
              /\ loop' = [loop EXCEPT ![c] = l]
              /\ loop[c].crashed => l.crashed
              /\ busy' = busy \/ (busy' = FALSE /\ (l.crashed \/ l.pc = "done"))
      BY <3>1, StepMoves DEF Moves
    <3>3. loop[c].pc \in InFlight /\ overlapped' = overlapped
      BY <3>1, StepMoves
    <3>4. /\ ~overlapped /\ ~l.crashed
          /\ loop'[c] = l
          /\ \A d \in Callers \ {c} : loop'[d] = loop[d]
          /\ \A d \in Callers : loop[d].pc \in InFlight => busy
          /\ \A d, e \in Callers :
                loop[d].pc \in InFlight /\ loop[e].pc \in InFlight => d = e
      BY <2>1, <3>2
    <3>5. "done" \notin InFlight
      BY DEF InFlight
    <3>6. \A d \in Callers : loop'[d].pc \in InFlight => d = c
      BY <3>3, <3>4
    <3>7. l.pc \in InFlight => busy'
      BY <3>2, <3>3, <3>4, <3>5
    <3> QED
      BY <3>3, <3>4, <3>6, <3>7
  <2>5. CASE gracefulShutdown
    BY <2>5 DEF gracefulShutdown, ExclusiveUntilCrash
  <2>6. CASE UserEdits
    BY <2>6 DEF UserEdits, ExclusiveUntilCrash
  <2>7. CASE UNCHANGED vars
    BY <2>7 DEF vars, ExclusiveUntilCrash
  <2> QED
    BY <2>2, <2>3, <2>4, <2>5, <2>6, <2>7 DEF Next
<1> QED
  BY <1>1, <1>2, Invariance, PTL DEF Spec
=============================================================================
