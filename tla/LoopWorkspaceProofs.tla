------------------------- MODULE LoopWorkspaceProofs -------------------------
(***************************************************************************)
(* Where the turns of runCorrectionLoop work, from which snapshot, and why *)
(* a further one begins: for any number of callers, turns and edits.       *)
(***************************************************************************)
EXTENDS CorrectionLoopProofs

\* The turns' directories on disk.
Turns(w) == w.disk \cap TurnDirs

\* cwd is the project, and the directory of at most one turn is left, the one
\* that cleanupTurnWorkspace will remove; or none.
AtHome(w) == w.cwd = Home /\ Turns(w) \subseteq {w.active}
Clean(w)  == w.cwd = Home /\ w.active = NoDir /\ Turns(w) = {}

InTurn    == {"refused", "dispatching", "working", "verifying"}
AfterTurn == {"failed", "threw", "delegated", "validating"}

\* The workspace that a call in flight finds as long as no other call has been
\* in flight together with it.
Placed(c, l, w, down) ==
    /\ l.pc \in {"loading", "recording", "flushing", "done"} => Clean(w)
    /\ l.pc \in InTurn => /\ w.cwd = TurnDir(c, l.turn) /\ l.savedCwd = Home
                          /\ w.active = NoDir /\ Turns(w) \subseteq {TurnDir(c, l.turn)}
    /\ l.pc \in AfterTurn \cup {"crashed"} => AtHome(w)
    /\ l.pc \in AfterTurn /\ ~down => w.active = TurnDir(c, l.turn)
    /\ l.pc = "done" => w.isolated = {}

AloneOK ==
    ~overlapped =>
        /\ \A c, d \in Callers : loop[c].pc \in InFlight /\ loop[d].pc \in InFlight => c = d
        /\ \A c \in Callers : loop[c].pc \in InFlight => Placed(c, loop[c], ws, shuttingDown)
        /\ (\A c \in Callers : loop[c].pc \notin InFlight) => Clean(ws) /\ ws.isolated = {}

PlacesOK(c, l) == l.places \subseteq {TurnDir(c, l.turn)}

\* The snapshot is taken once, and every turn copied what it holds.
SnapshotOK(l) ==
    /\ l.versions \subseteq {ws.version}
    /\ l.versions # {} => ws.snapshot # NoDir

WorkInv ==
    /\ Inv
    /\ AloneOK
    /\ ~overlapped /\ ~shuttingDown => \A c \in Callers : PlacesOK(c, loop[c])
    /\ \A c \in Callers : SnapshotOK(loop[c])

\* What must hold for the turn of a call to go from l to k.
Justified(l, k) ==
    /\ k.turn = l.turn + 1
    /\ ~OverBudget(l.cost, MaxCost)
    /\ k.taskPass # "true"
    /\ k.taskPass = "null" =>
           /\ l.packet.overall # "pass"
           /\ l.packet.critical = 0 \/ l.packet.security # "required"

\* The workspace w and the local state l follow from those of call c: the
\* snapshot stays unless there was none, a turn copied it at most, the places
\* stay those of the turn, and a further turn is justified.  good is what is
\* known of the workspace when no other call has been in flight.
Follows(c, w, l, good) ==
    /\ \/ w.version = ws.version /\ w.snapshot = ws.snapshot
       \/ ws.snapshot = NoDir
    /\ \/ l.versions = loop[c].versions
       \/ l.versions = loop[c].versions \cup {w.version} /\ w.snapshot # NoDir
    /\ good /\ ~shuttingDown /\ PlacesOK(c, loop[c]) => PlacesOK(c, l)
    /\ l.turn # loop[c].turn => Justified(loop[c], l)

\* What a step of call c does.
Progress(c, good) ==
    \E k : /\ loop' = [loop EXCEPT ![c] = k]
           /\ Follows(c, ws', k, good)
           /\ good => Placed(c, k, ws', shuttingDown)

USE LoopAssumption
-----------------------------------------------------------------------------
(* The workspace *)

\* The kinds of directories differ.
LEMMA KindsDiffer ==
    /\ TurnDirs \cap ValidatorDirs = {} /\ TurnDirs \cap BaselineDirs = {}
    /\ Home \notin TurnDirs /\ NoDir \notin TurnDirs /\ NoDir \notin {Home} \cup TempDirs
    /\ NoDir \notin BaselineDirs
BY DEF Home, NoDir, Dir, TempDirs, TurnDirs, ValidatorDirs, BaselineDirs

\* What cleanupTurnWorkspace leaves.
LEMMA CleanupTurnFields ==
    ASSUME NEW w \in Workspace
    PROVE  LET v == cleanupTurnWorkspace(w)
           IN  /\ v.cwd = w.cwd /\ v.active = NoDir /\ v.disk = w.disk \ {w.active}
               /\ v.isolated = w.isolated /\ v.version = w.version /\ v.snapshot = w.snapshot
               /\ v \in Workspace
               /\ AtHome(w) => Clean(v)
<1> DEFINE v == cleanupTurnWorkspace(w)
<1>1. /\ v.cwd = w.cwd /\ v.active = NoDir /\ v.disk = w.disk \ {w.active}
      /\ v.isolated = w.isolated /\ v.version = w.version /\ v.snapshot = w.snapshot
      /\ v \in Workspace
  BY DEF Workspace, cleanupTurnWorkspace
<1> QED
  BY <1>1 DEF AtHome, Clean, Turns

\* What cleanupIsolatedWorkspace leaves.
LEMMA CleanupIsolatedFields ==
    ASSUME NEW w \in Workspace
    PROVE  LET v == cleanupIsolatedWorkspace(w)
           IN  /\ v.cwd = w.cwd /\ v.active = w.active /\ v.isolated = {}
               /\ v.version = w.version /\ v.snapshot = w.snapshot
               /\ v \in Workspace /\ Turns(v) \subseteq Turns(w)
BY DEF Workspace, cleanupIsolatedWorkspace, Turns

\* What cleanupBaselineDirs leaves, with and without require.
LEMMA CleanupBaselineFields ==
    ASSUME NEW w \in Workspace, NEW v \in cleanupBaselineDirs(w)
    PROVE  /\ v.cwd = w.cwd /\ v.active = w.active /\ v.isolated = w.isolated
           /\ v.version = w.version /\ v.snapshot = w.snapshot
           /\ v \in Workspace /\ Turns(v) \subseteq Turns(w)
BY DEF Workspace, cleanupBaselineDirs, Turns

\* ensureBaselineSnapshot leaves the turns alone, and a snapshot that is there.
LEMMA BaselineFields ==
    ASSUME NEW w \in Workspace, edits \in 0..MaxEdits, NEW c \in Callers,
           NEW s \in ensureBaselineSnapshot(w, c)
    PROVE  /\ s.ws.cwd = w.cwd /\ s.ws.active = w.active /\ Turns(s.ws) = Turns(w)
           /\ \/ s.ws.version = w.version /\ s.ws.snapshot = w.snapshot
              \/ w.snapshot = NoDir
<1> DEFINE made  == [w EXCEPT !.disk = @ \cup {BaselineDir(c)}]
           taken == [made EXCEPT !.snapshot = BaselineDir(c),
                                 !.baselines = @ \cup {BaselineDir(c)},
                                 !.version = edits]
<1>1. s.ws \in {w, made} \/ (s.ws = taken /\ w.snapshot = NoDir)
  BY DEF ensureBaselineSnapshot
<1>2. /\ made.cwd = w.cwd /\ made.active = w.active /\ Turns(made) = Turns(w)
      /\ made.version = w.version /\ made.snapshot = w.snapshot
  BY DirsDiffer, KindsDiffer DEF Workspace, Turns
<1>3. taken.cwd = w.cwd /\ taken.active = w.active /\ taken.disk = made.disk
  BY DEF Workspace
<1> QED
  BY <1>1, <1>2, <1>3 DEF Turns

\* createIsolatedWorkspace leaves everything but the disk and its list alone.
LEMMA IsolatedFields ==
    ASSUME NEW w \in Workspace, NEW base, NEW c \in Callers,
           NEW n \in 0..MaxCorrections, NEW s \in createIsolatedWorkspace(w, base, c, n)
    PROVE  /\ s.ws.cwd = w.cwd /\ s.ws.active = w.active /\ Turns(s.ws) = Turns(w)
           /\ s.ws.version = w.version /\ s.ws.snapshot = w.snapshot
<1> DEFINE made == [w EXCEPT !.disk = @ \cup {ValidatorDir(c, n)}]
           kept == [made EXCEPT !.isolated = @ \cup {ValidatorDir(c, n)}]
<1>1. s.ws \in {w, made, kept}
  BY DEF createIsolatedWorkspace
<1>2. /\ made.cwd = w.cwd /\ made.active = w.active /\ Turns(made) = Turns(w)
      /\ made.version = w.version /\ made.snapshot = w.snapshot
  BY DirsDiffer, KindsDiffer DEF Workspace, Turns
<1>3. /\ kept.cwd = w.cwd /\ kept.active = w.active /\ kept.disk = made.disk
      /\ kept.version = w.version /\ kept.snapshot = w.snapshot
  BY DEF Workspace
<1> QED
  BY <1>1, <1>2, <1>3 DEF Turns
-----------------------------------------------------------------------------
(* The pieces of the loop *)

\* The catch block leaves the workspace as it finds it.
LEMMA CrashProgress ==
    ASSUME NEW c \in Callers, NEW w, NEW l \in LoopState, NEW good \in BOOLEAN,
           Follows(c, w, l, good), good => AtHome(w), Crash(c, w, l)
    PROVE  Progress(c, good)
<1> DEFINE k == [l EXCEPT !.pc = "crashed", !.crashed = TRUE,
                          !.action = "escalate", !.verdict = "unknown"]
<1>1. /\ k.pc = "crashed" /\ k.turn = l.turn /\ k.places = l.places
      /\ k.versions = l.versions /\ k.taskPass = l.taskPass
  BY DEF LoopState
<1>2. loop' = [loop EXCEPT ![c] = k] /\ ws' = w
  BY DEF Crash
<1> HIDE DEF k
<1>3. Follows(c, w, k, good)
  BY <1>1 DEF Follows, PlacesOK, Justified
<1>4. good => Placed(c, k, w, shuttingDown)
  BY <1>1 DEF Placed, InTurn, AfterTurn
<1> QED
  BY <1>2, <1>3, <1>4 DEF Progress

\* A call that settles has cleaned up its turn.
LEMMA SettleProgress ==
    ASSUME NEW c \in Callers, NEW w, NEW l \in LoopState, NEW good \in BOOLEAN,
           Follows(c, w, l, good), good => Clean(w), Settle(c, w, l)
    PROVE  Progress(c, good)
<1>1. PICK a, v : loop' = [loop EXCEPT ![c] = [l EXCEPT !.pc = "recording", !.action = a,
                                                        !.verdict = v]]
  BY DEF Settle
<1> DEFINE k == [l EXCEPT !.pc = "recording", !.action = a, !.verdict = v]
<1>2. /\ k.pc = "recording" /\ k.turn = l.turn /\ k.places = l.places
      /\ k.versions = l.versions /\ k.taskPass = l.taskPass
  BY DEF LoopState
<1>3. loop' = [loop EXCEPT ![c] = k] /\ ws' = w
  BY <1>1 DEF Settle
<1> HIDE DEF k
<1>4. Follows(c, w, k, good)
  BY <1>2 DEF Follows, PlacesOK, Justified
<1>5. good => Placed(c, k, w, shuttingDown)
  BY <1>2 DEF Placed, InTurn, AfterTurn
<1> QED
  BY <1>3, <1>4, <1>5 DEF Progress

\* runIsolatedTurn begins in a clean workspace and makes the turn's directory
\* the only one; a copy that throws leaves it to cleanupTurnWorkspace.
LEMMA BeginTurnProgress ==
    ASSUME NEW c \in Callers, NEW w \in Workspace, NEW l \in LoopState, NEW good \in BOOLEAN,
           NEW n \in 0..MaxCorrections, NEW held,
           \/ w.version = ws.version /\ w.snapshot = ws.snapshot
           \/ ws.snapshot = NoDir,
           l.versions = loop[c].versions, good => Clean(w),
           n # loop[c].turn => Justified(loop[c], [l EXCEPT !.turn = n]),
           BeginTurn(c, w, l, n, held)
    PROVE  Progress(c, good)
<1> DEFINE t      == TurnDir(c, n)
           made   == [w EXCEPT !.disk = @ \cup {t}]
           left   == [made EXCEPT !.active = t]
           begun  == [made EXCEPT !.cwd = t]
           inTurn == [l EXCEPT !.turn = n, !.places = {}]
           k      == [inTurn EXCEPT
                        !.pc = IF shuttingDown THEN "refused" ELSE "dispatching",
                        !.savedCwd = w.cwd, !.versions = l.versions \cup {TurnSource(w)}]
<1>1. t \in TurnDirs
  BY DirsDiffer
<1>2. /\ inTurn \in LoopState
      /\ inTurn.turn = n /\ inTurn.places = {} /\ inTurn.versions = l.versions
      /\ inTurn.taskPass = l.taskPass /\ [l EXCEPT !.turn = n].taskPass = l.taskPass
      /\ [l EXCEPT !.turn = n].turn = n
  BY DEF LoopState
<1>3. /\ left.cwd = w.cwd /\ left.active = t /\ left.disk = w.disk \cup {t}
      /\ left.version = w.version /\ left.snapshot = w.snapshot
      /\ begun.cwd = t /\ begun.active = w.active /\ begun.disk = w.disk \cup {t}
      /\ begun.version = w.version /\ begun.snapshot = w.snapshot
  BY DEF Workspace
<1>4. inTurn.turn # loop[c].turn => Justified(loop[c], inTurn)
  BY <1>2 DEF Justified
<1>5. \/ Crash(c, left, inTurn) \/ Crash(c, w, inTurn)
      \/ /\ w.snapshot \in w.disk /\ ws' = begun
         /\ loop' = [loop EXCEPT ![c] = k]
  BY DEF BeginTurn
<1>6. /\ k.pc \in InTurn /\ k.turn = n /\ k.places = {} /\ k.savedCwd = w.cwd
      /\ k.versions = l.versions \cup {w.version} /\ k.taskPass = l.taskPass
  BY <1>2 DEF LoopState, TurnSource, InTurn
<1> HIDE DEF left, begun, inTurn, k, t
<1>7. Follows(c, w, inTurn, good) /\ Follows(c, left, inTurn, good)
  BY <1>2, <1>3, <1>4 DEF Follows, PlacesOK
<1>8. CASE Crash(c, left, inTurn)
  <2>1. good => AtHome(left)
    BY <1>3 DEF Clean, AtHome, Turns
  <2> QED
    BY <1>2, <1>7, <1>8, <2>1, CrashProgress
<1>9. CASE Crash(c, w, inTurn)
  <2>1. good => AtHome(w)
    BY DEF Clean, AtHome
  <2> QED
    BY <1>2, <1>7, <1>9, <2>1, CrashProgress
<1>10. CASE w.snapshot \in w.disk /\ ws' = begun /\ loop' = [loop EXCEPT ![c] = k]
  <2>1. w.snapshot # NoDir
    BY <1>10, KindsDiffer DEF Workspace
  <2>2. k.turn # loop[c].turn => Justified(loop[c], k)
    BY <1>2, <1>4, <1>6 DEF Justified
  <2>3. Follows(c, begun, k, good)
    BY <1>3, <1>6, <2>1, <2>2 DEF Follows, PlacesOK
  <2>4. good => Placed(c, k, begun, shuttingDown)
    BY <1>3, <1>6 DEF Placed, Clean, Turns, InTurn, AfterTurn, t
  <2> QED
    BY <1>10, <2>3, <2>4 DEF Progress
<1> QED
  BY <1>5, <1>8, <1>9, <1>10

\* The way to the first turn is no further turn.
LEMMA FirstTurnProgress ==
    ASSUME Inv, NEW c \in Callers, NEW l \in LoopState, NEW good \in BOOLEAN, NEW held,
           l.versions = loop[c].versions, l.places = loop[c].places,
           l.turn = 0, loop[c].turn = 0, good => Clean(ws), FirstTurn(c, l, held)
    PROVE  Progress(c, good)
<1>1. PICK s \in ensureBaselineSnapshot(ws, c) :
          IF s.ok THEN BeginTurn(c, s.ws, l, 0, held) ELSE Crash(c, s.ws, l)
  BY DEF FirstTurn
<1>2. /\ s.ws \in Workspace
      /\ s.ws.cwd = ws.cwd /\ s.ws.active = ws.active /\ Turns(s.ws) = Turns(ws)
      /\ \/ s.ws.version = ws.version /\ s.ws.snapshot = ws.snapshot
         \/ ws.snapshot = NoDir
  BY BaselineSnapshot, BaselineFields DEF Inv, WorkspaceOK
<1>3. good => Clean(s.ws) /\ AtHome(s.ws)
  BY <1>2 DEF Clean, AtHome
<1>4. Follows(c, s.ws, l, good)
  BY <1>2 DEF Follows, PlacesOK
<1>5. 0 \in 0..MaxCorrections
  OBVIOUS
<1>6. CASE s.ok
  BY <1>1, <1>2, <1>3, <1>5, <1>6, BeginTurnProgress
<1>7. CASE ~s.ok
  BY <1>1, <1>3, <1>4, <1>7, CrashProgress
<1> QED
  BY <1>6, <1>7

\* decideCorrection says "correct" only when a further turn is justified.
LEMMA CorrectJustified ==
    ASSUME NEW packet \in Packet, NEW count \in Nat, NEW cost \in Nat,
           NEW taskPass \in TaskPasses,
           decideCorrection(packet, count, MaxCorrections, cost, MaxCost, taskPass) = "correct"
    PROVE  /\ ~OverBudget(cost, MaxCost) /\ taskPass # "true" /\ count < MaxCorrections
           /\ taskPass = "null" => /\ packet.overall # "pass"
                                   /\ packet.critical = 0 \/ packet.security # "required"
<1>1. packet.critical \in Nat
  BY DEF Packet
<1>2. CASE taskPass = "true"
  BY <1>2 DEF decideCorrection
<1>3. CASE taskPass = "false"
  BY <1>3 DEF decideCorrection, OverBudget
<1>4. CASE taskPass = "null"
  BY <1>1, <1>4 DEF decideCorrection, OverBudget
<1> QED
  BY <1>2, <1>3, <1>4 DEF TaskPasses

\* The decision on a turn whose workspace is cleaned up.
LEMMA DecideProgress ==
    ASSUME NEW c \in Callers, NEW w \in Workspace, NEW l \in LoopState, NEW good \in BOOLEAN,
           w.version = ws.version, w.snapshot = ws.snapshot, good => Clean(w),
           l.turn = loop[c].turn, l.cost = loop[c].cost, l.packet = loop[c].packet,
           l.versions = loop[c].versions, l.places = loop[c].places, Decide(c, w, l)
    PROVE  Progress(c, good)
<1> DEFINE action == decideCorrection(l.packet, l.turn, MaxCorrections,
                                      l.cost, MaxCost, l.taskPass)
           next   == [l EXCEPT !.action = action]
<1>1. /\ l.packet \in Packet /\ l.turn \in 0..MaxCorrections /\ l.turn \in Nat
      /\ l.cost \in Nat /\ l.taskPass \in TaskPasses
  BY DEF LoopState
<1>2. action \in Actions
  BY <1>1, DecisionType
<1>3. /\ action = "correct" => BeginTurn(c, w, next, l.turn + 1, busy)
      /\ action # "correct" => Settle(c, w, next)
  BY DEF Decide
<1>4. action = "correct" =>
        /\ ~OverBudget(l.cost, MaxCost) /\ l.taskPass # "true" /\ l.turn < MaxCorrections
        /\ l.taskPass = "null" => /\ l.packet.overall # "pass"
                                  /\ l.packet.critical = 0 \/ l.packet.security # "required"
  BY <1>1, CorrectJustified
<1> HIDE DEF action
<1>5. /\ next \in LoopState /\ next.turn = l.turn /\ next.versions = l.versions
      /\ next.places = l.places /\ next.taskPass = l.taskPass
  BY <1>2 DEF LoopState
<1> HIDE DEF next
<1>6. CASE action = "correct"
  <2> DEFINE k == [next EXCEPT !.turn = l.turn + 1]
  <2>1. k.turn = l.turn + 1 /\ k.taskPass = l.taskPass
    BY <1>5 DEF LoopState
  <2>2. l.turn + 1 \in 0..MaxCorrections
    BY <1>1, <1>4, <1>6
  <2>3. Justified(loop[c], k)
    <3> HIDE DEF k
    <3>1. k.turn = loop[c].turn + 1
      BY <2>1
    <3> QED
      BY <1>4, <1>6, <2>1, <3>1 DEF Justified, OverBudget
  <2> QED
    BY <1>3, <1>5, <1>6, <2>2, <2>3, BeginTurnProgress
<1>7. CASE action # "correct"
  <2>1. Follows(c, w, next, good)
    BY <1>5 DEF Follows, PlacesOK
  <2> QED
    BY <1>3, <1>5, <1>7, <2>1, SettleProgress
<1> QED
  BY <1>6, <1>7
-----------------------------------------------------------------------------
(* The steps of a call *)

\* The worker and the verifiers find the turn's directory in cwd.
LEMMA LooksAtCwdProgress ==
    ASSUME Inv, NEW c \in Callers, NEW good \in BOOLEAN,
           good => Placed(c, loop[c], ws, shuttingDown), NEW from \in InTurn,
           NEW to \in InTurn, LooksAtCwd(c, from, to)
    PROVE  Progress(c, good)
<1> DEFINE l == loop[c]
           k == [l EXCEPT !.pc = to, !.places = l.places \cup {ws.cwd}]
<1>1. l \in LoopState /\ l.pc = from /\ loop' = [loop EXCEPT ![c] = k] /\ ws' = ws
  BY DEF Inv, LooksAtCwd
<1>2. /\ k.pc = to /\ k.turn = l.turn /\ k.versions = l.versions /\ k.savedCwd = l.savedCwd
      /\ k.places = l.places \cup {ws.cwd}
  BY <1>1 DEF LoopState
<1> HIDE DEF k
<1>3. Follows(c, ws, k, good)
  BY <1>1, <1>2 DEF Follows, PlacesOK, Placed
<1>4. good => Placed(c, k, ws, shuttingDown)
  BY <1>1, <1>2 DEF Placed, InTurn, AfterTurn
<1> QED
  BY <1>1, <1>3, <1>4 DEF Progress

\* The finally blocks of runIsolatedTurn put the project back as cwd and name
\* the turn's directory for the cleanup.
LEMMA EndTurnProgress ==
    ASSUME Inv, NEW c \in Callers, NEW good \in BOOLEAN,
           good => Placed(c, loop[c], ws, shuttingDown), loop[c].pc \in InTurn,
           NEW k, k.pc \in AfterTurn, k.turn = loop[c].turn, k.versions = loop[c].versions,
           k.places = loop[c].places, k.savedCwd = loop[c].savedCwd, EndTurn(c, k)
    PROVE  Progress(c, good)
<1> DEFINE v == [ws EXCEPT !.cwd = k.savedCwd, !.active = TurnDir(c, k.turn)]
<1>1. ws' = v /\ loop' = [loop EXCEPT ![c] = k]
  BY DEF EndTurn
<1>2. /\ v.cwd = k.savedCwd /\ v.active = TurnDir(c, k.turn) /\ v.disk = ws.disk
      /\ v.version = ws.version /\ v.snapshot = ws.snapshot
  BY DEF Inv, WorkspaceOK, Workspace
<1> HIDE DEF v
<1>3. Follows(c, v, k, good)
  BY <1>2 DEF Follows, PlacesOK
<1>4. good => Placed(c, k, v, shuttingDown)
  BY <1>2 DEF Placed, AtHome, Turns, InTurn, AfterTurn
<1> QED
  BY <1>1, <1>3, <1>4 DEF Progress

\* delegate answers, fails or throws.
LEMMA DelegateProgress ==
    ASSUME Inv, NEW c \in Callers, NEW good \in BOOLEAN,
           good => Placed(c, loop[c], ws, shuttingDown), 
           DelegateFails(c) \/ DelegateThrows(c) \/ DelegateReturns(c)
    PROVE  Progress(c, good)
<1>1. loop[c] \in LoopState /\ loop[c].pc \in InTurn
  BY DEF Inv, DelegateFails, DelegateThrows, DelegateReturns, InTurn
<1>2. ASSUME NEW to \in AfterTurn, EndTurn(c, [loop[c] EXCEPT !.pc = to])
      PROVE  Progress(c, good)
  <2> DEFINE k == [loop[c] EXCEPT !.pc = to]
  <2>1. /\ k.pc = to /\ k.turn = loop[c].turn /\ k.versions = loop[c].versions
        /\ k.places = loop[c].places /\ k.savedCwd = loop[c].savedCwd
    BY <1>1 DEF LoopState
  <2> HIDE DEF k
  <2> QED
    BY <1>1, <1>2, <2>1, EndTurnProgress DEF k
<1>3. CASE DelegateReturns(c)
  <2>1. PICK packet \in Packets, mode \in LoopModes, cost \in TurnCosts :
            EndTurn(c, [loop[c] EXCEPT !.pc = "delegated", !.packet = packet,
                                       !.mode = mode, !.cost = @ + cost])
    BY <1>3 DEF DelegateReturns
  <2> DEFINE k == [loop[c] EXCEPT !.pc = "delegated", !.packet = packet,
                                  !.mode = mode, !.cost = @ + cost]
  <2>2. /\ k.pc = "delegated" /\ k.turn = loop[c].turn /\ k.versions = loop[c].versions
        /\ k.places = loop[c].places /\ k.savedCwd = loop[c].savedCwd
    BY <1>1 DEF LoopState
  <2>3. EndTurn(c, k)
    BY <2>1
  <2> HIDE DEF k
  <2> QED
    BY <1>1, <2>2, <2>3, EndTurnProgress DEF AfterTurn
<1>4. CASE DelegateFails(c)
  BY <1>2, <1>4 DEF DelegateFails, AfterTurn
<1>5. CASE DelegateThrows(c)
  BY <1>2, <1>5 DEF DelegateThrows, AfterTurn
<1> QED
  BY <1>3, <1>4, <1>5

\* The validator's copy is one of the turn's directory.
LEMMA StartValidatorProgress ==
    ASSUME Inv, NEW c \in Callers, NEW good \in BOOLEAN,
           good => Placed(c, loop[c], ws, shuttingDown), StartValidator(c)
    PROVE  Progress(c, good)
<1> DEFINE l    == loop[c]
           base == IF ws.active = NoDir THEN ws.cwd ELSE ws.active
           k    == [l EXCEPT !.pc = "validating", !.places = l.places \cup {base}]
<1>1. l \in LoopState /\ ws \in Workspace /\ l.turn \in 0..MaxCorrections
      /\ l.pc = "delegated"
  BY DEF Inv, WorkspaceOK, StartValidator, LoopState
<1>2. PICK s \in createIsolatedWorkspace(ws, base, c, l.turn) :
          IF s.ok THEN ws' = s.ws /\ loop' = [loop EXCEPT ![c] = k] ELSE Crash(c, s.ws, l)
  BY DEF StartValidator
<1>3. /\ s.ws.cwd = ws.cwd /\ s.ws.active = ws.active /\ Turns(s.ws) = Turns(ws)
      /\ s.ws.version = ws.version /\ s.ws.snapshot = ws.snapshot
  BY <1>1, IsolatedFields
<1>4. good => /\ AtHome(s.ws)
              /\ ~shuttingDown => s.ws.active = TurnDir(c, l.turn) /\ base = TurnDir(c, l.turn)
  <2>1. TurnDir(c, l.turn) # NoDir
    BY <1>1, DirsDiffer, KindsDiffer
  <2> QED
    BY <1>1, <1>3, <2>1 DEF Placed, AfterTurn, AtHome
<1>5. CASE s.ok
  <2>1. /\ k.pc = "validating" /\ k.turn = l.turn /\ k.versions = l.versions
        /\ k.places = l.places \cup {base}
    BY <1>1 DEF LoopState
  <2>2. ws' = s.ws /\ loop' = [loop EXCEPT ![c] = k]
    BY <1>2, <1>5
  <2> HIDE DEF k, base
  <2>3. Follows(c, s.ws, k, good)
    BY <1>3, <1>4, <2>1 DEF Follows, PlacesOK
  <2>4. good => Placed(c, k, s.ws, shuttingDown)
    BY <1>4, <2>1 DEF Placed, InTurn, AfterTurn
  <2> QED
    BY <2>2, <2>3, <2>4 DEF Progress
<1>6. CASE ~s.ok
  <2>1. Follows(c, s.ws, l, good)
    BY <1>3 DEF Follows
  <2> QED
    BY <1>1, <1>2, <1>4, <1>6, <2>1, CrashProgress
<1> QED
  BY <1>5, <1>6

\* A call in flight with its turn behind it cleans up and decides.
LEMMA ValidatedProgress ==
    ASSUME Inv, NEW c \in Callers, NEW good \in BOOLEAN,
           good => Placed(c, loop[c], ws, shuttingDown), loop[c].pc \in AfterTurn,
           NEW status \in {"pass", "fail", "error"}, Validated(c, status)
    PROVE  Progress(c, good)
<1> DEFINE l == [loop[c] EXCEPT !.validation = status, !.validatedTurn = loop[c].turn,
                                !.taskPass = TaskPassOf(status)]
           w == cleanupTurnWorkspace(ws)
           e == [l EXCEPT !.action = "escalate"]
<1>1. loop[c] \in LoopState /\ ws \in Workspace
  BY DEF Inv, WorkspaceOK
<1>2. /\ w \in Workspace /\ w.version = ws.version /\ w.snapshot = ws.snapshot
      /\ good => Clean(w)
  BY <1>1, CleanupTurnFields DEF Placed
<1>3. TaskPassOf(status) \in TaskPasses /\ loop[c].turn \in -1..MaxCorrections
  BY <1>1 DEF TaskPassOf, TaskPasses, LoopState
<1>4. /\ l \in LoopState /\ l.turn = loop[c].turn /\ l.cost = loop[c].cost
      /\ l.packet = loop[c].packet /\ l.versions = loop[c].versions
      /\ l.places = loop[c].places
  BY <1>1, <1>3 DEF LoopState
<1>5. /\ status = "error" => Settle(c, w, e)
      /\ status # "error" => Decide(c, w, l)
  BY DEF Validated
<1> HIDE DEF l, w
<1>6. CASE status = "error"
  <2>1. /\ e \in LoopState /\ e.turn = l.turn /\ e.versions = l.versions
        /\ e.places = l.places
    BY <1>4 DEF LoopState, Actions
  <2> HIDE DEF e
  <2>2. Follows(c, w, e, good)
    BY <1>2, <1>4, <2>1 DEF Follows, PlacesOK
  <2> QED
    BY <1>2, <1>5, <1>6, <2>1, <2>2, SettleProgress
<1>7. CASE status # "error"
  BY <1>2, <1>4, <1>5, <1>7, DecideProgress
<1> QED
  BY <1>6, <1>7

\* The finally block of the loop leaves a clean instance behind.
LEMMA FinishProgress ==
    ASSUME Inv, NEW c \in Callers, NEW good \in BOOLEAN,
           good => Placed(c, loop[c], ws, shuttingDown), 
           loop[c].pc \in {"flushing", "crashed"}, Finish(c)
    PROVE  Progress(c, good)
<1> DEFINE l == loop[c]
           k == [l EXCEPT !.pc = "done"]
           v == cleanupIsolatedWorkspace(ws)
           w == cleanupTurnWorkspace(v)
<1>1. /\ l \in LoopState /\ ws \in Workspace /\ ws' = w
      /\ loop' = [loop EXCEPT ![c] = k]
  BY DEF Finish, Inv, WorkspaceOK
<1>2. k.pc = "done" /\ k.turn = l.turn /\ k.versions = l.versions /\ k.places = l.places
  BY <1>1 DEF LoopState
<1>3. /\ v \in Workspace /\ v.cwd = ws.cwd /\ v.active = ws.active /\ v.isolated = {}
      /\ v.version = ws.version /\ v.snapshot = ws.snapshot /\ Turns(v) \subseteq Turns(ws)
  BY <1>1, CleanupIsolatedFields
<1> HIDE DEF k, v
<1>4. /\ w.isolated = {} /\ w.version = ws.version /\ w.snapshot = ws.snapshot
      /\ AtHome(v) => Clean(w)
  BY <1>3, CleanupTurnFields
<1> HIDE DEF w
<1>5. good => AtHome(v)
  BY <1>3 DEF Placed, AtHome, Clean
<1>6. Follows(c, w, k, good)
  BY <1>2, <1>4 DEF Follows, PlacesOK
<1>7. good => Placed(c, k, w, shuttingDown)
  BY <1>2, <1>4, <1>5 DEF Placed, InTurn, AfterTurn
<1> QED
  BY <1>1, <1>6, <1>7 DEF Progress

\* Every step of a call that is in flight.
LEMMA StepProgress ==
    ASSUME Inv, NEW c \in Callers, NEW good \in BOOLEAN,
           good => Placed(c, loop[c], ws, shuttingDown), Step(c)
    PROVE  Progress(c, good)
<1> DEFINE l == loop[c]
           w == cleanupTurnWorkspace(ws)
<1>1. l \in LoopState /\ ws \in Workspace /\ LoopOK(l)
  BY DEF Inv, WorkspaceOK
<1>2. /\ w \in Workspace /\ w.version = ws.version /\ w.snapshot = ws.snapshot
      /\ l.pc \in AfterTurn /\ good => Clean(w)
  BY <1>1, CleanupTurnFields DEF Placed
<1>3. Follows(c, ws, l, good)
  BY DEF Follows
<1>4. CASE Loaded(c)
  <2>1. l.turn = 0 /\ FirstTurn(c, l, busy) /\ (good => Clean(ws))
    BY <1>1, <1>4 DEF Loaded, LoopOK, Placed
  <2> QED
    BY <1>1, <2>1, FirstTurnProgress
<1>5. CASE Dispatch(c)
  <2>1. "dispatching" \in InTurn /\ "working" \in InTurn
    BY DEF InTurn
  <2> QED
    BY <1>5, <2>1, LooksAtCwdProgress DEF Dispatch
<1>6. CASE StartVerifiers(c)
  <2>1. "working" \in InTurn /\ "verifying" \in InTurn
    BY DEF InTurn
  <2> QED
    BY <1>6, <2>1, LooksAtCwdProgress DEF StartVerifiers
<1>7. CASE DelegateFails(c) \/ DelegateThrows(c) \/ DelegateReturns(c)
  BY <1>7, DelegateProgress
<1>8. CASE AfterFailure(c)
  <2> DEFINE e == [l EXCEPT !.action = "escalate", !.packet = EmptyPacket(l.cfg.policy)]
  <2>1. l.pc \in AfterTurn /\ Settle(c, w, e)
    BY <1>8 DEF AfterFailure, AfterTurn
  <2>2. EmptyPacket(l.cfg.policy) \in Packet
    <3>1. l.cfg \in Config
      BY <1>1 DEF LoopState
    <3>2. l.cfg.policy \in Policy
      BY <3>1 DEF Config
    <3> QED
      BY <3>2, EmptyPacketType
  <2> HIDE DEF w
  <2>3. e \in LoopState /\ e.turn = l.turn /\ e.versions = l.versions /\ e.places = l.places
    BY <1>1, <2>2 DEF LoopState, Actions
  <2> HIDE DEF e
  <2>4. Follows(c, w, e, good)
    BY <1>2, <2>3 DEF Follows, PlacesOK
  <2> QED
    BY <1>2, <2>1, <2>3, <2>4, SettleProgress
<1>9. CASE AfterThrow(c)
  <2>1. Crash(c, ws, l) /\ (good => AtHome(ws))
    BY <1>9 DEF AfterThrow, Placed, AfterTurn
  <2> QED
    BY <1>1, <1>3, <2>1, CrashProgress
<1>10. CASE SkipValidator(c)
  <2>1. l.pc \in AfterTurn /\ Decide(c, w, l)
    BY <1>10 DEF SkipValidator, AfterTurn
  <2> HIDE DEF w
  <2> QED
    BY <1>1, <1>2, <2>1, DecideProgress
<1>11. CASE StartValidator(c)
  BY <1>11, StartValidatorProgress
<1>12. CASE ValidatorReturns(c)
  <2>1. PICK status \in {"pass", "fail", "error"} : Validated(c, status)
    BY <1>12 DEF ValidatorReturns
  <2>2. l.pc \in AfterTurn
    BY <1>12 DEF ValidatorReturns, AfterTurn
  <2> QED
    BY <2>1, <2>2, ValidatedProgress
<1>13. CASE ValidatorDisabled(c)
  <2>1. l.pc \in AfterTurn /\ Validated(c, "error")
    BY <1>13 DEF ValidatorDisabled, AfterTurn
  <2> QED
    BY <2>1, ValidatedProgress
<1>14. CASE Record(c)
  <2>1. PICK class : loop' = [loop EXCEPT ![c] = [l EXCEPT !.pc = "flushing", !.class = class]]
    BY <1>14, Zenon DEF Record
  <2> DEFINE k == [l EXCEPT !.pc = "flushing", !.class = class]
  <2>2. k.pc = "flushing" /\ k.turn = l.turn /\ k.versions = l.versions /\ k.places = l.places
    BY <1>1 DEF LoopState
  <2>3. ws' = ws /\ l.pc = "recording" /\ loop' = [loop EXCEPT ![c] = k]
    BY <1>14, <2>1 DEF Record
  <2> HIDE DEF k
  <2>4. Follows(c, ws, k, good)
    BY <2>2 DEF Follows, PlacesOK
  <2>5. good => Placed(c, k, ws, shuttingDown)
    BY <2>2, <2>3 DEF Placed, InTurn, AfterTurn
  <2> QED
    BY <2>3, <2>4, <2>5 DEF Progress
<1>15. CASE Flushed(c)
  BY <1>15, FinishProgress DEF Flushed
<1>16. CASE FlushThrows(c)
  <2>1. Crash(c, ws, l) /\ (good => AtHome(ws))
    BY <1>16 DEF FlushThrows, Placed, Clean, AtHome
  <2> QED
    BY <1>1, <1>3, <2>1, CrashProgress
<1> QED
  BY <1>4, <1>5, <1>6, <1>7, <1>8, <1>9, <1>10, <1>11, <1>12, <1>13, <1>14, <1>15, <1>16 DEF Step

\* A call that gets in finds what the last one left.
LEMMA EnterProgress ==
    ASSUME Inv, NEW c \in Callers, NEW good \in BOOLEAN, good => Clean(ws),
           Enter(c) \/ EnterLoaded(c)
    PROVE  Progress(c, good)
<1> DEFINE l == loop[c]
           k == [l EXCEPT !.pc = "loading"]
<1>1. l \in LoopState /\ l.pc = "idle" /\ l.turn = 0 /\ edits \in 0..MaxEdits
  BY DEF Inv, LoopOK, Enter, EnterLoaded, Enters
<1>2. CASE EnterLoaded(c)
  <2>1. FirstTurn(c, l, TRUE)
    BY <1>2 DEF EnterLoaded
  <2> QED
    BY <1>1, <2>1, FirstTurnProgress
<1>3. CASE Enter(c)
  <2>1. loop' = [loop EXCEPT ![c] = k] /\ ws' = ws
    BY <1>3 DEF Enter
  <2>2. k.pc = "loading" /\ k.turn = l.turn /\ k.versions = l.versions /\ k.places = l.places
    BY <1>1 DEF LoopState
  <2> HIDE DEF k
  <2>3. Follows(c, ws, k, good)
    BY <2>2 DEF Follows, PlacesOK
  <2>4. good => Placed(c, k, ws, shuttingDown)
    BY <2>2 DEF Placed, InTurn, AfterTurn
  <2> QED
    BY <2>1, <2>3, <2>4 DEF Progress
<1> QED
  BY <1>2, <1>3
-----------------------------------------------------------------------------
(* The invariant *)

\* A new instance is clean.
LEMMA InitWork == Init => WorkInv
<1> SUFFICES ASSUME Init PROVE WorkInv
  OBVIOUS
<1>1. \A c \in Callers : loop[c].pc = "idle" /\ loop[c].places = {} /\ loop[c].versions = {}
  BY DEF Init, IdleLoop
<1>2. Clean(ws) /\ ws.isolated = {}
  BY KindsDiffer DEF Init, Clean, Turns
<1>3. AloneOK
  BY <1>1, <1>2 DEF AloneOK, InFlight
<1>4. \A c \in Callers : PlacesOK(c, loop[c]) /\ SnapshotOK(loop[c])
  BY <1>1 DEF PlacesOK, SnapshotOK
<1> QED
  BY <1>3, <1>4, InitInv DEF WorkInv

\* A step of call c keeps the snapshot of every turn: it is replaced only while
\* there is none.
LEMMA SnapshotKept ==
    ASSUME WorkInv, NEW c \in Callers, NEW good, Progress(c, good)
    PROVE  \A d \in Callers : SnapshotOK(loop[d])'
<1>1. PICK k : loop' = [loop EXCEPT ![c] = k] /\ Follows(c, ws', k, good)
  BY DEF Progress
<1>2. loop'[c] = k /\ \A d \in Callers \ {c} : loop'[d] = loop[d]
  BY <1>1 DEF WorkInv, Inv
<1>3. \A d \in Callers : SnapshotOK(loop[d])
  BY DEF WorkInv
<1>4. CASE ws'.version = ws.version /\ ws'.snapshot = ws.snapshot
  BY <1>1, <1>2, <1>3, <1>4 DEF SnapshotOK, Follows
<1>5. CASE ws.snapshot = NoDir
  <2>1. \A d \in Callers : loop[d].versions = {}
    BY <1>3, <1>5 DEF SnapshotOK
  <2> QED
    BY <1>1, <1>2, <2>1 DEF SnapshotOK, Follows
<1> QED
  BY <1>1, <1>4, <1>5 DEF Follows

\* A step of the only call in flight keeps what it knows of the workspace.
LEMMA AloneKept ==
    ASSUME WorkInv, NEW c \in Callers, Progress(c, TRUE), ~overlapped',
           UNCHANGED shuttingDown, \A d \in Callers \ {c} : loop[d].pc \notin InFlight,
           loop'[c].pc \in InFlight \cup {"done"},
           ~shuttingDown => \A d \in Callers : PlacesOK(d, loop[d])
    PROVE  AloneOK' /\ (~shuttingDown' => \A d \in Callers : PlacesOK(d, loop[d])')
<1>1. PICK k : /\ loop' = [loop EXCEPT ![c] = k] /\ Follows(c, ws', k, TRUE)
               /\ Placed(c, k, ws', shuttingDown)
  BY DEF Progress
<1>2. loop'[c] = k /\ \A d \in Callers \ {c} : loop'[d] = loop[d]
  BY <1>1 DEF WorkInv, Inv
<1>3. \A d \in Callers : loop'[d].pc \in InFlight => d = c
  BY <1>2
<1>4. (\A d \in Callers : loop'[d].pc \notin InFlight) => Clean(ws') /\ ws'.isolated = {}
  BY <1>1, <1>2 DEF Placed
<1>5. AloneOK'
  <2>1. \A d \in Callers : loop'[d].pc \in InFlight => Placed(d, loop'[d], ws', shuttingDown')
    BY <1>1, <1>2, <1>3
  <2>2. /\ \A d, e \in Callers : loop'[d].pc \in InFlight /\ loop'[e].pc \in InFlight => d = e
        /\ \A d \in Callers : loop'[d].pc \in InFlight => Placed(d, loop'[d], ws', shuttingDown')
        /\ (\A d \in Callers : loop'[d].pc \notin InFlight) => Clean(ws') /\ ws'.isolated = {}
    BY <1>3, <1>4, <2>1
  <2> QED
    BY <2>2 DEF AloneOK, Placed, Clean, AtHome, Turns
<1>6. ~shuttingDown' => \A d \in Callers : PlacesOK(d, loop'[d])
  BY <1>1, <1>2 DEF Follows
<1> QED
  BY <1>5, <1>6 DEF PlacesOK

\* A call that is turned away only changes its place.
LEMMA RejectWork ==
    ASSUME WorkInv, NEW c \in Callers, Reject(c)
    PROVE  /\ UNCHANGED <<ws, overlapped, shuttingDown>>
           /\ \A d \in Callers : /\ loop'[d].versions = loop[d].versions
                                 /\ loop'[d].places = loop[d].places
                                 /\ loop'[d].turn = loop[d].turn
                                 /\ loop'[d].pc \in InFlight => loop'[d] = loop[d]
                                 /\ loop[d].pc \in InFlight => loop'[d] = loop[d]
<1> DEFINE k == [loop[c] EXCEPT !.pc = "rejected"]
<1>1. /\ loop[c] \in LoopState /\ loop' = [loop EXCEPT ![c] = k] /\ loop[c].pc = "idle"
      /\ UNCHANGED <<ws, overlapped, shuttingDown>>
  BY DEF WorkInv, Inv, Reject
<1>2. /\ k.pc = "rejected" /\ k.versions = loop[c].versions /\ k.places = loop[c].places
      /\ k.turn = loop[c].turn
  BY <1>1 DEF LoopState
<1> HIDE DEF k
<1>3. loop'[c] = k /\ \A d \in Callers \ {c} : loop'[d] = loop[d]
  BY <1>1 DEF WorkInv, Inv
<1> QED
  BY <1>1, <1>2, <1>3 DEF InFlight

\* A shutdown in the middle of a turn takes nothing away that the turn is in.
LEMMA ShutdownWork ==
    ASSUME WorkInv, gracefulShutdown
    PROVE  /\ UNCHANGED <<loop, overlapped>> /\ shuttingDown'
           /\ ws'.version = ws.version /\ ws'.snapshot = ws.snapshot /\ ws'.isolated = {}
           /\ ws'.cwd = ws.cwd /\ ws'.active = NoDir
           /\ Turns(ws') \subseteq Turns(ws) \ {ws.active}
<1>1. ws \in Workspace
  BY DEF WorkInv, Inv, WorkspaceOK
<1>2. PICK w \in cleanupBaselineDirs(ws) :
          ws' = cleanupTurnWorkspace(cleanupIsolatedWorkspace(w))
  BY DEF gracefulShutdown
<1> DEFINE v == cleanupIsolatedWorkspace(w)
<1>3. /\ w \in Workspace /\ w.cwd = ws.cwd /\ w.active = ws.active
      /\ w.version = ws.version /\ w.snapshot = ws.snapshot /\ Turns(w) \subseteq Turns(ws)
  BY <1>1, CleanupBaselineFields
<1>4. /\ v \in Workspace /\ v.cwd = w.cwd /\ v.active = w.active /\ v.isolated = {}
      /\ v.version = w.version /\ v.snapshot = w.snapshot /\ Turns(v) \subseteq Turns(w)
  BY <1>3, CleanupIsolatedFields
<1>5. ws' = cleanupTurnWorkspace(v)
  BY <1>2
<1> HIDE DEF v
<1>6. /\ ws'.cwd = v.cwd /\ ws'.active = NoDir /\ ws'.disk = v.disk \ {v.active}
      /\ ws'.isolated = v.isolated /\ ws'.version = v.version /\ ws'.snapshot = v.snapshot
  BY <1>4, <1>5, CleanupTurnFields
<1>7. Turns(ws') \subseteq Turns(v) \ {v.active}
  BY <1>6 DEF Turns
<1>8. UNCHANGED <<loop, overlapped>> /\ shuttingDown'
  BY DEF gracefulShutdown
<1> QED
  BY <1>3, <1>4, <1>6, <1>7, <1>8

\* Every step keeps the invariant.
LEMMA NextWork == WorkInv /\ [Next]_vars => WorkInv'
<1> SUFFICES ASSUME WorkInv, [Next]_vars PROVE WorkInv'
  OBVIOUS
<1>1. Inv /\ Inv'
  BY NextInv DEF WorkInv
<1>2. ASSUME NEW c \in Callers, Reject(c) PROVE WorkInv'
  <2>1. \A d \in Callers : SnapshotOK(loop[d])' /\ (PlacesOK(d, loop[d]) => PlacesOK(d, loop[d])')
    BY <1>2, RejectWork DEF WorkInv, SnapshotOK, PlacesOK
  <2>2. AloneOK'
    <3>1. AloneOK /\ UNCHANGED <<ws, overlapped, shuttingDown>>
      BY <1>2, RejectWork DEF WorkInv
    <3>2. \A d \in Callers : /\ loop'[d].pc \in InFlight => loop'[d] = loop[d]
                             /\ loop[d].pc \in InFlight => loop'[d] = loop[d]
      BY <1>2, RejectWork
    <3>3. \A d \in Callers : loop'[d].pc \in InFlight <=> loop[d].pc \in InFlight
      BY <3>2
    <3>4. ~overlapped' =>
            /\ \A d, e \in Callers : loop'[d].pc \in InFlight /\ loop'[e].pc \in InFlight => d = e
            /\ \A d \in Callers : loop'[d].pc \in InFlight => Placed(d, loop'[d], ws', shuttingDown')
            /\ (\A d \in Callers : loop'[d].pc \notin InFlight) => Clean(ws') /\ ws'.isolated = {}
      BY <3>1, <3>2, <3>3 DEF AloneOK
    <3> QED
      BY <3>4 DEF AloneOK, Placed, Clean, AtHome, Turns
  <2>3. UNCHANGED <<overlapped, shuttingDown>>
    BY <1>2, RejectWork
  <2> QED
    BY <1>1, <2>1, <2>2, <2>3 DEF WorkInv
<1>3. ASSUME NEW c \in Callers, Enter(c) \/ EnterLoaded(c) PROVE WorkInv'
  <2>1. /\ overlapped' = (overlapped \/ \E d \in Callers : loop[d].pc \in InFlight)
        /\ UNCHANGED shuttingDown
    BY <1>3 DEF Enter, EnterLoaded, Enters
  <2>2. loop'[c].pc \in InFlight \cup {"done"}
    <3>1. Moves(c, TRUE)
      BY <1>1, <1>3, EnterMoves
    <3>2. loop \in [Callers -> LoopState]
      BY <1>1 DEF Inv
    <3> QED
      BY <3>1, <3>2 DEF Moves
  <2>3. CASE overlapped'
    <3>1. Progress(c, FALSE)
      BY <1>1, <1>3, EnterProgress
    <3>2. \A d \in Callers : SnapshotOK(loop[d])'
      BY <3>1, SnapshotKept
    <3> QED
      BY <1>1, <2>3, <3>2 DEF WorkInv, AloneOK
  <2>4. CASE ~overlapped'
    <3>1. Clean(ws) /\ ~overlapped /\ \A d \in Callers : loop[d].pc \notin InFlight
      BY <2>1, <2>4 DEF WorkInv, AloneOK
    <3>2. Progress(c, TRUE)
      BY <1>1, <1>3, <3>1, EnterProgress
    <3>3. \A d \in Callers : SnapshotOK(loop[d])'
      BY <3>2, SnapshotKept
    <3>4. ~shuttingDown => \A d \in Callers : PlacesOK(d, loop[d])
      BY <3>1 DEF WorkInv
    <3>5. AloneOK' /\ (~shuttingDown' => \A d \in Callers : PlacesOK(d, loop[d])')
      BY <2>1, <2>2, <2>4, <3>1, <3>2, <3>4, AloneKept
    <3> QED
      BY <1>1, <3>3, <3>5 DEF WorkInv
  <2> QED
    BY <2>3, <2>4
<1>4. ASSUME NEW c \in Callers, Step(c) PROVE WorkInv'
  <2>1. UNCHANGED <<overlapped, shuttingDown>> /\ loop[c].pc \in InFlight
    BY <1>1, <1>4, StepMoves
  <2>2. loop'[c].pc \in InFlight \cup {"done"}
    BY <1>1, <1>4, StepMoves DEF Moves, Inv
  <2>3. CASE overlapped'
    <3>1. Progress(c, FALSE)
      BY <1>1, <1>4, StepProgress
    <3>2. \A d \in Callers : SnapshotOK(loop[d])'
      BY <3>1, SnapshotKept
    <3> QED
      BY <1>1, <2>3, <3>2 DEF WorkInv, AloneOK
  <2>4. CASE ~overlapped'
    <3>1. /\ Placed(c, loop[c], ws, shuttingDown) /\ ~overlapped
          /\ \A d \in Callers \ {c} : loop[d].pc \notin InFlight
      BY <2>1, <2>4 DEF WorkInv, AloneOK
    <3>2. Progress(c, TRUE)
      BY <1>1, <1>4, <3>1, StepProgress
    <3>3. \A d \in Callers : SnapshotOK(loop[d])'
      BY <3>2, SnapshotKept
    <3>4. ~shuttingDown => \A d \in Callers : PlacesOK(d, loop[d])
      BY <3>1 DEF WorkInv
    <3>5. AloneOK' /\ (~shuttingDown' => \A d \in Callers : PlacesOK(d, loop[d])')
      BY <2>1, <2>2, <2>4, <3>1, <3>2, <3>4, AloneKept
    <3> QED
      BY <1>1, <3>3, <3>5 DEF WorkInv
  <2> QED
    BY <2>3, <2>4
<1>5. CASE gracefulShutdown
  <2>1. \A d \in Callers : SnapshotOK(loop[d])'
    BY <1>5, ShutdownWork DEF WorkInv, SnapshotOK
  <2>2. ASSUME NEW c \in Callers, Placed(c, loop[c], ws, shuttingDown), loop[c].pc \in InFlight
        PROVE  Placed(c, loop[c], ws', TRUE)
    BY <1>5, <2>2, ShutdownWork DEF Placed, Clean, AtHome, InTurn, AfterTurn, InFlight
  <2>3. Clean(ws) => Clean(ws')
    BY <1>5, ShutdownWork DEF Clean
  <2>4. AloneOK'
    <3>1. UNCHANGED <<loop, overlapped>> /\ shuttingDown' = TRUE /\ ws'.isolated = {}
      BY <1>5, ShutdownWork DEF gracefulShutdown
    <3>2. ~overlapped =>
            /\ \A c, d \in Callers : loop[c].pc \in InFlight /\ loop[d].pc \in InFlight => c = d
            /\ \A c \in Callers : loop[c].pc \in InFlight => Placed(c, loop[c], ws', TRUE)
            /\ (\A c \in Callers : loop[c].pc \notin InFlight) => Clean(ws') /\ ws'.isolated = {}
      BY <2>2, <2>3, <3>1 DEF WorkInv, AloneOK
    <3> QED
      BY <3>1, <3>2 DEF AloneOK, Placed, Clean, AtHome, Turns
  <2>5. shuttingDown'
    BY <1>5, ShutdownWork
  <2> QED
    BY <1>1, <2>1, <2>4, <2>5 DEF WorkInv
<1>6. CASE UserEdits
  BY <1>1, <1>6 DEF UserEdits, WorkInv, AloneOK, Placed, Clean, AtHome, Turns, PlacesOK, SnapshotOK
<1>7. CASE UNCHANGED vars
  BY <1>1, <1>7 DEF vars, WorkInv, AloneOK, Placed, Clean, AtHome, Turns, PlacesOK, SnapshotOK
<1> QED
  BY <1>2, <1>3, <1>4, <1>5, <1>6, <1>7 DEF Next

\* The specification keeps the invariant.
LEMMA WorkInvariance == Spec => []WorkInv
BY InitWork, NextWork, PTL DEF Spec
-----------------------------------------------------------------------------
(* Theorems *)

\* All turns of a loop start from one frozen copy of the project.
THEOREM BaselineFrozen == Spec => []FrozenBaseline
<1>1. WorkInv => FrozenBaseline
  BY DEF WorkInv, SnapshotOK, FrozenBaseline
<1> QED
  BY <1>1, WorkInvariance, PTL

\* The worker, the verifiers and the validator of a turn look at its own
\* workspace, though each reads it from the shared instance after an await.
THEOREM WorkInOwnTurn == Spec => []WorkStaysInTurn
<1>1. WorkInv => WorkStaysInTurn
  BY DEF WorkInv, PlacesOK, WorkStaysInTurn
<1> QED
  BY <1>1, WorkInvariance, PTL

\* Loops that did not overlap leave cwd at the project and no turn workspace,
\* whatever threw, failed or was shut down.
THEOREM QuietInstanceClean == Spec => []QuietIsClean
<1>1. WorkInv => QuietIsClean
  BY DEF WorkInv, AloneOK, Clean, Turns, QuietIsClean
<1> QED
  BY <1>1, WorkInvariance, PTL

\* A further turn begins only within the count and the budget, and never after
\* a turn that passed or that must be escalated.
THEOREM TurnsJustified == Spec => NewTurnJustified
<1>1. WorkInv /\ [Next]_vars =>
        [\A c \in Callers : loop'[c].turn # loop[c].turn =>
           /\ loop'[c].turn = loop[c].turn + 1
           /\ ~OverBudget(loop[c].cost, MaxCost)
           /\ loop'[c].taskPass # "true"
           /\ loop'[c].taskPass = "null" =>
                  /\ loop[c].packet.overall # "pass"
                  /\ loop[c].packet.critical = 0 \/ loop[c].packet.security # "required"]_vars
  <2> SUFFICES ASSUME WorkInv, Next, NEW d \in Callers, loop'[d].turn # loop[d].turn
               PROVE  Justified(loop[d], loop'[d])
    BY DEF Justified
  <2>1. Inv
    BY DEF WorkInv
  <2>2. ASSUME NEW c \in Callers, Progress(c, FALSE) PROVE Justified(loop[d], loop'[d])
    <3>1. PICK k : loop' = [loop EXCEPT ![c] = k] /\ Follows(c, ws', k, FALSE)
      BY <2>2 DEF Progress
    <3>2. loop'[c] = k /\ \A e \in Callers \ {c} : loop'[e] = loop[e]
      BY <2>1, <3>1 DEF Inv
    <3> QED
      BY <3>1, <3>2 DEF Follows
  <2>3. CASE \E c \in Callers : Reject(c)
    BY <2>3, RejectWork
  <2>4. CASE \E c \in Callers : Enter(c) \/ EnterLoaded(c)
    BY <2>1, <2>2, <2>4, EnterProgress
  <2>5. CASE \E c \in Callers : Step(c)
    BY <2>1, <2>2, <2>5, StepProgress
  <2>6. CASE gracefulShutdown \/ UserEdits
    BY <2>6 DEF gracefulShutdown, UserEdits
  <2> QED
    BY <2>3, <2>4, <2>5, <2>6 DEF Next
<1> QED
  BY <1>1, WorkInvariance, PTL DEF NewTurnJustified, Spec
=============================================================================
