---------------------------- MODULE Verification ----------------------------
(***************************************************************************)
(* finalizeDelegation of one task: the delegation's artifact signals and a *)
(* failed check command are put on the shared bus, then six emitters run   *)
(* concurrently and the reducer folds what reached it into a packet.  Of   *)
(* the bus (see EventBus) it is kept whether it accepts events: its owner  *)
(* may fill it with other events and may shut it down.  The reducer's      *)
(* handler runs inside emit, so an accepted event is stored at once.       *)
(***************************************************************************)
EXTENDS VerdictRules

CONSTANT Worlds   \* what the tools would find, see World

LintOutcomes  == {"clean", "warnings", "errors", "high", "critical", "crash"}
TypesOutcomes == {"nothing", "clean", "errors", "missing", "silent", "stderr", "garbled"}
GraphOutcomes == {"nothing", "clean", "broken", "unreadable"}
ArtifactKinds == {"artifact.blocked", "artifact.unterminated",
                  "artifact.truncated", "artifact.emitted"}

\* The lint engine serves the lint and the security slot: it runs twice, and
\* each run may crash on its own.  The two runs may stamp their events with
\* the same millisecond (tie).
World == [lint : LintOutcomes, security : LintOutcomes, tie : BOOLEAN,
          types : TypesOutcomes, checker : {"tsc", "pyright"},
          checkFails : BOOLEAN, graph : GraphOutcomes,
          imports : {"clean", "crash"}, changes : {"none", "some", "fails"},
          artifacts : SUBSET ArtifactKinds, policy : Policy, mode : Modes,
          owner : {"quiet", "active"}]   \* whether the bus's owner uses it meanwhile

\* An undefined policy requires nothing.
ASSUME WorldAssumption ==
    Worlds \subseteq {w \in World : w.policy.given \/ w.policy.required = {}}

Emitters == {"lint", "security", "types", "changes", "graph", "imports"}
Procs    == Emitters \cup {"finalize"}

SlotKind(slot) ==
    CASE slot = "graph" -> "state.graph" [] slot = "lint" -> "verify.lint"
      [] slot = "types" -> "verify.types" [] slot = "security" -> "verify.security"
      [] slot = "imports" -> "verify.imports"

ReducerKinds == {SlotKind(slot) : slot \in Slots} \cup ArtifactKinds \cup {"state.changes"}
-----------------------------------------------------------------------------
(* Events and what each tool puts on the bus *)

Plain(status) == [status |-> status, errors |-> 0, warnings |-> 0,
                  critical |-> 0, high |-> 0, broken |-> 0]
Event(kind, from, value, changed) ==
    [kind |-> kind, from |-> from, value |-> value, changed |-> changed]

\* LintEngine.emit: a finding above low severity is a lint error; one of the
\* safety category (high, critical) fails the security slot too.
Found(p, w) == IF p = "lint" THEN w.lint ELSE w.security
LintEvents(p, w) ==
    LET found  == Found(p, w)
        from   == IF w.tie THEN "lint" ELSE p
        Status(bad) == IF found = "crash" THEN "error" ELSE IF bad THEN "fail" ELSE "pass"
        unsafe == found \in {"high", "critical"}
        lint   == [Plain(Status(unsafe \/ found = "errors")) EXCEPT
                      !.errors = IF found \in {"clean", "warnings"} THEN 0 ELSE 1,
                      !.warnings = IF found = "warnings" THEN 1 ELSE 0]
        sec    == [Plain(Status(unsafe)) EXCEPT
                      !.critical = IF found \in {"critical", "crash"} THEN 1 ELSE 0,
                      !.high = IF found = "high" THEN 1 ELSE 0]
    IN  <<Event("verify.lint", from, lint, 0), Event("verify.security", from, sec, 0)>>

\* A type checker that failed to start, died or ran into its timeout is told
\* from a clean run by its output alone: execFile's error counts only when
\* there is no output at all (silent).  What is left on stderr goes for a clean
\* run, and for tsc so does anything on stdout that is no diagnostic (garbled),
\* which pyright cannot parse.  tsc is started through npx, which, where tsc is
\* missing, says so on stderr.
TakenForClean(w) ==
    \/ w.types = "stderr"
    \/ w.types \in {"garbled", "missing"} /\ w.checker = "tsc"

TypesStatus(w) ==
    CASE w.types = "nothing" -> "skipped"
      [] w.types = "errors" -> "fail"
      [] w.types = "clean" \/ TakenForClean(w) -> "pass"
      [] OTHER -> "error"

TypesEvents(w) ==
    LET status == TypesStatus(w)
    IN  <<Event("verify.types", "types",
                [Plain(status) EXCEPT !.errors = IF status \in {"fail", "error"} THEN 1 ELSE 0], 0)>>

GraphEvents(w) ==
    LET status == CASE w.graph = "nothing" -> "skipped" [] w.graph = "clean" -> "pass"
                    [] w.graph = "broken" -> "fail" [] w.graph = "unreadable" -> "error"
    IN  <<Event("state.graph", "graph",
                [Plain(status) EXCEPT !.broken = IF status \in {"fail", "error"} THEN 1 ELSE 0], 0)>>

ImportsEvents(w) ==
    <<Event("verify.imports", "imports",
            Plain(IF w.imports = "crash" THEN "error" ELSE "pass"), 0)>>

ChangesEvents(w) ==
    IF w.changes = "fails" THEN << >>
    ELSE <<Event("state.changes", "changes", Plain("pass"),
                 IF w.changes = "some" THEN 1 ELSE 0)>>

EmitterEvents(p, w) ==
    CASE p \in {"lint", "security"} -> LintEvents(p, w)
      [] p = "types" -> TypesEvents(w)
      [] p = "changes" -> ChangesEvents(w)
      [] p = "graph" -> GraphEvents(w)
      [] p = "imports" -> ImportsEvents(w)

\* The signals of the delegation in the order of artifact mode, then the
\* event of a check command that failed.
ArtifactEvent(kind, status, w) ==
    IF kind \in w.artifacts THEN <<Event(kind, "finalize", Plain(status), 0)>> ELSE << >>
CheckEvent(w) ==
    IF w.checkFails
    THEN <<Event("verify.types", "finalize", [Plain("fail") EXCEPT !.errors = 1], 0)>>
    ELSE << >>
FinalizeEvents(w) ==
    ArtifactEvent("artifact.blocked", "fail", w) \o ArtifactEvent("artifact.unterminated", "fail", w)
    \o ArtifactEvent("artifact.truncated", "fail", w) \o ArtifactEvent("artifact.emitted", "pass", w)
    \o CheckEvent(w)
-----------------------------------------------------------------------------
VARIABLES
    world,       \* what the tools would find
    bus,         \* the shared event bus: "open", "full" or "down"
    perTask,     \* StateReducer.perTask of this task, by kind
    pending,     \* per process: the events it has still to emit
    phase,       \* "finalize", "verifying", "reduced"
    packet,      \* result.value.packet
    overflowed   \* history: the bus has been full

vars == <<world, bus, perTask, pending, phase, packet, overflowed>>

NoPacket == EmptyPacket([given |-> FALSE, required |-> {}, advisory |-> {}])

Init ==
    /\ world \in Worlds
    /\ bus = "open"
    /\ perTask = [kind \in ReducerKinds |-> << >>]
    /\ pending = [p \in Procs |-> IF p = "finalize" THEN FinalizeEvents(world) ELSE << >>]
    /\ phase = "finalize"
    /\ packet = NoPacket
    /\ overflowed = FALSE

\* The bus refuses an event it has seen; what it has seen of this task is
\* what the reducer stored.
Accepts(e) == bus = "open" /\ \A i \in 1..Len(perTask[e.kind]) : perTask[e.kind][i] # e

\* A process emits its next event.  Accepted, it is stored by the reducer's
\* handler; refused, the result is ignored.  The process goes on.
Emit(p) ==
    /\ pending[p] # << >>
    /\ LET e == Head(pending[p])
       IN  perTask' = IF Accepts(e) THEN [perTask EXCEPT ![e.kind] = Append(@, e)] ELSE perTask
    /\ pending' = [pending EXCEPT ![p] = Tail(@)]
    /\ UNCHANGED <<world, bus, phase, packet, overflowed>>

runVerifiers ==
    /\ phase = "finalize"
    /\ pending["finalize"] = << >>
    /\ phase' = "verifying"
    /\ pending' = [p \in Procs |-> IF p \in Emitters THEN EmitterEvents(p, world) ELSE << >>]
    /\ UNCHANGED <<world, bus, perTask, packet, overflowed>>

\* What reduce reads of perTask, and the packet finalizeDelegation makes.
SlotSignals == [slot \in Slots |->
    [i \in 1..Len(perTask[SlotKind(slot)]) |-> perTask[SlotKind(slot)][i].value]]
ArtifactSignals ==
    [blocked      |-> perTask["artifact.blocked"] # << >>,
     unterminated |-> perTask["artifact.unterminated"] # << >>,
     truncated    |-> perTask["artifact.truncated"] # << >>,
     emitted      |-> perTask["artifact.emitted"] # << >>,
     changed      |-> IF perTask["state.changes"] = << >> THEN 0
                      ELSE perTask["state.changes"][Len(perTask["state.changes"])].changed]

reduce ==
    /\ phase = "verifying"
    /\ \A p \in Emitters : pending[p] = << >>
    /\ phase' = "reduced"
    /\ packet' = FinalizePacket(Reduce(SlotSignals, ArtifactSignals, world.policy),
                                ArtifactSignals, world.mode)
    /\ UNCHANGED <<world, bus, perTask, pending, overflowed>>

\* The owner of the bus: other events fill it, their settling makes room
\* again, and a shutdown is for good.
BusChanges(from, to) ==
    /\ world.owner = "active"
    /\ bus \in from
    /\ bus' = to
    /\ overflowed' = (overflowed \/ to = "full")
    /\ UNCHANGED <<world, perTask, pending, phase, packet>>

BusFills     == BusChanges({"open"}, "full")
BusEmpties   == BusChanges({"full"}, "open")
BusShutsDown == BusChanges({"open", "full"}, "down")

Step == runVerifiers \/ reduce \/ \E p \in Procs : Emit(p)
Next == Step \/ BusFills \/ BusEmpties \/ BusShutsDown
Spec == Init /\ [][Next]_vars

\* Every tool the emitters start has a timeout, so each emitter ends.
FairSpec == Spec /\ WF_vars(Step)
-----------------------------------------------------------------------------
(* Properties *)

\* Types: every signal is filed under its kind, and the counts of a packet are
\* natural numbers also for a slot whose signal never arrived.
TypeOK ==
    /\ world \in Worlds
    /\ bus \in {"open", "full", "down"}
    /\ \A kind \in ReducerKinds : \A i \in 1..Len(perTask[kind]) :
           perTask[kind][i].kind = kind /\ perTask[kind][i].value \in Signal
    /\ DOMAIN pending = Procs
    /\ phase \in {"finalize", "verifying", "reduced"}
    /\ packet \in Packet
    /\ overflowed \in BOOLEAN

\* Whatever the bus lost, an overall pass means that for every slot the policy
\* requires a tool was run and reported no finding.  For the type checkers this
\* is all that holds: a run that is taken for clean passes without the checker
\* having looked (see CheckerDeathFails).  Of the two runs of the lint engine
\* one may have answered for both; its security event is silent on findings
\* that are no matter of safety.
RequiredChecksPassed ==
    /\ "lint" \in world.policy.required => world.lint = "clean" \/ world.security = "clean"
    /\ "security" \in world.policy.required =>
           \E p \in {"lint", "security"} : Found(p, world) \in {"clean", "warnings", "errors"}
    /\ "types" \in world.policy.required =>
           world.types = "clean" \/ TakenForClean(world)
    /\ "graph" \in world.policy.required => world.graph = "clean"

\* An overall pass is earned: no required check was skipped, lost by the bus or
\* reported a finding or an error; an artifact run changed
\* some file, in whatever order its change report and its verdict arrived; and
\* no path was blocked nor the artifact protocol broken, even when the bus was
\* shut down between the delegation and its verifiers, as long as the policy
\* requires a verifier and the bus has not been full.
PassMeansVerified ==
    phase = "reduced" /\ packet.overall = "pass" =>
        /\ RequiredChecksPassed
        /\ world.mode = "artifact" => world.changes = "some"
        /\ ~overflowed /\ world.policy.required # {} =>
               world.artifacts \subseteq {"artifact.emitted"}

\* docs/PLUGIN_STRATEGY.md:95: "individual emitter errors become `"error"` status
\* in their slot, which the reducer treats as fail", for a required type checker
\* that died, was killed by its timeout or, docs/STABILITY_MATRIX.md:111 ("a
\* missing binary must NOT look like a pass"), was not there.
CheckerDeathFails ==
    phase = "reduced" /\ "types" \in world.policy.required
        /\ world.types \in {"missing", "silent", "stderr", "garbled"} => packet.overall = "fail"

\* docs/STABILITY_MATRIX.md:120: "`status: "fail"` with `errors > 0` ->
\* `overall: "fail"`", for a signal the reducer has stored.
FailSignalFails ==
    phase = "reduced" => \A i \in 1..Len(perTask["verify.types"]) :
        perTask["verify.types"][i].value.status = "fail" => packet.overall = "fail"
=============================================================================
